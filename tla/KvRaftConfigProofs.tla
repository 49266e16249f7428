------------------------- MODULE KvRaftConfigProofs -------------------------
(***************************************************************************)
(* The harness of kvraft on the network of labrpc, for any number of       *)
(* servers, calls and incarnations: links are symmetric, what a superseded *)
(* incarnation sends is never executed, a reliable network delivers what   *)
(* nothing disturbs, and an acknowledged request is in what the next       *)
(* incarnation is given.                                                   *)
(***************************************************************************)
EXTENDS KvRaftConfig, TLAPS

\* Where the task of a call is.
States == {"none", "queued", "delayed", "running", "ran", "held", "done", "lost"}

\* What a call has returned.
Results == {"none", "recv", "timeout", "err", "stopped", "ok"}

\* Owner, incarnation and target of an end; the clerk is owner 0.
EndNames == (Servers \cup {0}) \X (0 .. MaxInc) \X (Servers \cup {0})

\* Servers are registered under their incarnation.
Ids == 0 .. MaxInc

\* Tasks.
Rpcs == [st : States, end : EndNames, srv : Ids, drop : BOOLEAN, late : BOOLEAN, res : Results,
         quiet : BOOLEAN, early : BOOLEAN, stale : BOOLEAN]

\* What a persister holds.
Persisters == [state : SUBSET Calls, snapshot : SUBSET Calls]

\* The second half of a save that is under way.
Halves == (SUBSET Calls) \cup {NoSnapshot}

\* Where shutdown_server is.
Harnesses == [at : {"idle", "delete", "state", "snapshot"}, i : Servers \cup {0},
              state : SUBSET Calls, cut : BOOLEAN]

\* Types of what the proofs speak about.
Types ==
  /\ inc \in [Servers -> 0 .. MaxInc]
  /\ up \in [Servers -> BOOLEAN]
  /\ saved \in [Servers -> Pids]
  /\ disk \in [Servers -> [Pids -> Persisters]]
  /\ half \in [Servers -> [Pids -> Halves]]
  /\ clerk \in BOOLEAN
  /\ harness \in Harnesses
  /\ rpc \in [Calls -> Rpcs]
  /\ servers \in [DOMAIN servers -> 0 .. MaxInc] /\ DOMAIN servers \subseteq Servers
  /\ reliable \in BOOLEAN

\* The harness is inside shutdown_server(i).
Closing(i) == harness.at # "idle" /\ harness.i = i

\* Where a server is: what its life has made of the harness and the network.
Lives ==
  /\ \A i \in Servers :
       /\ saved[i] = IF up[i] THEN Pid(inc[i]) ELSE 2 * inc[i]
       /\ up[i] => inc[i] > 0
       /\ i \in DOMAIN servers <=> inc[i] > 0
       /\ ~up[i] \/ (harness.at \in {"state", "snapshot"} /\ harness.i = i) => Gone(i)
       /\ ~Gone(i) => servers[i] = inc[i]
       /\ (~up[i] /\ inc[i] > 0) \/ inc[i] > 1 => clerk
  /\ clerk => \A i \in Servers : inc[i] > 0
  /\ harness.at # "idle" => harness.i \in Servers /\ up[harness.i] /\ clerk

\* An enabled end between servers is the latest of its owner, and neither side is
\* down or being shut down; it is enabled together with the opposite one.
Ends ==
  \A e \in enabled :
    \/ \E j \in Servers : e = <<0, 0, j>>
    \/ \E i, j \in Servers :
         /\ e = End(i, j) /\ End(j, i) \in enabled
         /\ up[i] /\ ~Closing(i)

\* Calls.
CallEnds ==
  \A c \in Calls :
    /\ rpc[c].st # "none" => Target(rpc[c].end) \in Servers
    /\ rpc[c].stale => /\ rpc[c].end[1] \in Servers /\ rpc[c].end[2] < inc[rpc[c].end[1]]
                       /\ rpc[c].end[2] > 0
                       /\ rpc[c].st \in {"queued", "lost"} \/ (rpc[c].st = "done" /\ rpc[c].res = "timeout")

\* A call that nothing has disturbed has an enabled end, and the server it was
\* given to is still there; only an unreliable network drops.
QuietCalls ==
  \A c \in Calls :
    /\ rpc[c].drop => ~reliable
    /\ rpc[c].quiet => 
         /\ rpc[c].end \in enabled /\ ~Gone(Target(rpc[c].end))
         /\ rpc[c].st \in {"delayed", "running", "ran"} => rpc[c].srv = servers[Target(rpc[c].end)]
         /\ rpc[c].st = "lost" => ~reliable
         /\ reliable /\ rpc[c].st = "done" => rpc[c].res \in {"ok", "err"}

\* What persister n of server i holds.
Holds(i, n) == disk[i][n].state \cup disk[i][n].snapshot \cup half[i][n]

\* Only the persister of an incarnation that was started is being saved to; a
\* snapshot never forgets what an older one held.
Saves ==
  \A i \in Servers : \A n \in Pids : half[i][n] # NoSnapshot =>
    /\ \E k \in 1 .. inc[i] : n = Pid(k)
    /\ disk[i][n].snapshot \subseteq half[i][n]

\* What was answered is in the persister that the harness holds; while the harness
\* is between the two halves of its copy, it is in what will have been copied,
\* unless the server was between the two halves of a save all the time.
KeptFor(c, i) ==
  /\ i \in torn \/ c \in Holds(i, saved[i])
  /\ harness.at = "snapshot" /\ harness.i = i =>
       \/ i \in torn
       \/ c \in harness.state \cup disk[i][saved[i]].snapshot
       \/ harness.cut /\ c \in half[i][saved[i]]

\* What was executed is in the persister of the incarnation that ran it, and
\* what was answered is kept for the next one.
Persisted ==
  \A c \in Calls : LET i == Target(rpc[c].end) IN
    /\ rpc[c].st \in {"delayed", "running", "ran"} => rpc[c].srv \in 1 .. inc[i]
    /\ rpc[c].st = "ran" /\ FromClerk(c) => c \in Holds(i, Pid(rpc[c].srv))
    /\ Acked(c) => KeptFor(c, i)

-----------------------------------------------------------------------------
\* The task of call c, or its handler, moves on.
Moves(c) == NetTask(c) \/ HandleAppend(c) \/ HandleRaft(c)

\* A call is made.
Sends(c) == \/ \E j \in Servers : ClerkCall(c, j)
            \/ \E i, j \in Servers, k \in 1 .. MaxInc : PeerCall(c, i, k, j)

\* The harness changes the ends and the servers of the network.
Rewires == \/ \E i \in Servers : StartServer(i) \/ ShutdownDisconnect(i)
           \/ ConnectAll \/ ShutdownDelete
           \/ \E to \in SUBSET Servers : Partition(to) \/ MakeClient(to) \/ ConnectClient(to)

\* Changing ends and servers of the network touches only the marks of the
\* calls.
LEMMA SetTypes ==
  ASSUME Types, NEW en, NEW sv, SetEndpoints(en, sv)
  PROVE  /\ rpc' \in [Calls -> Rpcs] /\ reliable' = reliable
         /\ \A c \in Calls : rpc'[c] = [rpc[c] EXCEPT !.quiet = rpc'[c].quiet]
<1> USE DEF SetEndpoints, Types
<1>1. \A c \in Calls : rpc[c] \in Rpcs
    OBVIOUS
<1>2. ASSUME NEW c \in Calls, NEW q \in BOOLEAN
      PROVE  /\ [rpc[c] EXCEPT !.quiet = q] \in Rpcs
             /\ [rpc[c] EXCEPT !.quiet = q].quiet = q
    BY ZenonT(40), <1>1 DEF Rpcs
<1> DEFINE q(c) == rpc[c].quiet /\ rpc[c].end \in en /\ Target(rpc[c].end) \in DOMAIN sv
                   /\ sv[Target(rpc[c].end)] = servers[Target(rpc[c].end)]
<1>3. rpc' = [c \in Calls |-> [rpc[c] EXCEPT !.quiet = q(c)]] /\ \A c \in Calls : q(c) \in BOOLEAN
    OBVIOUS
<1> HIDE DEF q, Types, SetEndpoints
<1> QED BY <1>1, <1>2, <1>3 DEF SetEndpoints

\* A step of a task keeps the type of tasks.
LEMMA MoveTypes ==
  ASSUME Types, NEW c \in Calls, Moves(c) \/ Sends(c)
  PROVE  rpc' \in [Calls -> Rpcs]
<1>0. rpc \in [Calls -> Rpcs]
    BY ZenonT(40) DEF Types
<1>1. CASE Accept(c)
    <2>1. PICK drop \in BOOLEAN, late \in BOOLEAN :
            rpc' = [rpc EXCEPT ![c].st = "delayed", ![c].drop = drop, ![c].late = late,
                          ![c].srv = servers[Target(rpc[c].end)]]
        BY ZenonT(40), <1>1 DEF Accept, LossChoice, LateChoice
    <2>2. servers[Target(rpc[c].end)] \in Ids
        BY <1>1 DEF Accept, Known, Ids, Types
    <2> DEFINE r == [rpc[c] EXCEPT !.st = "delayed", !.drop = drop, !.late = late,
                                   !.srv = servers[Target(rpc[c].end)]]
    <2>3. r \in Rpcs
        BY ZenonT(40), <1>0, <2>2 DEF Rpcs, States
    <2>4. rpc' = [rpc EXCEPT ![c] = r]
        BY ZenonT(40), <1>0, <2>1
    <2> QED BY ZenonT(40), <1>0, <2>3, <2>4
<1>2. ASSUME NEW r \in Results, Answer(c, r)
      PROVE  rpc' \in [Calls -> Rpcs]
    BY ZenonT(40), <1>0, <1>2 DEF Answer, Rpcs, States
<1>3. ASSUME NEW st \in States, rpc' = [rpc EXCEPT ![c].st = st]
      PROVE  rpc' \in [Calls -> Rpcs]
    BY <1>0, <1>3 DEF Rpcs
<1>4. CASE NetTask(c)
    BY <1>1, <1>2, <1>3, <1>4 DEF NetTask, Task, EndInfoPanics, LoseRequest, TimesOut, DispatchFails,
          Dispatch, ServerDead, Reply, HeldReply, States, Results
<1>5. CASE HandleAppend(c) \/ HandleRaft(c)
    BY <1>3, <1>5 DEF HandleAppend, HandleRaft, HandlerEnds, States
<1>6. ASSUME NEW e \in EndNames, NEW stale \in BOOLEAN, Call(c, e, stale)
      PROVE  rpc' \in [Calls -> Rpcs]
    <2>1. PICK early \in BOOLEAN, quiet \in BOOLEAN :
            rpc' = [rpc EXCEPT ![c] = [NoCall EXCEPT !.st = "queued", !.end = e, !.stale = stale,
                                        !.early = early, !.quiet = quiet]]
        BY <1>6 DEF Call
    <2>2. <<0, 0, 0>> \in EndNames /\ 0 \in Ids
        BY MaxIncType DEF EndNames, Ids
    <2>3. [NoCall EXCEPT !.st = "queued", !.end = e, !.stale = stale,
                                        !.early = early, !.quiet = quiet] \in Rpcs
        BY ZenonT(40), <2>2 DEF NoCall, Rpcs, States, Results
    <2> QED BY <1>0, <2>1, <2>3
<1>7. CASE Sends(c)
    <2>1. \A i \in Servers, j \in Servers, k \in 1 .. MaxInc : <<i, k, j>> \in EndNames
        BY DEF EndNames
    <2>2. \A j \in Servers : <<0, 0, j>> \in EndNames
        BY MaxIncType DEF EndNames
    <2>3. \A i \in Servers, k \in 1 .. MaxInc : (k < inc[i]) \in BOOLEAN
        OBVIOUS
    <2> QED BY ZenonT(40), <1>6, <1>7, <2>1, <2>2, <2>3 DEF Sends, ClerkCall, PeerCall
<1> QED BY <1>4, <1>5, <1>7 DEF Moves

\* What a step can be.
LEMMA Steps ==
  ASSUME [Next]_vars
  PROVE  \/ Rewires
         \/ \E c \in Calls : Moves(c) \/ Sends(c)
         \/ ShutdownCopyState \/ ShutdownCopySnapshot
         \/ \E i \in Servers, k \in 1 .. MaxInc :
              k <= inc[i] /\ (SaveState(i, Pid(k)) \/ SaveSnapshot(i, Pid(k)))
         \/ UNCHANGED vars
BY ZenonT(40) DEF Next, Rewires, Moves, Sends

\* A step of a call leaves the servers and the ends alone.
LEMMA CallSteps ==
  ASSUME Types, NEW c \in Calls, Moves(c) \/ Sends(c)
  PROVE  /\ UNCHANGED <<enabled, servers, reliable, inc, up, saved, half, clerk, harness, torn>>
         /\ \A d \in Calls \ {c} : rpc'[d] = rpc[d]
         /\ ~HandleAppend(c) => UNCHANGED disk
<1>1. CASE NetTask(c)
    BY ZenonT(40), <1>1 DEF NetTask, Task, EndInfoPanics, LoseRequest, Accept, TimesOut, DispatchFails, Answer,
          Dispatch, ServerDead, Reply, HeldReply, NetUnchanged, Harness, Types
<1>2. CASE HandleAppend(c) \/ HandleRaft(c)
    BY ZenonT(40), <1>2 DEF HandleAppend, HandleRaft, HandlerEnds, NetUnchanged, Harness, Types
<1>3. CASE Sends(c)
    BY ZenonT(40), <1>3 DEF Sends, ClerkCall, PeerCall, Call, Harness, Types
<1> QED BY <1>1, <1>2, <1>3 DEF Moves

\* Every incarnation has a persister.
LEMMA PidsFit ==
  ASSUME Types, NEW i \in Servers
  PROVE  /\ \A k \in 1 .. inc[i] : Pid(k) \in Pids
         /\ \A k \in 1 .. MaxInc : Pid(k) \in Pids
BY MaxIncType DEF Types, Pids, Pid

\* Types and lives at the start.
LEMMA InitTypes == Init => Types /\ Lives
<1> SUFFICES ASSUME Init
             PROVE  Types /\ Lives
    OBVIOUS
<1>1. NoCall \in Rpcs
    BY MaxIncType DEF NoCall, Rpcs, States, Results, EndNames, Ids
<1>2. 0 \in Pids /\ 0 \in 0 .. MaxInc
    BY MaxIncType DEF Pids
<1>3. [state |-> {}, snapshot |-> {}] \in Persisters /\ NoSnapshot \in Halves
    BY DEF Persisters, Halves
<1>4. Idle \in Harnesses /\ Idle.at = "idle"
    BY DEF Idle, Harnesses
<1>5. servers \in [{} -> 0 .. MaxInc] /\ DOMAIN servers = {}
    BY DEF Init, NetInit
<1>6. Types
    BY ZenonT(40), <1>1, <1>2, <1>3, <1>4, <1>5 DEF Init, NetInit, Types
<1>7. Lives
    BY <1>4, <1>5 DEF Init, Lives, Gone
<1> QED BY <1>6, <1>7

\* What the numbers of a server say of the indexes that the harness uses.
LEMMA Indexes ==
  ASSUME Types, Lives
  PROVE  /\ \A i \in Servers : saved[i] \in Pids /\ (up[i] \/ inc[i] < MaxInc => saved[i] + 1 \in Pids)
         /\ harness.at # "idle" => harness.i \in Servers /\ up[harness.i]
BY MaxIncType DEF Types, Lives, Pids, Pid

\* Every step keeps the types.
LEMMA TypesStep ==
  ASSUME Types, Lives, [Next]_vars
  PROVE  Types'
<1>1. CASE Rewires
    <2>1. rpc' \in [Calls -> Rpcs] /\ reliable' = reliable
        BY ZenonT(40), <1>1, SetTypes DEF Rewires, StartServer, ShutdownDisconnect, ConnectAll, ShutdownDelete,
             Partition, MakeClient, ConnectClient
    <2>2. ASSUME NEW i \in Servers, StartServer(i)
          PROVE  Types'
        <3>1. saved[i] + 1 \in Pids /\ saved[i] \in Pids /\ inc[i] + 1 \in 0 .. MaxInc
            BY <2>2, Indexes, MaxIncType DEF StartServer, Types
        <3>2. disk' \in [Servers -> [Pids -> Persisters]]
            BY <2>2, <3>1 DEF StartServer, Types
        <3>3. /\ inc' \in [Servers -> 0 .. MaxInc] /\ up' \in [Servers -> BOOLEAN]
              /\ saved' \in [Servers -> Pids]
            BY <2>2, <3>1 DEF StartServer, Types
        <3>4. servers' = AddServer(i, inc[i] + 1)
            BY ZenonT(40), <2>2 DEF StartServer, SetEndpoints
        <3>5. servers' \in [DOMAIN servers' -> 0 .. MaxInc] /\ DOMAIN servers' \subseteq Servers
            BY ZenonT(40), <3>1, <3>4 DEF Types, AddServer
        <3> QED BY <2>1, <2>2, <3>2, <3>3, <3>5 DEF StartServer, Types
    <2>3. CASE ~\E i \in Servers : StartServer(i)
        <3>1. servers' = servers \/ \E i : servers' = [servers EXCEPT ![i] = 0]
            BY ZenonT(40), <1>1, <2>3 DEF Rewires, ShutdownDisconnect, ConnectAll, ShutdownDelete, DeleteServer,
                 Partition, MakeClient, ConnectClient, SetEndpoints
        <3>2. servers' \in [DOMAIN servers' -> 0 .. MaxInc] /\ DOMAIN servers' \subseteq Servers
            BY <3>1, MaxIncType DEF Types
        <3>3. /\ UNCHANGED <<inc, up, saved, disk, half>> /\ clerk' \in BOOLEAN
              /\ \/ harness' = harness
                 \/ \E i \in Servers : harness' = [Idle EXCEPT !.at = "delete", !.i = i]
                 \/ harness' = [harness EXCEPT !.at = "state"]
            BY ZenonT(40), <1>1, <2>3 DEF Rewires, ShutdownDisconnect, ConnectAll, ShutdownDelete,
                 Partition, MakeClient, ConnectClient, Harness, Types
        <3>4. harness' \in Harnesses
            BY ZenonT(40), <3>3 DEF Types, Idle, Harnesses
        <3> QED BY ZenonT(40), <2>1, <3>2, <3>3, <3>4 DEF Types
    <2> QED BY ZenonT(40), <2>2, <2>3
<1>2. ASSUME NEW c \in Calls, Moves(c) \/ Sends(c)
      PROVE  Types'
    <2>1. ASSUME HandleAppend(c)
          PROVE  disk' \in [Servers -> [Pids -> Persisters]]
        <3> DEFINE i == Target(rpc[c].end)
                   n == Pid(rpc[c].srv)
        <3>1. disk' = [disk EXCEPT ![i][n].state = @ \cup {c}]
            BY <2>1 DEF HandleAppend
        <3> HIDE DEF i, n
        <3>2. CASE i \in Servers /\ n \in Pids
            <4> DEFINE r == disk[i][n]
            <4>1. r \in Persisters
                BY <3>2 DEF Types
            <4>2. [r EXCEPT !.state = r.state \cup {c}] \in Persisters
                BY <4>1 DEF Persisters
            <4>3. disk' = [disk EXCEPT ![i][n] = [r EXCEPT !.state = r.state \cup {c}]]
                BY <3>1
            <4> HIDE DEF r
            <4> QED BY <3>2, <4>2, <4>3 DEF Types
        <3>3. CASE i \in Servers /\ n \notin Pids
            <4>1. PICK f : f = disk[i] /\ f \in [Pids -> Persisters]
                BY <3>3 DEF Types
            <4>2. [f EXCEPT ![n].state = @ \cup {c}] = f
                BY <3>3, <4>1
            <4> QED BY ZenonT(40), <3>1, <3>3, <4>1, <4>2 DEF Types
        <3>4. CASE i \notin Servers
            BY ZenonT(40), <3>1, <3>4 DEF Types
        <3> QED BY ZenonT(40), <3>2, <3>3, <3>4
    <2> QED BY ZenonT(40), <1>2, <2>1, CallSteps, MoveTypes DEF Types
<1>3. CASE ShutdownCopyState
    <2> DEFINE i == harness.i
    <2>1. harness' = [harness EXCEPT !.at = "snapshot", !.state = disk[i][saved[i]].state,
                                     !.cut = half[i][saved[i]] # NoSnapshot]
        BY <1>3 DEF ShutdownCopyState
    <2>2. i \in Servers /\ saved[i] \in Pids
        BY <1>3, Indexes DEF ShutdownCopyState
    <2>3. disk[i][saved[i]].state \in SUBSET Calls
        BY <2>2 DEF Types, Persisters
    <2>4. harness' \in Harnesses
        BY ZenonT(40), <2>1, <2>3 DEF Types, Harnesses
    <2> QED BY <1>3, <2>4 DEF Types, ShutdownCopyState, netVars
<1>4. CASE ShutdownCopySnapshot
    <2> DEFINE i == harness.i
    <2>1. i \in Servers /\ saved[i] \in Pids /\ saved[i] + 1 \in Pids
        BY <1>4, Indexes DEF ShutdownCopySnapshot
    <2>2. [state |-> harness.state, snapshot |-> disk[i][saved[i]].snapshot] \in Persisters
        BY <2>1 DEF Types, Persisters, Harnesses
    <2>3. disk' \in [Servers -> [Pids -> Persisters]]
        BY <1>4, <2>1, <2>2 DEF ShutdownCopySnapshot, Types
    <2>4. saved' \in [Servers -> Pids] /\ up' \in [Servers -> BOOLEAN]
        BY <1>4, <2>1 DEF ShutdownCopySnapshot, Types
    <2>5. Idle \in Harnesses
        BY DEF Idle, Harnesses
    <2> QED BY <1>4, <2>3, <2>4, <2>5 DEF Types, ShutdownCopySnapshot, netVars
<1>5. ASSUME NEW i \in Servers, NEW k \in 1 .. MaxInc, SaveState(i, Pid(k)) \/ SaveSnapshot(i, Pid(k))
      PROVE  Types'
    <2> DEFINE n == Pid(k)
    <2>1. n \in Pids
        BY PidsFit
    <2> HIDE DEF n
    <2>2. disk[i][n].snapshot \cup disk[i][n].state \in Halves /\ disk[i][n] \in Persisters
        BY <2>1 DEF Types, Persisters, Halves
    <2>3. half[i][n] # NoSnapshot => half[i][n] \in SUBSET Calls
        BY <2>1 DEF Types, Halves
    <2>4. CASE SaveState(i, n)
        <3>1. half' \in [Servers -> [Pids -> Halves]]
            BY ZenonT(40), <2>2, <2>4 DEF SaveState, Types
        <3>2. disk' \in [Servers -> [Pids -> Persisters]]
            BY ZenonT(40), <2>1, <2>2, <2>4 DEF SaveState, Types, Persisters
        <3> QED BY <2>4, <3>1, <3>2 DEF SaveState, Types, netVars
    <2>5. CASE SaveSnapshot(i, n)
        <3>1. half' \in [Servers -> [Pids -> Halves]]
            BY ZenonT(40), <2>5 DEF SaveSnapshot, Types, Halves
        <3>2. disk' \in [Servers -> [Pids -> Persisters]]
            BY ZenonT(40), <2>1, <2>2, <2>3, <2>5 DEF SaveSnapshot, Types, Persisters
        <3> QED BY <2>5, <3>1, <3>2 DEF SaveSnapshot, Types, netVars
    <2> QED BY <1>5, <2>4, <2>5 DEF n
<1>6. CASE UNCHANGED vars
    BY <1>6 DEF vars, netVars, Types
<1> QED BY <1>1, <1>2, <1>3, <1>4, <1>5, <1>6, Steps

-----------------------------------------------------------------------------
\* Every step keeps what is known of the lives of servers.
LEMMA LivesStep ==
  ASSUME Types, Lives, [Next]_vars
  PROVE  Lives'
<1>1. ASSUME NEW i \in Servers, StartServer(i)
      PROVE  Lives'
    <2>1. servers' = AddServer(i, inc[i] + 1)
        BY <1>1 DEF StartServer, SetEndpoints
    <2>2. /\ \A j \in Servers \ {i} : inc'[j] = inc[j] /\ up'[j] = up[j] /\ saved'[j] = saved[j]
          /\ inc'[i] = inc[i] + 1 /\ up'[i] /\ saved'[i] = saved[i] + 1 /\ ~up[i]
          /\ harness.at = "idle" /\ UNCHANGED <<harness, clerk>>
        BY <1>1 DEF StartServer, Types
    <2>3. /\ \A j \in Servers \ {i} : (j \in DOMAIN servers' <=> j \in DOMAIN servers) /\ (Gone(j)' <=> Gone(j))
          /\ \A j \in DOMAIN servers \ {i} : servers'[j] = servers[j]
          /\ i \in DOMAIN servers' /\ servers'[i] = inc[i] + 1
        <3>1. DOMAIN servers' = DOMAIN servers \cup {i} /\ \A j \in DOMAIN servers \ {i} : servers'[j] = servers[j]
            BY <2>1 DEF AddServer
        <3>2. servers'[i] = inc[i] + 1
            BY <2>1 DEF AddServer
        <3> QED BY <3>1, <3>2 DEF Gone
    <2>4. inc[i] \in Nat /\ inc'[i] > 0
        BY <2>2, MaxIncType DEF Types
    <2> QED BY <2>2, <2>3, <2>4 DEF Lives, Pid, Gone
<1>2. CASE ShutdownDelete
    <2>1. servers' = [servers EXCEPT ![harness.i] = 0] /\ harness'.at = "state" /\ harness'.i = harness.i
        BY <1>2 DEF ShutdownDelete, SetEndpoints, DeleteServer, Types, Harnesses
    <2>2. harness.at = "delete" /\ UNCHANGED <<inc, up, saved, clerk>>
        BY <1>2 DEF ShutdownDelete
    <2>3. /\ \A j \in Servers \ {harness.i} : Gone(j)' <=> Gone(j)
          /\ \A j \in Servers \ {harness.i} : servers'[j] = servers[j]
          /\ Gone(harness.i)' /\ DOMAIN servers' = DOMAIN servers
        BY <2>1 DEF Gone, Types
    <2> QED BY <2>1, <2>2, <2>3 DEF Lives
<1>3. ASSUME NEW i \in Servers, ShutdownDisconnect(i)
      PROVE  Lives'
    <2>1. UNCHANGED <<servers, inc, up, saved, clerk>> /\ up[i] /\ clerk /\ harness'.at = "delete" /\ harness'.i = i
        BY <1>3 DEF ShutdownDisconnect, SetEndpoints, Idle
    <2> QED BY <2>1 DEF Lives, Gone
<1>4. ASSUME ConnectAll \/ \E to \in SUBSET Servers : Partition(to) \/ MakeClient(to) \/ ConnectClient(to)
      PROVE  Lives'
    <2>1. /\ UNCHANGED <<servers, inc, up, saved, harness>>
          /\ clerk' = clerk \/ (clerk' /\ AllUp)
        BY ZenonT(40), <1>4 DEF ConnectAll, Partition, MakeClient, ConnectClient, SetEndpoints, Harness, ReadyToConnect
    <2> QED BY <2>1 DEF Lives, Gone, AllUp
<1>5. CASE ShutdownCopyState
    <2>1. UNCHANGED <<servers, inc, up, saved, clerk>> /\ harness.at = "state" /\ harness'.at = "snapshot"
          /\ harness'.i = harness.i
        BY <1>5 DEF ShutdownCopyState, netVars, Types, Harnesses
    <2> QED BY <2>1 DEF Lives, Gone
<1>6. CASE ShutdownCopySnapshot
    <2>1. harness.at = "snapshot" /\ harness'.at = "idle" /\ UNCHANGED <<servers, inc, clerk>>
        BY <1>6 DEF ShutdownCopySnapshot, netVars, Idle
    <2>2. harness.i \in Servers /\ up[harness.i]
        BY <2>1 DEF Lives
    <2>3. /\ \A j \in Servers \ {harness.i} : up'[j] = up[j] /\ saved'[j] = saved[j]
          /\ ~up'[harness.i] /\ saved'[harness.i] = saved[harness.i] + 1
        BY ZenonT(40), <1>6, <2>2 DEF ShutdownCopySnapshot, Types
    <2>4. inc[harness.i] \in Nat
        BY <2>2, MaxIncType DEF Types
    <2> QED BY <2>1, <2>2, <2>3, <2>4 DEF Lives, Gone, Pid
<1>7. ASSUME UNCHANGED <<servers, inc, up, saved, clerk, harness>>
      PROVE  Lives'
    BY <1>7 DEF Lives, Gone
<1>8. ASSUME NEW c \in Calls, Moves(c) \/ Sends(c)
      PROVE  Lives'
    BY <1>7, <1>8, CallSteps
<1>9. ASSUME NEW i \in Servers, NEW n, SaveState(i, n) \/ SaveSnapshot(i, n)
      PROVE  Lives'
    BY <1>7, <1>9 DEF SaveState, SaveSnapshot, netVars
<1>10. CASE UNCHANGED vars
    BY <1>7, <1>10 DEF vars, netVars
<1> QED BY ZenonT(40), <1>1, <1>2, <1>3, <1>4, <1>5, <1>6, <1>8, <1>9, <1>10, Steps DEF Rewires

\* So they always hold.
LEMMA TypesInvariant == Spec => [](Types /\ Lives)
BY InitTypes, TypesStep, LivesStep, PTL DEF Spec

\* The links between two sets of servers.
LEMMA LinksOf ==
  ASSUME NEW S, NEW T, NEW e
  PROVE  e \in Links(S, T) <=> \E i \in S, j \in T : e = End(i, j) \/ e = End(j, i)
BY DEF Links

\* What Ends says of two servers.
LEMMA EndsOfServers ==
  ASSUME Ends, NEW i \in Servers, NEW k, NEW j, <<i, k, j>> \in enabled
  PROVE  /\ k = inc[i] /\ j \in Servers /\ End(j, i) \in enabled
         /\ up[i] /\ up[j] /\ ~Closing(i) /\ ~Closing(j)
<1>1. PICK a, b \in Servers : <<i, k, j>> = End(a, b) /\ End(b, a) \in enabled /\ up[a] /\ ~Closing(a)
    BY ClerkIsNoServer DEF Ends
<1>2. a = i /\ b = j /\ k = inc[i]
    BY <1>1 DEF End
<1>3. PICK c, d \in Servers : End(j, i) = End(c, d) /\ up[c] /\ ~Closing(c)
    BY ZenonT(40), <1>1, <1>2, ClerkIsNoServer DEF Ends, End
<1>4. c = j
    BY <1>3 DEF End
<1> QED BY <1>1, <1>2, <1>3, <1>4

\* Every step keeps Ends.
LEMMA EndsStep ==
  ASSUME Types, Lives, Ends, [Next]_vars
  PROVE  Ends'
<1> DEFINE Good(e) == \/ \E j \in Servers : e = <<0, 0, j>>
                      \/ \E i, j \in Servers : /\ e = End(i, j)' /\ End(j, i)' \in enabled'
                                               /\ up'[i] /\ ~Closing(i)'
<1>0. (\A e \in enabled' : Good(e)) => Ends'
    BY DEF Ends
<1>1. ASSUME NEW e \in enabled, ~\E j \in Servers : e = <<0, 0, j>>
      PROVE  \E a, b \in Servers : e = End(a, b) /\ End(b, a) \in enabled /\ up[a] /\ ~Closing(a)
                                   /\ up[b] /\ ~Closing(b)
    <2>1. PICK a, b \in Servers : e = End(a, b) /\ End(b, a) \in enabled /\ up[a] /\ ~Closing(a)
        BY <1>1 DEF Ends
    <2>2. up[b] /\ ~Closing(b)
        BY <1>1, <2>1, EndsOfServers DEF End
    <2> QED BY <2>1, <2>2
<1>2. ASSUME enabled' = enabled,
             \A a \in Servers : up[a] /\ ~Closing(a) => up'[a] /\ ~Closing(a)' /\ inc'[a] = inc[a]
      PROVE  Ends'
    <2>1. ASSUME NEW e \in enabled
          PROVE  Good(e)
        BY ZenonT(40), <1>1, <1>2, <2>1 DEF End
    <2> HIDE DEF Good
    <2> QED BY <1>0, <1>2, <2>1
<1>3. ASSUME NEW i \in Servers, StartServer(i)
      PROVE  Ends'
    <2>1. /\ enabled' = enabled /\ harness' = harness /\ harness.at = "idle"
          /\ \A j \in Servers \ {i} : inc'[j] = inc[j] /\ up'[j] = up[j]
          /\ ~up[i]
        BY <1>3 DEF StartServer, SetEndpoints, Types
    <2> QED BY <1>2, <2>1 DEF Closing
<1>4. ASSUME NEW i \in Servers, ShutdownDisconnect(i)
      PROVE  Ends'
    <2>1. /\ enabled' = enabled \ Links({i}, Servers) /\ UNCHANGED <<inc, up>>
          /\ harness'.i = i
        BY <1>4 DEF ShutdownDisconnect, SetEndpoints, Idle
    <2>2. ASSUME NEW e \in enabled'
          PROVE  Good(e)
        <3>1. CASE \E j \in Servers : e = <<0, 0, j>>
            BY <3>1
        <3>2. CASE ~\E j \in Servers : e = <<0, 0, j>>
            <4>1. PICK a, b \in Servers : e = End(a, b) /\ End(b, a) \in enabled /\ up[a]
                BY <1>1, <2>1, <2>2, <3>2
            <4>2. a # i /\ b # i
                BY <2>1, <2>2, <4>1, LinksOf
            <4>3. End(b, a) \notin Links({i}, Servers)
                BY <4>2, LinksOf DEF End
            <4> QED BY ZenonT(40), <2>1, <4>1, <4>2, <4>3 DEF End, Closing
        <3> QED BY <3>1, <3>2
    <2> HIDE DEF Good
    <2> QED BY <1>0, <2>2
<1>5. ASSUME NEW S \in SUBSET Servers, UNCHANGED Harness, AllUp, harness.at = "idle",
             enabled' = (enabled \ Links(S, Servers \ S)) \cup Links(S, S) \cup Links(Servers \ S, Servers \ S)
      PROVE  Ends'
    <2>1. UNCHANGED <<inc, up, harness>>
        BY <1>5 DEF Harness
    <2>2. ASSUME NEW e \in enabled'
          PROVE  Good(e)
        <3>1. CASE \E j \in Servers : e = <<0, 0, j>>
            BY <3>1
        <3>2. ASSUME ~\E j \in Servers : e = <<0, 0, j>>, e \in enabled, e \notin Links(S, Servers \ S)
              PROVE  Good(e)
            <4>1. PICK a, b \in Servers : e = End(a, b) /\ End(b, a) \in enabled
                BY <1>1, <3>2
            <4>2. End(b, a) \notin Links(S, Servers \ S)
                BY <3>2, <4>1, LinksOf DEF End
            <4> QED BY <1>5, <2>1, <4>1, <4>2 DEF End, Closing, AllUp
        <3>3. ASSUME e \in Links(S, S) \/ e \in Links(Servers \ S, Servers \ S)
              PROVE  Good(e)
            <4>1. PICK a, b \in Servers : e = End(a, b) /\ ((a \in S /\ b \in S) \/ (a \notin S /\ b \notin S))
                BY <3>3, LinksOf
            <4>2. End(b, a) \in Links(S, S) \/ End(b, a) \in Links(Servers \ S, Servers \ S)
                BY <4>1, LinksOf
            <4> QED BY <1>5, <2>1, <4>1, <4>2 DEF End, Closing, AllUp
        <3> QED BY ZenonT(40), <1>5, <2>2, <3>1, <3>2, <3>3
    <2> HIDE DEF Good
    <2> QED BY <1>0, <2>2
<1>6. CASE ConnectAll
    <2>1. Links(Servers, Servers \ Servers) = {} /\ Links(Servers \ Servers, Servers \ Servers) = {}
        BY LinksOf
    <2> QED BY ZenonT(40), <1>5, <1>6, <2>1 DEF ConnectAll, ReadyToConnect, SetEndpoints
<1>7. ASSUME NEW S \in SUBSET Servers, Partition(S)
      PROVE  Ends'
    BY <1>5, <1>7 DEF Partition, Partitioned, ReadyToConnect, SetEndpoints
<1>8. ASSUME NEW S \in SUBSET Servers, MakeClient(S) \/ ConnectClient(S)
      PROVE  Ends'
    <2>1. enabled' = enabled \cup ClerkEnds(S) /\ UNCHANGED <<inc, up, harness>>
        BY <1>8 DEF MakeClient, ConnectClient, SetEndpoints, Harness
    <2>2. ASSUME NEW e \in enabled'
          PROVE  Good(e)
        BY <1>1, <2>1, <2>2 DEF ClerkEnds, End, Closing
    <2> HIDE DEF Good
    <2> QED BY <1>0, <2>2
<1>9. CASE ShutdownDelete \/ ShutdownCopyState
    <2>1. UNCHANGED <<enabled, inc, up>> /\ harness'.i = harness.i /\ harness.at # "idle"
        BY ZenonT(40), <1>9 DEF ShutdownDelete, ShutdownCopyState, SetEndpoints, netVars, Types, Harnesses
    <2> QED BY <1>2, <2>1 DEF Closing
<1>10. CASE ShutdownCopySnapshot
    <2>1. UNCHANGED <<enabled, inc>> /\ harness'.at = "idle" /\ harness.at # "idle"
          /\ \A a \in Servers \ {harness.i} : up'[a] = up[a]
        BY ZenonT(40), <1>10 DEF ShutdownCopySnapshot, netVars, Idle, Types
    <2> QED BY <1>2, <2>1 DEF Closing
<1>11. ASSUME UNCHANGED <<enabled, inc, up, harness>>
      PROVE  Ends'
    BY <1>2, <1>11 DEF Closing
<1>12. ASSUME NEW c \in Calls, Moves(c) \/ Sends(c)
      PROVE  Ends'
    BY <1>11, <1>12, CallSteps
<1>13. ASSUME NEW i \in Servers, NEW n, SaveState(i, n) \/ SaveSnapshot(i, n)
      PROVE  Ends'
    BY <1>11, <1>13 DEF SaveState, SaveSnapshot, netVars
<1>14. CASE UNCHANGED vars
    BY <1>11, <1>14 DEF vars, netVars
<1> QED BY ZenonT(40), <1>3, <1>4, <1>6, <1>7, <1>8, <1>9, <1>10, <1>12, <1>13, <1>14, Steps DEF Rewires

\* LinksSymmetric: whatever partitions, shutdowns and restarts came before, a
\* server reaches another one exactly if that one reaches it.
THEOREM LinksStaySymmetric == Spec => []LinksSymmetric
<1>1. Init => Ends
    BY DEF Init, NetInit, Ends
<1>2. Ends => LinksSymmetric
    BY EndsOfServers DEF LinksSymmetric, End
<1> QED BY <1>1, <1>2, TypesInvariant, EndsStep, PTL DEF Spec

-----------------------------------------------------------------------------
\* The states that the task of a call goes through, and what it checks on its way.
Path(c) ==
  LET r == rpc[c]
      q == rpc'[c] IN
  \/ r.st = "queued" /\ q.st = "done" /\ q.res = "recv" /\ Target(r.end) \notin DOMAIN servers
  \/ r.st = "queued" /\ q.st = "lost" /\ (Routed(c) => ~reliable)
  \/ r.st = "queued" /\ q.st = "delayed" /\ Routed(c)
     /\ q.srv = servers[Target(r.end)] /\ (q.drop => ~reliable)
  \/ r.st = "lost" /\ q.st = "done" /\ q.res = "timeout"
  \/ r.st \in {"delayed", "running"} /\ q.st = "done" /\ q.res = "err"
  \/ r.st = "delayed" /\ q.st = "running"
  \/ r.st = "running" /\ q.st = "ran" /\ (HandleAppend(c) \/ ~FromClerk(c))
  \/ r.st \in {"running", "ran"} /\ Dead(c) /\ q.st = "done" /\ q.res = "stopped"
  \/ r.st = "ran" /\ r.drop /\ q.st = "done" /\ q.res = "timeout"
  \/ r.st = "ran" /\ ~Dead(c) /\ (q.st = "held" \/ (q.st = "done" /\ q.res = "ok"))
  \/ r.st = "held" /\ q.st = "done" /\ q.res = "ok"

\* A task only goes forward, and to the server it was given to.
LEMMA MovesPath ==
  ASSUME Types, NEW c \in Calls, Moves(c)
  PROVE  /\ Path(c)
         /\ rpc'[c].end = rpc[c].end /\ rpc'[c].stale = rpc[c].stale /\ rpc'[c].quiet = rpc[c].quiet
         /\ ~(rpc[c].st = "queued" /\ rpc'[c].st = "delayed") => rpc'[c].srv = rpc[c].srv /\ rpc'[c].drop = rpc[c].drop
<1>0. rpc \in [Calls -> Rpcs] /\ rpc[c] \in Rpcs
    BY DEF Types
<1>1. ASSUME NEW r, Answer(c, r)
      PROVE  /\ rpc'[c].st = "done" /\ rpc'[c].res = r
             /\ rpc'[c].end = rpc[c].end /\ rpc'[c].stale = rpc[c].stale /\ rpc'[c].quiet = rpc[c].quiet
             /\ rpc'[c].srv = rpc[c].srv /\ rpc'[c].drop = rpc[c].drop
    BY <1>0, <1>1 DEF Answer, Rpcs
<1>2. ASSUME NEW st, rpc' = [rpc EXCEPT ![c].st = st]
      PROVE  /\ rpc'[c].st = st
             /\ rpc'[c].end = rpc[c].end /\ rpc'[c].stale = rpc[c].stale /\ rpc'[c].quiet = rpc[c].quiet
             /\ rpc'[c].srv = rpc[c].srv /\ rpc'[c].drop = rpc[c].drop
    BY ZenonT(40), <1>0, <1>2 DEF Rpcs
<1>3. CASE EndInfoPanics(c) \/ TimesOut(c) \/ DispatchFails(c) \/ ServerDead(c) \/ HeldReply(c)
    BY <1>1, <1>3 DEF EndInfoPanics, TimesOut, DispatchFails, ServerDead, HeldReply, Path
<1>4. CASE LoseRequest(c) \/ Dispatch(c)
    BY ZenonT(40), <1>2, <1>4 DEF LoseRequest, Dispatch, Known, Path
<1>5. CASE HandleAppend(c) \/ HandleRaft(c)
    BY <1>2, <1>5 DEF HandleAppend, HandleRaft, HandlerEnds, Path
<1>6. CASE Reply(c)
    BY <1>1, <1>2, <1>6 DEF Reply, Path
<1>7. CASE Accept(c)
    <2>1. PICK drop \in LossChoice, late \in LateChoice :
            rpc' = [rpc EXCEPT ![c].st = "delayed", ![c].drop = drop, ![c].late = late,
                          ![c].srv = servers[Target(rpc[c].end)]]
        BY ZenonT(40), <1>7 DEF Accept
    <2>2. rpc'[c] = [rpc[c] EXCEPT !.st = "delayed", !.drop = drop, !.late = late,
                                   !.srv = servers[Target(rpc[c].end)]]
        BY <1>0, <2>1
    <2>3. /\ rpc'[c].st = "delayed" /\ rpc'[c].drop = drop /\ rpc'[c].srv = servers[Target(rpc[c].end)]
          /\ rpc'[c].end = rpc[c].end /\ rpc'[c].stale = rpc[c].stale /\ rpc'[c].quiet = rpc[c].quiet
        BY <1>0, <2>2 DEF Rpcs
    <2>4. drop => ~reliable
        BY ZenonT(40), <2>1 DEF LossChoice, Types
    <2> QED BY ZenonT(40), <1>7, <2>3, <2>4 DEF Accept, Known, Path
<1> QED BY <1>3, <1>4, <1>5, <1>6, <1>7 DEF Moves, NetTask, Task

\* A call that is sent.
Sent(c) ==
  LET q == rpc'[c] IN
  /\ rpc[c].st = "none" /\ q.st = "queued" /\ ~q.drop /\ Target(q.end) \in Servers
  /\ q.quiet => q.end \in enabled /\ ~Gone(Target(q.end))
  /\ q.stale => q.end[1] \in Servers /\ q.end[2] > 0 /\ q.end[2] < inc[q.end[1]]

\* A new call knows its end.
LEMMA SendsSent ==
  ASSUME Types, NEW c \in Calls, Sends(c)
  PROVE  Sent(c)
<1>0. rpc \in [Calls -> Rpcs]
    BY DEF Types
<1>1. ASSUME NEW e, NEW stale, Call(c, e, stale)
      PROVE  /\ rpc'[c].st = "queued" /\ rpc[c].st = "none" /\ ~rpc'[c].drop
             /\ rpc'[c].end = e /\ (rpc'[c].stale <=> stale)
             /\ rpc'[c].quiet => e \in enabled /\ ~Gone(Target(e))
    BY ZenonT(40), <1>0, <1>1 DEF Call, NoCall
<1>2. ASSUME NEW j \in Servers, ClerkCall(c, j)
      PROVE  Sent(c)
    <2>1. Call(c, <<0, 0, j>>, FALSE) /\ Target(<<0, 0, j>>) = j
        BY ZenonT(40), <1>2 DEF ClerkCall, Target
    <2> QED BY ZenonT(40), <1>1, <2>1 DEF Sent
<1>3. ASSUME NEW i \in Servers, NEW j \in Servers, NEW k \in 1 .. MaxInc, PeerCall(c, i, k, j)
      PROVE  Sent(c)
    <2>1. Call(c, <<i, k, j>>, k < inc[i]) /\ Target(<<i, k, j>>) = j
        BY <1>3 DEF PeerCall, Target
    <2>2. /\ rpc'[c].st = "queued" /\ rpc[c].st = "none" /\ ~rpc'[c].drop
          /\ rpc'[c].end = <<i, k, j>> /\ (rpc'[c].stale <=> k < inc[i])
          /\ rpc'[c].quiet => <<i, k, j>> \in enabled /\ ~Gone(j)
        BY ZenonT(40), <1>0, <2>1 DEF Call, NoCall
    <2> QED BY <2>1, <2>2 DEF Sent
<1> QED BY <1>2, <1>3 DEF Sends

\* What becomes of a call when the harness changes the network.
Rewired(c) ==
  LET r == rpc[c]
      q == rpc'[c] IN
  /\ q.st = r.st /\ q.end = r.end /\ q.srv = r.srv /\ q.drop = r.drop /\ q.res = r.res /\ q.stale = r.stale
  /\ q.quiet => /\ r.quiet /\ r.end \in enabled' /\ Target(r.end) \in DOMAIN servers'
                /\ servers'[Target(r.end)] = servers[Target(r.end)]

\* Changing the network ends no call; it only marks them as disturbed.
LEMMA RewiresCalls ==
  ASSUME Types, Rewires
  PROVE  reliable' = reliable /\ \A c \in Calls : Rewired(c)
<1>1. PICK en, sv : SetEndpoints(en, sv)
    BY ZenonT(40) DEF Rewires, StartServer, ShutdownDisconnect, ConnectAll, ShutdownDelete,
           Partition, MakeClient, ConnectClient
<1>2. ASSUME NEW c \in Calls
      PROVE  Rewired(c)
    <2>1. rpc[c] \in Rpcs
        BY DEF Types
    <2> DEFINE quiet == rpc[c].quiet /\ rpc[c].end \in en /\ Target(rpc[c].end) \in DOMAIN sv
                        /\ sv[Target(rpc[c].end)] = servers[Target(rpc[c].end)]
    <2>2. rpc'[c] = [rpc[c] EXCEPT !.quiet = quiet] /\ enabled' = en /\ servers' = sv
        BY <1>1 DEF SetEndpoints
    <2> HIDE DEF quiet
    <2>3. rpc'[c].quiet <=> quiet
        BY <2>1, <2>2 DEF Rpcs
    <2> QED BY <2>1, <2>2, <2>3 DEF Rpcs, Rewired, quiet
<1> QED BY ZenonT(40), <1>1, <1>2 DEF SetEndpoints

\* The other steps do not touch the network.
LEMMA Elsewhere ==
  ASSUME [Next]_vars, ~Rewires, ~\E c \in Calls : Moves(c) \/ Sends(c)
  PROVE  UNCHANGED <<netVars, inc>>
BY ZenonT(40), Steps DEF ShutdownCopyState, ShutdownCopySnapshot, SaveState, SaveSnapshot, vars, netVars

\* Incarnations only grow.
LEMMA IncGrows ==
  ASSUME Types, [Next]_vars
  PROVE  \A i \in Servers : inc[i] \in Nat /\ inc'[i] \in Nat /\ inc[i] <= inc'[i]
<1>1. \A i \in Servers : inc[i] \in Nat
    BY MaxIncType DEF Types
<1>2. ASSUME NEW i \in Servers, StartServer(i)
      PROVE  \A j \in Servers : inc'[j] = inc[j] \/ inc'[j] = inc[j] + 1
    BY ZenonT(40), <1>2 DEF StartServer, Types
<1>3. CASE ~\E i \in Servers : StartServer(i)
    <2>1. inc' = inc
        BY ZenonT(40), <1>3, Elsewhere, CallSteps DEF Rewires, ShutdownDisconnect, ConnectAll, ShutdownDelete, Partition,
             MakeClient, ConnectClient, Harness
    <2> QED BY <1>1, <2>1
<1> QED BY <1>1, <1>2, <1>3

\* Every step keeps CallEnds.
LEMMA CallEndsStep ==
  ASSUME Types, Lives, Ends, CallEnds, [Next]_vars
  PROVE  CallEnds'
<1> DEFINE Silent(r, n) == /\ r.st # "none" => Target(r.end) \in Servers
                           /\ r.stale => /\ r.end[1] \in Servers /\ r.end[2] < n[r.end[1]]
                                         /\ r.end[2] > 0
                                         /\ r.st \in {"queued", "lost"} \/ (r.st = "done" /\ r.res = "timeout")
<1>0. (CallEnds <=> \A c \in Calls : Silent(rpc[c], inc)) /\ (CallEnds' <=> \A c \in Calls : Silent(rpc'[c], inc'))
    BY DEF CallEnds
<1>1. ASSUME NEW c \in Calls, Silent(rpc[c], inc), rpc[c] \in Rpcs,
             rpc'[c].st = rpc[c].st /\ rpc'[c].end = rpc[c].end /\ rpc'[c].res = rpc[c].res
             /\ rpc'[c].stale = rpc[c].stale
      PROVE  Silent(rpc'[c], inc')
    <2>1. rpc[c].end[2] \in Nat
        BY <1>1, MaxIncType DEF Rpcs, EndNames
    <2> QED BY <1>1, <2>1, IncGrows
<1>2. ASSUME NEW c \in Calls, Moves(c), Silent(rpc[c], inc)
      PROVE  Silent(rpc'[c], inc)
    <2>1. rpc[c].stale => rpc[c].end \notin enabled
        <3>1. rpc[c].end = <<rpc[c].end[1], rpc[c].end[2], rpc[c].end[3]>>
            BY DEF Types, Rpcs, EndNames
        <3>2. rpc[c].end[2] \in Nat
            BY MaxIncType DEF Types, Rpcs, EndNames
        <3>3. ASSUME rpc[c].stale, rpc[c].end \in enabled
              PROVE  rpc[c].end[2] = inc[rpc[c].end[1]]
            <4>1. PICK i, k, j : i \in Servers /\ rpc[c].end = <<i, k, j>>
                BY ZenonT(40), <1>2, <3>1, <3>3
            <4> QED BY <3>3, <4>1, EndsOfServers
        <3> QED BY <1>2, <3>2, <3>3
    <2>2. rpc[c].stale => Target(rpc[c].end) \in DOMAIN servers
        <3>1. rpc[c].end[2] \in Nat
            BY MaxIncType DEF Types, Rpcs, EndNames
        <3>2. rpc[c].stale => clerk
            BY <1>2, <3>1, MaxIncType DEF Lives, Types
        <3> QED BY <1>2, <3>2 DEF Lives
    <2> QED BY ZenonT(40), <1>2, <2>1, <2>2, MovesPath DEF Path, Routed
<1>3. CASE \E c \in Calls : Moves(c) \/ Sends(c)
    <2>1. PICK c \in Calls : Moves(c) \/ Sends(c)
        BY <1>3
    <2>2. inc' = inc /\ \A d \in Calls \ {c} : rpc'[d] = rpc[d]
        BY ZenonT(40), <2>1, CallSteps
    <2>3. Silent(rpc'[c], inc)
        BY ZenonT(40), <1>0, <1>2, <2>1, SendsSent DEF Sent
    <2> HIDE DEF Silent
    <2> QED BY <1>0, <2>2, <2>3
<1>4. CASE Rewires
    <2>1. \A c \in Calls : rpc[c] \in Rpcs
        BY DEF Types
    <2> QED BY ZenonT(40), <1>0, <1>1, <1>4, <2>1, RewiresCalls DEF Rewired
<1>5. CASE ~Rewires /\ ~\E c \in Calls : Moves(c) \/ Sends(c)
    BY ZenonT(40), <1>5, Elsewhere DEF CallEnds, netVars
<1> QED BY ZenonT(40), <1>3, <1>4, <1>5

\* SupersededSilent: what an incarnation sends after it was superseded is never
\* executed.  Its ends are none of the latest, so none of them is enabled (Ends);
\* and it was superseded after the clerk was made, so end_info finds the server.
THEOREM SupersededStaysSilent == Spec => []SupersededSilent
<1>1. Init => Ends /\ CallEnds
    BY DEF Init, NetInit, Ends, CallEnds, NoCall
<1>2. CallEnds => SupersededSilent
    BY ZenonT(40) DEF CallEnds, SupersededSilent
<1> QED BY <1>1, <1>2, TypesInvariant, EndsStep, CallEndsStep, PTL DEF Spec

\* Every step keeps QuietCalls.
LEMMA QuietStep ==
  ASSUME Types, QuietCalls, [Next]_vars
  PROVE  QuietCalls'
<1> DEFINE Up(r, en, sv) == r.end \in en /\ Target(r.end) \in DOMAIN sv /\ sv[Target(r.end)] # 0
           Runs(r, sv) == r.st \in {"delayed", "running", "ran"} => r.srv = sv[Target(r.end)]
           Ok(r) == (r.st = "lost" => ~reliable) /\ (reliable /\ r.st = "done" => r.res \in {"ok", "err"})
           Quiet(r, en, sv) == (r.drop => ~reliable) /\ (r.quiet => Up(r, en, sv) /\ Runs(r, sv) /\ Ok(r))
<1>0. /\ reliable' = reliable
      /\ QuietCalls <=> \A c \in Calls : Quiet(rpc[c], enabled, servers)
      /\ QuietCalls' <=> \A c \in Calls : Quiet(rpc'[c], enabled', servers')
    <2>1. reliable' = reliable
        BY ZenonT(40), Elsewhere, CallSteps, RewiresCalls DEF netVars
    <2> QED BY <2>1 DEF QuietCalls, Gone
<1>1. ASSUME NEW c \in Calls, Moves(c), Quiet(rpc[c], enabled, servers)
      PROVE  Quiet(rpc'[c], enabled, servers)
    BY <1>1, MovesPath DEF Path, Routed, Dead, IsServerDead, Gone
<1>2. CASE \E c \in Calls : Moves(c) \/ Sends(c)
    <2>1. PICK c \in Calls : Moves(c) \/ Sends(c)
        BY ZenonT(40), <1>2
    <2>2. UNCHANGED <<enabled, servers>> /\ \A d \in Calls \ {c} : rpc'[d] = rpc[d]
        BY ZenonT(40), <2>1, CallSteps
    <2>3. Quiet(rpc'[c], enabled, servers)
        BY ZenonT(40), <1>0, <1>1, <2>1, SendsSent DEF Sent, Gone
    <2> HIDE DEF Quiet
    <2> QED BY ZenonT(40), <1>0, <2>2, <2>3
<1>3. CASE Rewires
    BY <1>0, <1>3, RewiresCalls DEF Rewired
<1>4. CASE ~Rewires /\ ~\E c \in Calls : Moves(c) \/ Sends(c)
    BY <1>4, Elsewhere DEF QuietCalls, Gone, netVars
<1> QED BY ZenonT(40), <1>2, <1>3, <1>4

\* ReliableDelivers: on a reliable network, a call whose end stays enabled and
\* whose server stays up is neither timed out nor stopped.  The server it was
\* given to is still the one under its name, and nothing decided to drop it.
THEOREM ReliableAlwaysDelivers == Spec => []ReliableDelivers
<1>1. Init => QuietCalls
    BY DEF Init, NetInit, QuietCalls, NoCall
<1>2. QuietCalls => ReliableDelivers
    BY ZenonT(40) DEF QuietCalls, ReliableDelivers
<1> QED BY <1>1, <1>2, TypesInvariant, QuietStep, PTL DEF Spec

-----------------------------------------------------------------------------
\* A step writes no persister but persister n of server i.
Writes(i, n) ==
  \A j \in Servers : \A m \in Pids : j # i \/ m # n => disk'[j][m] = disk[j][m] /\ half'[j][m] = half[j][m]

\* The two halves of a save.
LEMMA Saving ==
  ASSUME Types, NEW i \in Servers, NEW n \in Pids, SaveState(i, n) \/ SaveSnapshot(i, n)
  PROVE  /\ Writes(i, n)
         /\ UNCHANGED <<netVars, inc, up, saved, clerk, harness, torn>>
         /\ \/ /\ half[i][n] = NoSnapshot /\ half'[i][n] = disk[i][n].snapshot \cup disk[i][n].state
               /\ disk'[i][n].snapshot = disk[i][n].snapshot
            \/ /\ half[i][n] # NoSnapshot /\ half'[i][n] = NoSnapshot
               /\ disk'[i][n].snapshot = half[i][n] /\ disk'[i][n].state = disk[i][n].state
<1>0. disk \in [Servers -> [Pids -> Persisters]] /\ half \in [Servers -> [Pids -> Halves]]
    BY DEF Types
<1>1. disk[i][n] \in Persisters
    BY <1>0
<1>2. CASE SaveState(i, n)
    <2>1. half' = [half EXCEPT ![i][n] = disk[i][n].snapshot \cup disk[i][n].state]
          /\ disk' = [disk EXCEPT ![i][n] = [disk[i][n] EXCEPT !.state = {}]]
        BY <1>2 DEF SaveState
    <2>2. Writes(i, n)
        BY <1>0, <2>1 DEF Writes
    <2>3. half'[i][n] = disk[i][n].snapshot \cup disk[i][n].state /\ disk'[i][n] = [disk[i][n] EXCEPT !.state = {}]
        BY ZenonT(40), <1>0, <2>1
    <2>4. disk'[i][n].snapshot = disk[i][n].snapshot
        BY <1>1, <2>3 DEF Persisters
    <2> QED BY ZenonT(40), <1>2, <2>2, <2>3, <2>4 DEF SaveState
<1>3. CASE SaveSnapshot(i, n)
    <2>1. half' = [half EXCEPT ![i][n] = NoSnapshot]
          /\ disk' = [disk EXCEPT ![i][n] = [disk[i][n] EXCEPT !.snapshot = half[i][n]]]
        BY <1>3 DEF SaveSnapshot
    <2>2. Writes(i, n)
        BY <1>0, <2>1 DEF Writes
    <2>3. half'[i][n] = NoSnapshot /\ disk'[i][n] = [disk[i][n] EXCEPT !.snapshot = half[i][n]]
        BY ZenonT(40), <1>0, <2>1
    <2>4. disk'[i][n].snapshot = half[i][n] /\ disk'[i][n].state = disk[i][n].state
        BY ZenonT(40), <1>1, <2>3 DEF Persisters
    <2> QED BY <1>3, <2>2, <2>3, <2>4 DEF SaveSnapshot
<1> QED BY ZenonT(40), <1>2, <1>3

\* A handler adds its request to its own persister.
LEMMA Appending ==
  ASSUME Types, NEW c \in Calls, HandleAppend(c), Target(rpc[c].end) \in Servers, Pid(rpc[c].srv) \in Pids
  PROVE  LET i == Target(rpc[c].end)
             n == Pid(rpc[c].srv) IN
         /\ Writes(i, n) /\ half' = half
         /\ disk'[i][n].state = disk[i][n].state \cup {c} /\ disk'[i][n].snapshot = disk[i][n].snapshot
<1> DEFINE i == Target(rpc[c].end)
           n == Pid(rpc[c].srv)
<1>0. disk \in [Servers -> [Pids -> Persisters]] /\ half \in [Servers -> [Pids -> Halves]]
    BY ZenonT(40) DEF Types
<1>1. disk' = [disk EXCEPT ![i][n] = [disk[i][n] EXCEPT !.state = @ \cup {c}]] /\ half' = half
      /\ i \in Servers /\ n \in Pids
    BY DEF HandleAppend
<1> HIDE DEF i, n
<1>2. disk[i][n] \in Persisters
    BY <1>0, <1>1
<1>3. Writes(i, n)
    BY <1>0, <1>1 DEF Writes
<1>4. disk'[i][n] = [disk[i][n] EXCEPT !.state = @ \cup {c}]
    BY ZenonT(40), <1>0, <1>1
<1>5. disk'[i][n].state = disk[i][n].state \cup {c} /\ disk'[i][n].snapshot = disk[i][n].snapshot
    BY ZenonT(40), <1>2, <1>4 DEF Persisters
<1> QED BY <1>1, <1>3, <1>5 DEF i, n

\* start_server hands a copy of the old persister on; so does shutdown_server.
LEMMA Copying ==
  ASSUME Types, Lives, NEW i \in Servers, StartServer(i) \/ (ShutdownCopySnapshot /\ harness.i = i)
  PROVE  /\ saved[i] \in Pids /\ saved[i] + 1 \in Pids /\ Writes(i, saved[i] + 1) /\ half' = half
         /\ \A j \in Servers \ {i} : saved'[j] = saved[j]
         /\ saved'[i] = saved[i] + 1 /\ \A k \in 1 .. inc[i] : Pid(k) # saved[i] + 1
         /\ StartServer(i) => /\ disk'[i][saved[i] + 1] = disk[i][saved[i]] /\ \A k \in 1 .. inc[i] : Pid(k) # saved[i]
         /\ ShutdownCopySnapshot => disk'[i][saved[i] + 1] = [state |-> harness.state, snapshot |-> disk[i][saved[i]].snapshot]
<1>0. disk \in [Servers -> [Pids -> Persisters]] /\ saved \in [Servers -> Pids] /\ inc[i] \in Nat
    BY MaxIncType DEF Types
<1>1. saved[i] \in Pids /\ saved[i] + 1 \in Pids
    BY ZenonT(40), Indexes DEF StartServer, ShutdownCopySnapshot
<1>2. CASE StartServer(i)
    <2>1. disk' = [disk EXCEPT ![i][saved[i] + 1] = disk[i][saved[i]]] /\ half' = half
          /\ saved' = [saved EXCEPT ![i] = @ + 1] /\ ~ShutdownCopySnapshot
        BY ZenonT(40), <1>2 DEF StartServer, ShutdownCopySnapshot
    <2>2. Writes(i, saved[i] + 1) /\ disk'[i][saved[i] + 1] = disk[i][saved[i]]
        BY ZenonT(40), <1>0, <1>1, <2>1 DEF Writes
    <2>3. saved[i] = 2 * inc[i]
        BY ZenonT(40), <1>2 DEF StartServer, Lives
    <2>4. \A k \in 1 .. inc[i] : Pid(k) # saved[i] /\ Pid(k) # saved[i] + 1
        BY <1>0, <2>3 DEF Pid
    <2> QED BY ZenonT(40), <1>0, <1>1, <2>1, <2>2, <2>4
<1>3. CASE ShutdownCopySnapshot /\ harness.i = i
    <2>1. disk' = [disk EXCEPT ![i][saved[i] + 1] = [state |-> harness.state, snapshot |-> disk[i][saved[i]].snapshot]]
          /\ half' = half /\ saved' = [saved EXCEPT ![i] = @ + 1] /\ ~StartServer(i)
        BY ZenonT(40), <1>3 DEF StartServer, ShutdownCopySnapshot
    <2>2. Writes(i, saved[i] + 1)
          /\ disk'[i][saved[i] + 1] = [state |-> harness.state, snapshot |-> disk[i][saved[i]].snapshot]
        BY ZenonT(40), <1>0, <1>1, <2>1 DEF Writes
    <2>3. saved[i] = 2 * inc[i] - 1
        BY <1>3 DEF ShutdownCopySnapshot, Lives, Pid
    <2>4. \A k \in 1 .. inc[i] : Pid(k) # saved[i] + 1
        BY <1>0, <2>3 DEF Pid
    <2> QED BY ZenonT(40), <1>0, <1>1, <2>1, <2>2, <2>4
<1> QED BY <1>2, <1>3

\* What a step does to the persisters.
LEMMA StorageSteps ==
  ASSUME [Next]_vars
  PROVE  \/ \E i \in Servers : StartServer(i)
         \/ ShutdownCopySnapshot
         \/ \E c \in Calls : HandleAppend(c)
         \/ \E i \in Servers, k \in 1 .. MaxInc :
              k <= inc[i] /\ (SaveState(i, Pid(k)) \/ SaveSnapshot(i, Pid(k)))
         \/ UNCHANGED <<inc, saved, disk, half, torn>>
<1>1. CASE Rewires /\ ~\E i \in Servers : StartServer(i)
    BY ZenonT(40), <1>1 DEF Rewires, ShutdownDisconnect, ConnectAll, ShutdownDelete, Partition, MakeClient, ConnectClient, Harness
<1>2. CASE ShutdownCopyState
    BY <1>2 DEF ShutdownCopyState
<1>3. ASSUME NEW c \in Calls, Moves(c) \/ Sends(c), ~HandleAppend(c)
      PROVE  UNCHANGED Harness
    BY ZenonT(40), <1>3 DEF Moves, Sends, NetTask, HandleRaft, ClerkCall, PeerCall
<1>4. UNCHANGED Harness \/ UNCHANGED vars => UNCHANGED <<inc, saved, disk, half, torn>>
    BY ZenonT(40) DEF Harness, vars
<1> QED BY ZenonT(40), <1>1, <1>2, <1>3, <1>4, Steps DEF Rewires

\* Every step keeps Saves.
LEMMA SavesStep ==
  ASSUME Types, Lives, CallEnds, Persisted, Saves, [Next]_vars
  PROVE  Saves'
<1> DEFINE Fine(i, n) == half[i][n] # NoSnapshot =>
                           (\E k \in 1 .. inc[i] : n = Pid(k)) /\ disk[i][n].snapshot \subseteq half[i][n]
<1>0. ASSUME NEW i \in Servers, NEW n \in Pids, Writes(i, n),
             Fine(i, n)'
      PROVE  Saves'
    <2>1. ASSUME NEW j \in Servers, NEW m \in Pids, j # i \/ m # n
          PROVE  Fine(j, m)'
        <3>1. disk'[j][m] = disk[j][m] /\ half'[j][m] = half[j][m]
            BY ZenonT(40), <1>0, <2>1 DEF Writes
        <3>2. ASSUME NEW k \in 1 .. inc[j]
              PROVE  k \in 1 .. inc'[j]
            BY IncGrows
        <3> QED BY ZenonT(40), <3>1, <3>2 DEF Saves
    <2> QED BY <1>0, <2>1 DEF Saves
<1>1. ASSUME NEW i \in Servers, StartServer(i) \/ (ShutdownCopySnapshot /\ harness.i = i)
      PROVE  Saves'
    <2>1. half[i][saved[i] + 1] = NoSnapshot /\ half' = half /\ saved[i] + 1 \in Pids /\ Writes(i, saved[i] + 1)
        BY ZenonT(40), <1>1, Copying DEF Saves
    <2> QED BY ZenonT(40), <1>0, <2>1
<1>2. CASE ShutdownCopySnapshot
    BY ZenonT(40), <1>1, <1>2, Indexes DEF ShutdownCopySnapshot
<1>3. ASSUME NEW c \in Calls, HandleAppend(c)
      PROVE  Saves'
    <2>1. Target(rpc[c].end) \in Servers /\ Pid(rpc[c].srv) \in Pids
        BY ZenonT(40), <1>3, PidsFit DEF HandleAppend, HandlerEnds, CallEnds, Persisted
    <2>2. PICK i \in Servers, n \in Pids : Writes(i, n) /\ half' = half /\ disk'[i][n].snapshot = disk[i][n].snapshot
        BY ZenonT(40), <1>3, <2>1, Appending
    <2>3. inc' = inc
        BY ZenonT(40), <1>3 DEF HandleAppend
    <2> QED BY ZenonT(40), <1>0, <2>2, <2>3 DEF Saves
<1>4. ASSUME NEW i \in Servers, NEW k \in 1 .. MaxInc, k <= inc[i], SaveState(i, Pid(k)) \/ SaveSnapshot(i, Pid(k))
      PROVE  Saves'
    <2>1. Pid(k) \in Pids /\ k \in 1 .. inc[i]
        BY <1>4, PidsFit DEF Types
    <2>2. inc' = inc
        BY <1>4 DEF SaveState, SaveSnapshot
    <2> QED BY <1>0, <1>4, <2>1, <2>2, Saving
<1>5. CASE UNCHANGED <<inc, saved, disk, half, torn>>
    BY ZenonT(40), <1>5 DEF Saves
<1> QED BY ZenonT(40), <1>1, <1>2, <1>3, <1>4, <1>5, StorageSteps

\* No persister forgets a request, and the harness does not move.
Keeping ==
  /\ UNCHANGED <<inc, saved, torn, harness>>
  /\ \A c \in Calls, j \in Servers, m \in Pids :
       /\ c \in Holds(j, m) => c \in Holds(j, m)'
       /\ c \in disk[j][m].snapshot => c \in disk'[j][m].snapshot
       /\ c \in half[j][m] => c \in disk'[j][m].snapshot \/ c \in half'[j][m]

\* What was kept stays kept while the harness does not copy.
LEMMA KeepingKeeps ==
  ASSUME Types, Lives, Keeping, NEW c \in Calls, NEW i \in Servers, KeptFor(c, i)
  PROVE  KeptFor(c, i)'
<1>1. saved[i] \in Pids
    BY DEF Types
<1>2. UNCHANGED <<saved, torn, harness>>
    BY ZenonT(40) DEF Keeping
<1>3. /\ c \in Holds(i, saved[i]) => c \in Holds(i, saved[i])'
      /\ c \in disk[i][saved[i]].snapshot => c \in disk'[i][saved[i]].snapshot
      /\ c \in half[i][saved[i]] => c \in disk'[i][saved[i]].snapshot \/ c \in half'[i][saved[i]]
    <2>1. c \in Holds(i, saved[i]) => c \in disk'[i][saved[i]].state \cup disk'[i][saved[i]].snapshot \cup half'[i][saved[i]]
        BY ZenonT(40), <1>1 DEF Keeping, Holds
    <2> QED BY ZenonT(40), <1>1, <1>2, <2>1 DEF Keeping, Holds
<1> QED BY ZenonT(40), <1>2, <1>3 DEF KeptFor

\* Every step keeps Persisted.
LEMMA PersistedStep ==
  ASSUME Types, Lives, CallEnds, Persisted, Saves, [Next]_vars
  PROVE  Persisted'
<1> DEFINE Good(c) == LET i == Target(rpc[c].end) IN
              /\ rpc[c].st \in {"delayed", "running", "ran"} => rpc[c].srv \in 1 .. inc[i]
              /\ (rpc[c].st = "ran" /\ FromClerk(c)) => c \in Holds(i, Pid(rpc[c].srv))
              /\ Acked(c) => KeptFor(c, i)
           Same(c) == /\ rpc'[c].st = rpc[c].st /\ rpc'[c].end = rpc[c].end
                      /\ rpc'[c].srv = rpc[c].srv /\ rpc'[c].res = rpc[c].res
<1>0. (Persisted <=> \A c \in Calls : Good(c)) /\ (Persisted' <=> \A c \in Calls : Good(c)')
    BY ZenonT(40) DEF Persisted
<1>1. ASSUME NEW c \in Calls, Same(c), Good(c),
             \A i \in Servers : KeptFor(c, i) => KeptFor(c, i)',
             \A i \in Servers, k \in 1 .. inc[Target(rpc[c].end)] :
               i = Target(rpc[c].end) => (c \in Holds(i, Pid(k)) => c \in Holds(i, Pid(k))')
      PROVE  Good(c)'
    <2>1. rpc[c].st # "none" => Target(rpc[c].end) \in Servers
        BY ZenonT(40) DEF CallEnds
    <2>2. Target(rpc[c].end) \in Servers => 
            /\ inc[Target(rpc[c].end)] \in Nat /\ inc'[Target(rpc[c].end)] \in Nat
            /\ inc[Target(rpc[c].end)] <= inc'[Target(rpc[c].end)]
        BY ZenonT(40), IncGrows
    <2>3. rpc[c].st \in {"delayed", "running", "ran"} => rpc'[c].srv \in 1 .. inc'[Target(rpc[c].end)]
        BY <1>1, <2>1, <2>2
    <2>4. (Acked(c)' <=> Acked(c)) /\ (FromClerk(c)' <=> FromClerk(c)) /\ Target(rpc'[c].end) = Target(rpc[c].end)
        BY ZenonT(40), <1>1 DEF Acked, FromClerk
    <2>5. Acked(c) => KeptFor(c, Target(rpc[c].end))'
        BY ZenonT(40), <1>1, <2>1 DEF Acked
    <2>6. (rpc[c].st = "ran" /\ FromClerk(c)) => c \in Holds(Target(rpc[c].end), Pid(rpc[c].srv))'
        BY ZenonT(40), <1>1, <2>1
    <2> QED BY ZenonT(40), <1>1, <2>3, <2>4, <2>5, <2>6
<1>2. ASSUME NEW c \in Calls, Moves(c), Good(c), Keeping, UNCHANGED servers,
             HandleAppend(c) => c \in Holds(Target(rpc[c].end), Pid(rpc[c].srv))'
      PROVE  Good(c)'
    <2> DEFINE t == Target(rpc[c].end)
    <2>1. /\ rpc'[c].end = rpc[c].end /\ (FromClerk(c)' <=> FromClerk(c)) /\ UNCHANGED <<inc, saved, harness, torn>>
          /\ t \in Servers
        BY ZenonT(40), <1>2, MovesPath DEF FromClerk, Keeping, CallEnds, Path
    <2>2. CASE rpc[c].st = "queued" /\ rpc'[c].st = "delayed"
        <3>1. rpc'[c].srv = servers[t] /\ ~Gone(t)
            BY ZenonT(40), <1>2, <2>2, MovesPath DEF Path, Routed
        <3>2. inc[t] \in Nat /\ rpc'[c].srv = inc[t] /\ inc[t] > 0
            BY <2>1, <3>1, MaxIncType DEF Lives, Types, Gone
        <3> QED BY <2>1, <2>2, <3>2 DEF Acked
    <2>3. CASE ~(rpc[c].st = "queued" /\ rpc'[c].st = "delayed")
        <3>1. rpc'[c].srv = rpc[c].srv
            BY ZenonT(40), <1>2, <2>3, MovesPath
        <3>2. rpc'[c].st \in {"delayed", "running", "ran"} => rpc[c].st \in {"delayed", "running", "ran"}
            BY ZenonT(40), <1>2, <2>3, MovesPath DEF Path
        <3>3. (rpc'[c].st = "ran" /\ FromClerk(c)') => HandleAppend(c)
            BY ZenonT(40), <1>2, <2>1, MovesPath DEF Path
        <3>4. ASSUME Acked(c)'
              PROVE  KeptFor(c, t)'
            <4>1. CASE Acked(c)
                BY ZenonT(40), <1>2, <2>1, <4>1, KeepingKeeps
            <4>2. CASE ~Acked(c)
                <5>1. rpc[c].st = "ran" /\ ~Dead(c) /\ FromClerk(c)
                    BY ZenonT(40), <1>2, <2>1, <3>4, <4>2, MovesPath DEF Path, Acked
                <5>2. ~Gone(t) /\ rpc[c].srv = servers[t]
                    BY ZenonT(40), <5>1 DEF Dead, IsServerDead
                <5>3. /\ rpc[c].srv = inc[t] /\ saved[t] = Pid(inc[t])
                      /\ ~(harness.at = "snapshot" /\ harness.i = t)
                    BY ZenonT(40), <2>1, <5>2 DEF Lives
                <5>4. c \in Holds(t, saved[t])
                    BY <1>2, <5>1, <5>3
                <5>5. KeptFor(c, t)
                    BY ZenonT(40), <5>3, <5>4 DEF KeptFor
                <5> QED BY ZenonT(40), <1>2, <2>1, <5>5, KeepingKeeps
            <4> QED BY ZenonT(40), <4>1, <4>2
        <3>5. rpc'[c].st \in {"delayed", "running", "ran"} => rpc'[c].srv \in 1 .. inc'[t]
            BY ZenonT(40), <1>2, <2>1, <3>1, <3>2
        <3> QED BY ZenonT(40), <1>2, <2>1, <3>1, <3>3, <3>4, <3>5
    <2> QED BY ZenonT(40), <2>2, <2>3
<1>3. ASSUME NEW c \in Calls, Moves(c) \/ Sends(c)
      PROVE  Persisted'
    <2>1. /\ UNCHANGED <<servers, inc, saved, half, harness, torn>>
          /\ \A d \in Calls \ {c} : rpc'[d] = rpc[d]
          /\ ~HandleAppend(c) => UNCHANGED disk
        BY ZenonT(40), <1>3, CallSteps
    <2>2. HandleAppend(c) => Target(rpc[c].end) \in Servers /\ Pid(rpc[c].srv) \in Pids
        BY ZenonT(40), PidsFit DEF HandleAppend, HandlerEnds, CallEnds, Persisted
    <2>3. Keeping
        <3>1. CASE ~HandleAppend(c)
            BY ZenonT(40), <2>1, <3>1 DEF Keeping, Holds
        <3>2. CASE HandleAppend(c)
            <4>1. PICK i \in Servers, n \in Pids : /\ Writes(i, n) /\ half' = half
                     /\ disk'[i][n].state = disk[i][n].state \cup {c} /\ disk'[i][n].snapshot = disk[i][n].snapshot
                BY ZenonT(40), <2>2, <3>2, Appending
            <4>2. ASSUME NEW j \in Servers, NEW m \in Pids
                  PROVE  disk[j][m].state \subseteq disk'[j][m].state /\ disk[j][m].snapshot = disk'[j][m].snapshot
                BY ZenonT(40), <4>1 DEF Writes
            <4> QED BY ZenonT(40), <2>1, <4>1, <4>2 DEF Keeping, Holds
        <3> QED BY ZenonT(40), <3>1, <3>2
    <2>4. ASSUME HandleAppend(c)
          PROVE  c \in Holds(Target(rpc[c].end), Pid(rpc[c].srv))'
        <3>1. rpc'[c].end = rpc[c].end /\ rpc'[c].srv = rpc[c].srv
            BY ZenonT(40), <2>4, MovesPath DEF Moves, HandleAppend, HandlerEnds
        <3>2. c \in disk'[Target(rpc[c].end)][Pid(rpc[c].srv)].state
            BY ZenonT(40), <2>2, <2>4, Appending
        <3> QED BY ZenonT(40), <3>1, <3>2 DEF Holds
    <2>5. Good(c)'
        <3>1. CASE Moves(c)
            BY ZenonT(40), <1>0, <1>2, <2>1, <2>3, <2>4, <3>1
        <3>2. CASE Sends(c)
            BY ZenonT(40), <3>2, SendsSent DEF Sent, Acked
        <3> QED BY ZenonT(40), <1>3, <3>1, <3>2
    <2>6. ASSUME NEW d \in Calls \ {c}
          PROVE  Good(d)'
        <3>1. Same(d) /\ Good(d)
            BY ZenonT(40), <1>0, <2>1
        <3>2. \A i \in Servers : KeptFor(d, i) => KeptFor(d, i)'
            BY ZenonT(40), <2>3, KeepingKeeps
        <3>3. ASSUME NEW i \in Servers, NEW k \in 1 .. inc[i], d \in Holds(i, Pid(k))
              PROVE  d \in Holds(i, Pid(k))'
            BY ZenonT(40), <2>3, <3>3, PidsFit DEF Keeping
        <3> HIDE DEF Good, Same
        <3> QED BY ZenonT(40), <1>1, <3>1, <3>2, <3>3
    <2> HIDE DEF Good
    <2> QED BY ZenonT(40), <1>0, <2>5, <2>6
<1>4. ASSUME \A c \in Calls : Same(c),
             \A c \in Calls, i \in Servers : KeptFor(c, i) => KeptFor(c, i)',
             \A c \in Calls, i \in Servers : \A k \in 1 .. inc[i] : c \in Holds(i, Pid(k)) => c \in Holds(i, Pid(k))'
      PROVE  Persisted'
    <2>1. ASSUME NEW c \in Calls
          PROVE  Good(c)'
        <3>1. Same(c) /\ Good(c)
            BY ZenonT(40), <1>0, <1>4
        <3> HIDE DEF Good, Same
        <3> QED BY ZenonT(40), <1>1, <1>4, <3>1
    <2> HIDE DEF Good
    <2> QED BY ZenonT(40), <1>0, <2>1
<1>5. ASSUME NEW i \in Servers, NEW k \in 1 .. MaxInc, k <= inc[i], SaveState(i, Pid(k)) \/ SaveSnapshot(i, Pid(k))
      PROVE  Persisted'
    <2>1. PICK n \in Pids : SaveState(i, n) \/ SaveSnapshot(i, n)
        BY <1>5, PidsFit
    <2>2. \A c \in Calls : c \notin NoSnapshot
        BY ZenonT(40), CallsAreNoMarks DEF NoSnapshot
    <2>3. ASSUME NEW c \in Calls
          PROVE  /\ c \in Holds(i, n) => c \in Holds(i, n)'
                 /\ c \in disk[i][n].snapshot => c \in disk'[i][n].snapshot
                 /\ c \in half[i][n] => c \in disk'[i][n].snapshot \/ c \in half'[i][n]
        BY <2>1, <2>2, Saving DEF Saves, Holds
    <2>4. Keeping
        <3>1. UNCHANGED <<inc, saved, torn, harness>> /\ Writes(i, n)
            BY ZenonT(40), <2>1, Saving
        <3>2. ASSUME NEW j \in Servers, NEW m \in Pids, j # i \/ m # n
              PROVE  disk'[j][m] = disk[j][m] /\ half'[j][m] = half[j][m]
            BY <3>1, <3>2 DEF Writes
        <3> QED BY ZenonT(40), <2>3, <3>1, <3>2 DEF Keeping, Holds
    <2>5. rpc' = rpc
        BY ZenonT(40), <2>1 DEF SaveState, SaveSnapshot, netVars
    <2>6. ASSUME NEW c \in Calls, NEW j \in Servers, NEW h \in 1 .. inc[j], c \in Holds(j, Pid(h))
          PROVE  c \in Holds(j, Pid(h))'
        BY ZenonT(40), <2>4, <2>6, PidsFit DEF Keeping
    <2> QED BY ZenonT(40), <1>4, <2>4, <2>5, <2>6, KeepingKeeps
<1>6. ASSUME NEW i \in Servers, StartServer(i)
      PROVE  Persisted'
    <2>1. /\ harness' = harness /\ harness.at = "idle" /\ torn' = torn
        BY ZenonT(40), <1>6 DEF StartServer
    <2>2. /\ saved[i] \in Pids /\ saved[i] + 1 \in Pids /\ Writes(i, saved[i] + 1) /\ half' = half
          /\ \A j \in Servers \ {i} : saved'[j] = saved[j]
          /\ saved'[i] = saved[i] + 1 /\ \A k \in 1 .. inc[i] : Pid(k) # saved[i] + 1
          /\ disk'[i][saved[i] + 1] = disk[i][saved[i]] /\ \A k \in 1 .. inc[i] : Pid(k) # saved[i]
        BY ZenonT(40), <1>6, Copying
    <2>3. half[i][saved[i]] = NoSnapshot
        BY ZenonT(40), <2>2 DEF Saves
    <2>4. ASSUME NEW c \in Calls, NEW j \in Servers, KeptFor(c, j)
          PROVE  KeptFor(c, j)'
        <3>1. CASE j # i
            <4>1. disk'[j][saved[j]] = disk[j][saved[j]] /\ half'[j][saved[j]] = half[j][saved[j]]
                BY ZenonT(40), <2>2, <3>1 DEF Writes, Types
            <4> QED BY <2>1, <2>2, <2>4, <3>1, <4>1 DEF KeptFor, Holds
        <3>2. CASE j = i
            <4>1. c \notin half[i][saved[i]]
                BY ZenonT(40), <2>3, CallsAreNoMarks DEF NoSnapshot
            <4> QED BY ZenonT(40), <2>1, <2>2, <2>4, <3>2, <4>1 DEF KeptFor, Holds
        <3> QED BY ZenonT(40), <3>1, <3>2
    <2>5. ASSUME NEW c \in Calls, NEW j \in Servers, NEW k \in 1 .. inc[j], c \in Holds(j, Pid(k))
          PROVE  c \in Holds(j, Pid(k))'
        <3>1. Pid(k) \in Pids /\ (j # i \/ Pid(k) # saved[i] + 1)
            BY ZenonT(40), <2>2, PidsFit
        <3> QED BY ZenonT(40), <2>2, <2>5, <3>1 DEF Writes, Holds
    <2>6. \A c \in Calls : Same(c)
        BY <1>6, RewiresCalls DEF Rewires, Rewired
    <2> QED BY <1>4, <2>4, <2>5, <2>6
<1>7. CASE ShutdownCopySnapshot
    <2>1. PICK i \in Servers : i = harness.i
        BY ZenonT(40), <1>7, Indexes DEF ShutdownCopySnapshot
    <2>2. /\ saved[i] \in Pids /\ saved[i] + 1 \in Pids /\ Writes(i, saved[i] + 1) /\ half' = half
          /\ \A j \in Servers \ {i} : saved'[j] = saved[j]
          /\ saved'[i] = saved[i] + 1 /\ \A k \in 1 .. inc[i] : Pid(k) # saved[i] + 1
          /\ disk'[i][saved[i] + 1] = [state |-> harness.state, snapshot |-> disk[i][saved[i]].snapshot]
        BY ZenonT(40), <1>7, <2>1, Copying
    <2>3. /\ harness'.at = "idle" /\ harness.at = "snapshot" /\ torn \subseteq torn' /\ rpc' = rpc
          /\ harness.cut /\ half[i][saved[i]] # NoSnapshot => i \in torn'
        BY ZenonT(40), <1>7, <2>1 DEF ShutdownCopySnapshot, Idle, netVars
    <2>4. ASSUME NEW c \in Calls, NEW j \in Servers, KeptFor(c, j)
          PROVE  KeptFor(c, j)'
        <3>1. CASE j # i
            <4>1. disk'[j][saved[j]] = disk[j][saved[j]] /\ half'[j][saved[j]] = half[j][saved[j]]
                BY <2>2, <3>1 DEF Writes, Types
            <4> QED BY ZenonT(40), <2>2, <2>3, <2>4, <3>1, <4>1 DEF KeptFor, Holds
        <3>2. CASE j = i
            <4>1. c \in half[i][saved[i]] => half[i][saved[i]] # NoSnapshot
                BY ZenonT(40), CallsAreNoMarks DEF NoSnapshot
            <4>2. i \in torn \/ c \in harness.state \cup disk[i][saved[i]].snapshot \/ i \in torn'
                BY ZenonT(40), <2>1, <2>3, <2>4, <3>2, <4>1 DEF KeptFor
            <4> QED BY <2>2, <2>3, <3>2, <4>2 DEF KeptFor, Holds
        <3> QED BY <3>1, <3>2
    <2>5. ASSUME NEW c \in Calls, NEW j \in Servers, NEW k \in 1 .. inc[j], c \in Holds(j, Pid(k))
          PROVE  c \in Holds(j, Pid(k))'
        <3>1. Pid(k) \in Pids /\ (j # i \/ Pid(k) # saved[i] + 1)
            BY ZenonT(40), <2>2, PidsFit
        <3> QED BY ZenonT(40), <2>2, <2>5, <3>1 DEF Writes, Holds
    <2> QED BY ZenonT(40), <1>4, <2>3, <2>4, <2>5
<1>8. ASSUME \A c \in Calls : Same(c), UNCHANGED <<inc, saved, disk, half, torn>>,
             \A c \in Calls, j \in Servers : KeptFor(c, j) => KeptFor(c, j)'
      PROVE  Persisted'
    BY ZenonT(40), <1>4, <1>8 DEF Holds
<1>9. CASE ShutdownCopyState
    <2>1. PICK i \in Servers : i = harness.i
        BY <1>9, Indexes DEF ShutdownCopyState
    <2>2. /\ harness'.at = "snapshot" /\ harness'.i = i /\ harness'.state = disk[i][saved[i]].state
          /\ harness'.cut <=> half[i][saved[i]] # NoSnapshot
          /\ UNCHANGED <<rpc, inc, saved, disk, half, torn>>
        BY ZenonT(40), <1>9, <2>1 DEF ShutdownCopyState, Types, Harnesses, netVars
    <2>3. \A c \in Calls : c \in half[i][saved[i]] => half[i][saved[i]] # NoSnapshot
        BY ZenonT(40), CallsAreNoMarks DEF NoSnapshot
    <2>4. ASSUME NEW c \in Calls, NEW j \in Servers, KeptFor(c, j)
          PROVE  KeptFor(c, j)'
        BY ZenonT(40), <2>2, <2>3, <2>4 DEF KeptFor, Holds
    <2> QED BY <1>8, <2>2, <2>4
<1>10. CASE Rewires /\ ~\E i \in Servers : StartServer(i)
    <2>1. /\ UNCHANGED <<inc, saved, disk, half, torn>>
          /\ harness' = harness \/ harness'.at # "snapshot"
        BY ZenonT(40), <1>10 DEF Rewires, ShutdownDisconnect, ConnectAll, ShutdownDelete, Partition, MakeClient, ConnectClient,
                     Harness, Idle, Types, Harnesses
    <2>2. \A c \in Calls : Same(c)
        BY ZenonT(40), <1>10, RewiresCalls DEF Rewired
    <2>3. ASSUME NEW c \in Calls, NEW j \in Servers, KeptFor(c, j)
          PROVE  KeptFor(c, j)'
        BY ZenonT(40), <2>1, <2>3 DEF KeptFor, Holds
    <2> QED BY ZenonT(40), <1>8, <2>1, <2>2, <2>3
<1>11. CASE UNCHANGED vars
    BY ZenonT(40), <1>8, <1>11 DEF vars, netVars, KeptFor, Holds
<1> HIDE DEF Good, Same
<1> QED BY ZenonT(40), <1>3, <1>5, <1>6, <1>7, <1>9, <1>10, <1>11, Steps DEF Rewires

\* AckedPersisted: a request that was answered Ok is in what the next incarnation
\* will be given, unless shutdown_server copied the two halves of one save.
THEOREM AckedStaysPersisted == Spec => []AckedPersisted
<1>1. Init => Ends /\ CallEnds /\ Saves /\ Persisted
    BY DEF Init, NetInit, Ends, CallEnds, Saves, Persisted, NoCall, Acked
<1>2. Persisted => AckedPersisted
    BY ZenonT(40) DEF Persisted, AckedPersisted, KeptFor, Kept, Holds
<1> QED BY <1>1, <1>2, TypesInvariant, EndsStep, CallEndsStep, SavesStep, PersistedStep, PTL DEF Spec
=============================================================================
