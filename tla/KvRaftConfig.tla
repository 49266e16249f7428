---------------------------- MODULE KvRaftConfig ----------------------------
(***************************************************************************)
(* The test harness of kvraft: it starts, isolates, shuts down and         *)
(* restarts key/value servers on the simulated network, and carries what   *)
(* a server persisted from one incarnation to the next.  The servers are   *)
(* not written yet; an instance is any program that saves a request before *)
(* it answers, may move what it saved into a snapshot, and keeps running   *)
(* after kill().  Persister n of a server is the n-th one made for it;     *)
(* incarnation k writes persister 2k-1.                                    *)
(***************************************************************************)
EXTENDS LabNetwork

CONSTANT MaxInc  \* bound: incarnations of a server

\* 0 names the clerk as the owner of an end, and is no server.
ASSUME ClerkIsNoServer == 0 \notin Servers

ASSUME MaxIncType == MaxInc \in Nat

ASSUME CallsAreNoMarks == "no snapshot" \notin Calls

VARIABLES inc,    \* incarnations started so far
          up,     \* kvservers[i] is Some
          saved,  \* the persister that saved[i] holds
          disk,   \* what each persister holds
          half,   \* persister -> snapshot that is still to be stored
          clerk,  \* make_client has been called
          harness \* where the harness is inside shutdown_server

VARIABLE torn     \* history: servers restarted from half a save

vars == <<netVars, inc, up, saved, disk, half, clerk, harness, torn>>

Pids == 0 .. 2 * MaxInc

Pid(k) == 2 * k - 1

NoSnapshot == {"no snapshot"}

Idle == [at |-> "idle", i |-> 0, state |-> {}, cut |-> FALSE]

Init ==
  /\ NetInit
  /\ inc = [i \in Servers |-> 0]
  /\ up = [i \in Servers |-> FALSE]
  /\ saved = [i \in Servers |-> 0]
  /\ disk = [i \in Servers |-> [n \in Pids |-> [state |-> {}, snapshot |-> {}]]]
  /\ half = [i \in Servers |-> [n \in Pids |-> NoSnapshot]]
  /\ clerk = FALSE
  /\ harness = Idle
  /\ torn = {}

EndReused(i, j) == <<i, 1, j>>

End(i, j) == <<i, inc[i], j>>

Links(S, T) == {End(i, j) : i \in S, j \in T} \cup {End(j, i) : i \in S, j \in T}

AllUp == \A i \in Servers : up[i]

StartServer(i) ==
  /\ harness.at = "idle" /\ ~up[i] /\ inc[i] < MaxInc
  /\ inc' = [inc EXCEPT ![i] = @ + 1]
  /\ up' = [up EXCEPT ![i] = TRUE]
  /\ saved' = [saved EXCEPT ![i] = @ + 1]
  /\ disk' = [disk EXCEPT ![i][saved[i] + 1] = disk[i][saved[i]]]
  /\ SetEndpoints(enabled, AddServer(i, inc[i] + 1))
  /\ UNCHANGED <<half, clerk, harness, torn>>

Harness == <<inc, up, saved, disk, half, clerk, harness, torn>>

\* The tests connect and partition only while every server is up.
ReadyToConnect == harness.at = "idle" /\ AllUp

ConnectAll ==
  /\ ReadyToConnect
  /\ SetEndpoints(enabled \cup Links(Servers, Servers), servers)
  /\ UNCHANGED Harness

PartitionedOneWay(p1, p2) ==
  (enabled \ {End(i, j) : i \in p1, j \in p2}) \cup Links(p1, p1) \cup Links(p2, p2)

Partitioned(p1, p2) ==
  (enabled \ Links(p1, p2)) \cup Links(p1, p1) \cup Links(p2, p2)

Partition(p1) ==
  /\ ReadyToConnect
  /\ SetEndpoints(Partitioned(p1, Servers \ p1), servers)
  /\ UNCHANGED Harness

\* The tests make a clerk before they shut a server down.
ShutdownDisconnect(i) ==
  /\ harness.at = "idle" /\ up[i] /\ clerk
  /\ SetEndpoints(enabled \ Links({i}, Servers), servers)
  /\ harness' = [Idle EXCEPT !.at = "delete", !.i = i]
  /\ UNCHANGED <<inc, up, saved, disk, half, clerk, torn>>

ShutdownDelete ==
  /\ harness.at = "delete"
  /\ SetEndpoints(enabled, DeleteServer(harness.i))
  /\ harness' = [harness EXCEPT !.at = "state"]
  /\ UNCHANGED <<inc, up, saved, disk, half, clerk, torn>>

\* raft_state() and snapshot() of the old persister lock it one after the other.
ShutdownCopyState ==
  LET i == harness.i IN
  /\ harness.at = "state"
  /\ harness' = [harness EXCEPT !.at = "snapshot", !.state = disk[i][saved[i]].state,
                                !.cut = half[i][saved[i]] # NoSnapshot]
  /\ UNCHANGED <<netVars, inc, up, saved, disk, half, clerk, torn>>

\* snapshot(), the fresh persister in saved[i], and kill().
ShutdownCopySnapshot ==
  LET i == harness.i IN
  /\ harness.at = "snapshot"
  /\ disk' = [disk EXCEPT ![i][saved[i] + 1] =
                [state |-> harness.state, snapshot |-> disk[i][saved[i]].snapshot]]
  /\ saved' = [saved EXCEPT ![i] = @ + 1]
  /\ up' = [up EXCEPT ![i] = FALSE]
  /\ torn' = IF harness.cut /\ half[i][saved[i]] # NoSnapshot THEN torn \cup {i} ELSE torn
  /\ harness' = Idle
  /\ UNCHANGED <<netVars, inc, half, clerk>>

ClerkEnds(to) == {<<0, 0, j>> : j \in to}

MakeClient(to) ==
  /\ ~clerk /\ ReadyToConnect
  /\ clerk' = TRUE
  /\ SetEndpoints(enabled \cup ClerkEnds(to), servers)
  /\ UNCHANGED <<inc, up, saved, disk, half, harness, torn>>

\* connect_client takes the lock of the clerks, not that of the servers.
ConnectClient(to) ==
  /\ clerk
  /\ SetEndpoints(enabled \cup ClerkEnds(to), servers)
  /\ UNCHANGED Harness

ClerkCall(c, j) ==
  /\ clerk
  /\ Call(c, <<0, 0, j>>, FALSE)
  /\ UNCHANGED Harness

\* Any incarnation may send, also one the harness has shut down.
PeerCall(c, i, k, j) ==
  /\ k <= inc[i] /\ i # j
  /\ Call(c, <<i, k, j>>, k < inc[i])
  /\ UNCHANGED Harness

FromClerk(c) == rpc[c].end[1] = 0

\* A handler saves the request in the persister of its own incarnation.
HandleAppend(c) ==
  LET i == Target(rpc[c].end)
      n == Pid(rpc[c].srv) IN
  /\ FromClerk(c) /\ HandlerEnds(c) /\ half[i][n] = NoSnapshot
  /\ disk' = [disk EXCEPT ![i][n].state = @ \cup {c}]
  /\ UNCHANGED <<inc, up, saved, half, clerk, harness, torn>>

HandleRaft(c) == ~FromClerk(c) /\ HandlerEnds(c) /\ UNCHANGED Harness

\* save_state_and_snapshot takes the lock of the persister twice.
SaveState(i, n) ==
  /\ half[i][n] = NoSnapshot /\ disk[i][n].state # {}
  /\ half' = [half EXCEPT ![i][n] = disk[i][n].snapshot \cup disk[i][n].state]
  /\ disk' = [disk EXCEPT ![i][n].state = {}]
  /\ UNCHANGED <<netVars, inc, up, saved, clerk, harness, torn>>

SaveSnapshot(i, n) ==
  /\ half[i][n] # NoSnapshot
  /\ disk' = [disk EXCEPT ![i][n].snapshot = half[i][n]]
  /\ half' = [half EXCEPT ![i][n] = NoSnapshot]
  /\ UNCHANGED <<netVars, inc, up, saved, clerk, harness, torn>>

NetTask(c) == Task(c) /\ UNCHANGED Harness

Next ==
  /\ ~poisoned
  /\ \/ \E i \in Servers : StartServer(i) \/ ShutdownDisconnect(i)
     \/ ConnectAll
     \/ ShutdownDelete \/ ShutdownCopyState \/ ShutdownCopySnapshot
     \/ \E to \in SUBSET Servers : Partition(to) \/ MakeClient(to) \/ ConnectClient(to)
     \/ \E c \in Calls : \/ NetTask(c) \/ HandleAppend(c) \/ HandleRaft(c)
                         \/ \E j \in Servers : ClerkCall(c, j)
                         \/ \E i, j \in Servers, k \in 1 .. MaxInc : PeerCall(c, i, k, j)
     \/ \E i \in Servers, k \in 1 .. MaxInc :
          k <= inc[i] /\ (SaveState(i, Pid(k)) \/ SaveSnapshot(i, Pid(k)))

Spec == Init /\ [][Next]_vars

\* The poller runs every task that can run; handlers and the test owe nothing.
FairSpec == /\ Spec
            /\ \A c \in Calls : WF_vars(~poisoned /\ Progress(c) /\ UNCHANGED Harness)
-----------------------------------------------------------------------------

Acked(c) == rpc[c].st \in {"done", "held"} /\ FromClerk(c)
            /\ (rpc[c].st = "done" => rpc[c].res = "ok")

Kept(c) == LET i == Target(rpc[c].end)
               d == disk[i][saved[i]] IN
           c \in d.state \cup d.snapshot \cup half[i][saved[i]]

\* A request that was answered Ok is in what the next incarnation of the server
\* will be given, because shutdown_server deletes the server before it copies the
\* persister and process_rpc looks for the server again before it replies - unless
\* the copy fell between the two halves of save_state_and_snapshot.
AckedPersisted == \A c \in Calls : Acked(c) => Kept(c) \/ Target(rpc[c].end) \in torn

\* A request sent by an incarnation after it was superseded is never executed:
\* its ends are disabled by shutdown_server and start_server makes fresh ones.
SupersededSilent ==
  \A c \in Calls : rpc[c].stale => rpc[c].st \in {"queued", "lost"} \/ rpc[c].res = "timeout"

\* Whenever the harness is between two operations, i reaches j exactly if j
\* reaches i, whatever partitions, shutdowns and restarts came before.
LinksSymmetric ==
  harness.at = "idle" => \A i, j \in Servers : (End(i, j) \in enabled) = (End(j, i) \in enabled)

\* On a reliable network a call whose end stays enabled and whose server stays
\* up is neither timed out nor stopped by process_rpc.
ReliableDelivers ==
  \A c \in Calls : reliable /\ rpc[c].st = "done" /\ rpc[c].quiet => rpc[c].res \in {"ok", "err"}

\* Every call is answered, unless its handler never returns on a server that
\* stays up behind an end that stays enabled ("guaranteed to return"), or a call
\* was made while the servers were still being started: end_info panics on it
\* and poisons the lock of the endpoints.
CallsReturn ==
  \A c \in Calls : rpc[c].st = "queued" ~>
                     (\/ rpc[c].st = "done"
                      \/ \E d \in Calls : rpc[d].early
                      \/ [](rpc[c].st = "running" /\ <>(~Dead(c))))
=============================================================================
