------------------------- MODULE KvLogDurableProofs -------------------------
(***************************************************************************)
(* What the files of the log engine hold, for every set of keys and values *)
(* and every bound.  First the vocabulary: the places of a key in the files *)
(* and the value that wins among them, and how each step of an open store  *)
(* changes these.  Then crash safety: replaying the files gives what the   *)
(* index gives (Durable), the files from the safe point on suffice         *)
(* (SafePointSuffices), and only commands change what a restart recovers   *)
(* (OnlyCommandsChangeRecovery).                                           *)
(***************************************************************************)
EXTENDS KvLogProofs

Pos == [gen : Gens, pos : Nat]

\* ReplaysTo with the log as an argument.
Wins(L, P, v) ==
    /\ \A p \in P : \/ L[p.gen][p.pos].val = v
                    \/ \E q \in P : Before(p, q) /\ L[q.gen][q.pos].val = v
    /\ v # NoVal => \E p \in P : L[p.gen][p.pos].val = v

\* The places of k in the generations from n on.
Kept(k, n) == {p \in Places(k) : p.gen >= n}

\* Wins is ReplaysTo, with the log as an argument.
LEMMA ReplaysToWins ==
  \A P, v : ReplaysTo(P, v) <=> Wins(log, P, v)
BY ZenonT(40) DEF ReplaysTo, Wins, At

\* The winner depends only on the commands at the places.
LEMMA WinsSame ==
  ASSUME NEW L, NEW M, NEW P, NEW v, Wins(L, P, v),
         \A p \in P : M[p.gen][p.pos] = L[p.gen][p.pos]
  PROVE  Wins(M, P, v)
BY DEF Wins

\* A command after all the others decides.
LEMMA WinsTop ==
  ASSUME NEW L, NEW P, NEW t, NEW v, L[t.gen][t.pos].val = v, t \in P,
         \A p \in P : p = t \/ Before(p, t)
  PROVE  Wins(L, P, v)
BY DEF Wins

\* Commands that agree with the outcome do not change it, wherever they are.
LEMMA WinsAgree ==
  ASSUME NEW L, NEW P, NEW Q, NEW v, Wins(L, P, v), P \subseteq Q,
         \A p \in Q : p \in P \/ L[p.gen][p.pos].val = v
  PROVE  Wins(L, Q, v)
BY ZenonT(40) DEF Wins

\* Dropping the files below n keeps the outcome if it is still recorded.
LEMMA WinsDrop ==
  ASSUME NEW L, NEW P \in SUBSET Pos, NEW n \in Nat, NEW v, Wins(L, P, v),
         v # NoVal => \E p \in P : p.gen >= n /\ L[p.gen][p.pos].val = v
  PROVE  Wins(L, {p \in P : p.gen >= n}, v)
<1> DEFINE Q == {p \in P : p.gen >= n}
<1>1. ASSUME NEW p \in Q, NEW q \in P, Before(p, q) PROVE q \in Q
  BY <1>1, ConstantsAssumption DEF Before, Pos, Gens, ConstantsAssumption
<1>2. \A p \in Q : \/ L[p.gen][p.pos].val = v
                   \/ \E q \in Q : Before(p, q) /\ L[q.gen][q.pos].val = v
  BY ZenonT(40), <1>1 DEF Wins
<1>3. v # NoVal => \E p \in Q : L[p.gen][p.pos].val = v
  OBVIOUS
<1> QED
  BY <1>2, <1>3 DEF Wins

\* The membership condition of Stored, one level of sets down.
StoredAre ==
    TypeInv => \A k, p : p \in Stored(k) <=>
        /\ p \in Pos /\ p.gen \in gens /\ p.pos \in 1..vis[p.gen]
        /\ log[p.gen][p.pos].key = k
        /\ log[p.gen][p.pos].op # "torn"

\* StoredAre holds in every typed state.
LEMMA StoredIn == StoredAre
<1> SUFFICES ASSUME TypeInv, NEW k
             PROVE  \A p : p \in Stored(k) <=>
                        /\ p \in Pos /\ p.gen \in gens /\ p.pos \in 1..vis[p.gen]
                        /\ log[p.gen][p.pos].key = k
                        /\ log[p.gen][p.pos].op # "torn"
  BY DEF StoredAre
<1> DEFINE U == UNION {[gen : {g}, pos : 1..vis[g]] : g \in gens}
<1>1. \A p : p \in U <=> p \in Pos /\ p.gen \in gens /\ p.pos \in 1..vis[p.gen]
  <2>1. ASSUME NEW p \in U
        PROVE  p \in Pos /\ p.gen \in gens /\ p.pos \in 1..vis[p.gen]
    <3>1. PICK g \in gens : p \in [gen : {g}, pos : 1..vis[g]]
      BY <2>1
    <3>2. g \in Gens /\ vis[g] \in Nat
      BY DEF TypeInv, TypeOK
    <3> QED
      BY <3>1, <3>2 DEF Pos
  <2>2. ASSUME NEW p \in Pos, p.gen \in gens, p.pos \in 1..vis[p.gen] PROVE p \in U
    <3>1. p \in [gen : {p.gen}, pos : 1..vis[p.gen]]
      BY <2>2 DEF Pos
    <3> QED
      BY <2>2, <3>1
  <2> QED
    BY <2>1, <2>2
<1> HIDE DEF U
<1>2. Stored(k) = {p \in U : At(p).key = k /\ At(p).op # "torn"}
  BY DEF Stored, U
<1> QED
  BY <1>1, <1>2 DEF At

\* StoredAre holds after a step, too.
LEMMA StoredInNext == StoredAre'
BY StoredIn, PTL

\* The same for Places.
PlacesAre ==
    TypeInv => \A k, p : p \in Places(k) <=>
        /\ p \in Pos /\ p.gen \in gens /\ p.pos \in 1..vis[p.gen]
        /\ log[p.gen][p.pos].key = k
        /\ log[p.gen][p.pos].op # "torn"
        /\ mode = "load" => Before(p, cursor)

\* PlacesAre holds in every typed state.
LEMMA PlacesIn == PlacesAre
BY ZenonT(40), StoredIn DEF StoredAre, PlacesAre, Places

\* PlacesAre holds after a step, too.
LEMMA PlacesInNext == PlacesAre'
BY PlacesIn, PTL

-----------------------------------------------------------------------------
(* Replaying the files, step by step.  Same(k) is the common case: the     *)
(* places of k, the commands there and its committed value are unchanged.  *)

Replays(k, n) == Wins(log, Kept(k, n), Committed(k))

Same(k) ==
    /\ Places(k)' = Places(k)
    /\ \A p \in Places(k) : log'[p.gen][p.pos] = log[p.gen][p.pos]
    /\ Committed(k)' = Committed(k)

\* A step that changes nothing about k keeps Replays.
LEMMA ReplaySame ==
  ASSUME NEW k, NEW n, Same(k), Replays(k, n) PROVE Replays(k, n)'
<1>1. Kept(k, n)' = Kept(k, n)
  BY DEF Same, Kept
<1>2. \A p \in Kept(k, n) : log'[p.gen][p.pos] = log[p.gen][p.pos]
  BY ZenonT(40) DEF Same, Kept
<1>3. Wins(log', Kept(k, n), Committed(k))
  BY <1>2, WinsSame DEF Replays
<1> QED
  BY <1>1, <1>3 DEF Replays, Same

\* Outside open, the places of k change only where a command about k becomes
\* visible or a file is deleted.
LEMMA PlacesSame ==
  ASSUME TypeInv, TypeInv', mode = "up", mode' = "up", NEW k,
         \A g \in gens : \A i \in 1..vis[g] :
             g \in gens' /\ i \in 1..vis'[g] /\ log'[g][i] = log[g][i],
         \A g \in gens' : \A i \in 1..vis'[g] :
             \/ g \in gens /\ i \in 1..vis[g]
             \/ log'[g][i].op = "torn"
             \/ log'[g][i].key # k
  PROVE  /\ Places(k)' = Places(k)
         /\ \A p \in Places(k) : log'[p.gen][p.pos] = log[p.gen][p.pos]
<1>1. ASSUME NEW p \in Places(k)
      PROVE  p \in Places(k)' /\ log'[p.gen][p.pos] = log[p.gen][p.pos]
  <2>1. /\ p \in Pos /\ p.gen \in gens /\ p.pos \in 1..vis[p.gen]
        /\ log[p.gen][p.pos].key = k /\ log[p.gen][p.pos].op # "torn"
    BY ZenonT(40), <1>1, PlacesIn DEF PlacesAre
  <2>2. p.gen \in gens' /\ p.pos \in 1..vis'[p.gen] /\ log'[p.gen][p.pos] = log[p.gen][p.pos]
    BY <2>1
  <2> QED
    BY ZenonT(40), <2>1, <2>2, PlacesInNext DEF PlacesAre
<1>2. ASSUME NEW p \in Places(k)' PROVE p \in Places(k)
  <2>1. /\ p \in Pos /\ p.gen \in gens' /\ p.pos \in 1..vis'[p.gen]
        /\ log'[p.gen][p.pos].key = k /\ log'[p.gen][p.pos].op # "torn"
    BY <1>2, PlacesInNext DEF PlacesAre
  <2>2. p.gen \in gens /\ p.pos \in 1..vis[p.gen]
    BY <2>1
  <2>3. log'[p.gen][p.pos] = log[p.gen][p.pos]
    BY ZenonT(40), <2>2
  <2> QED
    BY ZenonT(40), <2>1, <2>2, <2>3, PlacesIn DEF PlacesAre
<1> QED
  BY ZenonT(40), <1>1, <1>2

\* The value the index gives for k, when neither its entry nor the file it
\* names changes under it.
LEMMA LiveSame ==
  ASSUME NEW k, index'[k] = index[k],
         index[k] # NoPos => log'[index[k].gen][index[k].pos] = log[index[k].gen][index[k].pos]
  PROVE  Live(k)' = Live(k)
BY DEF Live, At

\* A command that is only buffered cannot be replayed yet.
LEMMA ReplayRequest ==
  ASSUME BufferIInv, BufferIInv', Request, NEW k \in Keys PROVE Same(k)
<1>0. /\ TypeInv /\ TypeInv' /\ gens \subseteq Gens
      /\ \A g \in Gens : vis[g] \in Nat /\ Len(log[g]) \in Nat /\ vis[g] <= Len(log[g])
  <2>1. TypeInv /\ TypeInv'
    BY DEF BufferIInv, IndexIInv
  <2> QED
    BY ZenonT(40), <2>1, FileBounds
<1>1. ASSUME NEW c \in Command, Ready, WriteCommand(c) \/ WriteCommandFails(c)
      PROVE  Same(k)
  <2>1. /\ mode = "up" /\ mode' = "up" /\ pc = "idle" /\ pc' \in {"idle", "flush"}
        /\ wgen' = wgen /\ index' = index /\ vis' = vis /\ gens' = gens /\ wgen \in Gens
    BY ZenonT(40), <1>0, <1>1 DEF Ready, WriteCommand, WriteCommandFails, Return, memVars, genVars,
       TypeInv, GenBounds
  <2>2. PICK d \in Record : log' = [log EXCEPT ![wgen] = Append(@, d)]
    BY <1>1, TornRecord DEF Record, WriteCommand, WriteCommandFails
  <2>3. /\ Len(log'[wgen]) = Len(log[wgen]) + 1
        /\ \A h \in Gens : \A i \in 1..Len(log[h]) : log'[h][i] = log[h][i]
    BY ZenonT(40), <1>0, <2>1, <2>2, AppendKeeps
  <2>4. \A g \in gens : \A i \in 1..vis[g] : log'[g][i] = log[g][i]
    BY <1>0, <2>3
  <2>5. /\ Places(k)' = Places(k)
        /\ \A p \in Places(k) : log'[p.gen][p.pos] = log[p.gen][p.pos]
    BY ZenonT(40), <1>0, <2>1, <2>4, PlacesSame
  <2>6. Live(k)' = Live(k)
    BY ZenonT(40), <1>0, <2>1, <2>3, LiveSame DEF BufferIInv, IndexIInv, IndexInLog
  <2>7. vis'[wgen'] # Len(log'[wgen'])
    BY <1>0, <2>1, <2>3
  <2>8. Committed(k)' = Committed(k)
    BY <2>1, <2>6, <2>7 DEF Committed
  <2> QED
    BY <2>5, <2>8 DEF Same
<1>2. ASSUME NEW j \in Keys, NEW v \in Vals, Set(j, v) PROVE Same(k)
  BY <1>1, <1>2, CommandType DEF Set
<1>3. ASSUME NEW j \in Keys, Remove(j) PROVE Same(k)
  BY <1>1, <1>3, CommandType DEF Remove
<1>4. ASSUME NEW j \in Keys, RemoveMissing(j) PROVE Same(k)
  <2>1. /\ mode' = mode /\ gens' = gens /\ log' = log /\ vis' = vis /\ index' = index
        /\ wgen' = wgen /\ pc' = pc /\ cursor' = cursor
    BY <1>4 DEF RemoveMissing, diskVars, memVars, genVars
  <2>2. Places(k)' = Places(k)
    BY <2>1 DEF Places, Stored, At
  <2>3. Committed(k)' = Committed(k)
    BY ZenonT(40), <2>1 DEF Committed, Live, At, Cmd
  <2> QED
    BY <2>1, <2>2, <2>3 DEF Same
<1> QED
  BY <1>2, <1>3, <1>4 DEF Request

\* When set or remove updates the index, the command is already in the file.
LEMMA ReplayIndex ==
  ASSUME BufferIInv, BufferIInv', IndexCommand, NEW k \in Keys PROVE Same(k)
<1>0. /\ TypeInv /\ TypeInv' /\ gens \subseteq Gens /\ mode = "up"
      /\ wgen \in Gens /\ wgen = currentGen
  BY ZenonT(40)
     DEF BufferIInv, IndexIInv, TypeInv, TypeOK, GenBounds, OpenInv, IndexCommand
<1>1. /\ pc = "index" /\ pc' \in {"idle", "newlog"} /\ mode' = mode
      /\ wgen' = wgen /\ log' = log /\ vis' = vis /\ gens' = gens /\ cursor' = cursor
  BY ZenonT(40) DEF IndexCommand, Return, diskVars, genVars
<1>2. /\ vis[wgen] = Len(log[wgen]) /\ Cmd \in Command
      /\ Len(log[wgen]) \in Nat /\ Len(log[wgen]) > 0
  BY ZenonT(40), <1>0, <1>1 DEF BufferIInv, BufferInv, IndexIInv, WrittenInv, TypeInv, TypeOK
<1>3. index'[k] = IF k = Cmd.key
                  THEN IF Cmd.op = "set" THEN [gen |-> wgen, pos |-> Len(log[wgen])]
                                         ELSE NoPos
                  ELSE index[k]
  BY <1>0, <1>2 DEF IndexCommand, TypeInv, TypeOK, Command
<1>4. Live(k)' = IF k = Cmd.key THEN Cmd.val ELSE Live(k)
  <2>1. CASE k = Cmd.key /\ Cmd.op = "set"
    <3>1. index'[k].gen = wgen /\ index'[k].pos = Len(log[wgen]) /\ index'[k] # NoPos
      BY <1>0, <1>3, <2>1 DEF NoPos, Gens
    <3> QED
      BY ZenonT(40), <1>1, <2>1, <3>1 DEF Live, At, Cmd
  <2>2. CASE k = Cmd.key /\ Cmd.op # "set"
    <3>1. Cmd.val = NoVal
      BY ZenonT(40), <1>2, <2>2 DEF Command
    <3> QED
      BY ZenonT(40), <1>3, <2>2, <3>1 DEF Live
  <2>3. CASE k # Cmd.key
    BY <1>1, <1>3, <2>3 DEF Live, At
  <2> QED
    BY ZenonT(40), <2>1, <2>2, <2>3
<1>5. Committed(k)' = Committed(k)
  BY ZenonT(40), <1>1, <1>2, <1>4 DEF Committed
<1>6. Places(k)' = Places(k)
  BY ZenonT(40), <1>1 DEF Places, Stored, At
<1> QED
  BY <1>1, <1>5, <1>6 DEF Same

\* The last command of the writer's file comes after every other.
LEMMA LastIsTop ==
  ASSUME BufferIInv, mode = "up", pc \in {"flush", "index"},
         NEW p \in Pos, p.gen \in gens, p.pos \in 1..Len(log[p.gen])
  PROVE  LET t == [gen |-> wgen, pos |-> Len(log[wgen])]
         IN  p = t \/ Before(p, t)
<1>1. p.gen <= wgen /\ p.gen \in Gens /\ wgen \in Gens /\ Len(log[wgen]) \in Nat
  BY DEF BufferIInv, IndexIInv, TypeInv, TypeOK, GenBounds, OpenInv
<1>2. p.gen < wgen \/ (p.gen = wgen /\ p.pos <= Len(log[wgen]))
  BY <1>1 DEF Gens
<1>3. p = [gen |-> p.gen, pos |-> p.pos] /\ p.pos \in Nat
  BY DEF Pos
<1> QED
  BY <1>1, <1>2, <1>3 DEF Before, Gens

\* The command being written reaches the file: it decides about its key, and
\* becomes its committed value; the other keys are not concerned.
LEMMA ReplayCommit ==
  ASSUME BufferIInv, BufferIInv', mode = "up", mode' = "up", pc = "flush",
         pc' \in {"flush", "index"}, wgen' = wgen, log' = log, gens' = gens,
         index' = index, vis'[wgen] = Len(log[wgen]),
         \A g \in Gens : vis[g] <= vis'[g],
         NEW k \in Keys, NEW n \in 0..MaxGen, n <= currentGen, Replays(k, n)
  PROVE  Replays(k, n)'
<1>0. /\ TypeInv /\ TypeInv' /\ gens \subseteq Gens /\ wgen = currentGen
      /\ wgen \in gens /\ wgen \in Gens
      /\ \A g \in Gens : /\ vis[g] \in Nat /\ vis'[g] \in Nat /\ Len(log[g]) \in Nat
                         /\ vis'[g] <= Len(log[g])
  BY DEF BufferIInv, IndexIInv, TypeInv, TypeOK, GenBounds, OpenInv
<1>1. Cmd \in Command /\ Len(log[wgen]) > 0 /\ Cmd.op # "torn" /\ Cmd' = Cmd
  BY DEF BufferIInv, IndexIInv, WrittenInv, Command, Cmd
<1>2. CASE k = Cmd.key
  <2> DEFINE t == [gen |-> wgen, pos |-> Len(log[wgen])]
  <2>1. t \in Pos
    BY <1>0 DEF Pos
  <2>2. t \in Kept(k, n)'
    <3>1. t \in Places(k)'
      BY <1>0, <1>1, <1>2, <2>1, PlacesInNext DEF PlacesAre, Cmd
    <3> QED
      BY ZenonT(40), <1>0, <3>1 DEF Kept
  <2>3. ASSUME NEW p \in Kept(k, n)' PROVE p = t \/ Before(p, t)
    <3>1. p \in Pos /\ p.gen \in gens /\ p.pos \in 1..vis'[p.gen]
      BY ZenonT(40), <1>0, <2>3, PlacesInNext DEF PlacesAre, Kept
    <3>2. p.pos \in 1..Len(log[p.gen])
      BY <1>0, <3>1
    <3> QED
      BY ZenonT(40), <3>1, <3>2, LastIsTop
  <2>4. log'[t.gen][t.pos].val = Cmd.val
    BY DEF Cmd
  <2>5. Committed(k)' = Cmd.val
    BY ZenonT(40), <1>0, <1>1, <1>2 DEF Committed
  <2> HIDE DEF t
  <2>6. Wins(log', Kept(k, n)', Cmd.val)
    BY ZenonT(40), <2>2, <2>3, <2>4, WinsTop
  <2> QED
    BY ZenonT(40), <2>5, <2>6 DEF Replays
<1>3. CASE k # Cmd.key
  <2>1. ASSUME NEW g \in gens', NEW i \in 1..vis'[g]
        PROVE  \/ g \in gens /\ i \in 1..vis[g]
               \/ log'[g][i].op = "torn"
               \/ log'[g][i].key # k
    <3>1. i \in 1..vis[g] \/ i \in (vis[g] + 1)..Len(log[g])
      BY <1>0
    <3> QED
      BY <1>0, <1>3, <3>1 DEF BufferIInv, BufferInv, Cmd
  <2>2. \A g \in gens : \A i \in 1..vis[g] :
            g \in gens' /\ i \in 1..vis'[g] /\ log'[g][i] = log[g][i]
    BY <1>0
  <2>3. /\ Places(k)' = Places(k)
        /\ \A p \in Places(k) : log'[p.gen][p.pos] = log[p.gen][p.pos]
    BY ZenonT(40), <1>0, <2>1, <2>2, PlacesSame
  <2>4. Committed(k)' = Committed(k)
    BY ZenonT(40), <1>1, <1>3 DEF Committed, Live, At
  <2> QED
    BY ZenonT(40), <2>3, <2>4, ReplaySame DEF Same
<1> QED
  BY ZenonT(40), <1>2, <1>3

\* The flush of set and remove is the moment the command takes effect.
LEMMA ReplayFlush ==
  ASSUME BufferIInv, BufferIInv', Flush, NEW k \in Keys,
         NEW n \in 0..MaxGen, n <= currentGen, Replays(k, n)
  PROVE  Replays(k, n)'
<1>1. /\ mode = "up" /\ mode' = "up" /\ pc = "flush" /\ pc' = "index" /\ wgen' = wgen
      /\ log' = log /\ gens' = gens /\ index' = index /\ vis' = Flushed(wgen)
  BY ZenonT(40) DEF Flush, BufferIInv, IndexIInv, TypeInv, TypeOK, GenBounds, memVars, genVars
<1>2. wgen \in Gens
  BY ZenonT(40), <1>1 DEF BufferIInv, IndexIInv, TypeInv, TypeOK, GenBounds
<1>3. vis'[wgen] = Len(log[wgen]) /\ \A g \in Gens : vis[g] <= vis'[g]
  BY <1>1, <1>2, FlushedBuffer
<1> QED
  BY ZenonT(40), <1>1, <1>3, ReplayCommit

\* Copies of a running compaction reach their file: each is the command the
\* index points to, so they agree with the value the index gives.
LEMMA ReplayCopies ==
  ASSUME BufferIInv, BufferIInv', mode = "up", mode' = "up", pc = "copy",
         pc' \in {"copy", "safepoint"}, log' = log, gens' = gens, index' = index,
         \A g \in Gens : vis[g] <= vis'[g],
         \A g \in Gens : g # CompactionGen => vis'[g] = vis[g],
         NEW k \in Keys, NEW n \in 0..MaxGen, Replays(k, n)
  PROVE  Replays(k, n)'
<1>0. TypeInv /\ TypeInv'
  BY ZenonT(40) DEF BufferIInv, IndexIInv
<1>1. /\ gens \subseteq Gens
      /\ \A g \in Gens : /\ vis[g] \in Nat /\ vis'[g] \in Nat /\ Len(log[g]) \in Nat
                         /\ vis'[g] <= Len(log[g])
  BY ZenonT(40), <1>0, FileBounds, FileBoundsNext
<1>2. Committed(k) = Live(k) /\ Committed(k)' = Live(k)
  BY ZenonT(40) DEF Committed, Live, At
<1>3. Kept(k, n) \subseteq Kept(k, n)'
  <2> SUFFICES ASSUME NEW p \in Kept(k, n) PROVE p \in Kept(k, n)'
    OBVIOUS
  <2>1. /\ p \in Pos /\ p.gen \in gens /\ p.pos \in 1..vis[p.gen] /\ p.gen >= n
        /\ log[p.gen][p.pos].key = k /\ log[p.gen][p.pos].op # "torn"
    BY ZenonT(40), <1>0, PlacesIn DEF PlacesAre, Kept
  <2>2. p.pos \in 1..vis'[p.gen]
    BY <1>1, <2>1
  <2> QED
    BY ZenonT(40), <1>0, <2>1, <2>2, PlacesInNext DEF PlacesAre, Kept
<1>4. ASSUME NEW p \in Kept(k, n)'
      PROVE  p \in Kept(k, n) \/ log[p.gen][p.pos].val = Live(k)
  <2>1. /\ p \in Pos /\ p.gen \in gens /\ p.pos \in 1..vis'[p.gen] /\ p.gen >= n
        /\ log[p.gen][p.pos].key = k /\ log[p.gen][p.pos].op # "torn"
    BY ZenonT(40), <1>0, <1>4, PlacesInNext DEF PlacesAre, Kept
  <2>2. CASE p.gen = CompactionGen
    <3>1. p.pos \in 1..Len(log[CompactionGen])
      BY <1>1, <2>1, <2>2
    <3>2. index[k] = [gen |-> CompactionGen, pos |-> p.pos]
      BY ZenonT(40), <2>1, <2>2, <3>1 DEF BufferIInv, CopyInv
    <3>3. index[k] # NoPos
      BY <1>1, <2>1, <2>2, <3>2 DEF NoPos, Gens
    <3> QED
      BY <2>2, <3>2, <3>3 DEF Live, At
  <2>3. CASE p.gen # CompactionGen
    <3>1. p.pos \in 1..vis[p.gen]
      BY ZenonT(40), <1>1, <2>1, <2>3
    <3> QED
      BY <1>0, <2>1, <3>1, PlacesIn DEF PlacesAre, Kept
  <2> QED
    BY ZenonT(40), <2>2, <2>3
<1>5. Wins(log, Kept(k, n), Live(k))
  BY ZenonT(40), <1>2 DEF Replays
<1>6. Wins(log, Kept(k, n)', Live(k))
  BY <1>3, <1>4, <1>5, WinsAgree
<1> QED
  BY ZenonT(40), <1>2, <1>6 DEF Replays

\* A buffer that spills writes a copy, a torn command or the pending command.
LEMMA ReplaySpill ==
  ASSUME BufferIInv, BufferIInv', NEW g \in Gens, Spill(g), NEW k \in Keys,
         NEW n \in 0..MaxGen, n <= currentGen, Replays(k, n)
  PROVE  Replays(k, n)'
<1>0. TypeInv /\ TypeInv'
  BY ZenonT(40) DEF BufferIInv, IndexIInv
<1>1. /\ mode = "up" /\ mode' = "up" /\ pc' = pc /\ pc \in {"flush", "copy"}
      /\ wgen' = wgen /\ log' = log /\ gens' = gens /\ index' = index
      /\ vis[g] < Len(log[g]) /\ g \in {wgen, CompactionGen}
  BY ZenonT(40), <1>0 DEF Spill, TypeInv, TypeOK, GenBounds, memVars, genVars, callVars
<1>2. /\ gens \subseteq Gens /\ wgen \in Gens /\ wgen \in gens /\ wgen = currentGen
      /\ \A h \in Gens : vis[h] \in Nat /\ Len(log[h]) \in Nat /\ vis[h] <= Len(log[h])
  BY <1>0, <1>1 DEF TypeInv, TypeOK, GenBounds, BufferIInv, IndexIInv, OpenInv
<1>3. \A h \in Gens : vis'[h] = IF h = g THEN vis[h] + 1 ELSE vis[h]
  BY <1>0 DEF Spill, TypeInv, TypeOK
<1>4. \A h \in Gens : vis[h] <= vis'[h]
  BY <1>2, <1>3
<1>5. CASE pc = "copy"
  <2>1. g = CompactionGen
    <3>1. log[currentGen] = <<>>
      BY ZenonT(40), <1>1, <1>5 DEF BufferIInv, IndexIInv, OpenInv, Compacting
    <3> QED
      BY <1>1, <1>2, <3>1
  <2> QED
    BY ZenonT(40), <1>1, <1>3, <1>4, <1>5, <2>1, ReplayCopies
<1>6. CASE pc = "flush" /\ g = wgen /\ vis[g] + 1 = Len(log[g])
  <2>1. vis'[wgen] = Len(log[wgen])
    BY ZenonT(40), <1>2, <1>3, <1>6
  <2> QED
    BY ZenonT(40), <1>1, <1>4, <1>6, <2>1, ReplayCommit
<1>7. CASE pc = "flush" /\ ~(g = wgen /\ vis[g] + 1 = Len(log[g]))
  <2>1. log[g][vis[g] + 1].op = "torn"
    <3>1. vis[g] + 1 \in (vis[g] + 1)..Len(log[g])
      BY <1>1, <1>2
    <3>2. \A i \in (vis[g] + 1)..Len(log[g]) :
              log[g][i].op = "torn" \/ (g = wgen /\ i = Len(log[g]))
      BY ZenonT(40), <1>7 DEF BufferIInv, BufferInv
    <3> QED
      BY ZenonT(40), <1>7, <3>1, <3>2
  <2>2. \A h \in gens' : \A i \in 1..vis'[h] :
            (h \in gens /\ i \in 1..vis[h]) \/ log'[h][i].op = "torn"
    BY <1>1, <1>2, <1>3, <2>1
  <2>3. \A h \in gens : \A i \in 1..vis[h] :
            h \in gens' /\ i \in 1..vis'[h] /\ log'[h][i] = log[h][i]
    BY <1>1, <1>2, <1>3
  <2>4. /\ Places(k)' = Places(k)
        /\ \A p \in Places(k) : log'[p.gen][p.pos] = log[p.gen][p.pos]
    BY ZenonT(40), <1>0, <1>1, <2>2, <2>3, PlacesSame
  <2>5. vis'[wgen] = Len(log[wgen]) <=> vis[wgen] = Len(log[wgen])
    BY <1>1, <1>2, <1>3, <1>7
  <2>6. Committed(k)' = Committed(k)
    BY <1>1, <2>5 DEF Committed, Live, At, Cmd
  <2> QED
    BY ZenonT(40), <2>4, <2>6, ReplaySame DEF Same
<1> QED
  BY ZenonT(40), <1>1, <1>5, <1>6, <1>7

\* The steps of compact() other than flushing the copies and deleting files.
LEMMA ReplayCompact ==
  ASSUME BufferIInv, BufferIInv', NEW k \in Keys,
         \/ CompactNewLog \/ CompactNewFile \/ CompactSafePoint \/ CompactDone
         \/ \E j \in Keys : CompactEntry(j)
  PROVE  Same(k)
<1>0. TypeInv /\ TypeInv' /\ IndexIInv /\ IndexIInv'
  BY ZenonT(40) DEF BufferIInv, IndexIInv
<1>1. /\ gens \subseteq Gens
      /\ \A g \in Gens : vis[g] \in Nat /\ Len(log[g]) \in Nat /\ vis[g] <= Len(log[g])
  BY <1>0, FileBounds
<1>2. CASE CompactNewLog \/ CompactNewFile
  <2>1. /\ mode = "up" /\ mode' = "up" /\ pc \in {"newlog", "newcomp"}
        /\ pc' \in {"newcomp", "copy"} /\ log' = log /\ index' = index
        /\ gens \subseteq gens' /\ (vis' = vis \/ (vis' = Flushed(wgen) /\ pc = "newlog"))
    BY ZenonT(40), <1>0, <1>2 DEF CompactNewLog, CompactNewFile, TypeInv, TypeOK, GenBounds, memVars
  <2>2. /\ wgen \in Gens
        /\ \A g \in gens' \ gens : vis'[g] = 0
    <3>1. wgen \in Gens
      BY ZenonT(40), <1>0, <1>1, <2>1 DEF TypeInv, GenBounds
    <3>2. \A g \in gens' \ gens : g \in Gens /\ log[g] = <<>>
      <4>1. gens' \subseteq Gens
        BY <1>0, FileBoundsNext
      <4>2. CASE CompactNewLog
        <5>1. \A g \in gens' \ gens : g = currentGen + 2
          BY ZenonT(40), <4>2 DEF CompactNewLog
        <5>2. \A g \in Gens : g > currentGen => log[g] = <<>>
          BY ZenonT(40), <1>0, <2>1 DEF IndexIInv, OpenInv
        <5>3. currentGen \in Gens
          BY ZenonT(40), <1>0, <2>1 DEF TypeInv, GenBounds
        <5> QED
          BY <4>1, <5>1, <5>2, <5>3 DEF Gens
      <4>3. CASE CompactNewFile
        BY ZenonT(40), <1>0, <2>1, <4>1, <4>3 DEF CompactNewFile, IndexIInv, OpenInv
      <4> QED
        BY ZenonT(40), <1>2, <4>2, <4>3
    <3>3. \A g \in gens' \ gens : Len(log'[g]) = 0
      BY <2>1, <3>2
    <3> QED
      BY <1>0, <3>1, <3>2, <3>3, FileBoundsNext
  <2>3. \A g \in Gens : vis[g] <= vis'[g] /\ vis'[g] <= Len(log[g]) /\ vis'[g] \in Nat
    BY <1>0, <1>1, <2>1, <2>2, FlushedBuffer, FileBoundsNext
  <2>4. ASSUME NEW g \in gens', NEW i \in 1..vis'[g]
        PROVE  (g \in gens /\ i \in 1..vis[g]) \/ log'[g][i].op = "torn"
    <3>1. g \in gens
      BY <2>2, <2>4
    <3>2. i \in 1..vis[g] \/ i \in (vis[g] + 1)..Len(log[g])
      BY <1>1, <2>3, <2>4, <3>1
    <3> QED
      BY ZenonT(40), <1>1, <2>1, <3>1, <3>2 DEF BufferIInv, BufferInv
  <2>5. \A g \in gens : \A i \in 1..vis[g] :
            g \in gens' /\ i \in 1..vis'[g] /\ log'[g][i] = log[g][i]
    BY <1>1, <2>1, <2>3
  <2>6. /\ Places(k)' = Places(k)
        /\ \A p \in Places(k) : log'[p.gen][p.pos] = log[p.gen][p.pos]
    BY ZenonT(40), <1>0, <2>1, <2>4, <2>5, PlacesSame
  <2>7. Committed(k)' = Committed(k)
    BY ZenonT(40), <2>1 DEF Committed, Live, At
  <2> QED
    BY ZenonT(40), <2>6, <2>7 DEF Same
<1>3. CASE CompactSafePoint \/ CompactDone
  <2>1. /\ mode' = mode /\ gens' = gens /\ log' = log /\ vis' = vis /\ index' = index
        /\ pc \in {"safepoint", "unlink"} /\ pc' \in {"unlink", "idle"} /\ cursor' = cursor
    BY <1>3 DEF CompactSafePoint, CompactDone, Return, diskVars, memVars
  <2>2. Places(k)' = Places(k)
    BY ZenonT(40), <2>1 DEF Places, Stored, At
  <2>3. Committed(k)' = Committed(k)
    BY ZenonT(40), <2>1 DEF Committed, Live, At
  <2> QED
    BY ZenonT(40), <2>1, <2>2, <2>3 DEF Same
<1>4. ASSUME NEW j \in Keys, CompactEntry(j) PROVE Same(k)
  <2>1. /\ mode = "up" /\ mode' = "up" /\ pc = "copy" /\ pc' = "copy" /\ j \in todo
        /\ vis' = vis /\ gens' = gens /\ CompactionGen \in Gens
    BY ZenonT(40), <1>0, <1>1, <1>4 DEF CompactEntry, callVars, TypeInv, TypeOK, GenBounds,
       IndexIInv, OpenInv
  <2>2. \A i \in Keys : index[i] # NoPos =>
            index[i].gen \in Gens /\ index[i].pos \in 1..Len(log[index[i].gen])
    BY ZenonT(40), <1>0, <1>1, <2>1 DEF IndexIInv, IndexInLog
  <2>3. index[j] # NoPos
    BY ZenonT(40), <2>1 DEF BufferIInv, CopyInv
  <2> DEFINE c == At(index[j])
  <2>4. c \in Record
    BY <1>0, <2>2, <2>3 DEF At, TypeInv, TypeOK
  <2>5. /\ log'[CompactionGen][NewPos] = c
        /\ \A h \in Gens : \A i \in 1..Len(log[h]) : log'[h][i] = log[h][i]
    <3>1. log' = [log EXCEPT ![CompactionGen] = Append(@, c)]
      BY ZenonT(40), <1>4 DEF CompactEntry
    <3> HIDE DEF c
    <3> QED
      BY ZenonT(40), <1>0, <2>1, <2>4, <3>1, AppendKeeps DEF NewPos
  <2>6. \A g \in gens : \A i \in 1..vis[g] : log'[g][i] = log[g][i]
    BY <1>1, <2>5
  <2>7. /\ Places(k)' = Places(k)
        /\ \A p \in Places(k) : log'[p.gen][p.pos] = log[p.gen][p.pos]
    BY ZenonT(40), <1>0, <2>1, <2>6, PlacesSame
  <2>8. Live(k)' = Live(k)
    <3>1. CASE k = j
      <4>1. index'[k] = [gen |-> CompactionGen, pos |-> NewPos]
        BY ZenonT(40), <1>0, <1>4, <3>1 DEF CompactEntry, TypeInv, TypeOK
      <4>2. index'[k] # NoPos /\ index'[k].gen = CompactionGen /\ index'[k].pos = NewPos
        BY <2>1, <4>1 DEF NoPos, Gens
      <4>3. Live(k)' = c.val
        BY ZenonT(40), <2>5, <4>2 DEF Live, At
      <4>4. Live(k) = c.val
        BY ZenonT(40), <2>3, <3>1 DEF Live
      <4> QED
        BY ZenonT(40), <4>3, <4>4
    <3>2. CASE k # j
      <4>1. index'[k] = index[k]
        BY ZenonT(40), <1>0, <1>4, <3>2 DEF CompactEntry, TypeInv, TypeOK
      <4> QED
        BY ZenonT(40), <2>2, <2>5, <4>1, LiveSame
    <3> QED
      BY <3>1, <3>2
  <2>9. Committed(k)' = Committed(k)
    BY ZenonT(40), <2>1, <2>8 DEF Committed
  <2> QED
    BY <2>7, <2>9 DEF Same
<1> QED
  BY ZenonT(40), <1>2, <1>3, <1>4

\* The flush of compact makes copies visible that agree with the index.
LEMMA ReplayCompactFlush ==
  ASSUME BufferIInv, BufferIInv', CompactFlush, NEW k \in Keys,
         NEW n \in 0..MaxGen, Replays(k, n)
  PROVE  Replays(k, n)'
<1>0. TypeInv /\ IndexIInv
  BY ZenonT(40) DEF BufferIInv, IndexIInv
<1>1. /\ mode = "up" /\ mode' = "up" /\ pc = "copy" /\ pc' = "safepoint"
      /\ log' = log /\ gens' = gens /\ index' = index /\ vis' = Flushed(CompactionGen)
  BY ZenonT(40), <1>0 DEF CompactFlush, TypeInv, TypeOK, GenBounds, memVars
<1>2. CompactionGen \in Gens /\ vis \in [Gens -> Nat]
  BY ZenonT(40), <1>0, <1>1 DEF TypeInv, TypeOK, IndexIInv, OpenInv
<1>3. /\ \A g \in Gens : vis[g] <= vis'[g]
      /\ \A g \in Gens : g # CompactionGen => vis'[g] = vis[g]
  BY ZenonT(40), <1>1, <1>2, FlushedBuffer DEF Flushed
<1> QED
  BY ZenonT(40), <1>1, <1>3, ReplayCopies

-----------------------------------------------------------------------------
(* Replaying the files while stale ones are deleted.                       *)

DurableAre == TypeInv => (Durable <=> (mode # "down" => \A k \in Keys : Replays(k, 0)))

\* Durable in terms of Replays.
LEMMA DurableReplays == DurableAre
<1> SUFFICES ASSUME TypeInv, NEW k \in Keys
             PROVE  ReplaysTo(Places(k), Committed(k)) <=> Replays(k, 0)
  BY ZenonT(40) DEF DurableAre, Durable
<1>1. \A p \in Places(k) : p.gen >= 0
  BY PlacesIn DEF PlacesAre, Pos, Gens
<1>2. Kept(k, 0) = Places(k)
  BY <1>1 DEF Kept
<1> QED
  BY <1>2, ReplaysToWins DEF Replays

\* The same after a step.
LEMMA DurableReplaysNext == DurableAre'
BY DurableReplays, PTL

\* The oldest stale file is deleted: every other file is newer, and the value
\* of every key is in the compaction file.
LEMMA DurableUnlink ==
  ASSUME BufferIInv, BufferIInv', StaleInv, "unlink" \notin Faults,
         NEW g \in Gens, CompactUnlink(g), NEW k \in Keys, Replays(k, 0)
  PROVE  Replays(k, 0)'
<1>0. TypeInv /\ TypeInv' /\ IndexIInv
  BY ZenonT(40) DEF BufferIInv, IndexIInv
<1>1. /\ mode = "up" /\ mode' = "up" /\ pc = "unlink" /\ pc' = "unlink"
      /\ log' = log /\ vis' = vis /\ index' = index /\ FirstStale(g)
      /\ gens' = gens \ {g}
  BY ZenonT(40), <1>0 DEF CompactUnlink, TypeInv, TypeOK, GenBounds, memVars, callVars
<1>2. /\ g \in stale /\ g < CompactionGen /\ CompactionGen \in gens
      /\ CompactionGen \in Gens /\ gens \subseteq Gens
  BY ZenonT(40), <1>0, <1>1 DEF FirstStale, IndexIInv, OpenInv, ProgressInv, TypeInv, TypeOK
<1>3. \A h \in gens : h = g \/ h >= g + 1
  BY <1>1, <1>2 DEF StaleInv, FirstStale, Gens
<1>4. Committed(k) = Live(k) /\ Committed(k)' = Live(k)
  BY ZenonT(40), <1>1 DEF Committed, Live, At
<1>5. \A p \in Places(k) : p \in Pos /\ p.gen \in gens
  BY ZenonT(40), <1>0, PlacesIn DEF PlacesAre
<1>6. Kept(k, 0)' = {p \in Kept(k, 0) : p.gen >= g + 1}
  <2>1. ASSUME NEW p PROVE p \in Places(k)' <=> p \in Places(k) /\ p.gen # g
    BY ZenonT(40), <1>0, <1>1, PlacesIn, PlacesInNext DEF PlacesAre
  <2>2. ASSUME NEW p \in Places(k) PROVE p.gen # g <=> p.gen >= g + 1
    BY <1>3, <1>5 DEF Gens
  <2> QED
    BY ZenonT(40), <2>1, <2>2 DEF Kept
<1>7. Live(k) # NoVal => \E p \in Kept(k, 0) : p.gen >= g + 1 /\ log[p.gen][p.pos].val = Live(k)
  <2> SUFFICES ASSUME Live(k) # NoVal
               PROVE  /\ index[k] \in Kept(k, 0) /\ index[k].gen >= g + 1
                      /\ log[index[k].gen][index[k].pos].val = Live(k)
    OBVIOUS
  <2>1. index[k] # NoPos
    BY ZenonT(40) DEF Live
  <2>2. /\ index[k].gen = CompactionGen
        /\ index[k].pos \in 1..Len(log[index[k].gen])
        /\ index[k].pos <= vis[index[k].gen]
        /\ At(index[k]).op = "set" /\ At(index[k]).key = k
        /\ index[k] \in CommandPos
    BY ZenonT(40), <1>0, <1>1, <2>1 DEF IndexIInv, ProgressInv, IndexInLog, BufferIInv, VisibleInv,
       TypeInv, TypeOK
  <2>3. vis[index[k].gen] \in Nat /\ Len(log[index[k].gen]) \in Nat
    BY ZenonT(40), <1>0, <1>2, <2>2, FileBounds
  <2>4. index[k].pos \in 1..vis[index[k].gen] /\ index[k] \in Pos
    BY <1>2, <2>2, <2>3 DEF CommandPos, Pos
  <2>5. index[k] \in Places(k)
    BY ZenonT(40), <1>0, <1>1, <1>2, <2>2, <2>4, PlacesIn DEF PlacesAre, At
  <2> QED
    BY <1>2, <2>1, <2>2, <2>5 DEF Kept, Live, At, Gens
<1>8. Kept(k, 0) \in SUBSET Pos /\ g + 1 \in Nat
  BY <1>5 DEF Kept, Gens
<1>9. Wins(log, {p \in Kept(k, 0) : p.gen >= g + 1}, Live(k))
  BY ZenonT(40), <1>4, <1>7, <1>8, WinsDrop DEF Replays
<1> QED
  BY ZenonT(40), <1>1, <1>4, <1>6, <1>9 DEF Replays

\* How the committed value of a key may change.
Commits(k) ==
    \/ Committed(k)' = Committed(k)
    \/ pc = "flush" /\ Cmd.key = k /\ Committed(k)' = Cmd.val

\* While the store is open, only the bytes of the command being written
\* commit anything.
LEMMA CommittedStep ==
  ASSUME BufferIInv, BufferIInv', "create" \notin Faults, "flush" \notin Faults,
         [Next]_vars, mode = "up", mode' = "up", NEW k \in Keys
  PROVE  Commits(k)
<1>1. CASE \/ Request \/ IndexCommand \/ CompactNewLog \/ CompactNewFile
           \/ CompactSafePoint \/ CompactDone \/ \E j \in Keys : CompactEntry(j)
  BY ZenonT(40), <1>1, ReplayRequest, ReplayIndex, ReplayCompact DEF Commits, Same
<1>2. CASE /\ UNCHANGED <<log, index, wgen>>
           /\ pc' = pc \/ (pc = "flush" /\ pc' = "index")
                       \/ {pc, pc'} \cap {"flush", "index"} = {}
           /\ pc = "index" => vis' = vis
  <2>1. Live(k)' = Live(k) /\ Cmd' = Cmd
    BY ZenonT(40), <1>2 DEF Live, At, Cmd
  <2>2. vis[wgen] = Len(log[wgen]) => vis'[wgen'] = Len(log'[wgen'])
    <3>1. wgen \in Gens /\ TypeInv /\ TypeInv' /\ vis[wgen] <= vis'[wgen]
      BY ZenonT(40), FilesAreKept DEF FilesKept, BufferIInv, IndexIInv, TypeInv, TypeOK, GenBounds
    <3> QED
      BY <1>2, <3>1, FileBounds, FileBoundsNext
  <2> QED
    BY ZenonT(40), <1>2, <2>1, <2>2 DEF Commits, Committed
<1>3. CASE UNCHANGED vars \/ Flush \/ CompactFlush \/ (\E g \in Gens : Spill(g) \/ CompactUnlink(g))
           \/ \E j \in Keys : CompactEntryFails(j)
  BY <1>2, <1>3 DEF vars, diskVars, memVars, genVars, callVars, Flush, CompactFlush, Spill,
     CompactUnlink, CompactEntryFails, Return
<1> QED
  BY ZenonT(40), <1>1, <1>3 DEF Next, WriterStep, Compact, FlushFails, CompactNewLogFails, CompactCallFails,
     Open, OpenStart, LoadCommand, OpenDone, OpenFails, LoadNextFile, Crash

-----------------------------------------------------------------------------
(* Crash safety.                                                           *)

\* load moves its cursor over one command and enters it in the index: what was
\* replayed so far is what the index gives.
LEMMA DurableLoad ==
  ASSUME BufferIInv, BufferIInv', LoadCommand, NEW k \in Keys, Replays(k, 0)
  PROVE  Replays(k, 0)'
<1>0. TypeInv /\ TypeInv' /\ IndexIInv /\ IndexIInv'
  BY DEF BufferIInv, IndexIInv
<1>1. /\ mode = "load" /\ mode' = "load" /\ pc = "idle" /\ pc' = "idle"
      /\ log' = log /\ gens' = gens /\ vis' = vis
      /\ cursor' = [gen |-> cursor.gen, pos |-> cursor.pos + 1]
      /\ At(cursor).op # "torn" /\ cursor.gen # 0
      /\ ~(cursor.pos > Len(log[cursor.gen]))
  BY <1>0 DEF LoadCommand, AtEndOfFile, TypeInv, GenBounds, diskVars, callVars
<1>2. /\ cursor.gen \in gens /\ cursor.gen \in Gens /\ cursor \in Pos
      /\ cursor.pos \in 1..vis[cursor.gen]
  <2>1. cursor.gen \in gens /\ cursor.gen \in Gens
    BY ZenonT(40), <1>0, <1>1, FileBounds DEF TypeInv, GenBounds
  <2>2. vis[cursor.gen] = Len(log[cursor.gen]) /\ Len(log[cursor.gen]) \in Nat
    BY <1>0, <1>1, <2>1, FileBounds DEF IndexIInv, ClosedInv
  <2>3. cursor.pos \in 1..(Len(log[cursor.gen]) + 1)
    BY ZenonT(40), <1>0, <1>1 DEF IndexIInv, CursorInv
  <2>4. cursor \in CommandPos
    BY ZenonT(40), <1>0 DEF TypeInv, TypeOK
  <2> QED
    BY <1>1, <2>1, <2>2, <2>3, <2>4 DEF CommandPos, Pos
<1>3. At(cursor) \in Command
  <2>1. vis[cursor.gen] <= Len(log[cursor.gen]) /\ log[cursor.gen] \in Seq(Record)
        /\ Len(log[cursor.gen]) \in Nat /\ vis[cursor.gen] \in Nat
    BY <1>0, <1>2 DEF TypeInv, TypeOK, GenBounds
  <2>2. At(cursor) \in Record
    BY <1>2, <2>1 DEF At
  <2> QED
    BY <1>1, <2>2 DEF Record, Torn
<1>4. Committed(k) = Live(k) /\ Committed(k)' = Live(k)'
  BY <1>1 DEF Committed
<1>5. index'[k] = IF k = At(cursor).key
                  THEN IF At(cursor).op = "set" THEN cursor ELSE NoPos
                  ELSE index[k]
  BY ZenonT(40), <1>0, <1>3 DEF LoadCommand, TypeInv, TypeOK, Command
<1>6. ASSUME NEW p \in Pos PROVE Before(p, cursor') <=> p = cursor \/ Before(p, cursor)
  <2>1. p = [gen |-> p.gen, pos |-> p.pos] /\ p.gen \in Gens /\ p.pos \in Nat
    BY DEF Pos
  <2>2. cursor = [gen |-> cursor.gen, pos |-> cursor.pos] /\ cursor.pos \in Nat
    BY ZenonT(40), <1>2 DEF Pos
  <2> QED
    BY <1>1, <1>2, <2>1, <2>2 DEF Before, Gens
<1>7. CASE k = At(cursor).key
  <2>1. ASSUME NEW p PROVE p \in Places(k)' <=> p = cursor \/ p \in Places(k)
    BY <1>0, <1>1, <1>2, <1>6, <1>7, PlacesIn, PlacesInNext DEF PlacesAre, At
  <2>2. \A p \in Places(k) : Before(p, cursor)
    BY ZenonT(40), <1>0, <1>1, PlacesIn DEF PlacesAre
  <2>3. Live(k)' = At(cursor).val
    <3>1. CASE At(cursor).op = "set"
      <4>1. index'[k] = cursor /\ cursor # NoPos
        BY <1>1, <1>5, <1>7, <3>1 DEF NoPos
      <4> QED
        BY <1>1, <4>1 DEF Live, At
    <3>2. CASE At(cursor).op # "set"
      BY ZenonT(40), <1>3, <1>5, <1>7, <3>2 DEF Live, Command
    <3> QED
      BY ZenonT(40), <3>1, <3>2
  <2>4. cursor \in Kept(k, 0)' /\ \A p \in Kept(k, 0)' : p = cursor \/ Before(p, cursor)
    BY <1>2, <2>1, <2>2 DEF Kept, Gens
  <2>5. log'[cursor.gen][cursor.pos].val = At(cursor).val
    BY ZenonT(40), <1>1 DEF At
  <2>6. Wins(log', Kept(k, 0)', At(cursor).val)
    BY ZenonT(40), <2>4, <2>5, WinsTop
  <2> QED
    BY ZenonT(40), <1>4, <2>3, <2>6 DEF Replays
<1>8. CASE k # At(cursor).key
  <2>1. ASSUME NEW p PROVE p \in Places(k)' <=> p \in Places(k)
    BY <1>0, <1>1, <1>2, <1>6, <1>8, PlacesIn, PlacesInNext DEF PlacesAre, At
  <2>2. Live(k)' = Live(k)
    BY ZenonT(40), <1>1, <1>5, <1>8, LiveSame
  <2>3. Places(k)' = Places(k)
    BY <2>1
  <2>4. Same(k)
    BY ZenonT(40), <1>1, <1>4, <2>2, <2>3 DEF Same
  <2> QED
    BY ZenonT(40), <2>4, ReplaySame
<1> QED
  BY ZenonT(40), <1>7, <1>8

\* The steps of open that read no command.
LEMMA DurableOpen ==
  ASSUME BufferIInv, BufferIInv', NEW k \in Keys, mode # "down" => Replays(k, 0),
         OpenStart \/ OpenDone \/ \E g \in gens : LoadNextFile(g)
  PROVE  Replays(k, 0)'
<1>0. TypeInv /\ TypeInv' /\ IndexIInv /\ IndexIInv'
  BY DEF BufferIInv, IndexIInv
<1>1. CASE OpenStart
  <2>1. /\ mode = "down" /\ mode' = "load" /\ pc' = "idle" /\ index' = index
        /\ cursor' = NoPos /\ index[k] = NoPos
    BY ZenonT(40), <1>0, <1>1 DEF OpenStart, TypeInv, TypeOK, GenBounds, IndexIInv, ClosedInv,
       memVars, callVars
  <2>2. Committed(k)' = NoVal
    BY ZenonT(40), <2>1 DEF Committed, Live
  <2>3. \A p \in Pos : ~Before(p, NoPos)
    BY DEF Before, NoPos, Pos, Gens
  <2>4. \A p : p \notin Places(k)'
    BY <1>0, <2>1, <2>3, PlacesInNext DEF PlacesAre
  <2> QED
    BY ZenonT(40), <2>2, <2>4 DEF Replays, Wins, Kept
<1>2. CASE OpenDone \/ \E g \in gens : LoadNextFile(g)
  <2>1. /\ mode = "load" /\ pc = "idle" /\ pc' = "idle"
        /\ log' = log /\ vis' = vis /\ index' = index /\ AtEndOfFile
        /\ cursor \in CommandPos
    BY ZenonT(40), <1>0, <1>2 DEF OpenDone, AllLoaded, LoadNextFile, TypeInv, TypeOK, GenBounds,
       diskVars, memVars, callVars
  <2>2. Committed(k)' = Committed(k)
    BY <2>1 DEF Committed, Live, At
  <2>3. \A g \in gens : /\ g \in Gens /\ vis[g] \in Nat
                        /\ g = cursor.gen => cursor.pos > vis[g]
    <3>1. \A g \in gens : g \in Gens /\ vis[g] \in Nat /\ vis[g] = Len(log[g])
      BY ZenonT(40), <1>0, <2>1, FileBounds DEF IndexIInv, ClosedInv
    <3> QED
      BY <2>1, <3>1 DEF AtEndOfFile, Gens
  <2>4. \A p \in Pos : p.gen \in Gens /\ p.pos \in Nat
    BY DEF Pos
  <2>5. CASE OpenDone
    <3>1. /\ mode' = "up" /\ gens' = gens \cup {cursor.gen + 1}
          /\ \A g \in gens : g <= cursor.gen
      BY ZenonT(40), <2>5 DEF OpenDone, AllLoaded
    <3>2. ASSUME NEW g \in gens' PROVE g \in gens \/ vis[g] = 0
      <4>1. g \in Gens /\ (g \notin gens => log[g] = <<>> /\ vis[g] = Len(log[g]))
        BY ZenonT(40), <1>0, <2>1, FileBoundsNext DEF IndexIInv, ClosedInv
      <4> QED
        BY <4>1
    <3>3. ASSUME NEW p \in Pos, p.gen \in gens, p.pos \in 1..vis[p.gen]
          PROVE  Before(p, cursor)
      BY <2>1, <2>3, <2>4, <3>1, <3>3 DEF Before, CommandPos, Gens
    <3>4. ASSUME NEW p PROVE p \in Places(k)' <=> p \in Places(k)
      BY <1>0, <2>1, <3>1, <3>2, <3>3, PlacesIn, PlacesInNext DEF PlacesAre
    <3>5. Same(k)
      BY ZenonT(40), <2>1, <2>2, <3>4 DEF Same
    <3> QED
      BY ZenonT(40), <2>1, <3>5, ReplaySame
  <2>6. ASSUME NEW g \in gens, LoadNextFile(g) PROVE Replays(k, 0)'
    <3>1. /\ mode' = "load" /\ gens' = gens /\ cursor' = [gen |-> g, pos |-> 1]
          /\ g > cursor.gen /\ \A f \in gens : f > cursor.gen => f >= g
      BY <2>6 DEF LoadNextFile, Following, diskVars
    <3>2. ASSUME NEW p \in Pos, p.gen \in gens, p.pos \in 1..vis[p.gen]
          PROVE  Before(p, cursor') <=> Before(p, cursor)
      <4>1. Before(p, cursor) <=> p.gen <= cursor.gen
        BY <2>1, <2>3, <2>4, <3>2 DEF Before, CommandPos, Gens
      <4>2. Before(p, cursor') <=> p.gen < g
        BY <2>3, <2>4, <3>1, <3>2 DEF Before, Gens
      <4>3. p.gen < g <=> p.gen <= cursor.gen
        BY <2>1, <2>3, <3>1, <3>2 DEF CommandPos, Gens
      <4> QED
        BY ZenonT(40), <4>1, <4>2, <4>3
    <3>3. ASSUME NEW p PROVE p \in Places(k)' <=> p \in Places(k)
      BY ZenonT(40), <1>0, <2>1, <3>1, <3>2, PlacesIn, PlacesInNext DEF PlacesAre
    <3>4. Same(k)
      BY <2>1, <2>2, <3>3 DEF Same
    <3> QED
      BY ZenonT(40), <2>1, <3>4, ReplaySame
  <2> QED
    BY ZenonT(40), <1>2, <2>5, <2>6
<1> QED
  BY <1>1, <1>2

\* Every step but those of open, a deletion and a crash keeps Replays.
LEMMA ReplayOther ==
  ASSUME BufferIInv, BufferIInv', "create" \notin Faults, "flush" \notin Faults,
         NEW k \in Keys, NEW n \in 0..MaxGen, n <= currentGen, Replays(k, n),
         \/ Request \/ Flush \/ FlushFails \/ IndexCommand
         \/ CompactNewLog \/ CompactNewLogFails \/ CompactNewFile \/ CompactCallFails
         \/ CompactFlush \/ CompactDone \/ CompactSafePoint
         \/ \E j \in Keys : CompactEntry(j) \/ CompactEntryFails(j)
         \/ \E g \in Gens : Spill(g)
  PROVE  Replays(k, n)'
<1>1. ~FlushFails /\ ~CompactNewLogFails /\ ~CompactCallFails
  BY ZenonT(40) DEF FlushFails, CompactNewLogFails, CompactCallFails
<1>2. \A j \in Keys : ~CompactEntryFails(j)
  <2> SUFFICES ASSUME NEW j \in Keys, CompactEntryFails(j) PROVE FALSE
    OBVIOUS
  <2>1. pc = "copy" /\ j \in todo /\ ~Readable(index[j])
    BY ZenonT(40) DEF CompactEntryFails
  <2>2. /\ index[j] # NoPos /\ index[j].gen < CompactionGen /\ mode = "up"
        /\ CompactionGen \in Gens
    <3>1. mode = "up"
      BY ZenonT(40), <2>1 DEF BufferIInv, IndexIInv, TypeInv, TypeOK, GenBounds
    <3>2. CompactionGen \in Gens
      BY ZenonT(40), <2>1, <3>1 DEF BufferIInv, IndexIInv, TypeInv, TypeOK, OpenInv
    <3> QED
      BY ZenonT(40), <2>1, <3>1, <3>2 DEF BufferIInv, CopyInv
  <2>3. index[j].gen \in gens /\ index[j].gen \in Gens /\ index[j].pos \in 1..Len(log[index[j].gen])
    BY ZenonT(40), <2>2 DEF BufferIInv, IndexIInv, IndexInLog, TypeInv, TypeOK
  <2>4. index[j].pos <= vis[index[j].gen] /\ vis[index[j].gen] \in Nat
    <3>1. index[j].gen # CompactionGen /\ vis[index[j].gen] \in Nat
      BY <2>2, <2>3 DEF BufferIInv, IndexIInv, TypeInv, TypeOK, Gens
    <3> QED
      BY ZenonT(40), <2>2, <3>1 DEF BufferIInv, VisibleInv
  <2> QED
    BY <2>1, <2>3, <2>4 DEF Readable
<1>3. CASE \/ Request \/ IndexCommand \/ CompactNewLog \/ CompactNewFile
           \/ CompactSafePoint \/ CompactDone \/ \E j \in Keys : CompactEntry(j)
  <2>1. Same(k)
    BY ZenonT(40), <1>3, ReplayRequest, ReplayIndex, ReplayCompact
  <2> QED
    BY <2>1, ReplaySame
<1> QED
  BY ZenonT(40), <1>1, <1>2, <1>3, ReplayFlush, ReplayCompactFlush, ReplaySpill

\* The inductive step of AlwaysDurable.
LEMMA DurableStep ==
  ASSUME Faults \subseteq {"write"} PROVE IInv /\ [Next]_vars => IInv'
<1> SUFFICES ASSUME IInv, [Next]_vars PROVE IInv'
  OBVIOUS
<1>0. "create" \notin Faults /\ "flush" \notin Faults /\ "unlink" \notin Faults
  OBVIOUS
<1>1. BufferIInv /\ BufferIInv' /\ StaleInv /\ StaleInv'
  BY ZenonT(40), <1>0, BufferStep, StaleStep DEF IInv
<1>2. TypeInv /\ TypeInv'
  BY <1>1 DEF BufferIInv, IndexIInv
<1>3. ASSUME NEW k \in Keys, mode' # "down", mode # "down" => Replays(k, 0)
      PROVE  Replays(k, 0)'
  <2>1. CASE UNCHANGED vars
    <3>1. /\ mode' = mode /\ gens' = gens /\ log' = log /\ vis' = vis /\ index' = index
          /\ wgen' = wgen /\ pc' = pc /\ cursor' = cursor
      BY ZenonT(40), <2>1 DEF vars, diskVars, memVars, genVars, callVars
    <3>2. Places(k)' = Places(k) /\ Committed(k)' = Committed(k)
      BY ZenonT(40), <3>1 DEF Places, Stored, Committed, Live, At, Cmd
    <3> QED
      BY ZenonT(40), <1>3, <3>1, <3>2, ReplaySame DEF Same
  <2>2. CASE Open
    <3>1. ~OpenFails
      BY <1>3 DEF OpenFails
    <3>2. LoadCommand => mode # "down"
      BY ZenonT(40) DEF LoadCommand
    <3> QED
      BY ZenonT(40), <1>1, <1>3, <2>2, <3>1, <3>2, DurableOpen, DurableLoad DEF Open
  <2>3. CASE \E g \in Gens : CompactUnlink(g)
    <3>1. mode # "down"
      BY ZenonT(40), <1>2, <2>3 DEF CompactUnlink, TypeInv, GenBounds
    <3> QED
      BY ZenonT(40), <1>0, <1>1, <1>3, <2>3, <3>1, DurableUnlink
  <2>4. ~Crash
    BY ZenonT(40), <1>3 DEF Crash
  <2>5. CASE ~Open /\ ~(UNCHANGED vars) /\ ~(\E g \in Gens : CompactUnlink(g))
    <3>1. \/ Request \/ Flush \/ FlushFails \/ IndexCommand
          \/ CompactNewLog \/ CompactNewLogFails \/ CompactNewFile \/ CompactCallFails
          \/ CompactFlush \/ CompactDone \/ CompactSafePoint
          \/ \E j \in Keys : CompactEntry(j) \/ CompactEntryFails(j)
          \/ \E g \in Gens : Spill(g)
      BY <2>4, <2>5 DEF Next, WriterStep, Compact
    <3>2. mode' = mode
      BY ZenonT(40), <3>1 DEF Request, Set, Remove, RemoveMissing, WriteCommand, WriteCommandFails,
         Flush, FlushFails, IndexCommand, CompactNewLog, CompactNewLogFails,
         CompactNewFile, CompactCallFails, CompactFlush, CompactDone, CompactSafePoint,
         CompactEntry, CompactEntryFails, Spill
    <3>3. 0 \in 0..MaxGen /\ 0 <= currentGen
      BY <1>2, ConstantsAssumption DEF ConstantsAssumption, TypeInv, TypeOK
    <3> QED
      BY ZenonT(40), <1>0, <1>1, <1>3, <3>1, <3>2, <3>3, ReplayOther
  <2> QED
    BY ZenonT(40), <2>1, <2>2, <2>3, <2>5
<1>4. Durable'
  BY <1>2, <1>3, DurableReplays, DurableReplaysNext DEF DurableAre, IInv
<1> QED
  BY <1>1, <1>4 DEF IInv

\* Crash safety for every number of keys, values, files and commands: at every
\* step of set, remove, compact and open, replaying what is in the files gives
\* each key the value the index gives it, or that of the command that has just
\* reached its file; as long as only serialising a command may fail.
THEOREM AlwaysDurable ==
  ASSUME Faults \subseteq {"write"} PROVE Spec => []Durable
<1>1. Init => IInv
  BY BufferInit DEF Init, IInv, StaleInv, Durable
<1>2. IInv /\ [Next]_vars => IInv'
  BY DurableStep
<1>3. IInv => Durable
  BY ZenonT(40) DEF IInv
<1> QED
  BY <1>1, <1>2, <1>3, PTL DEF Spec

-----------------------------------------------------------------------------
(* The safe point.                                                         *)

SafePointIInv == BufferIInv /\ SafePointSuffices

SafePointAre ==
    SafePointSuffices <=>
        (mode = "up" /\ safePoint > 0 => \A k \in Keys : Replays(k, safePoint))

\* SafePointSuffices in terms of Replays.
LEMMA SafePointReplays == SafePointAre
BY ZenonT(40), ReplaysToWins DEF SafePointAre, SafePointSuffices, Replays, Kept

\* The same after a step.
LEMMA SafePointReplaysNext == SafePointAre'
BY SafePointReplays, PTL

\* When the safe point moves, the compaction file alone gives every key the
\* value the index gives it: it holds exactly what the index points to.
LEMMA SafePointMoves ==
  ASSUME BufferIInv, pc = "safepoint", NEW k \in Keys
  PROVE  Replays(k, CompactionGen)
<1>0. TypeInv /\ IndexIInv
  BY ZenonT(40) DEF BufferIInv, IndexIInv
<1>1. mode = "up"
  BY ZenonT(40), <1>0 DEF TypeInv, TypeOK, GenBounds
<1>2. /\ gens \subseteq Gens /\ CompactionGen \in gens /\ currentGen \in Gens
      /\ log[currentGen] = <<>> /\ \A g \in gens : g <= currentGen
      /\ \A g \in Gens : vis[g] \in Nat /\ Len(log[g]) \in Nat /\ vis[g] <= Len(log[g])
  BY ZenonT(40), <1>0, <1>1, FileBounds DEF IndexIInv, OpenInv, Compacting, TypeInv, GenBounds
<1>3. Committed(k) = Live(k)
  BY ZenonT(40) DEF Committed
<1>4. ASSUME NEW p \in Kept(k, CompactionGen) PROVE index[k] = p
  <2>1. /\ p \in Pos /\ p.gen \in gens /\ p.pos \in 1..vis[p.gen] /\ p.gen >= CompactionGen
        /\ log[p.gen][p.pos].key = k
    BY ZenonT(40), <1>0, <1>4, PlacesIn DEF PlacesAre, Kept
  <2>2. p.gen # currentGen /\ p.pos \in 1..Len(log[p.gen])
    <3>1. /\ vis[p.gen] \in Nat /\ Len(log[p.gen]) \in Nat /\ vis[p.gen] <= Len(log[p.gen])
      BY ZenonT(40), <1>2, <2>1
    <3>2. p.pos \in 1..Len(log[p.gen])
      BY <2>1, <3>1
    <3>3. Len(log[p.gen]) # 0
      BY <3>1, <3>2
    <3> QED
      BY <1>2, <3>2, <3>3
  <2>3. p.gen = CompactionGen
    <3>1. p.gen <= currentGen /\ p.gen \in Gens /\ currentGen \in Gens
      BY ZenonT(40), <1>2, <2>1
    <3> QED
      BY <2>1, <2>2, <3>1 DEF CompactionGen, Gens
  <2>4. index[k] = [gen |-> CompactionGen, pos |-> p.pos]
    BY ZenonT(40), <2>1, <2>2, <2>3 DEF BufferIInv, CopyInv
  <2> QED
    BY ZenonT(40), <2>1, <2>3, <2>4 DEF Pos
<1>5. ASSUME index[k] # NoPos PROVE index[k] \in Kept(k, CompactionGen)
  <2>1. /\ index[k].gen = CompactionGen /\ index[k].pos \in 1..Len(log[index[k].gen])
        /\ index[k].pos <= vis[index[k].gen]
        /\ At(index[k]).op = "set" /\ At(index[k]).key = k /\ index[k] \in CommandPos
    BY ZenonT(40), <1>0, <1>1, <1>5 DEF IndexIInv, ProgressInv, IndexInLog, BufferIInv, VisibleInv,
       TypeInv, TypeOK
  <2>2. index[k].pos \in 1..vis[index[k].gen] /\ index[k] \in Pos
    <3>1. /\ vis[index[k].gen] \in Nat /\ Len(log[index[k].gen]) \in Nat
          /\ index[k].gen \in Gens
      BY ZenonT(40), <1>2, <2>1
    <3> QED
      BY <2>1, <3>1 DEF CommandPos, Pos
  <2>3. index[k] \in Places(k)
    BY ZenonT(40), <1>0, <1>1, <1>2, <2>1, <2>2, PlacesIn DEF PlacesAre, At
  <2>4. CompactionGen \in Gens /\ CompactionGen >= CompactionGen
    BY <1>2 DEF Gens
  <2> QED
    BY ZenonT(40), <2>1, <2>3, <2>4 DEF Kept
<1>6. \A p \in Kept(k, CompactionGen) : index[k] # NoPos
  BY <1>0, <1>4, PlacesIn DEF PlacesAre, Kept, Pos, NoPos, Gens
<1>7. \A p \in Kept(k, CompactionGen) : log[p.gen][p.pos].val = Live(k)
  BY <1>4, <1>6 DEF Live, At
<1>8. Live(k) # NoVal => \E p \in Kept(k, CompactionGen) : log[p.gen][p.pos].val = Live(k)
  BY ZenonT(40), <1>5, <1>7 DEF Live
<1> QED
  BY ZenonT(40), <1>3, <1>7, <1>8 DEF Replays, Wins

\* Files below the safe point do not count, so deleting one changes nothing.
LEMMA SafePointUnlink ==
  ASSUME BufferIInv, BufferIInv', NEW g \in Gens, CompactUnlink(g), NEW k \in Keys,
         NEW n \in 0..MaxGen, n = safePoint, Replays(k, n)
  PROVE  Replays(k, n)'
<1>0. TypeInv /\ TypeInv' /\ IndexIInv
  BY DEF BufferIInv, IndexIInv
<1>1. /\ mode = "up" /\ mode' = "up" /\ pc = "unlink" /\ pc' = "unlink"
      /\ log' = log /\ vis' = vis /\ index' = index
      /\ gens' = gens \/ gens' = gens \ {g}
      /\ g < n
  BY ZenonT(40), <1>0 DEF CompactUnlink, FirstStale, IndexIInv, ProgressInv, TypeInv, TypeOK,
     GenBounds, memVars, callVars
<1>2. \A p \in Pos : p.gen >= n => (p.gen \in gens' <=> p.gen \in gens)
  BY <1>1 DEF Pos, Gens
<1>3. ASSUME NEW p PROVE p \in Kept(k, n)' <=> p \in Kept(k, n)
  BY ZenonT(40), <1>0, <1>1, <1>2, PlacesIn, PlacesInNext DEF PlacesAre, Kept
<1>4. Kept(k, n)' = Kept(k, n)
  BY ZenonT(40), <1>3 DEF Kept
<1>5. Committed(k)' = Committed(k)
  BY <1>1 DEF Committed, Live, At
<1> QED
  BY ZenonT(40), <1>1, <1>4, <1>5 DEF Replays

\* The inductive step of AlwaysSafePointSuffices.
LEMMA SafePointStep ==
  ASSUME Faults \subseteq {"write", "unlink"}
  PROVE  SafePointIInv /\ [Next]_vars => SafePointIInv'
<1> SUFFICES ASSUME SafePointIInv, [Next]_vars PROVE SafePointIInv'
  OBVIOUS
<1>0. "create" \notin Faults /\ "flush" \notin Faults
  OBVIOUS
<1>1. BufferIInv /\ BufferIInv' /\ IndexIInv /\ IndexIInv'
  BY ZenonT(40), <1>0, BufferStep DEF SafePointIInv, BufferIInv
<1>2. TypeInv /\ TypeInv'
  BY ZenonT(40), <1>1 DEF IndexIInv
<1>3. ASSUME NEW k \in Keys, mode' = "up", safePoint' > 0
      PROVE  Replays(k, safePoint)'
  <2>1. PICK n \in 0..MaxGen : n = safePoint'
    BY ZenonT(40), <1>2 DEF TypeInv, TypeOK
  <2>2. CASE CompactSafePoint
    <3>1. /\ n = CompactionGen /\ pc = "safepoint"
      BY <2>1, <2>2 DEF CompactSafePoint
    <3>2. Replays(k, n)
      BY ZenonT(40), <1>1, <3>1, SafePointMoves
    <3>3. Same(k)
      BY ZenonT(40), <1>1, <2>2, ReplayCompact
    <3>4. Replays(k, n)'
      BY ZenonT(40), <3>2, <3>3, ReplaySame
    <3> QED
      BY ZenonT(40), <2>1, <3>4 DEF Replays, Kept
  <2>3. CASE Open \/ Crash
    BY <1>1, <1>3, <2>3 DEF Open, OpenStart, LoadCommand, OpenDone, OpenFails, Crash,
       LoadNextFile, IndexIInv, ClosedInv
  <2>4. CASE ~CompactSafePoint /\ ~Open /\ ~Crash
    <3>1. /\ safePoint' = safePoint /\ mode' = mode
      BY ZenonT(40), <2>4
         DEF Next, WriterStep, Compact, Request, Set, Remove, RemoveMissing,
         WriteCommand, WriteCommandFails, Flush, FlushFails, IndexCommand,
         CompactNewLog, CompactNewLogFails, CompactNewFile, CompactCallFails,
         CompactFlush, CompactDone, CompactEntry, CompactEntryFails, CompactUnlink,
         Spill, vars, genVars
    <3>2. Replays(k, n) /\ n = safePoint /\ n <= currentGen
      BY ZenonT(40), <1>1, <1>3, <2>1, <3>1, SafePointReplays DEF SafePointAre, SafePointIInv,
         IndexIInv, OpenInv
    <3>3. CASE UNCHANGED vars
      <4>1. /\ mode' = mode /\ gens' = gens /\ log' = log /\ vis' = vis /\ index' = index
            /\ wgen' = wgen /\ pc' = pc /\ cursor' = cursor
        BY ZenonT(40), <3>3 DEF vars, diskVars, memVars, genVars, callVars
      <4>2. Places(k)' = Places(k) /\ Committed(k)' = Committed(k)
        BY ZenonT(40), <4>1 DEF Places, Stored, Committed, Live, At, Cmd
      <4>3. Same(k)
        BY ZenonT(40), <4>1, <4>2 DEF Same
      <4>4. Replays(k, n)'
        BY ZenonT(40), <3>2, <4>3, ReplaySame
      <4> QED
        BY <2>1, <4>4 DEF Replays, Kept
    <3>4. CASE \E g \in Gens : CompactUnlink(g)
      <4>1. Replays(k, n)'
        BY ZenonT(40), <1>1, <3>2, <3>4, SafePointUnlink
      <4> QED
        BY <2>1, <4>1 DEF Replays, Kept
    <3>5. CASE ~(UNCHANGED vars) /\ ~(\E g \in Gens : CompactUnlink(g))
      <4>1. \/ Request \/ Flush \/ FlushFails \/ IndexCommand
            \/ CompactNewLog \/ CompactNewLogFails \/ CompactNewFile \/ CompactCallFails
            \/ CompactFlush \/ CompactDone \/ CompactSafePoint
            \/ \E j \in Keys : CompactEntry(j) \/ CompactEntryFails(j)
            \/ \E g \in Gens : Spill(g)
        BY ZenonT(40), <2>4, <3>5 DEF Next, WriterStep, Compact
      <4>2. Replays(k, n)'
        BY ZenonT(40), <1>0, <1>1, <3>2, <4>1, ReplayOther
      <4> QED
        BY <2>1, <4>2 DEF Replays, Kept
    <3> QED
      BY ZenonT(40), <3>3, <3>4, <3>5
  <2> QED
    BY ZenonT(40), <2>2, <2>3, <2>4
<1>4. SafePointSuffices'
  BY <1>3, SafePointReplaysNext DEF SafePointAre
<1> QED
  BY ZenonT(40), <1>1, <1>4 DEF SafePointIInv

\* "the compaction generation contains the sum of all operations before it":
\* the files from safe_point on suffice to recover every key, even when
\* deleting the older files fails.
THEOREM AlwaysSafePointSuffices ==
  ASSUME Faults \subseteq {"write", "unlink"} PROVE Spec => []SafePointSuffices
<1>1. Init => SafePointIInv
  BY BufferInit DEF Init, SafePointIInv, SafePointSuffices
<1>2. SafePointIInv /\ [Next]_vars => SafePointIInv'
  BY SafePointStep
<1>3. SafePointIInv => SafePointSuffices
  BY ZenonT(40) DEF SafePointIInv
<1> QED
  BY <1>1, <1>2, <1>3, PTL DEF Spec

-----------------------------------------------------------------------------
(* What a restart recovers.                                                *)

INSTANCE WellFoundedInduction

\* Every set of naturals that is not empty has a least element.
LEMMA NatLeast ==
  ASSUME NEW S, S \subseteq Nat, S # {} PROVE \E m \in S : \A n \in S : m <= n
<1>1. PICK m \in S : \A n \in S : ~(<<n, m>> \in OpToRel(<, Nat))
  BY NatLessThanWellFounded, WFMin
<1>2. \A n \in S : ~(n < m)
  BY ZenonT(40), <1>1 DEF OpToRel
<1> QED
  BY <1>2

\* Among the commands about k one is the last.
LEMMA LastStored ==
  ASSUME TypeInv, NEW k, Stored(k) # {}
  PROVE  \E p \in Stored(k) : \A q \in Stored(k) : ~Before(p, q)
<1>1. \A p \in Stored(k) : /\ p.gen \in Gens /\ MaxGen - p.gen \in Nat
                           /\ p.pos \in Nat /\ vis[p.gen] - p.pos \in Nat
  BY StoredIn, FileBounds, ConstantsAssumption DEF StoredAre, Gens, ConstantsAssumption
<1>2. PICK h \in Stored(k) : \A q \in Stored(k) : MaxGen - h.gen <= MaxGen - q.gen
  <2>1. {MaxGen - p.gen : p \in Stored(k)} \subseteq Nat
    BY ZenonT(40), <1>1
  <2>2. PICK m \in {MaxGen - p.gen : p \in Stored(k)} :
            \A n \in {MaxGen - p.gen : p \in Stored(k)} : m <= n
    BY ZenonT(40), <2>1, NatLeast
  <2> QED
    BY ZenonT(40), <2>2
<1> DEFINE S == {p \in Stored(k) : p.gen = h.gen}
<1>3. PICK p \in S : \A q \in S : vis[h.gen] - p.pos <= vis[h.gen] - q.pos
  <2>1. {vis[h.gen] - p.pos : p \in S} \subseteq Nat /\ h \in S
    BY ZenonT(40), <1>1
  <2>2. PICK m \in {vis[h.gen] - p.pos : p \in S} :
            \A n \in {vis[h.gen] - p.pos : p \in S} : m <= n
    BY ZenonT(40), <2>1, NatLeast
  <2> QED
    BY ZenonT(40), <2>2
<1>4. ASSUME NEW q \in Stored(k), Before(p, q) PROVE FALSE
  <2>1. /\ p.gen \in Int /\ q.gen \in Int /\ p.pos \in Int /\ q.pos \in Int
        /\ MaxGen \in Int /\ vis[h.gen] \in Int /\ p.gen = h.gen
    <3>1. /\ p.gen \in Gens /\ q.gen \in Gens /\ p.pos \in Nat /\ q.pos \in Nat
          /\ h.gen \in Gens /\ p.gen = h.gen
      BY ZenonT(40), <1>1
    <3>2. vis[h.gen] \in Nat /\ MaxGen \in Nat
      BY ZenonT(40), <3>1, FileBounds, ConstantsAssumption DEF ConstantsAssumption
    <3> QED
      BY <3>1, <3>2 DEF Gens
  <2>2. q.gen <= p.gen
    BY <1>2, <2>1
  <2>3. q.gen = p.gen => q.pos <= p.pos
    BY <1>3, <2>1
  <2> QED
    BY <1>4, <2>1, <2>2, <2>3 DEF Before
<1> QED
  BY ZenonT(40), <1>4

\* Replaying the files gives one value, which is Recovered.
RecoveredAre ==
    TypeInv => \A k, v : ReplaysTo(Stored(k), v) => Recovered(k) = v

\* RecoveredAre holds in every typed state.
LEMMA RecoveredIs == RecoveredAre
<1> SUFFICES ASSUME TypeInv, NEW k, NEW v, ReplaysTo(Stored(k), v) PROVE Recovered(k) = v
  BY ZenonT(40) DEF RecoveredAre
<1>1. CASE Stored(k) = {}
  BY ZenonT(40), <1>1 DEF Recovered, ReplaysTo
<1>2. CASE Stored(k) # {}
  <2> DEFINE last == CHOOSE p \in Stored(k) : \A q \in Stored(k) : ~Before(p, q)
  <2>1. last \in Stored(k) /\ \A q \in Stored(k) : ~Before(last, q)
    BY ZenonT(40), <1>2, LastStored
  <2>2. Recovered(k) = At(last).val
    BY ZenonT(40), <1>2 DEF Recovered
  <2> HIDE DEF last
  <2> QED
    BY ZenonT(40), <2>1, <2>2 DEF ReplaysTo
<1> QED
  BY ZenonT(40), <1>1, <1>2

\* A step that keeps the commands about k keeps what open recovers.
LEMMA RecoveredSame ==
  ASSUME TypeInv, NEW k, Stored(k)' = Stored(k),
         \A p \in Stored(k) : log'[p.gen][p.pos] = log[p.gen][p.pos]
  PROVE  Recovered(k)' = Recovered(k)
<1>1. CASE Stored(k) = {}
  BY ZenonT(40), <1>1 DEF Recovered
<1>2. CASE Stored(k) # {}
  <2> DEFINE last == CHOOSE p \in Stored(k) : \A q \in Stored(k) : ~Before(p, q)
  <2>1. last \in Stored(k)
    BY ZenonT(40), <1>2, LastStored
  <2>2. Recovered(k) = log[last.gen][last.pos].val
    BY ZenonT(40), <1>2 DEF Recovered, At
  <2>3. Recovered(k)' = log'[last.gen][last.pos].val
    BY ZenonT(40), <1>2 DEF Recovered, At, Before
  <2> HIDE DEF last
  <2> QED
    BY ZenonT(40), <2>1, <2>2, <2>3
<1> QED
  BY ZenonT(40), <1>1, <1>2

UpAre ==
    IInv /\ mode = "up" => \A k \in Keys : Recovered(k) = Committed(k)

\* While the store is open, a restart would recover the committed values.
LEMMA RecoveredUp == UpAre
<1> SUFFICES ASSUME IInv, mode = "up", NEW k \in Keys PROVE Recovered(k) = Committed(k)
  BY DEF UpAre
<1>1. TypeInv /\ ReplaysTo(Places(k), Committed(k))
  BY ZenonT(40) DEF IInv, BufferIInv, IndexIInv, Durable
<1>2. Places(k) = Stored(k)
  BY ZenonT(40) DEF Places
<1> QED
  BY ZenonT(40), <1>1, <1>2, RecoveredIs DEF RecoveredAre

\* The same after a step.
LEMMA RecoveredUpNext == UpAre'
BY RecoveredUp, PTL

\* Neither a crash nor a step of open changes what open recovers.
LEMMA RecoveredClosed ==
  ASSUME BufferIInv, TypeInv', Open \/ Crash, NEW k PROVE Recovered(k)' = Recovered(k)
<1>0. TypeInv /\ gens \subseteq Gens
  BY ZenonT(40) DEF BufferIInv, IndexIInv, TypeInv, TypeOK
<1>1. CASE UNCHANGED diskVars
  BY <1>1 DEF Recovered, Stored, At, Before, diskVars
<1>2. CASE OpenDone
  <2>1. /\ log' = log /\ vis' = vis /\ gens \subseteq gens' /\ mode = "load"
    BY ZenonT(40), <1>2 DEF OpenDone
  <2>2. \A g \in gens' : g \in gens \/ vis[g] = 0
    BY ZenonT(40), <1>0, <2>1, FileBoundsNext DEF BufferIInv, IndexIInv, ClosedInv
  <2>3. \A p : p \in Stored(k)' <=> p \in Stored(k)
    BY <1>0, <2>1, <2>2, StoredIn, StoredInNext DEF StoredAre
  <2>4. Stored(k)' = Stored(k)
    BY ZenonT(40), <2>3
  <2> QED
    BY ZenonT(40), <1>0, <2>1, <2>4, RecoveredSame
<1>3. CASE Crash
  <2>1. PICK torn \in SUBSET {g \in gens : vis[g] < Len(log[g])} :
            /\ log' = [g \in Gens |-> Surviving(g, torn)]
            /\ vis' = [g \in Gens |-> Len(Surviving(g, torn))]
    BY ZenonT(40), <1>3 DEF Crash
  <2>2. gens' = gens
    BY ZenonT(40), <1>3 DEF Crash
  <2>3. ASSUME NEW g \in gens
        PROVE  /\ \A i \in 1..vis[g] : i \in 1..vis'[g] /\ log'[g][i] = log[g][i]
               /\ \A i \in 1..vis'[g] : i \in 1..vis[g] \/ log'[g][i].op = "torn"
    <3> DEFINE s == Surviving(g, torn)
    <3>1. log'[g] = s /\ vis'[g] = Len(s)
      BY ZenonT(40), <1>0, <2>1
    <3>2. /\ \A i \in 1..vis[g] : i \in 1..Len(s) /\ s[i] = log[g][i]
          /\ \A i \in 1..Len(s) : i \in 1..vis[g] \/ s[i].op = "torn"
      BY ZenonT(40), <1>0, SurvivingKeeps
    <3> HIDE DEF s
    <3> QED
      BY ZenonT(40), <3>1, <3>2
  <2>4. ASSUME NEW p PROVE p \in Stored(k)' <=> p \in Stored(k)
    BY <1>0, <2>2, <2>3, StoredIn, StoredInNext DEF StoredAre
  <2>5. \A p \in Stored(k) : log'[p.gen][p.pos] = log[p.gen][p.pos]
    BY <1>0, <2>3, StoredIn DEF StoredAre
  <2> QED
    BY <1>0, <2>4, <2>5, RecoveredSame
<1> QED
  BY ZenonT(40), <1>1, <1>2, <1>3 DEF Open, OpenStart, LoadCommand, OpenFails, LoadNextFile

\* The files change what a restart recovers only by the bytes of a command.
THEOREM RecoveryChangesOnlyByCommands ==
  ASSUME Faults \subseteq {"write"} PROVE Spec => OnlyCommandsChangeRecovery
<1> DEFINE A == \A k \in Keys : Recovered(k)' # Recovered(k) =>
                    pc = "flush" /\ Cmd.key = k /\ Recovered(k)' = Cmd.val
<1>1. Init => IInv
  BY BufferInit DEF Init, IInv, StaleInv, Durable
<1>2. IInv /\ [Next]_vars => IInv'
  BY DurableStep
<1>3. IInv /\ [Next]_vars => A
  <2> SUFFICES ASSUME IInv, [Next]_vars, NEW k \in Keys
               PROVE  \/ Recovered(k)' = Recovered(k)
                      \/ pc = "flush" /\ Cmd.key = k /\ Recovered(k)' = Cmd.val
    OBVIOUS
  <2>0. IInv' /\ BufferIInv /\ BufferIInv' /\ TypeInv /\ TypeInv'
    BY ZenonT(40), <1>2 DEF IInv, BufferIInv, IndexIInv
  <2>1. CASE mode = "up" /\ mode' = "up"
    BY ZenonT(40), <2>0, <2>1, CommittedStep, RecoveredUp, RecoveredUpNext DEF UpAre, Commits
  <2>2. CASE Open \/ Crash
    BY ZenonT(40), <2>0, <2>2, RecoveredClosed
  <2>3. CASE UNCHANGED vars
    BY <2>3 DEF Recovered, Stored, At, Before, vars, diskVars
  <2> QED
    BY ZenonT(40), <2>0, <2>1, <2>2, <2>3, ModeKept DEF Next
<1> QED
  BY <1>1, <1>2, <1>3, PTL DEF Spec, OnlyCommandsChangeRecovery

=============================================================================
