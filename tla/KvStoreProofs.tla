---------------------------- MODULE KvStoreProofs ----------------------------
(***************************************************************************)
(* The store with its concurrent gets: readers are never shared, a get     *)
(* fails only beside a compaction, and the store implements KvsEngine; for *)
(* every set of keys, values and threads, every number of readers and      *)
(* every bound.                                                            *)
(***************************************************************************)
EXTENDS KvStore, KvLogDurableProofs

-----------------------------------------------------------------------------
(* What the refinement rests on: crash safety, the readers and the gets.   *)

Job == [pc : {"idle", "open", "read"}, pos : CommandPos, reader : Readers \cup {0}]

\* Besides ReadersExclusive: a clone's own reader is the only one it uses, and
\* no reader is in the pool then.
ReaderInv ==
    /\ pool \in Seq(Readers)
    /\ job \in [Threads -> Job]
    /\ \A t \in Threads : job[t].pc = "read" => job[t].reader \in Readers
    /\ cloned => /\ pool = <<>>
                 /\ \A t \in Threads : job[t].pc = "read" => job[t].reader = t
    /\ ReadersExclusive

\* What a running get knows of the command at p, which it found in the index: it
\* is a Set that was written; its file is there or is below the safe point; and
\* it has reached the file unless its compaction still runs.
Entry(p) ==
    /\ p.gen \in Gens
    /\ p.pos \in 1..Len(log[p.gen])
    /\ At(p).op = "set"
    /\ p.gen \notin gens => p.gen < safePoint
    /\ p.pos > vis[p.gen] => pc = "copy" /\ p.gen = CompactionGen

\* The inductive invariant of the gets.
GetInv ==
    /\ mode # "up" => /\ job = [t \in Threads |-> Idle]
                      /\ answer = [t \in Threads |-> Unset]
    /\ \A t \in Threads : job[t].pc # "idle" => Entry(job[t].pos)

\* The writer keeps what a running get knows.
LEMMA EntryKept ==
  ASSUME TypeInv, TypeInv', FilesKept, NEW p \in CommandPos, Entry(p)
  PROVE  Entry(p)' /\ At(p)' = At(p)
<1>1. /\ p.gen \in Gens /\ p.pos \in 1..Len(log[p.gen]) /\ p.pos \in Nat
      /\ p.gen \in Nat /\ safePoint \in Nat /\ safePoint' \in Nat
      /\ vis[p.gen] \in Nat /\ vis'[p.gen] \in Nat
  <2>1. p.gen \in Gens /\ p.pos \in 1..Len(log[p.gen])
    BY DEF Entry
  <2>2. /\ safePoint \in 0..MaxGen /\ safePoint' \in 0..MaxGen
        /\ vis \in [Gens -> Nat] /\ vis' \in [Gens -> Nat]
    BY ZenonT(40) DEF TypeInv, TypeOK
  <2>3. p.pos \in Nat /\ p.gen \in Nat
    BY ConstantsAssumption DEF CommandPos, ConstantsAssumption
  <2> QED
    BY <2>1, <2>2, <2>3, ConstantsAssumption DEF ConstantsAssumption
<1>2. p.pos \in 1..Len(log'[p.gen]) /\ log'[p.gen][p.pos] = log[p.gen][p.pos]
  BY ZenonT(40), <1>1 DEF FilesKept
<1>3. p.gen \notin gens' => p.gen < safePoint'
  BY <1>1 DEF FilesKept, Entry
<1>4. p.pos > vis'[p.gen] => pc' = "copy" /\ p.gen = CompactionGen'
  <2> SUFFICES ASSUME p.pos > vis'[p.gen] PROVE pc' = "copy" /\ p.gen = CompactionGen'
    OBVIOUS
  <2>1. vis[p.gen] <= vis'[p.gen]
    BY <1>1 DEF FilesKept
  <2>2. pc = "copy" /\ p.gen = CompactionGen
    BY <1>1, <2>1 DEF Entry
  <2>3. vis'[CompactionGen] # Len(log[CompactionGen])
    BY <1>1, <2>2
  <2> QED
    BY <2>2, <2>3 DEF FilesKept
<1> QED
  BY ZenonT(40), <1>1, <1>2, <1>3, <1>4 DEF Entry, At

\* What a lookup finds in the index.
LEMMA EntryFound ==
  ASSUME BufferIInv, mode = "up", NEW k \in Keys, index[k] # NoPos
  PROVE  Entry(index[k])
<1>1. /\ index[k].gen \in gens /\ index[k].pos \in 1..Len(log[index[k].gen])
      /\ At(index[k]).op = "set" /\ gens \subseteq Gens
  BY ZenonT(40) DEF BufferIInv, IndexIInv, IndexInLog, TypeInv, TypeOK
<1>2. \/ index[k].pos <= vis[index[k].gen]
      \/ pc = "copy" /\ index[k].gen = CompactionGen
  BY ZenonT(40) DEF BufferIInv, VisibleInv
<1>3. vis[index[k].gen] \in Nat /\ index[k].pos \in Nat
  BY <1>1 DEF BufferIInv, IndexIInv, TypeInv, TypeOK
<1> QED
  BY <1>1, <1>2, <1>3 DEF Entry

StoreIInv == IInv /\ ReaderInv /\ GetInv

-----------------------------------------------------------------------------
(* Every step of the store is a step of KvsEngine or cannot be seen.       *)

EngineStep == [Engine!Next]_(Engine!vars)

\* A step the callers of the store cannot see.
LEMMA Unseen ==
  ASSUME mode = "up" <=> mode' = "up", kvBar' = kvBar, opBar' = opBar, seenBar' = seenBar,
         answer' = answer
  PROVE  EngineStep
BY ZenonT(40) DEF EngineStep, Engine!vars

\* Nothing is seen of a step that leaves the log engine alone.
LEMMA BarsSame ==
  ASSUME UNCHANGED vars PROVE mode' = mode /\ kvBar' = kvBar /\ opBar' = opBar /\ log' = log
BY DEF vars, diskVars, memVars, genVars, callVars, kvBar, opBar, Live, Recovered, Stored, At,
   Before, Cmd

\* A get ends with the value it found or with an error.
LEMMA GetEnds ==
  ASSUME mode = "up", mode' = "up", kvBar' = kvBar, opBar' = opBar, NEW t \in Threads,
         NEW r \in Vals \cup {NoVal, "err"}, seenBar[t] # Unset, r \in {seenBar[t], "err"},
         answer' = [answer EXCEPT ![t] = r], seenBar' = [seenBar EXCEPT ![t] = Unset]
  PROVE  EngineStep
<1>1. Engine!GetEnd(t, r)
  BY ZenonT(40) DEF Engine!GetEnd
<1> QED
  BY <1>1 DEF EngineStep, Engine!Next

\* What a running get found is a value.
LEMMA SeenIsValue ==
  ASSUME TypeInv, NEW p, Entry(p) PROVE At(p).val \in Vals /\ At(p).val # Unset
<1>1. At(p) \in Record /\ At(p).op = "set"
  BY DEF Entry, At, TypeInv, TypeOK
<1>2. At(p) \in [op : {"set"}, key : Keys, val : Vals]
  BY <1>1 DEF Record, Command, Torn
<1> QED
  BY ZenonT(40), <1>2, ReaderAssumption DEF ReaderAssumption

\* The gets implement those of KvsEngine.
LEMMA EngineGets ==
  ASSUME StoreIInv, NEW t \in Threads, Get(t) \/ CloneStore(t) PROVE EngineStep
<1>0. /\ TypeInv /\ BufferIInv /\ job \in [Threads -> Job] /\ Idle.pc = "idle"
      /\ \A u \in Threads : job[u].pc # "idle" => Entry(job[u].pos)
  BY ZenonT(40) DEF StoreIInv, IInv, BufferIInv, IndexIInv, ReaderInv, GetInv, Idle
<1>1. UNCHANGED vars
  BY ZenonT(40) DEF Get, GetLookup, GetPanic, GetOpen, GetRead, CloneStore
<1>2. mode' = mode /\ kvBar' = kvBar /\ opBar' = opBar /\ log' = log
  BY ZenonT(40), <1>1, BarsSame
<1>3. mode = "up"
  BY DEF Get, GetLookup, GetPanic, GetOpen, GetRead, CloneStore, StoreIInv, GetInv, Idle
<1>4. ASSUME NEW r, Finish(t, r), job[t].pc # "idle", r \in {At(job[t].pos).val, "err"}
      PROVE  EngineStep
  <2>1. At(job[t].pos).val \in Vals /\ At(job[t].pos).val # Unset
    BY ZenonT(40), <1>0, <1>4, SeenIsValue
  <2>2. seenBar[t] = At(job[t].pos).val
    BY <1>4 DEF seenBar
  <2>3. seenBar' = [seenBar EXCEPT ![t] = Unset]
    BY ZenonT(40), <1>0, <1>2, <1>4 DEF seenBar, Finish, At
  <2> QED
    BY ZenonT(40), <1>2, <1>3, <1>4, <2>1, <2>2, <2>3, GetEnds DEF Finish
<1>5. ASSUME NEW k \in Keys, GetLookup(t, k) PROVE EngineStep
  <2>0. /\ kvBar[k] = Live(k) /\ seenBar[t] = Unset
    BY <1>3, <1>5 DEF kvBar, seenBar, GetLookup
  <2>1. CASE index[k] = NoPos
    <3>1. seenBar' = seenBar
      BY ZenonT(40), <1>0, <1>2, <1>5, <2>1 DEF seenBar, GetLookup, Finish, At
    <3>2. Engine!GetAbsent(t, k)
      BY <1>2, <1>3, <1>5, <2>0, <2>1, <3>1 DEF Engine!GetAbsent, GetLookup, Finish, Live
    <3> QED
      BY ZenonT(40), <3>2 DEF EngineStep, Engine!Next
  <2>2. CASE index[k] # NoPos
    <3>1. seenBar' = [seenBar EXCEPT ![t] = kvBar[k]]
      <4>1. kvBar[k] = At(index[k]).val
        BY ZenonT(40), <2>0, <2>2 DEF Live
      <4>2. job' = [job EXCEPT ![t] = [pc |-> "open", pos |-> index[k], reader |-> 0]]
        BY ZenonT(40), <1>5, <2>2 DEF GetLookup
      <4>3. job'[t].pc = "open" /\ job'[t].pos = index[k]
        BY ZenonT(40), <1>0, <4>2
      <4>4. \A u \in Threads : u # t => job'[u] = job[u]
        BY <1>0, <4>2
      <4> QED
        BY ZenonT(40), <1>2, <4>1, <4>3, <4>4 DEF seenBar, At
    <3>2. Engine!GetBegin(t, k)
      BY ZenonT(40), <1>2, <1>3, <1>5, <2>0, <2>2, <3>1 DEF Engine!GetBegin, GetLookup
    <3> QED
      BY ZenonT(40), <3>2 DEF EngineStep, Engine!Next
  <2> QED
    BY ZenonT(40), <2>1, <2>2
<1>6. CASE GetPanic(t)
  BY ZenonT(40), <1>4, <1>6 DEF GetPanic
<1>7. CASE GetOpen(t)
  <2>1. CASE Finish(t, "err")
    BY ZenonT(40), <1>4, <1>7, <2>1 DEF GetOpen
  <2>2. ASSUME NEW r, job' = [job EXCEPT ![t] = [pc |-> "read", pos |-> job[t].pos, reader |-> r]],
               answer' = answer
        PROVE  EngineStep
    <3>1. seenBar' = seenBar
      BY ZenonT(40), <1>0, <1>2, <1>7, <2>2 DEF seenBar, GetOpen, At
    <3> QED
      BY ZenonT(40), <1>2, <2>2, <3>1, Unseen
  <2> QED
    BY ZenonT(40), <1>7, <2>1, <2>2 DEF GetOpen
<1>8. CASE GetRead(t)
  <2>1. job[t].pc # "idle" /\ At(job[t].pos).op = "set"
    BY ZenonT(40), <1>0, <1>8 DEF GetRead, Entry
  <2> QED
    BY ZenonT(40), <1>4, <1>8, <2>1 DEF GetRead
<1>9. CASE CloneStore(t)
  <2>1. seenBar' = seenBar /\ answer' = answer
    BY ZenonT(40), <1>2, <1>9 DEF CloneStore, seenBar, At
  <2> QED
    BY ZenonT(40), <1>2, <2>1, Unseen
<1> QED
  BY ZenonT(40), <1>5, <1>6, <1>7, <1>8, <1>9 DEF Get

\* Opening the store.
LEMMA EngineOpen ==
  ASSUME StoreIInv, StoreIInv', OpenStore PROVE EngineStep
<1>0. /\ TypeInv /\ TypeInv' /\ BufferIInv /\ BufferIInv' /\ IInv'
      /\ pc = "idle" /\ pc' = "idle" /\ job' = job /\ answer' = answer
      /\ mode # "up" /\ Open /\ job = [t \in Threads |-> Idle] /\ Idle.pc = "idle"
  <2>1. Open /\ job' = job /\ answer' = answer
    BY ZenonT(40) DEF OpenStore
  <2>2. mode # "up"
    BY ZenonT(40), <2>1 DEF Open, OpenStart, LoadCommand, OpenDone, OpenFails, LoadNextFile
  <2>3. TypeInv /\ TypeInv' /\ BufferIInv /\ BufferIInv' /\ IInv'
    BY DEF StoreIInv, IInv, BufferIInv, IndexIInv
  <2>4. pc = "idle" /\ job = [t \in Threads |-> Idle]
    BY ZenonT(40), <2>2, <2>3 DEF TypeInv, GenBounds, StoreIInv, GetInv
  <2>5. pc' = "idle"
    BY ZenonT(40), <2>1, <2>4 DEF Open, OpenStart, LoadCommand, OpenDone, OpenFails, LoadNextFile,
       ResetVolatile, callVars
  <2> QED
    BY ZenonT(40), <2>1, <2>2, <2>3, <2>4, <2>5 DEF Idle
<1>1. \A k \in Keys : Recovered(k)' = Recovered(k)
  BY ZenonT(40), <1>0, RecoveredClosed
<1>2. opBar' = opBar /\ seenBar' = seenBar
  BY ZenonT(40), <1>0 DEF opBar, seenBar
<1>3. mode' = "up" => \A k \in Keys : Live(k)' = Recovered(k)'
  BY ZenonT(40), <1>0, RecoveredUpNext DEF UpAre, Committed
<1>4. kvBar' = kvBar
  BY ZenonT(40), <1>0, <1>1, <1>3 DEF kvBar
<1>5. CASE mode' = "up"
  <2>1. Engine!Open
    BY ZenonT(40), <1>0, <1>2, <1>4, <1>5 DEF Engine!Open
  <2> QED
    BY ZenonT(40), <2>1 DEF EngineStep, Engine!Next
<1> QED
  BY ZenonT(40), <1>0, <1>2, <1>4, <1>5, Unseen

\* A crash: the write in progress is applied if its bytes are in the file.
LEMMA EngineCrash ==
  ASSUME StoreIInv, StoreIInv', Crash, FreshReaders PROVE EngineStep
<1>0. /\ TypeInv /\ TypeInv' /\ BufferIInv /\ IInv /\ mode # "down" /\ mode' = "down"
      /\ pc' = "idle" /\ Idle.pc = "idle"
  BY ZenonT(40) DEF StoreIInv, IInv, BufferIInv, IndexIInv, Crash, ResetVolatile, Idle
<1>1. kvBar' = [k \in Keys |-> Recovered(k)]
  <2>1. \A k \in Keys : Recovered(k)' = Recovered(k)
    BY ZenonT(40), <1>0, RecoveredClosed
  <2> QED
    BY ZenonT(40), <1>0, <2>1 DEF kvBar
<1>2. /\ seenBar' = [t \in Threads |-> Unset] /\ answer' = [t \in Threads |-> Unset]
      /\ opBar' = NoOp
  BY ZenonT(40), <1>0 DEF FreshReaders, seenBar, opBar
<1>3. CASE mode # "up"
  <2>1. kvBar' = kvBar
    BY ZenonT(40), <1>1, <1>3 DEF kvBar
  <2>2. opBar = NoOp /\ seenBar = [t \in Threads |-> Unset] /\ answer = [t \in Threads |-> Unset]
    BY ZenonT(40), <1>0, <1>3 DEF TypeInv, GenBounds, StoreIInv, GetInv, opBar, seenBar
  <2> QED
    BY ZenonT(40), <1>0, <1>2, <1>3, <2>1, <2>2, Unseen
<1>4. CASE mode = "up"
  <2>1. \A k \in Keys : Recovered(k) = Committed(k) /\ kvBar[k] = Live(k)
    BY ZenonT(40), <1>0, <1>4, RecoveredUp DEF UpAre, kvBar
  <2>2. kvBar' = kvBar \/ (opBar # NoOp /\ kvBar' = [kvBar EXCEPT ![opBar.key] = opBar.val])
    <3>1. CASE pc \in {"flush", "index"} /\ vis[wgen] = Len(log[wgen])
      <4>1. Cmd \in Command /\ opBar = Cmd
        BY ZenonT(40), <1>0, <3>1 DEF BufferIInv, IndexIInv, WrittenInv, opBar
      <4>2. \A k \in Keys : Committed(k) = IF opBar.key = k THEN opBar.val ELSE Live(k)
        BY ZenonT(40), <3>1, <4>1 DEF Committed
      <4>3. kvBar' = [kvBar EXCEPT ![opBar.key] = opBar.val]
        BY ZenonT(40), <1>1, <2>1, <4>2 DEF kvBar
      <4> QED
        BY ZenonT(40), <4>1, <4>3, ReaderAssumption DEF ReaderAssumption
    <3>2. CASE ~(pc \in {"flush", "index"} /\ vis[wgen] = Len(log[wgen]))
      <4>1. \A k \in Keys : Committed(k) = Live(k)
        BY ZenonT(40), <3>2 DEF Committed
      <4> QED
        BY ZenonT(40), <1>1, <1>4, <2>1, <4>1 DEF kvBar
    <3> QED
      BY ZenonT(40), <3>1, <3>2
  <2>3. Engine!Crash
    BY ZenonT(40), <1>0, <1>2, <1>4, <2>2 DEF Engine!Crash, Engine!Applied
  <2> QED
    BY ZenonT(40), <2>3 DEF EngineStep, Engine!Next
<1> QED
  BY ZenonT(40), <1>3, <1>4

\* A set or remove begins when its command is written and is applied when it is
\* indexed; nothing else the writer does can be seen.
LEMMA EngineWriter ==
  ASSUME StoreIInv, StoreIInv', "create" \notin Faults, "flush" \notin Faults,
         Request \/ WriterStep \/ \E g \in Gens : Spill(g), UNCHANGED readerVars
  PROVE  EngineStep
<1>0. /\ TypeInv /\ TypeInv' /\ BufferIInv /\ BufferIInv' /\ mode = "up" /\ mode' = "up"
      /\ [Next]_vars /\ FilesKept /\ job' = job /\ answer' = answer
      /\ \A u \in Threads : job[u].pos \in CommandPos /\ (job[u].pc # "idle" => Entry(job[u].pos))
  <2>1. TypeInv /\ TypeInv' /\ BufferIInv /\ BufferIInv' /\ [Next]_vars
    BY ZenonT(40) DEF StoreIInv, IInv, BufferIInv, IndexIInv, Next
  <2>2. mode = "up" /\ mode' = "up" /\ job' = job /\ answer' = answer
    BY ZenonT(40), <2>1, ModeKept DEF readerVars
  <2>3. \A u \in Threads : job[u].pos \in CommandPos /\ (job[u].pc # "idle" => Entry(job[u].pos))
    BY ZenonT(40) DEF StoreIInv, ReaderInv, GetInv, Job
  <2> QED
    BY ZenonT(40), <2>1, <2>2, <2>3, FilesAreKept
<1>1. seenBar' = seenBar
  <2>1. \A u \in Threads : job[u].pc # "idle" => At(job[u].pos)' = At(job[u].pos)
    BY ZenonT(40), <1>0, EntryKept
  <2> QED
    BY ZenonT(40), <1>0, <2>1 DEF seenBar
<1>2. ASSUME index' = index PROVE kvBar' = kvBar
  <2>1. ASSUME NEW k \in Keys PROVE Live(k)' = Live(k)
    <3>1. index[k] # NoPos => log'[index[k].gen][index[k].pos] = log[index[k].gen][index[k].pos]
      BY ZenonT(40), <1>0, EntryFound DEF Entry, FilesKept
    <3> QED
      BY ZenonT(40), <1>2, <3>1, LiveSame
  <2> QED
    BY ZenonT(40), <1>0, <2>1 DEF kvBar
<1>3. ASSUME NEW c \in Command, WriteCommand(c), Ready, c.op = "remove" => index[c.key] # NoPos
      PROVE  EngineStep
  <2>1. opBar = NoOp /\ opBar' = c
    <3>1. /\ pc = "idle" /\ pc' = "flush" /\ wgen' = wgen /\ wgen \in Gens /\ c \in Record
          /\ log' = [log EXCEPT ![wgen] = Append(@, c)]
      BY ZenonT(40), <1>0, <1>3 DEF WriteCommand, Ready, genVars, TypeInv, TypeOK, GenBounds, Record
    <3>2. Len(log'[wgen]) = Len(log[wgen]) + 1 /\ log'[wgen][Len(log[wgen]) + 1] = c
      BY ZenonT(40), <1>0, <3>1, AppendKeeps
    <3> QED
      BY ZenonT(40), <3>1, <3>2 DEF opBar, Cmd
  <2>2. kvBar' = kvBar
    BY ZenonT(40), <1>2, <1>3 DEF WriteCommand, memVars
  <2>3. c.op = "remove" => kvBar[c.key] # NoVal
    <3>1. c.key \in Keys
      BY ZenonT(40) DEF Command
    <3>2. index[c.key] # NoPos => Live(c.key) \in Vals
      BY ZenonT(40), <1>0, <3>1, EntryFound, SeenIsValue DEF Live
    <3> QED
      BY ZenonT(40), <1>0, <1>3, <3>1, <3>2, ConstantsAssumption DEF kvBar, ConstantsAssumption
  <2>4. Engine!Begin(c)
    BY ZenonT(40), <1>0, <1>1, <2>1, <2>2, <2>3 DEF Engine!Begin
  <2> QED
    BY ZenonT(40), <2>4 DEF EngineStep, Engine!Next, Engine!Write, Command
<1>4. CASE IndexCommand
  <2>1. /\ pc = "index" /\ pc' \in {"idle", "newlog"} /\ vis[wgen] = Len(log[wgen])
        /\ Cmd \in Command
    BY ZenonT(40), <1>0, <1>4 DEF IndexCommand, Return, BufferIInv, BufferInv, IndexIInv, WrittenInv
  <2>2. opBar = Cmd /\ opBar' = NoOp
    BY ZenonT(40), <2>1 DEF opBar
  <2>3. \A k \in Keys : Live(k)' = IF Cmd.key = k THEN Cmd.val ELSE Live(k)
    BY ZenonT(40), <1>0, <1>4, <2>1, ReplayIndex DEF Same, Committed
  <2>4. kvBar' = [kvBar EXCEPT ![opBar.key] = opBar.val]
    BY ZenonT(40), <1>0, <2>2, <2>3 DEF kvBar
  <2>5. Engine!Apply
    BY ZenonT(40), <1>0, <1>1, <2>1, <2>2, <2>4, ReaderAssumption
       DEF Engine!Apply, Engine!Applied, ReaderAssumption
  <2> QED
    BY ZenonT(40), <2>5 DEF EngineStep, Engine!Next
<1>5. ASSUME NEW j \in Keys, CompactEntry(j) PROVE EngineStep
  <2>1. pc = "copy" /\ pc' = "copy"
    BY ZenonT(40), <1>5 DEF CompactEntry, callVars
  <2>2. \A k \in Keys : Live(k)' = Live(k)
    BY ZenonT(40), <1>0, <1>5, <2>1, ReplayCompact DEF Same, Committed
  <2>3. kvBar' = kvBar /\ opBar' = opBar
    BY ZenonT(40), <1>0, <2>1, <2>2 DEF kvBar, opBar
  <2> QED
    BY ZenonT(40), <1>0, <1>1, <2>3, Unseen
<1>6. CASE /\ index' = index
           /\ {pc, pc'} \cap {"flush", "index"} = {}
              \/ (UNCHANGED <<log, wgen>> /\ pc = "flush" /\ pc' \in {"flush", "index"})
  <2>1. opBar' = opBar
    BY ZenonT(40), <1>6 DEF opBar, Cmd
  <2> QED
    BY ZenonT(40), <1>0, <1>1, <1>2, <1>6, <2>1, Unseen
<1>7. CASE Request
  <2>1. ASSUME NEW c \in Command, WriteCommandFails(c), pc = "idle" PROVE EngineStep
    BY ZenonT(40), <1>6, <2>1 DEF WriteCommandFails, Return, memVars
  <2>2. ASSUME NEW k \in Keys, RemoveMissing(k) PROVE EngineStep
    BY ZenonT(40), <1>6, <2>2 DEF RemoveMissing, memVars
  <2>3. ASSUME NEW k \in Keys, NEW v \in Vals, Set(k, v) PROVE EngineStep
    <3> DEFINE c == [op |-> "set", key |-> k, val |-> v]
    <3>1. c \in Command /\ c.op = "set" /\ Ready /\ pc = "idle" /\ (WriteCommand(c) \/ WriteCommandFails(c))
      BY ZenonT(40), <2>3, CommandType DEF Set, Ready
    <3> HIDE DEF c
    <3> QED
      BY ZenonT(40), <1>3, <2>1, <3>1
  <2>4. ASSUME NEW k \in Keys, Remove(k) PROVE EngineStep
    <3> DEFINE c == [op |-> "remove", key |-> k, val |-> NoVal]
    <3>1. /\ c \in Command /\ index[c.key] # NoPos /\ Ready /\ pc = "idle"
          /\ WriteCommand(c) \/ WriteCommandFails(c)
      BY ZenonT(40), <2>4, CommandType DEF Remove, Ready
    <3> HIDE DEF c
    <3> QED
      BY ZenonT(40), <1>3, <2>1, <3>1
  <2> QED
    BY ZenonT(40), <1>7, <2>2, <2>3, <2>4 DEF Request
<1>8. CASE Flush \/ \E g \in Gens : Spill(g)
  BY ZenonT(40), <1>6, <1>8 DEF Flush, Spill, memVars, genVars, callVars
<1>9. CASE Compact
  BY ZenonT(40), <1>5, <1>6, <1>9 DEF Compact, CompactNewLog, CompactNewLogFails, CompactNewFile,
     CompactCallFails, CompactEntryFails, CompactFlush, CompactSafePoint, CompactUnlink,
     CompactDone, Return, memVars, callVars
<1> QED
  BY ZenonT(40), <1>4, <1>7, <1>8, <1>9 DEF WriterStep, FlushFails

-----------------------------------------------------------------------------
(* Readers.                                                                *)

\* A step of the store is a step of the log engine or leaves it alone.
LEMMA StoreStepsAreLogSteps ==
  /\ InitStore => Init
  /\ [NextStore]_storeVars => [Next]_vars
BY ZenonT(40) DEF InitStore, NextStore, Next, OpenStore, Get, GetLookup, GetPanic, GetOpen, GetRead,
   CloneStore, storeVars

\* A thread without a get.
LEMMA IdleJob == Idle \in Job
BY ConstantsAssumption DEF ConstantsAssumption, Idle, Job, NoPos, CommandPos

\* The jobs after a get has ended.
LEMMA FinishJobs ==
  ASSUME job \in [Threads -> Job], NEW t \in Threads, NEW a, Finish(t, a)
  PROVE  /\ job' \in [Threads -> Job]
         /\ job'[t].pc = "idle"
         /\ \A u \in Threads : u # t => job'[u] = job[u]
BY ZenonT(40), IdleJob DEF Finish, Idle

\* open makes each reader once, and no get runs yet.
LEMMA FreshReaderInv ==
  ASSUME NEW p, NEW j, p = (IF cloned THEN <<>> ELSE FullPool), j = [t \in Threads |-> Idle]
  PROVE  /\ p \in Seq(Readers)
         /\ \A i, h \in 1..Len(p) : p[i] = p[h] => i = h
         /\ j \in [Threads -> Job]
         /\ \A t \in Threads : j[t].pc = "idle"
         /\ cloned => p = <<>>
<1>1. FullPool \in Seq(Readers) /\ Len(FullPool) = Concurrency
  BY ReaderAssumption DEF ReaderAssumption, FullPool, ReaderIds, Readers
<1>2. \A i, h \in 1..Len(FullPool) : FullPool[i] = FullPool[h] => i = h
  BY ZenonT(40), <1>1 DEF FullPool, ReaderIds
<1>3. p \in Seq(Readers) /\ \A i, h \in 1..Len(p) : p[i] = p[h] => i = h
  BY <1>1, <1>2
<1>4. j \in [Threads -> Job] /\ \A t \in Threads : j[t].pc = "idle"
  BY ZenonT(40), IdleJob DEF Idle
<1> QED
  BY ZenonT(40), <1>3, <1>4

\* At first no reader is used.
LEMMA ReaderInit == InitStore => ReaderInv
BY ZenonT(40), FreshReaderInv DEF InitStore, ReaderInv, ReadersExclusive

\* Every step keeps the readers apart.
LEMMA ReaderStep ==
  ReaderInv /\ TypeInv /\ [NextStore]_storeVars => ReaderInv'
<1> SUFFICES ASSUME ReaderInv, TypeInv, [NextStore]_storeVars PROVE ReaderInv'
  OBVIOUS
<1> USE DEF ReadersExclusive
<1>1. CASE UNCHANGED readerVars
  BY <1>1 DEF ReaderInv, readerVars
<1>2. CASE FreshReaders
  BY <1>2, FreshReaderInv DEF ReaderInv, FreshReaders
<1>3. ASSUME NEW t \in Threads, NEW k \in Keys, GetLookup(t, k) PROVE ReaderInv'
  <2>1. job' \in [Threads -> Job] /\ \A u \in Threads : job'[u].pc = "read" => job'[u] = job[u]
    <3>1. CASE Finish(t, NoVal)
      BY ZenonT(40), <3>1, FinishJobs DEF ReaderInv
    <3>2. CASE job' = [job EXCEPT ![t] = [pc |-> "open", pos |-> index[k], reader |-> 0]]
      BY ZenonT(40), <3>2 DEF ReaderInv, Job, TypeInv, TypeOK
    <3> QED
      BY ZenonT(40), <1>3, <3>1, <3>2 DEF GetLookup
  <2>2. pool' = pool /\ cloned' = cloned
    BY ZenonT(40), <1>3 DEF GetLookup
  <2> QED
    BY <2>1, <2>2 DEF ReaderInv
<1>4. ASSUME NEW t \in Threads, GetPanic(t) PROVE ReaderInv'
  BY <1>4, FinishJobs DEF ReaderInv, GetPanic
<1>5. ASSUME NEW t \in Threads, GetOpen(t) PROVE ReaderInv'
  <2> DEFINE r == IF cloned THEN t ELSE Head(pool)
  <2>1. r \in Readers /\ pool' \in Seq(Readers) /\ cloned' = cloned
    BY <1>5 DEF GetOpen, ReaderInv, Readers, Popped
  <2>2. /\ job' \in [Threads -> Job]
        /\ \A u \in Threads : u # t => job'[u] = job[u]
        /\ job'[t].pc = "read" => job'[t].reader = r
    <3>1. CASE job' = [job EXCEPT ![t] = [pc |-> "read", pos |-> job[t].pos, reader |-> r]]
      BY ZenonT(40), <2>1, <3>1 DEF ReaderInv, Job
    <3> QED
      BY ZenonT(40), <1>5, <3>1, FinishJobs DEF GetOpen, ReaderInv
  <2>3. CASE cloned
    BY <1>5, <2>1, <2>2, <2>3 DEF GetOpen, ReaderInv
  <2>4. CASE ~cloned
    <3>1. /\ pool # <<>> /\ pool' = Tail(pool) /\ r = pool[1]
          /\ pool \in Seq(Readers)
      BY <1>5, <2>4 DEF GetOpen, Popped, ReaderInv
    <3>2. /\ 1 \in 1..Len(pool)
          /\ \A i \in 1..Len(pool') : i + 1 \in 1..Len(pool) /\ pool'[i] = pool[i + 1]
      BY <3>1
    <3>3. \A i \in 1..Len(pool') : pool'[i] # r
      BY <3>1, <3>2 DEF ReaderInv
    <3>4. \A i, h \in 1..Len(pool') : pool'[i] = pool'[h] => i = h
      BY <3>2 DEF ReaderInv
    <3>5. \A u \in Threads : job[u].pc = "read" =>
              job[u].reader # r /\ \A i \in 1..Len(pool') : pool'[i] # job[u].reader
      BY <3>1, <3>2 DEF ReaderInv
    <3> QED
      BY ZenonT(40), <2>1, <2>2, <2>4, <3>3, <3>4, <3>5 DEF ReaderInv
  <2> QED
    BY ZenonT(40), <2>3, <2>4
<1>6. ASSUME NEW t \in Threads, GetRead(t) PROVE ReaderInv'
  <2> DEFINE r == job[t].reader
  <2>1. /\ job' \in [Threads -> Job] /\ job'[t].pc = "idle" /\ cloned' = cloned
        /\ \A u \in Threads : u # t => job'[u] = job[u]
    BY ZenonT(40), <1>6, FinishJobs DEF GetRead, ReaderInv
  <2>2. CASE pool' = pool
    BY <2>1, <2>2 DEF ReaderInv
  <2>3. CASE ~cloned /\ pool' = Append(pool, r)
    <3>1. pool \in Seq(Readers) /\ r \in Readers
      BY ZenonT(40), <1>6 DEF GetRead, ReaderInv
    <3>2. Len(pool') = Len(pool) + 1 /\ pool'[Len(pool) + 1] = r
          /\ \A i \in 1..Len(pool) : pool'[i] = pool[i]
      BY <2>3, <3>1
    <3>3. \A i \in 1..Len(pool) : pool[i] # r
      BY ZenonT(40), <1>6 DEF GetRead, ReaderInv
    <3>4. pool' \in Seq(Readers)
      BY <2>3, <3>1
    <3>5. \A i, h \in 1..Len(pool') : pool'[i] = pool'[h] => i = h
      BY <3>1, <3>2, <3>3 DEF ReaderInv
    <3>6. ASSUME NEW u \in Threads, job'[u].pc = "read"
          PROVE  \A i \in 1..Len(pool') : pool'[i] # job'[u].reader
      BY <1>6, <2>1, <3>1, <3>2, <3>6 DEF ReaderInv, GetRead
    <3> QED
      BY <2>1, <2>3, <3>4, <3>5, <3>6 DEF ReaderInv
  <2> QED
    BY ZenonT(40), <1>6, <2>2, <2>3 DEF GetRead
<1>7. CASE OpenStore \/ \E t \in Threads : CloneStore(t)
  BY <1>7 DEF ReaderInv, OpenStore, CloneStore
<1> QED
  BY ZenonT(40), <1>1, <1>2, <1>3, <1>4, <1>5, <1>6, <1>7 DEF NextStore, Get, storeVars, readerVars

\* The RefCell of a KvStoreReader is used by one get at a time, whichever I/O
\* calls fail.
THEOREM ReadersAlwaysExclusive == StoreSpec => []ReadersExclusive
<1>1. InitStore => TypeInv
  BY ZenonT(40), StoreStepsAreLogSteps, TypeInit
<1>2. TypeInv /\ [NextStore]_storeVars => TypeInv'
  BY ZenonT(40), StoreStepsAreLogSteps, TypeStep
<1>3. ReaderInv => ReadersExclusive
  BY ZenonT(40) DEF ReaderInv
<1> QED
  BY <1>1, <1>2, <1>3, ReaderInit, ReaderStep, PTL DEF StoreSpec

-----------------------------------------------------------------------------
(* Gets beside the writer.                                                 *)

\* At first no get runs.
LEMMA GetInit == InitStore => GetInv
BY DEF InitStore, Init, GetInv, Idle

\* Every step keeps the invariant of the gets.
LEMMA GetStep ==
  ASSUME "create" \notin Faults, "flush" \notin Faults
  PROVE  GetInv /\ ReaderInv /\ BufferIInv /\ [NextStore]_storeVars => GetInv'
<1> SUFFICES ASSUME GetInv, ReaderInv, BufferIInv, [NextStore]_storeVars PROVE GetInv'
  OBVIOUS
<1>0. /\ [Next]_vars /\ BufferIInv' /\ TypeInv /\ TypeInv' /\ ReaderInv'
      /\ job \in [Threads -> Job] /\ job' \in [Threads -> Job]
  <2>1. [Next]_vars /\ BufferIInv' /\ TypeInv
    BY ZenonT(40), StoreStepsAreLogSteps, BufferStep DEF BufferIInv, IndexIInv
  <2> QED
    BY ZenonT(40), <2>1, ReaderStep DEF BufferIInv, IndexIInv, ReaderInv
<1>1. CASE mode # "up" /\ UNCHANGED <<job, answer>>
  BY <1>1, ConstantsAssumption DEF GetInv, Idle
<1>2. CASE mode = "up" /\ mode' = "up" /\ UNCHANGED <<job, answer>>
  <2>1. FilesKept
    BY ZenonT(40), <1>0, <1>2, FilesAreKept
  <2>2. \A t \in Threads : job[t].pos \in CommandPos
    BY ZenonT(40), <1>0 DEF Job
  <2>3. \A t \in Threads : job[t].pc # "idle" => Entry(job[t].pos)'
    BY ZenonT(40), <1>0, <1>2, <2>1, <2>2, EntryKept DEF GetInv
  <2> QED
    BY ZenonT(40), <1>2, <2>3 DEF GetInv
<1>3. CASE FreshReaders
  BY ZenonT(40), <1>3, IdleJob DEF GetInv, FreshReaders, Idle
<1>4. ASSUME NEW t \in Threads, NEW k \in Keys, GetLookup(t, k) PROVE GetInv'
  <2>1. UNCHANGED vars /\ mode = "up"
    BY ZenonT(40), <1>4 DEF GetLookup
  <2>2. CASE Finish(t, NoVal)
    BY ZenonT(40), <1>0, <2>1, <2>2, FinishJobs
       DEF GetInv, Entry, vars, diskVars, genVars, callVars, At, CompactionGen
  <2>3. CASE /\ index[k] # NoPos
             /\ job' = [job EXCEPT ![t] = [pc |-> "open", pos |-> index[k], reader |-> 0]]
    <3>2. \A u \in Threads : job'[u].pc # "idle" => Entry(job'[u].pos)
      BY ZenonT(40), <1>0, <2>1, <2>3, EntryFound DEF GetInv
    <3> QED
      BY ZenonT(40), <2>1, <3>2 DEF GetInv, Entry, vars, diskVars, genVars, callVars, At, CompactionGen
  <2> QED
    BY ZenonT(40), <1>4, <2>2, <2>3 DEF GetLookup
<1>5. ASSUME NEW t \in Threads, GetPanic(t) \/ GetOpen(t) \/ GetRead(t) PROVE GetInv'
  <2>1. UNCHANGED vars /\ mode = "up" /\ Idle.pc = "idle"
    BY <1>5 DEF GetPanic, GetOpen, GetRead, GetInv, Idle
  <2>2. \A u \in Threads :
            job'[u].pc # "idle" => job[u].pc # "idle" /\ job'[u].pos = job[u].pos
    <3>1. CASE \E r : job' = [job EXCEPT ![t] = [pc |-> "read", pos |-> job[t].pos, reader |-> r]]
      BY <1>0, <1>5, <3>1 DEF GetInv, ReaderInv, GetPanic, GetOpen, GetRead
    <3>2. CASE \E a : Finish(t, a)
      BY ZenonT(40), <3>2, FinishJobs DEF GetInv, ReaderInv
    <3> QED
      BY ZenonT(40), <1>5, <3>1, <3>2 DEF GetPanic, GetOpen, GetRead
  <2> QED
    BY ZenonT(40), <2>1, <2>2 DEF GetInv, Entry, vars, diskVars, genVars, callVars, At, CompactionGen
<1>6. ASSUME NEW t \in Threads, CloneStore(t) PROVE UNCHANGED <<mode, job, answer>> /\ mode = "up"
  BY ZenonT(40), <1>6 DEF CloneStore, vars
<1>7. CASE OpenStore
  BY ZenonT(40), <1>1, <1>7 DEF OpenStore, Open, OpenStart, LoadCommand, OpenDone, OpenFails, LoadNextFile
<1>8. CASE \/ UNCHANGED storeVars
           \/ UNCHANGED readerVars /\ (Request \/ WriterStep \/ \E g \in Gens : Spill(g))
  <2>1. UNCHANGED <<mode, job, answer>>
    BY ZenonT(40), <1>8, ModeKept DEF storeVars, readerVars, vars
  <2> QED
    BY ZenonT(40), <1>1, <1>2, <2>1
<1> QED
  BY ZenonT(40), <1>2, <1>3, <1>4, <1>5, <1>6, <1>7, <1>8 DEF NextStore, Get

\* A get fails only beside a compaction, as long as files can be created and
\* flushed; serialising a command and deleting stale files may fail.
THEOREM GetsFailOnlyBesideCompaction ==
  ASSUME "create" \notin Faults, "flush" \notin Faults
  PROVE  StoreSpec => []GetFailsOnlyBesideCompaction
<1>1. InitStore => BufferIInv
  BY ZenonT(40), StoreStepsAreLogSteps, BufferInit
<1>2. /\ BufferIInv /\ [NextStore]_storeVars => BufferIInv'
      /\ BufferIInv => TypeInv
  BY ZenonT(40), StoreStepsAreLogSteps, BufferStep DEF BufferIInv, IndexIInv
<1>3. BufferIInv /\ ReaderInv /\ [NextStore]_storeVars => ReaderInv'
  BY ZenonT(40), <1>2, ReaderStep
<1>4. GetInv => GetFailsOnlyBesideCompaction
  BY ZenonT(40) DEF GetInv, Entry, GetFailsOnlyBesideCompaction
<1>5. BufferIInv /\ ReaderInv /\ GetInv /\ [NextStore]_storeVars => GetInv'
  BY GetStep
<1> QED
  BY <1>1, <1>2, <1>3, <1>4, <1>5, ReaderInit, GetInit, PTL DEF StoreSpec

-----------------------------------------------------------------------------
(* The store implements KvsEngine.                                         *)

\* The store is a KvsEngine, whatever the keys, values, threads and bounds, as long
\* as only serialising a command may fail: every step is a step of KvsEngine or
\* cannot be seen.
THEOREM StoreImplementsEngine ==
  ASSUME Faults \subseteq {"write"} PROVE StoreSpec => RefinesEngine
<1>0. "create" \notin Faults /\ "flush" \notin Faults
  OBVIOUS
<1>1. InitStore => StoreIInv
  <2>1. InitStore => IInv
    BY ZenonT(40), BufferInit DEF InitStore, Init, IInv, StaleInv, Durable
  <2> QED
    BY ZenonT(40), <2>1, ReaderInit, GetInit DEF StoreIInv
<1>2. InitStore => Engine!Init
  <2> SUFFICES ASSUME InitStore PROVE Engine!Init
    OBVIOUS
  <2>1. \A k \in Keys : Recovered(k) = NoVal
    BY DEF InitStore, Init, Recovered, Stored
  <2>2. kvBar = [k \in Keys |-> NoVal] /\ opBar = NoOp /\ seenBar = [t \in Threads |-> Unset]
    BY ZenonT(40), <2>1 DEF InitStore, Init, kvBar, opBar, seenBar, Idle
  <2> QED
    BY ZenonT(40), <2>2 DEF InitStore, Init, Engine!Init
<1>3. StoreIInv /\ [NextStore]_storeVars => StoreIInv'
  <2> SUFFICES ASSUME StoreIInv, [NextStore]_storeVars PROVE StoreIInv'
    OBVIOUS
  <2>1. IInv' /\ TypeInv /\ BufferIInv
    BY ZenonT(40), StoreStepsAreLogSteps, DurableStep DEF StoreIInv, IInv, BufferIInv, IndexIInv
  <2> QED
    BY ZenonT(40), <1>0, <2>1, ReaderStep, GetStep DEF StoreIInv
<1>4. StoreIInv /\ StoreIInv' /\ [NextStore]_storeVars => [Engine!Next]_(Engine!vars)
  <2> SUFFICES ASSUME StoreIInv, StoreIInv', [NextStore]_storeVars PROVE EngineStep
    BY ZenonT(40) DEF EngineStep
  <2>1. CASE UNCHANGED storeVars
    <3>1. UNCHANGED <<vars, job, answer>>
      BY ZenonT(40), <2>1 DEF storeVars, readerVars
    <3>2. seenBar' = seenBar
      BY <3>1, BarsSame DEF seenBar, At
    <3> QED
      BY ZenonT(40), <3>1, <3>2, BarsSame, Unseen
  <2> QED
    BY ZenonT(40), <1>0, <2>1, EngineOpen, EngineCrash, EngineWriter, EngineGets DEF NextStore
<1> QED
  BY <1>1, <1>2, <1>3, <1>4, PTL DEF StoreSpec, RefinesEngine, Engine!Spec
=============================================================================
