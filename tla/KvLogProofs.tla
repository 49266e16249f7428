---------------------------- MODULE KvLogProofs -----------------------------
(***************************************************************************)
(* The log engine, whichever I/O calls fail, for every set of keys and     *)
(* values and every bound: type correctness and what the types say of the  *)
(* files; the index is correct unless creating a file fails (IndexIInv);   *)
(* what is in the files and what is still in a buffer (BufferIInv); and    *)
(* what an open store does to its files (FilesKept).                       *)
(***************************************************************************)
EXTENDS KvLogInv, TLAPS

\* A record that is cut off again is still a record.
LEMMA TornRecord == \A r \in Record : Torn(r) \in Record
<1> SUFFICES ASSUME NEW r \in Record PROVE Torn(r) \in Record
  OBVIOUS
<1>1. CASE r \in Command
  BY <1>1 DEF Record
<1>2. CASE r \in {Torn(c) : c \in Command}
  <2>1. PICK c \in Command : r = Torn(c)
    BY <1>2
  <2>2. Torn(Torn(c)) = Torn(c)
    BY <2>1 DEF Torn, Command
  <2> QED
    BY <2>1, <2>2 DEF Record
<1> QED
  BY <1>1, <1>2 DEF Record

\* What a crash leaves in a file is a sequence of records.
LEMMA SurvivingType ==
  ASSUME TypeInv, NEW torn \in SUBSET {g \in gens : vis[g] < Len(log[g])},
         NEW g \in Gens
  PROVE  /\ Surviving(g, torn) \in Seq(Record)
         /\ Len(Surviving(g, torn)) \in Nat
<1> DEFINE kept == SubSeq(log[g], 1, vis[g])
<1>1. log[g] \in Seq(Record) /\ vis[g] \in Nat /\ vis[g] <= Len(log[g])
  BY DEF TypeInv, TypeOK, GenBounds
<1>2. kept \in Seq(Record)
  BY <1>1
<1>3. ASSUME g \in torn PROVE Append(kept, Torn(log[g][vis[g] + 1])) \in Seq(Record)
  <2>1. vis[g] < Len(log[g])
    BY <1>3
  <2>2. log[g][vis[g] + 1] \in Record
    BY <1>1, <2>1
  <2> QED
    BY <1>2, <2>2, TornRecord
<1>4. Surviving(g, torn) \in Seq(Record)
  BY <1>2, <1>3 DEF Surviving
<1> QED
  BY <1>4

\* The volatile state of a new process is well typed.
LEMMA ResetType ==
  ASSUME ResetVolatile, ConstantsAssumption
  PROVE  /\ index' \in [Keys -> CommandPos]
         /\ uncompacted' \in Nat
         /\ currentGen' \in 0..MaxGen
         /\ wgen' \in 0..MaxGen
         /\ safePoint' \in 0..MaxGen
         /\ pc' = "idle"
         /\ todo' \subseteq Keys
         /\ stale' \subseteq Gens
         /\ cursor' \in CommandPos
         /\ reply' \in {"none", "ok", "err", "notfound"}
BY DEF ResetVolatile, ConstantsAssumption, NoPos, CommandPos

\* The initial state is typed.
LEMMA TypeInit == Init => TypeInv
<1> SUFFICES ASSUME Init PROVE TypeInv
  OBVIOUS
<1>1. TypeOK
  BY ConstantsAssumption DEF Init, TypeOK, ConstantsAssumption, NoPos, CommandPos
<1>2. GenBounds
  BY DEF Init, GenBounds, Compacting
<1> QED
  BY <1>1, <1>2 DEF TypeInv

\* Appending a record to a log file, from its four callers.
LEMMA AppendType ==
  ASSUME TypeInv, NEW g \in 0..MaxGen, NEW c \in Record,
         log' = [log EXCEPT ![g] = Append(@, c)]
  PROVE  /\ log' \in [Gens -> Seq(Record)]
         /\ \A h \in Gens : Len(log'[h]) >= Len(log[h])
<1>1. log \in [Gens -> Seq(Record)]
  BY DEF TypeInv, TypeOK
<1>2. \A h \in Gens : log'[h] = IF h = g THEN Append(log[h], c) ELSE log[h]
  BY <1>1
<1>3. \A h \in Gens : log'[h] \in Seq(Record) /\ Len(log'[h]) >= Len(log[h])
  BY <1>1, <1>2
<1> QED
  BY ZenonT(40), <1>1, <1>3

\* Flushing the buffer of a log file.
LEMMA FlushedType ==
  ASSUME TypeInv, NEW g \in 0..MaxGen, vis' = Flushed(g)
  PROVE  /\ vis' \in [Gens -> Nat]
         /\ \A h \in Gens : vis'[h] <= Len(log[h])
<1>1. log \in [Gens -> Seq(Record)] /\ vis \in [Gens -> Nat]
  BY DEF TypeInv, TypeOK
<1>2. \A h \in Gens : vis'[h] = IF h = g THEN Len(log[h]) ELSE vis[h]
  BY <1>1 DEF Flushed
<1>3. \A h \in Gens : vis'[h] \in Nat /\ vis'[h] <= Len(log[h])
  BY <1>1, <1>2 DEF TypeInv, GenBounds
<1> QED
  BY ZenonT(40), <1>1, <1>3 DEF Flushed

\* The commands set and remove write.
LEMMA CommandType ==
  /\ \A k \in Keys, v \in Vals : [op |-> "set", key |-> k, val |-> v] \in Command
  /\ \A k \in Keys : [op |-> "remove", key |-> k, val |-> NoVal] \in Command
BY DEF Command

\* open and load keep the types.
LEMMA OpenType ==
  ASSUME TypeInv, Open PROVE TypeInv'
<1> USE ConstantsAssumption DEF ConstantsAssumption
<1>1. CASE OpenStart
  BY <1>1 DEF OpenStart, TypeInv, TypeOK, GenBounds, NoPos, Compacting, diskVars,
     memVars, genVars, callVars, loopVars
<1>2. CASE LoadCommand
  <2>1. cursor' \in CommandPos /\ cursor'.gen = cursor.gen
    BY <1>2 DEF LoadCommand, TypeInv, TypeOK, CommandPos
  <2>2. index' \in [Keys -> CommandPos]
    <3>1. NoPos \in CommandPos /\ cursor \in CommandPos
      BY DEF NoPos, CommandPos, TypeInv, TypeOK
    <3>2. PICK x \in CommandPos : index' = [index EXCEPT ![At(cursor).key] = x]
      BY ZenonT(40), <1>2, <3>1 DEF LoadCommand
    <3> QED
      BY ZenonT(40), <3>2 DEF TypeInv, TypeOK
  <2>3. uncompacted' \in Nat
    BY <1>2 DEF LoadCommand, TypeInv, TypeOK, OldLen, OwnLen, CmdLen
  <2> QED
    BY ZenonT(40), <1>2, <2>1, <2>2, <2>3 DEF LoadCommand, TypeInv, TypeOK, GenBounds,
       Compacting, diskVars, genVars, callVars, loopVars
<1>3. CASE OpenDone
  <2>1. cursor.gen + 1 \in Gens /\ cursor.gen + 1 \in 0..MaxGen
    BY <1>3 DEF OpenDone, TypeInv, TypeOK, GenBounds, Gens, CommandPos
  <2>2. TypeOK'
    <3>1. NoPos \in CommandPos
      BY DEF NoPos, CommandPos
    <3> QED
      BY <1>3, <2>1, <3>1 DEF OpenDone, TypeInv, TypeOK, memVars, callVars, loopVars
  <2>3. GenBounds'
    BY <1>3, <2>1 DEF OpenDone, TypeInv, TypeOK, GenBounds, Gens, Compacting,
       memVars, callVars, loopVars
  <2> QED
    BY <2>2, <2>3 DEF TypeInv
<1>4. CASE OpenFails
  BY <1>4, ResetType DEF OpenFails, ResetVolatile, TypeInv, TypeOK, GenBounds, Compacting,
     diskVars
<1>5. ASSUME NEW g \in gens, LoadNextFile(g) PROVE TypeInv'
  BY SMTT(40), <1>5 DEF LoadNextFile, Following, TypeInv, TypeOK, GenBounds, Compacting, Gens,
     CommandPos, diskVars, memVars, genVars, callVars, loopVars
<1> QED
  BY <1>1, <1>2, <1>3, <1>4, <1>5 DEF Open

\* Accepting a set or remove keeps the types.
LEMMA RequestType ==
  ASSUME TypeInv, Request PROVE TypeInv'
<1> USE ConstantsAssumption DEF ConstantsAssumption
<1>1. ASSUME NEW c \in Command, Ready, WriteCommand(c) \/ WriteCommandFails(c)
      PROVE  TypeInv'
  <2>1. c \in Record /\ Torn(c) \in Record
    BY TornRecord DEF Record
  <2>2. wgen \in 0..MaxGen
    BY DEF TypeInv, TypeOK
  <2>3. /\ log' \in [Gens -> Seq(Record)]
        /\ \A h \in Gens : Len(log'[h]) >= Len(log[h])
    BY <1>1, <2>1, <2>2, AppendType DEF WriteCommand, WriteCommandFails
  <2>4. \A h \in Gens : vis[h] <= Len(log'[h])
    BY <2>3 DEF TypeInv, TypeOK, GenBounds
  <2>5. TypeOK'
    BY <1>1, <2>3 DEF WriteCommand, WriteCommandFails, Return, TypeInv, TypeOK,
       memVars, genVars, loopVars
  <2>6. GenBounds'
    BY <1>1, <2>4 DEF Ready, WriteCommand, WriteCommandFails, Return, TypeInv,
       GenBounds, Compacting, memVars, genVars, loopVars
  <2> QED
    BY <2>5, <2>6 DEF TypeInv
<1>2. ASSUME NEW k \in Keys, NEW v \in Vals, Set(k, v) PROVE TypeInv'
  BY <1>1, <1>2, CommandType DEF Set
<1>3. ASSUME NEW k \in Keys, Remove(k) PROVE TypeInv'
  BY <1>1, <1>3, CommandType DEF Remove
<1>4. ASSUME NEW k \in Keys, RemoveMissing(k) PROVE TypeInv'
  BY <1>4 DEF RemoveMissing, TypeInv, TypeOK, GenBounds, Compacting, diskVars,
     memVars, genVars, loopVars
<1> QED
  BY <1>2, <1>3, <1>4 DEF Request

\* The steps of set and remove keep the types.
LEMMA WriterType ==
  ASSUME TypeInv, Flush \/ FlushFails \/ IndexCommand PROVE TypeInv'
<1> USE ConstantsAssumption DEF ConstantsAssumption
<1>1. CASE Flush
  <2>1. /\ vis' \in [Gens -> Nat]
        /\ \A h \in Gens : vis'[h] <= Len(log[h])
    BY <1>1, FlushedType DEF Flush, TypeInv, TypeOK
  <2>2. TypeOK'
    BY <1>1, <2>1 DEF Flush, TypeInv, TypeOK, memVars, genVars, loopVars
  <2>3. GenBounds'
    BY <1>1, <2>1 DEF Flush, TypeInv, GenBounds, Compacting, memVars, genVars, loopVars
  <2> QED
    BY <2>2, <2>3 DEF TypeInv
<1>2. CASE FlushFails
  BY <1>2 DEF FlushFails, Return, TypeInv, TypeOK, GenBounds, Compacting, diskVars,
     memVars, genVars, loopVars
<1>3. CASE IndexCommand
  <2>1. wgen \in Gens /\ Len(log[wgen]) \in Nat
    BY <1>3 DEF IndexCommand, TypeInv, TypeOK, GenBounds
  <2>2. index' \in [Keys -> CommandPos]
    <3>1. /\ NoPos \in CommandPos
          /\ [gen |-> currentGen, pos |-> Len(log[wgen])] \in CommandPos
      BY <2>1 DEF NoPos, CommandPos, TypeInv, TypeOK
    <3>2. PICK x \in CommandPos : index' = [index EXCEPT ![Cmd.key] = x]
      BY ZenonT(40), <1>3, <3>1 DEF IndexCommand
    <3> QED
      BY ZenonT(40), <3>2 DEF TypeInv, TypeOK
  <2>3. uncompacted' \in Nat
    BY <1>3 DEF IndexCommand, TypeInv, TypeOK, OldLen, OwnLen, CmdLen
  <2>4. /\ pc' \in {"idle", "newlog"}
        /\ reply' \in {reply, "ok"}
    BY ZenonT(40), <1>3 DEF IndexCommand, Return
  <2>5. TypeOK'
    BY <1>3, <2>2, <2>3, <2>4 DEF IndexCommand, TypeInv, TypeOK, diskVars, genVars,
       loopVars
  <2>6. GenBounds'
    BY <1>3, <2>4 DEF IndexCommand, TypeInv, GenBounds, Compacting, diskVars, genVars,
       loopVars
  <2> QED
    BY <2>5, <2>6 DEF TypeInv
<1> QED
  BY <1>1, <1>2, <1>3

\* Spilling a buffer and a crash.
LEMMA EnvironmentType ==
  ASSUME TypeInv, (\E g \in Gens : Spill(g)) \/ Crash PROVE TypeInv'
<1> USE ConstantsAssumption DEF ConstantsAssumption
<1>1. ASSUME NEW g \in Gens, Spill(g) PROVE TypeInv'
  <2>1. \A h \in Gens : vis'[h] = IF h = g THEN vis[h] + 1 ELSE vis[h]
    BY <1>1 DEF Spill, TypeInv, TypeOK
  <2>2. \A h \in Gens : vis'[h] \in Nat /\ vis'[h] <= Len(log[h])
    BY <1>1, <2>1 DEF Spill, TypeInv, TypeOK, GenBounds
  <2>3. vis' \in [Gens -> Nat]
    BY <1>1, <2>2 DEF Spill, TypeInv, TypeOK
  <2>4. TypeOK'
    BY <1>1, <2>3 DEF Spill, TypeInv, TypeOK, memVars, genVars, callVars, loopVars
  <2>5. GenBounds'
    BY <1>1, <2>2 DEF Spill, TypeInv, GenBounds, Compacting, memVars, genVars,
       callVars, loopVars
  <2> QED
    BY <2>4, <2>5 DEF TypeInv
<1>2. CASE Crash
  <2>1. PICK torn \in SUBSET {g \in gens : vis[g] < Len(log[g])} :
            /\ log' = [g \in Gens |-> Surviving(g, torn)]
            /\ vis' = [g \in Gens |-> Len(Surviving(g, torn))]
    BY ZenonT(40), <1>2 DEF Crash
  <2>2. \A g \in Gens : /\ Surviving(g, torn) \in Seq(Record)
                        /\ Len(Surviving(g, torn)) \in Nat
    BY SurvivingType
  <2>3. log' \in [Gens -> Seq(Record)] /\ vis' \in [Gens -> Nat]
    BY <2>1, <2>2
  <2>4. \A g \in Gens : vis'[g] <= Len(log'[g])
    BY <2>1, <2>2
  <2>5. TypeOK'
    BY <1>2, <2>3, ResetType DEF Crash, TypeInv, TypeOK
  <2>6. GenBounds'
    BY <1>2, <2>4 DEF Crash, ResetVolatile, GenBounds, Compacting
  <2> QED
    BY <2>5, <2>6 DEF TypeInv
<1> QED
  BY <1>1, <1>2

\* The steps of compact keep the types, and its generation numbers their order.
LEMMA CompactType ==
  ASSUME TypeInv, Compact PROVE TypeInv'
<1> USE ConstantsAssumption DEF ConstantsAssumption
<1>0. /\ currentGen \in 0..MaxGen /\ wgen \in 0..MaxGen /\ gens \subseteq Gens
      /\ Compacting => CompactionGen \in Gens /\ CompactionGen \in 0..MaxGen
  BY DEF TypeInv, TypeOK, GenBounds, CompactionGen, Gens
<1>1. CASE CompactNewLog
  <2>1. /\ vis' \in [Gens -> Nat]
        /\ \A h \in Gens : vis'[h] <= Len(log[h])
    BY ZenonT(40), <1>1, FlushedType DEF CompactNewLog, TypeInv, TypeOK
  <2>2. /\ mode = "up" /\ currentGen \in Gens
        /\ currentGen + 2 \in Gens /\ currentGen + 2 \in 0..MaxGen
        /\ currentGen + 2 >= 3
    BY <1>1 DEF CompactNewLog, TypeInv, TypeOK, GenBounds, Gens
  <2>3. TypeOK'
    BY ZenonT(40), <1>1, <2>1, <2>2 DEF CompactNewLog, TypeInv, TypeOK, memVars, loopVars
  <2>4. GenBounds'
    BY <1>1, <2>1, <2>2 DEF CompactNewLog, GenBounds, Compacting, memVars, loopVars
  <2> QED
    BY <2>3, <2>4 DEF TypeInv
<1>2. CASE CompactNewLogFails
  <2>1. /\ mode = "up" /\ currentGen \in Gens /\ wgen \in gens /\ wgen <= currentGen
        /\ currentGen + 2 \in Gens /\ currentGen + 2 \in 0..MaxGen
    BY <1>2 DEF CompactNewLogFails, TypeInv, TypeOK, GenBounds, Gens
  <2>2. TypeOK'
    BY ZenonT(40), <1>2, <2>1 DEF CompactNewLogFails, Return, TypeInv, TypeOK, diskVars, memVars,
       loopVars
  <2>3. wgen' \in gens' /\ wgen' <= currentGen'
    BY <1>2, <2>1, <1>0 DEF CompactNewLogFails, diskVars
  <2>4. GenBounds'
    BY <1>2, <2>1, <2>3 DEF CompactNewLogFails, Return, TypeInv, GenBounds, Compacting,
       diskVars, memVars, loopVars
  <2> QED
    BY <2>2, <2>4 DEF TypeInv
<1>3. CASE CompactNewFile
  <2>1. TypeOK'
    BY <1>0, <1>3 DEF CompactNewFile, Compacting, TypeInv, TypeOK, memVars, genVars
  <2>2. GenBounds'
    BY <1>3 DEF CompactNewFile, TypeInv, GenBounds, Compacting, memVars, genVars
  <2> QED
    BY <2>1, <2>2 DEF TypeInv
<1>4. CASE CompactCallFails
  BY <1>4 DEF CompactCallFails, Return, TypeInv, TypeOK, GenBounds, Compacting,
     diskVars, memVars, genVars, loopVars
<1>5. ASSUME NEW k \in Keys, CompactEntry(k) PROVE TypeInv'
  <2>1. Compacting
    BY ZenonT(40), <1>5 DEF CompactEntry, Compacting
  <2>2. At(index[k]) \in Record
    <3>1. index[k].gen \in Gens /\ index[k].pos \in 1..vis[index[k].gen]
      BY <1>0, <1>5 DEF CompactEntry, Readable
    <3>2. /\ vis[index[k].gen] <= Len(log[index[k].gen])
          /\ log[index[k].gen] \in Seq(Record) /\ vis[index[k].gen] \in Nat
      BY ZenonT(40), <3>1 DEF TypeInv, TypeOK, GenBounds
    <3>3. index[k].pos \in 1..Len(log[index[k].gen])
      BY <3>1, <3>2
    <3> QED
      BY <3>2, <3>3 DEF At
  <2>3. /\ log' \in [Gens -> Seq(Record)]
        /\ \A h \in Gens : Len(log'[h]) >= Len(log[h])
    BY ZenonT(40), <1>0, <1>5, <2>1, <2>2, AppendType DEF CompactEntry
  <2>4. index' \in [Keys -> CommandPos]
    <3>1. [gen |-> CompactionGen, pos |-> NewPos] \in CommandPos
      BY <1>0, <2>1 DEF CommandPos, NewPos, TypeInv, TypeOK
    <3> QED
      BY ZenonT(40), <1>5, <3>1 DEF CompactEntry, TypeInv, TypeOK
  <2>5. \A h \in Gens : vis[h] <= Len(log'[h])
    BY <2>3 DEF TypeInv, TypeOK, GenBounds
  <2>6. TypeOK'
    BY <1>5, <2>3, <2>4 DEF CompactEntry, TypeInv, TypeOK, genVars, callVars
  <2>7. GenBounds'
    BY ZenonT(40), <1>5, <2>5 DEF CompactEntry, TypeInv, GenBounds, Compacting, genVars, callVars
  <2> QED
    BY <2>6, <2>7 DEF TypeInv
<1>6. ASSUME NEW k \in Keys, CompactEntryFails(k) PROVE TypeInv'
  <2>1. /\ vis' \in [Gens -> Nat]
        /\ \A h \in Gens : vis'[h] <= Len(log[h])
    BY <1>0, <1>6, FlushedType DEF CompactEntryFails, Compacting
  <2>2. TypeOK'
    BY <1>6, <2>1 DEF CompactEntryFails, Return, TypeInv, TypeOK, memVars, genVars
  <2>3. GenBounds'
    BY <1>6, <2>1 DEF CompactEntryFails, Return, TypeInv, GenBounds, Compacting,
       memVars, genVars
  <2> QED
    BY <2>2, <2>3 DEF TypeInv
<1>7. CASE CompactFlush
  <2>1. /\ vis' \in [Gens -> Nat]
        /\ \A h \in Gens : vis'[h] <= Len(log[h])
    BY ZenonT(40), <1>0, <1>7, FlushedType DEF CompactFlush, Compacting
  <2>2. TypeOK'
    BY <1>7, <2>1 DEF CompactFlush, TypeInv, TypeOK, memVars, genVars
  <2>3. GenBounds'
    BY ZenonT(40), <1>7, <2>1 DEF CompactFlush, TypeInv, GenBounds, Compacting, memVars, genVars
  <2> QED
    BY <2>2, <2>3 DEF TypeInv
<1>8. CASE CompactSafePoint
  <2>1. TypeOK'
    BY <1>0, <1>8 DEF CompactSafePoint, Compacting, TypeInv, TypeOK, diskVars, memVars
  <2>2. \A g \in stale' : g < wgen'
    BY <1>0, <1>8 DEF CompactSafePoint, TypeInv, GenBounds, Compacting, CompactionGen,
       Gens
  <2>3. GenBounds'
    BY ZenonT(40), <1>8, <2>2 DEF CompactSafePoint, TypeInv, GenBounds, Compacting, diskVars, memVars
  <2> QED
    BY <2>1, <2>3 DEF TypeInv
<1>9. ASSUME NEW g \in Gens, CompactUnlink(g) PROVE TypeInv'
  <2>1. /\ mode = "up" /\ g \in stale /\ g < wgen /\ wgen \in gens
        /\ gens' \subseteq gens /\ wgen \in gens' /\ stale' \subseteq stale
    BY <1>0, <1>9 DEF CompactUnlink, FirstStale, OtherStale, TypeInv, GenBounds, Gens
  <2>2. TypeOK'
    BY ZenonT(40), <1>0, <1>9, <2>1 DEF CompactUnlink, TypeInv, TypeOK, memVars, genVars, callVars
  <2>3. GenBounds'
    BY ZenonT(40), <1>9, <2>1 DEF CompactUnlink, TypeInv, GenBounds, Compacting, memVars, genVars,
       callVars
  <2> QED
    BY <2>2, <2>3 DEF TypeInv
<1>10. CASE CompactDone
  BY <1>10 DEF CompactDone, Return, TypeInv, TypeOK, GenBounds, Compacting,
     diskVars, genVars, loopVars
<1> QED
  BY ZenonT(40), <1>1, <1>2, <1>3, <1>4, <1>5, <1>6, <1>7, <1>8, <1>9, <1>10 DEF Compact

\* Every step keeps the types.
LEMMA TypeStep == TypeInv /\ [Next]_vars => TypeInv'
<1> SUFFICES ASSUME TypeInv, [Next]_vars PROVE TypeInv'
  OBVIOUS
<1>1. CASE UNCHANGED vars
  BY <1>1 DEF TypeInv, TypeOK, GenBounds, Compacting, vars, diskVars, memVars, genVars,
     loopVars, callVars
<1> QED
  BY ZenonT(40), <1>1, OpenType, RequestType, WriterType, CompactType, EnvironmentType
     DEF Next, WriterStep

\* Type correctness: whichever I/O calls fail and wherever the process is
\* killed, every variable keeps its type and no step of set, remove, compact
\* or open uses a generation number outside the files it may create.
THEOREM TypeCorrect == Spec => [](TypeOK /\ GenBounds)
<1>1. TypeInv => TypeOK /\ GenBounds
  BY DEF TypeInv
<1> QED
  BY <1>1, TypeInit, TypeStep, PTL DEF Spec

\* What type correctness says of the files.
LEMMA FileBounds ==
  ASSUME TypeInv
  PROVE  /\ gens \subseteq Gens
         /\ \A g \in Gens : vis[g] \in Nat /\ Len(log[g]) \in Nat /\ vis[g] <= Len(log[g])
BY DEF TypeInv, TypeOK, GenBounds

\* The same after a step.
LEMMA FileBoundsNext ==
  ASSUME TypeInv'
  PROVE  /\ gens' \subseteq Gens
         /\ \A g \in Gens :
                vis'[g] \in Nat /\ Len(log'[g]) \in Nat /\ vis'[g] <= Len(log'[g])
BY DEF TypeInv, TypeOK, GenBounds

\* A crash keeps the commands that have reached a file and may add a torn one.
LEMMA SurvivingKeeps ==
  ASSUME TypeInv, NEW torn \in SUBSET {g \in gens : vis[g] < Len(log[g])}, NEW g \in gens
  PROVE  LET s == Surviving(g, torn)
         IN  /\ \A i \in 1..vis[g] : i \in 1..Len(s) /\ s[i] = log[g][i]
             /\ \A i \in 1..Len(s) : i \in 1..vis[g] \/ s[i].op = "torn"
<1> DEFINE kept == SubSeq(log[g], 1, vis[g])
           s == Surviving(g, torn)
<1>1. /\ g \in Gens /\ log[g] \in Seq(Record) /\ vis[g] \in Nat /\ vis[g] <= Len(log[g])
  BY ZenonT(40), FileBounds DEF TypeInv, TypeOK
<1>2. /\ kept \in Seq(Record) /\ Len(kept) = vis[g]
      /\ \A i \in 1..vis[g] : kept[i] = log[g][i]
  BY <1>1
<1>3. CASE g \notin torn
  <2>1. s = kept
    BY ZenonT(40), <1>3 DEF Surviving
  <2> QED
    BY <1>2, <2>1
<1>4. CASE g \in torn
  <2> DEFINE c == Torn(log[g][vis[g] + 1])
  <2>1. s = Append(kept, c) /\ c.op = "torn"
    BY ZenonT(40), <1>4 DEF Surviving, Torn
  <2> HIDE DEF kept, c
  <2>2. /\ Len(s) = vis[g] + 1 /\ s[vis[g] + 1] = c
        /\ \A i \in 1..vis[g] : s[i] = kept[i]
    BY <1>1, <1>2, <2>1
  <2> HIDE DEF s
  <2>3. /\ \A i \in 1..vis[g] : i \in 1..Len(s) /\ s[i] = log[g][i]
        /\ \A i \in 1..Len(s) : i \in 1..vis[g] \/ s[i].op = "torn"
    BY <1>1, <1>2, <2>1, <2>2
  <2> QED
    BY <2>3 DEF s
<1> QED
  BY ZenonT(40), <1>3, <1>4

-----------------------------------------------------------------------------
(* The index.                                                              *)

\* What a file holds stays where it is when a command is appended to some file.
LEMMA AppendKeeps ==
  ASSUME TypeInv, NEW g \in Gens, NEW c \in Record,
         log' = [log EXCEPT ![g] = Append(@, c)]
  PROVE  /\ log'[g] = Append(log[g], c)
         /\ Len(log'[g]) = Len(log[g]) + 1
         /\ log'[g][Len(log[g]) + 1] = c
         /\ \A h \in Gens : h # g => log'[h] = log[h]
         /\ \A h \in Gens : \A i \in 1..Len(log[h]) :
                i \in 1..Len(log'[h]) /\ log'[h][i] = log[h][i]
<1>1. log \in [Gens -> Seq(Record)]
  BY DEF TypeInv, TypeOK
<1>2. /\ log'[g] = Append(log[g], c)
      /\ \A h \in Gens : h # g => log'[h] = log[h]
  BY <1>1
<1>3. log[g] \in Seq(Record)
  BY ZenonT(40), <1>1
<1>4. /\ Len(log'[g]) = Len(log[g]) + 1
      /\ log'[g][Len(log[g]) + 1] = c
      /\ \A i \in 1..Len(log[g]) : i \in 1..Len(log'[g]) /\ log'[g][i] = log[g][i]
  BY <1>2, <1>3
<1> QED
  BY <1>2, <1>4

\* The index is empty before the first open.
LEMMA IndexInit == Init => IndexIInv
<1> SUFFICES ASSUME Init PROVE IndexIInv
  OBVIOUS
<1>1. ClosedInv
  BY ZenonT(40) DEF Init, ClosedInv
<1> QED
  BY <1>1, TypeInit DEF Init, IndexIInv, CursorInv, OpenInv, WrittenInv,
     ProgressInv, IndexInLog, NoIndexBelowSafePoint

\* The state a crash or a failed open leaves.
LEMMA IndexDown ==
  ASSUME TypeInv', mode' = "down", ResetVolatile,
         \A g \in Gens : vis'[g] = Len(log'[g]) /\ (g \notin gens' => log'[g] = <<>>)
  PROVE  IndexIInv'
BY ZenonT(40) DEF ResetVolatile, IndexIInv, ClosedInv, CursorInv, OpenInv, WrittenInv,
   ProgressInv, IndexInLog, NoIndexBelowSafePoint

\* load fills the index with positions it has just read.
LEMMA IndexOpen ==
  ASSUME IndexIInv, TypeInv', Open, "create" \notin Faults PROVE IndexIInv'
<1> USE ConstantsAssumption DEF ConstantsAssumption
<1>0. gens \subseteq Gens /\ cursor \in CommandPos /\ TypeInv
  BY ZenonT(40) DEF IndexIInv, TypeInv, TypeOK
<1>1. CASE OpenStart
  BY <1>1 DEF OpenStart, IndexIInv, TypeInv, GenBounds, ClosedInv, CursorInv, OpenInv,
     WrittenInv, ProgressInv, IndexInLog, NoIndexBelowSafePoint, NoPos, diskVars,
     memVars, genVars, callVars, loopVars
<1>2. CASE LoadCommand
  <2>1. /\ mode = "load" /\ mode' = "load" /\ pc = "idle" /\ pc' = "idle"
        /\ log' = log /\ gens' = gens /\ vis' = vis /\ safePoint' = safePoint
        /\ cursor'.gen = cursor.gen /\ cursor'.pos = cursor.pos + 1
        /\ cursor.gen \in gens /\ cursor.gen \in Gens
        /\ cursor.pos \in 1..Len(log[cursor.gen])
    <3>1. /\ mode = "load" /\ mode' = "load" /\ pc = "idle" /\ pc' = "idle"
          /\ log' = log /\ gens' = gens /\ vis' = vis /\ safePoint' = safePoint
          /\ cursor'.gen = cursor.gen /\ cursor'.pos = cursor.pos + 1
      BY ZenonT(40), <1>2 DEF LoadCommand, IndexIInv, TypeInv, GenBounds, diskVars, genVars, callVars
    <3>2. cursor.gen # 0 /\ ~(cursor.pos > Len(log[cursor.gen]))
      BY ZenonT(40), <1>2 DEF LoadCommand, AtEndOfFile
    <3>3. cursor.gen \in gens /\ cursor.gen \in Gens
      BY ZenonT(40), <1>0, <3>1, <3>2 DEF IndexIInv, TypeInv, GenBounds
    <3>4. Len(log[cursor.gen]) \in Nat
      BY <3>3 DEF IndexIInv, TypeInv, TypeOK
    <3>5. cursor.pos \in 1..(Len(log[cursor.gen]) + 1)
      BY ZenonT(40), <3>1, <3>2 DEF IndexIInv, CursorInv
    <3> QED
      BY <3>1, <3>2, <3>3, <3>4, <3>5
  <2>2. ClosedInv' /\ OpenInv' /\ WrittenInv' /\ ProgressInv' /\ NoIndexBelowSafePoint'
    BY ZenonT(40), <2>1 DEF IndexIInv, ClosedInv, OpenInv, WrittenInv, ProgressInv,
       NoIndexBelowSafePoint
  <2>3. CursorInv'
    <3>1. cursor'.gen # 0 /\ Len(log[cursor.gen]) \in Nat
      BY <2>1 DEF Gens, IndexIInv, TypeInv, TypeOK
    <3>2. cursor'.pos \in 1..(Len(log'[cursor'.gen]) + 1)
      BY <2>1, <3>1
    <3> QED
      BY ZenonT(40), <3>1, <3>2 DEF CursorInv
  <2>4. IndexInLog'
    <3>1. At(cursor) \in Record
      BY <2>1 DEF At, IndexIInv, TypeInv, TypeOK
    <3>2. At(cursor).key \in Keys
      BY <3>1 DEF Record, Command, Torn
    <3>3. \A k \in Keys : index'[k] = IF k = At(cursor).key
                                      THEN IF At(cursor).op = "set" THEN cursor ELSE NoPos
                                      ELSE index[k]
      BY ZenonT(40), <1>2, <3>2 DEF LoadCommand, IndexIInv, TypeInv, TypeOK
    <3> QED
      BY ZenonT(40), <2>1, <3>3 DEF IndexIInv, IndexInLog, At
  <2> QED
    BY ZenonT(40), <2>2, <2>3, <2>4 DEF IndexIInv
<1>3. CASE OpenDone
  <2>1. /\ mode = "load" /\ mode' = "up" /\ pc' = "idle"
        /\ log' = log /\ index' = index /\ vis' = vis /\ safePoint' = 0
        /\ gens' = gens \cup {cursor.gen + 1} /\ currentGen' = cursor.gen + 1
        /\ wgen' = currentGen'
        /\ cursor.gen \in 0..MaxGen
        /\ \A g \in gens : g <= cursor.gen
    BY ZenonT(40), <1>0, <1>3 DEF OpenDone, AllLoaded, IndexIInv, TypeInv, GenBounds, ClosedInv,
       CommandPos, memVars, callVars
  <2>2. OpenInv'
    <3>1. \A g \in gens' : g <= currentGen'
      BY <1>0, <2>1 DEF Gens
    <3>2. \A g \in Gens : g > currentGen' => log'[g] = <<>>
      BY <2>1 DEF IndexIInv, ClosedInv, Gens
    <3> QED
      BY <2>1, <3>1, <3>2 DEF OpenInv, Compacting
  <2>3. NoIndexBelowSafePoint' /\ IndexInLog'
    BY <2>1 DEF IndexIInv, IndexInLog, NoIndexBelowSafePoint, At, TypeInv, TypeOK,
       CommandPos
  <2> QED
    BY ZenonT(40), <2>1, <2>2, <2>3 DEF IndexIInv, ClosedInv, CursorInv, WrittenInv, ProgressInv
<1>4. CASE OpenFails
  BY ZenonT(40), <1>4, IndexDown DEF OpenFails, IndexIInv, ClosedInv, diskVars
<1>5. ASSUME NEW g \in gens, LoadNextFile(g) PROVE IndexIInv'
  <2>1. /\ mode = "load" /\ mode' = "load" /\ pc = "idle" /\ pc' = "idle"
        /\ log' = log /\ gens' = gens /\ vis' = vis /\ safePoint' = safePoint
        /\ index' = index /\ cursor' = [gen |-> g, pos |-> 1]
        /\ Len(log[g]) \in Nat
    BY <1>0, <1>5 DEF LoadNextFile, IndexIInv, TypeInv, TypeOK, GenBounds, diskVars,
       memVars, genVars, callVars
  <2>2. CursorInv'
    BY <1>0, <2>1 DEF CursorInv, Gens
  <2>3. IndexInLog'
    BY ZenonT(40), <2>1 DEF IndexIInv, IndexInLog, At
  <2>4. ClosedInv' /\ OpenInv' /\ WrittenInv' /\ ProgressInv' /\ NoIndexBelowSafePoint'
    BY ZenonT(40), <2>1 DEF IndexIInv, ClosedInv, OpenInv, WrittenInv, ProgressInv,
       NoIndexBelowSafePoint
  <2> QED
    BY ZenonT(40), <2>2, <2>3, <2>4 DEF IndexIInv
<1> QED
  BY ZenonT(40), <1>1, <1>2, <1>3, <1>4, <1>5 DEF Open

\* A new command is appended; no entry moves.
LEMMA IndexRequest ==
  ASSUME IndexIInv, TypeInv', Request PROVE IndexIInv'
<1> USE ConstantsAssumption DEF ConstantsAssumption
<1>0. gens \subseteq Gens /\ TypeInv
  BY ZenonT(40) DEF IndexIInv, TypeInv, TypeOK
<1>1. ASSUME NEW c \in Command, Ready, WriteCommand(c) \/ WriteCommandFails(c)
      PROVE  IndexIInv'
  <2>0. /\ mode = "up" /\ mode' = "up" /\ pc = "idle" /\ pc' \in {"idle", "flush"}
        /\ wgen' = wgen /\ currentGen' = currentGen /\ safePoint' = safePoint
        /\ index' = index /\ gens' = gens /\ vis' = vis
    BY ZenonT(40), <1>1 DEF Ready, WriteCommand, WriteCommandFails, Return, memVars, genVars
  <2>1. wgen \in Gens /\ wgen = currentGen /\ currentGen \in 0..MaxGen
    BY ZenonT(40), <1>0, <2>0 DEF IndexIInv, TypeInv, TypeOK, GenBounds, OpenInv
  <2>2. PICK d \in Record : /\ log' = [log EXCEPT ![wgen] = Append(@, d)]
                            /\ pc' = "flush" => d = c
    BY ZenonT(40), <1>1, TornRecord DEF Record, WriteCommand, WriteCommandFails, Return
  <2>3. /\ log'[wgen] = Append(log[wgen], d)
        /\ Len(log'[wgen]) = Len(log[wgen]) + 1
        /\ log'[wgen][Len(log[wgen]) + 1] = d
        /\ \A h \in Gens : h # wgen => log'[h] = log[h]
        /\ \A h \in Gens : \A i \in 1..Len(log[h]) :
               i \in 1..Len(log'[h]) /\ log'[h][i] = log[h][i]
    BY ZenonT(40), <1>0, <2>1, <2>2, AppendKeeps
  <2>4. OpenInv'
    <3>1. \A g \in Gens : g > currentGen => log'[g] = <<>>
      BY <2>0, <2>1, <2>3 DEF IndexIInv, OpenInv, Gens
    <3> QED
      BY ZenonT(40), <2>0, <2>1, <3>1 DEF IndexIInv, OpenInv, Compacting
  <2>5. WrittenInv'
    <3>1. Len(log[wgen]) \in Nat
      BY <2>1 DEF IndexIInv, TypeInv, TypeOK
    <3> QED
      BY <1>1, <2>0, <2>2, <2>3, <3>1 DEF WrittenInv, Cmd
  <2>6. IndexInLog'
    <3>1. ASSUME NEW k \in Keys, index[k] # NoPos
          PROVE  /\ index[k].gen \in gens
                 /\ index[k].pos \in 1..Len(log[index[k].gen])
                 /\ At(index[k]).op = "set" /\ At(index[k]).key = k
      BY ZenonT(40), <2>0, <3>1 DEF IndexIInv, IndexInLog
    <3>2. ASSUME NEW k \in Keys, index[k] # NoPos
          PROVE  /\ index[k].pos \in 1..Len(log'[index[k].gen])
                 /\ log'[index[k].gen][index[k].pos] = log[index[k].gen][index[k].pos]
      BY ZenonT(40), <1>0, <2>3, <3>1, <3>2
    <3> QED
      BY ZenonT(40), <2>0, <3>1, <3>2 DEF IndexInLog, At
  <2>7. NoIndexBelowSafePoint'
    BY ZenonT(40), <2>0 DEF IndexIInv, NoIndexBelowSafePoint
  <2> QED
    BY ZenonT(40), <2>0, <2>4, <2>5, <2>6, <2>7 DEF IndexIInv, ClosedInv, CursorInv, ProgressInv
<1>2. ASSUME NEW k \in Keys, NEW v \in Vals, Set(k, v) PROVE IndexIInv'
  BY ZenonT(40), <1>1, <1>2, CommandType DEF Set
<1>3. ASSUME NEW k \in Keys, Remove(k) PROVE IndexIInv'
  BY ZenonT(40), <1>1, <1>3, CommandType DEF Remove
<1>4. ASSUME NEW k \in Keys, RemoveMissing(k) PROVE IndexIInv'
  BY ZenonT(40), <1>4 DEF RemoveMissing, IndexIInv, ClosedInv, CursorInv, OpenInv, Compacting,
     WrittenInv, ProgressInv, IndexInLog, NoIndexBelowSafePoint, At, diskVars,
     memVars, genVars, loopVars
<1> QED
  BY ZenonT(40), <1>2, <1>3, <1>4 DEF Request

\* The new entry of set names the command just written; remove drops one.
LEMMA IndexWriter ==
  ASSUME IndexIInv, TypeInv', Flush \/ FlushFails \/ IndexCommand PROVE IndexIInv'
<1> USE ConstantsAssumption DEF ConstantsAssumption
<1>0. gens \subseteq Gens /\ TypeInv
  BY ZenonT(40) DEF IndexIInv, TypeInv, TypeOK
<1>1. CASE Flush \/ FlushFails
  <2>1. /\ mode = "up" /\ mode' = "up" /\ pc = "flush" /\ pc' \in {"idle", "index"}
        /\ wgen' = wgen /\ currentGen' = currentGen /\ safePoint' = safePoint
        /\ index' = index /\ gens' = gens /\ log' = log
    BY ZenonT(40), <1>1 DEF Flush, FlushFails, Return, IndexIInv, TypeInv, TypeOK, GenBounds,
       diskVars, memVars, genVars
  <2>2. OpenInv' /\ WrittenInv'
    BY ZenonT(40), <2>1 DEF IndexIInv, OpenInv, WrittenInv, Compacting, Cmd
  <2>3. IndexInLog' /\ NoIndexBelowSafePoint'
    BY ZenonT(40), <2>1 DEF IndexIInv, IndexInLog, NoIndexBelowSafePoint, At
  <2> QED
    BY ZenonT(40), <2>1, <2>2, <2>3 DEF IndexIInv, ClosedInv, CursorInv, ProgressInv
<1>2. CASE IndexCommand
  <2>1. /\ mode = "up" /\ mode' = "up" /\ pc = "index" /\ pc' \in {"idle", "newlog"}
        /\ wgen' = wgen /\ currentGen' = currentGen /\ safePoint' = safePoint
        /\ gens' = gens /\ log' = log
    BY ZenonT(40), <1>2 DEF IndexCommand, Return, IndexIInv, TypeInv, TypeOK, GenBounds,
       diskVars, genVars
  <2>2. /\ wgen \in Gens /\ wgen \in gens /\ wgen = currentGen
        /\ safePoint <= currentGen /\ Cmd \in Command
        /\ Len(log[wgen]) \in Nat /\ Len(log[wgen]) > 0
    BY <1>0, <2>1 DEF IndexIInv, TypeInv, TypeOK, GenBounds, OpenInv, WrittenInv
  <2>3. OpenInv'
    BY ZenonT(40), <2>1 DEF IndexIInv, OpenInv, Compacting
  <2>4. Cmd.key \in Keys
    BY ZenonT(40), <2>2 DEF Command
  <2>5. \A k \in Keys : index'[k] = IF k = Cmd.key
                                    THEN IF Cmd.op = "set"
                                         THEN [gen |-> wgen, pos |-> Len(log[wgen])]
                                         ELSE NoPos
                                    ELSE index[k]
    BY ZenonT(40), <1>2, <2>2, <2>4 DEF IndexCommand, TypeInv, TypeOK, IndexIInv
  <2>6. IndexInLog'
    <3> DEFINE p == [gen |-> wgen, pos |-> Len(log[wgen])]
    <3>1. p.gen = wgen /\ p.pos = Len(log[wgen]) /\ p.pos \in 1..Len(log[wgen])
      BY <2>2
    <3>2. At(p) = Cmd
      BY ZenonT(40), <3>1 DEF At, Cmd
    <3> HIDE DEF p
    <3>3. ASSUME NEW k \in Keys, k # Cmd.key
          PROVE  index'[k] # NoPos =>
                     /\ index'[k].gen \in gens
                     /\ index'[k].pos \in 1..Len(log[index'[k].gen])
                     /\ At(index'[k]).op = "set" /\ At(index'[k]).key = k
      BY ZenonT(40), <2>1, <2>5, <3>3 DEF IndexIInv, IndexInLog
    <3>4. index'[Cmd.key] # NoPos => index'[Cmd.key] = p /\ Cmd.op = "set"
      BY ZenonT(40), <2>4, <2>5 DEF p
    <3> QED
      BY ZenonT(40), <2>1, <2>2, <3>1, <3>2, <3>3, <3>4 DEF IndexInLog, At
  <2>7. NoIndexBelowSafePoint'
    BY <2>1, <2>2, <2>5 DEF IndexIInv, NoIndexBelowSafePoint
  <2> QED
    BY ZenonT(40), <2>1, <2>3, <2>6, <2>7 DEF IndexIInv, ClosedInv, CursorInv, WrittenInv,
       ProgressInv
<1> QED
  BY ZenonT(40), <1>1, <1>2

-----------------------------------------------------------------------------
(* The index through a compaction, the buffers and the files.              *)

\* compact moves entries to the copies it has written.
LEMMA IndexCompact ==
  ASSUME IndexIInv, TypeInv', Compact, "create" \notin Faults PROVE IndexIInv'
<1> USE ConstantsAssumption DEF ConstantsAssumption
<1>0. /\ gens \subseteq Gens /\ TypeInv
      /\ currentGen \in 0..MaxGen /\ safePoint \in 0..MaxGen
      /\ Compacting => CompactionGen \in Gens
  <2>1. /\ gens \subseteq Gens /\ TypeInv
        /\ currentGen \in 0..MaxGen /\ safePoint \in 0..MaxGen
        /\ Compacting => currentGen >= 3
    BY ZenonT(40) DEF IndexIInv, TypeInv, TypeOK, GenBounds
  <2> QED
    BY <2>1 DEF CompactionGen, Gens
<1>1. CASE CompactNewLog
  <2>1. /\ mode = "up" /\ mode' = "up" /\ pc' = "newcomp"
        /\ currentGen' = currentGen + 2 /\ wgen' = currentGen'
        /\ gens' = gens \cup {currentGen + 2} /\ safePoint' = safePoint
        /\ log' = log /\ index' = index
        /\ CompactionGen' = currentGen + 1
        /\ currentGen \in Gens /\ currentGen + 1 \in Gens /\ currentGen + 2 \in Gens
    BY <1>0, <1>1 DEF CompactNewLog, IndexIInv, TypeInv, TypeOK, GenBounds,
       CompactionGen, memVars, Gens
  <2>2. /\ \A g \in gens : g <= currentGen
        /\ safePoint <= currentGen
        /\ \A g \in Gens : g > currentGen => log[g] = <<>>
    BY <2>1 DEF IndexIInv, OpenInv
  <2>3. OpenInv'
    <3>1. \A g \in gens' : g <= currentGen'
      BY <1>0, <2>1, <2>2 DEF Gens
    <3>2. \A g \in Gens : g >= CompactionGen' => log'[g] = <<>>
      BY <2>1, <2>2 DEF Gens
    <3>3. safePoint' <= currentGen' /\ safePoint' <= CompactionGen'
      BY <1>0, <2>1, <2>2
    <3>4. currentGen + 1 \notin gens'
      BY <1>0, <2>1, <2>2 DEF Gens
    <3>5. log'[currentGen'] = <<>> /\ log'[CompactionGen'] = <<>>
      BY <2>1, <3>2 DEF Gens
    <3>6. \A g \in Gens : g > currentGen' => log'[g] = <<>>
      BY <2>1, <3>2 DEF Gens
    <3> QED
      BY <2>1, <3>1, <3>3, <3>4, <3>5, <3>6 DEF OpenInv
  <2>4. IndexInLog' /\ NoIndexBelowSafePoint'
    BY <2>1 DEF IndexIInv, IndexInLog, NoIndexBelowSafePoint, At
  <2> QED
    BY ZenonT(40), <2>1, <2>3, <2>4 DEF IndexIInv, ClosedInv, CursorInv, WrittenInv, ProgressInv
<1>2. CASE CompactNewFile
  <2>1. /\ mode = "up" /\ mode' = "up" /\ pc = "newcomp" /\ pc' = "copy"
        /\ currentGen' = currentGen /\ wgen' = wgen /\ safePoint' = safePoint
        /\ gens' = gens \cup {CompactionGen} /\ log' = log /\ index' = index
        /\ todo' = {k \in Keys : index[k] # NoPos}
        /\ CompactionGen' = CompactionGen
    BY <1>2 DEF CompactNewFile, IndexIInv, TypeInv, TypeOK, GenBounds, CompactionGen,
       memVars, genVars
  <2>2. OpenInv'
    <3>1. CompactionGen <= currentGen
      BY <1>0 DEF CompactionGen
    <3> QED
      BY <2>1, <3>1 DEF IndexIInv, OpenInv, Compacting
  <2>3. IndexInLog' /\ NoIndexBelowSafePoint'
    BY ZenonT(40), <2>1 DEF IndexIInv, IndexInLog, NoIndexBelowSafePoint, At
  <2> QED
    BY ZenonT(40), <2>1, <2>2, <2>3 DEF IndexIInv, ClosedInv, CursorInv, WrittenInv, ProgressInv
<1>3. ASSUME NEW k \in Keys, CompactEntry(k) PROVE IndexIInv'
  <2>1. /\ mode = "up" /\ mode' = "up" /\ pc = "copy" /\ pc' = "copy" /\ k \in todo
        /\ currentGen' = currentGen /\ wgen' = wgen /\ safePoint' = safePoint
        /\ gens' = gens /\ todo' = todo \ {k}
        /\ CompactionGen' = CompactionGen
    BY ZenonT(40), <1>3 DEF CompactEntry, IndexIInv, TypeInv, TypeOK, GenBounds, CompactionGen,
       genVars, callVars
  <2>2. /\ CompactionGen \in Gens /\ CompactionGen \in gens
        /\ CompactionGen < currentGen /\ safePoint <= CompactionGen
    BY <1>0, <2>1 DEF IndexIInv, OpenInv, Compacting, CompactionGen
  <2>3. /\ index[k].gen \in gens /\ index[k].gen \in Gens
        /\ index[k].pos \in 1..Len(log[index[k].gen])
        /\ index[k] # NoPos
    <3>1. /\ index[k].gen \in gens /\ index[k].gen \in Gens
          /\ index[k].pos \in 1..vis[index[k].gen]
      BY ZenonT(40), <1>0, <1>3 DEF CompactEntry, Readable
    <3>2. /\ vis[index[k].gen] <= Len(log[index[k].gen])
          /\ vis[index[k].gen] \in Nat /\ Len(log[index[k].gen]) \in Nat
      BY <3>1 DEF IndexIInv, TypeInv, TypeOK, GenBounds
    <3> QED
      BY <3>1, <3>2 DEF NoPos, Gens
  <2>4. DEFINE c == At(index[k])
  <2>5. c \in Record /\ c.op = "set" /\ c.key = k
    <3>1. c \in Record
      BY <2>3 DEF At, IndexIInv, TypeInv, TypeOK
    <3> QED
      BY <2>1, <2>3, <3>1 DEF IndexIInv, IndexInLog
  <2>6. /\ Len(log'[CompactionGen]) = NewPos
        /\ log'[CompactionGen][NewPos] = c
        /\ \A h \in Gens : h # CompactionGen => log'[h] = log[h]
        /\ \A h \in Gens : \A i \in 1..Len(log[h]) :
               i \in 1..Len(log'[h]) /\ log'[h][i] = log[h][i]
    <3>1. log' = [log EXCEPT ![CompactionGen] = Append(@, c)]
      BY <1>3 DEF CompactEntry
    <3> HIDE DEF c
    <3> QED
      BY ZenonT(40), <1>0, <2>2, <2>5, <3>1, AppendKeeps DEF NewPos
  <2>7. \A j \in Keys : index'[j] = IF j = k THEN [gen |-> CompactionGen, pos |-> NewPos]
                                    ELSE index[j]
    BY ZenonT(40), <1>3 DEF CompactEntry, IndexIInv, TypeInv, TypeOK
  <2>8. NewPos \in Nat /\ NewPos > 0
    BY <2>2 DEF NewPos, IndexIInv, TypeInv, TypeOK
  <2>9. OpenInv'
    <3>1. \A g \in Gens : g > currentGen => log'[g] = log[g]
      BY <1>0, <2>2, <2>6 DEF Gens
    <3>2. log'[currentGen] = log[currentGen]
      BY <1>0, <2>1, <2>2, <2>6 DEF IndexIInv, TypeInv, GenBounds
    <3> QED
      BY <2>1, <3>1, <3>2 DEF IndexIInv, OpenInv, Compacting
  <2>10. IndexInLog'
    <3> SUFFICES ASSUME NEW j \in Keys, index'[j] # NoPos
                 PROVE  /\ index'[j].gen \in gens'
                        /\ index'[j].pos \in 1..Len(log'[index'[j].gen])
                        /\ log'[index'[j].gen][index'[j].pos].op = "set"
                        /\ log'[index'[j].gen][index'[j].pos].key = j
      BY ZenonT(40) DEF IndexInLog, At
    <3>1. CASE j = k
      <4>1. index'[j].gen = CompactionGen /\ index'[j].pos = NewPos
        BY <2>7, <3>1
      <4> QED
        BY <2>1, <2>2, <2>5, <2>6, <2>8, <3>1, <4>1
    <3>2. CASE j # k
      <4>1. index'[j] = index[j] /\ index[j] # NoPos
        BY ZenonT(40), <2>7, <3>2
      <4>2. /\ index[j].gen \in gens /\ index[j].pos \in 1..Len(log[index[j].gen])
            /\ log[index[j].gen][index[j].pos].op = "set"
            /\ log[index[j].gen][index[j].pos].key = j
        BY <2>1, <4>1 DEF IndexIInv, IndexInLog, At
      <4>3. index[j].gen \in Gens
        BY ZenonT(40), <1>0, <4>2 DEF TypeInv, TypeOK
      <4>4. /\ index[j].pos \in 1..Len(log'[index[j].gen])
            /\ log'[index[j].gen][index[j].pos] = log[index[j].gen][index[j].pos]
        BY ZenonT(40), <2>6, <4>2, <4>3
      <4> QED
        BY ZenonT(40), <2>1, <4>1, <4>2, <4>4
    <3> QED
      BY <3>1, <3>2
  <2>11. NoIndexBelowSafePoint'
    BY <2>1, <2>2, <2>7 DEF IndexIInv, NoIndexBelowSafePoint
  <2>12. ProgressInv'
    BY <2>1, <2>7 DEF IndexIInv, ProgressInv
  <2> QED
    BY <2>1, <2>9, <2>10, <2>11, <2>12 DEF IndexIInv, ClosedInv, CursorInv, WrittenInv
<1>4. CASE CompactCallFails \/ \E k \in Keys : CompactEntryFails(k)
  <2>1. /\ mode = "up" /\ mode' = "up" /\ pc = "copy" /\ pc' = "idle"
        /\ currentGen' = currentGen /\ wgen' = wgen /\ safePoint' = safePoint
        /\ gens' = gens /\ log' = log /\ index' = index
    BY <1>4 DEF CompactCallFails, CompactEntryFails, Return, IndexIInv, TypeInv, TypeOK,
       GenBounds, diskVars, memVars, genVars
  <2>2. OpenInv'
    BY ZenonT(40), <2>1 DEF IndexIInv, OpenInv, Compacting
  <2>3. IndexInLog' /\ NoIndexBelowSafePoint'
    BY <2>1 DEF IndexIInv, IndexInLog, NoIndexBelowSafePoint, At
  <2> QED
    BY ZenonT(40), <2>1, <2>2, <2>3 DEF IndexIInv, ClosedInv, CursorInv, WrittenInv, ProgressInv
<1>5. CASE CompactFlush
  <2>1. /\ mode = "up" /\ mode' = "up" /\ pc = "copy" /\ pc' = "safepoint" /\ todo = {}
        /\ currentGen' = currentGen /\ wgen' = wgen /\ safePoint' = safePoint
        /\ gens' = gens /\ log' = log /\ index' = index
        /\ CompactionGen' = CompactionGen
    BY ZenonT(40), <1>5 DEF CompactFlush, CopyDone, IndexIInv, TypeInv, TypeOK, GenBounds,
       CompactionGen, memVars, genVars
  <2>2. OpenInv'
    BY ZenonT(40), <2>1 DEF IndexIInv, OpenInv, Compacting
  <2>3. IndexInLog' /\ NoIndexBelowSafePoint'
    BY <2>1 DEF IndexIInv, IndexInLog, NoIndexBelowSafePoint, At
  <2> QED
    BY <2>1, <2>2, <2>3 DEF IndexIInv, ClosedInv, CursorInv, WrittenInv, ProgressInv
<1>6. CASE CompactSafePoint
  <2>1. /\ mode = "up" /\ mode' = "up" /\ pc = "safepoint" /\ pc' = "unlink"
        /\ currentGen' = currentGen /\ wgen' = wgen /\ safePoint' = CompactionGen
        /\ gens' = gens /\ log' = log /\ index' = index
        /\ stale' = {g \in gens : g < CompactionGen}
        /\ CompactionGen' = CompactionGen
    BY ZenonT(40), <1>6 DEF CompactSafePoint, IndexIInv, TypeInv, TypeOK, GenBounds, CompactionGen,
       diskVars, memVars
  <2>2. OpenInv'
    <3>1. CompactionGen <= currentGen /\ CompactionGen <= CompactionGen
      BY <1>0 DEF CompactionGen
    <3> QED
      BY <2>1, <3>1 DEF IndexIInv, OpenInv, Compacting
  <2>3. IndexInLog'
    BY <2>1 DEF IndexIInv, IndexInLog, At
  <2>4. NoIndexBelowSafePoint'
    BY <1>0, <2>1 DEF IndexIInv, IndexInLog, NoIndexBelowSafePoint, ProgressInv,
       CompactionGen
  <2> QED
    BY ZenonT(40), <2>1, <2>2, <2>3, <2>4 DEF IndexIInv, ClosedInv, CursorInv, WrittenInv, ProgressInv
<1>7. ASSUME NEW g \in Gens, CompactUnlink(g) PROVE IndexIInv'
  <2>1. /\ mode = "up" /\ mode' = "up" /\ pc = "unlink" /\ pc' = "unlink"
        /\ currentGen' = currentGen /\ wgen' = wgen /\ safePoint' = safePoint
        /\ log' = log /\ index' = index
        /\ stale' \subseteq stale /\ gens' \subseteq gens
        /\ CompactionGen' = CompactionGen
        /\ \A h \in gens : h >= CompactionGen => h \in gens'
    BY <1>0, <1>7 DEF CompactUnlink, FirstStale, OtherStale, IndexIInv, TypeInv, TypeOK,
       GenBounds, ProgressInv, CompactionGen, Gens, memVars, genVars, callVars
  <2>2. \A k \in Keys : index[k] # NoPos => index[k].gen \in gens'
    BY <1>0, <2>1 DEF IndexIInv, ProgressInv, IndexInLog, CompactionGen
  <2>3. OpenInv'
    <3>1. CompactionGen \in gens'
      BY <1>0, <2>1 DEF IndexIInv, OpenInv, CompactionGen
    <3> QED
      BY ZenonT(40), <2>1, <3>1 DEF IndexIInv, OpenInv, Compacting
  <2>4. IndexInLog' /\ NoIndexBelowSafePoint'
    BY <2>1, <2>2 DEF IndexIInv, IndexInLog, NoIndexBelowSafePoint, At
  <2> QED
    BY ZenonT(40), <2>1, <2>3, <2>4 DEF IndexIInv, ClosedInv, CursorInv, WrittenInv, ProgressInv
<1>8. CASE CompactDone
  <2>1. /\ mode = "up" /\ mode' = "up" /\ pc = "unlink" /\ pc' = "idle"
        /\ currentGen' = currentGen /\ wgen' = wgen /\ safePoint' = safePoint
        /\ gens' = gens /\ log' = log /\ index' = index
    BY ZenonT(40), <1>8 DEF CompactDone, Return, IndexIInv, TypeInv, TypeOK, GenBounds, diskVars,
       genVars
  <2>2. OpenInv'
    BY ZenonT(40), <2>1 DEF IndexIInv, OpenInv, Compacting
  <2>3. IndexInLog' /\ NoIndexBelowSafePoint'
    BY <2>1 DEF IndexIInv, IndexInLog, NoIndexBelowSafePoint, At
  <2> QED
    BY ZenonT(40), <2>1, <2>2, <2>3 DEF IndexIInv, ClosedInv, CursorInv, WrittenInv, ProgressInv
<1>9. ~CompactNewLogFails
  BY DEF CompactNewLogFails
<1> QED
  BY <1>1, <1>2, <1>3, <1>4, <1>5, <1>6, <1>7, <1>8, <1>9 DEF Compact

\* A spilled buffer and a crash do not lead an entry astray.
LEMMA IndexEnvironment ==
  ASSUME IndexIInv, TypeInv', (\E g \in Gens : Spill(g)) \/ Crash PROVE IndexIInv'
<1>1. ASSUME NEW g \in Gens, Spill(g) PROVE IndexIInv'
  <2>1. /\ mode = "up" /\ mode' = "up" /\ pc' = pc /\ todo' = todo /\ stale' = stale
        /\ currentGen' = currentGen /\ wgen' = wgen /\ safePoint' = safePoint
        /\ gens' = gens /\ log' = log /\ index' = index
        /\ CompactionGen' = CompactionGen
    BY ZenonT(40), <1>1 DEF Spill, IndexIInv, TypeInv, TypeOK, GenBounds, CompactionGen, memVars,
       genVars, callVars, loopVars
  <2>2. OpenInv' /\ WrittenInv'
    BY ZenonT(40), <2>1 DEF IndexIInv, OpenInv, WrittenInv, Compacting, Cmd
  <2>3. IndexInLog' /\ NoIndexBelowSafePoint'
    BY <2>1 DEF IndexIInv, IndexInLog, NoIndexBelowSafePoint, At
  <2> QED
    BY ZenonT(40), <2>1, <2>2, <2>3 DEF IndexIInv, ClosedInv, CursorInv, ProgressInv
<1>2. CASE Crash
  <2>1. PICK torn \in SUBSET {g \in gens : vis[g] < Len(log[g])} :
            /\ log' = [g \in Gens |-> Surviving(g, torn)]
            /\ vis' = [g \in Gens |-> Len(Surviving(g, torn))]
    BY ZenonT(40), <1>2 DEF Crash
  <2>2. \A g \in Gens : vis'[g] = Len(log'[g]) /\ (g \notin gens => log'[g] = <<>>)
    BY ZenonT(40), <2>1 DEF Surviving
  <2> QED
    BY <1>2, <2>2, IndexDown DEF Crash
<1> QED
  BY <1>1, <1>2

\* Every step keeps the index in the log.
LEMMA IndexStep ==
  ASSUME "create" \notin Faults PROVE IndexIInv /\ [Next]_vars => IndexIInv'
<1> SUFFICES ASSUME IndexIInv, [Next]_vars PROVE IndexIInv'
  OBVIOUS
<1>1. TypeInv /\ TypeInv'
  BY ZenonT(40), TypeStep DEF IndexIInv
<1>2. CASE UNCHANGED vars
  BY <1>1, <1>2 DEF IndexIInv, ClosedInv, CursorInv, OpenInv, WrittenInv, ProgressInv,
     IndexInLog, NoIndexBelowSafePoint, Compacting, CompactionGen, Cmd, At, vars,
     diskVars, memVars, genVars, loopVars, callVars
<1> QED
  BY <1>1, <1>2, IndexOpen, IndexRequest, IndexWriter, IndexCompact, IndexEnvironment
     DEF Next, WriterStep

\* Every entry of the in-memory index names a Set command about its own key in
\* a generation file that exists, at every step of set, remove, compact and
\* open, unless creating a file fails.
THEOREM IndexAlwaysInLog ==
  ASSUME "create" \notin Faults PROVE Spec => []IndexInLog
<1>1. IndexIInv => IndexInLog
  BY DEF IndexIInv
<1>2. IndexIInv /\ [Next]_vars => IndexIInv'
  BY IndexStep
<1> QED
  BY <1>1, <1>2, IndexInit, PTL DEF Spec

\* What close_stale_handles relies on: no index entry is older than the
\* published safe point, and its file has not been deleted.
THEOREM IndexAboveSafePoint ==
  ASSUME "create" \notin Faults PROVE Spec => []NoIndexBelowSafePoint
<1>1. IndexIInv => NoIndexBelowSafePoint
  BY DEF IndexIInv
<1>2. IndexIInv /\ [Next]_vars => IndexIInv'
  BY ZenonT(40), IndexStep
<1> QED
  BY <1>1, <1>2, IndexInit, PTL DEF Spec

-----------------------------------------------------------------------------
(* What is in the buffers.                                                 *)

\* Nothing is buffered at first.
LEMMA BufferInit == Init => BufferIInv
BY IndexInit DEF Init, BufferIInv, BufferInv, VisibleInv, CopyInv

\* Nothing is buffered while the store is closed.
LEMMA BufferClosed ==
  ASSUME IndexIInv', mode' # "up" PROVE BufferIInv'
<1>1. /\ pc' = "idle"
      /\ \A g \in Gens : vis'[g] = Len(log'[g]) /\ vis'[g] \in Nat
      /\ gens' \subseteq Gens
  BY DEF IndexIInv, TypeInv, TypeOK, GenBounds, ClosedInv
<1>2. BufferInv'
  BY <1>1 DEF BufferInv
<1>3. VisibleInv'
  BY <1>1 DEF VisibleInv, IndexIInv, IndexInLog
<1> QED
  BY <1>1, <1>2, <1>3 DEF BufferIInv, CopyInv

\* A request buffers its own command only.
LEMMA BufferRequest ==
  ASSUME BufferIInv, IndexIInv', Request PROVE BufferIInv'
<1>0. gens \subseteq Gens /\ TypeInv
  BY ZenonT(40) DEF BufferIInv, IndexIInv, TypeInv, TypeOK
<1>1. ASSUME NEW c \in Command, Ready, WriteCommand(c) \/ WriteCommandFails(c)
      PROVE  BufferIInv'
  <2>1. /\ mode = "up" /\ mode' = "up" /\ pc = "idle" /\ pc' \in {"idle", "flush"}
        /\ wgen' = wgen /\ index' = index /\ vis' = vis /\ wgen \in Gens
    BY ZenonT(40), <1>0, <1>1 DEF Ready, WriteCommand, WriteCommandFails, Return, memVars, genVars,
       TypeInv, GenBounds
  <2>2. PICK d \in Record : /\ log' = [log EXCEPT ![wgen] = Append(@, d)]
                            /\ pc' = "flush" \/ d.op = "torn"
    BY <1>1, TornRecord DEF Record, Torn, WriteCommand, WriteCommandFails, Return
  <2>3. /\ Len(log'[wgen]) = Len(log[wgen]) + 1
        /\ log'[wgen][Len(log[wgen]) + 1] = d
        /\ \A h \in Gens : h # wgen => log'[h] = log[h]
        /\ \A h \in Gens : \A i \in 1..Len(log[h]) :
               i \in 1..Len(log'[h]) /\ log'[h][i] = log[h][i]
    BY ZenonT(40), <1>0, <2>1, <2>2, AppendKeeps
  <2>4. BufferInv'
    <3> SUFFICES ASSUME NEW g \in Gens, NEW i \in (vis'[g] + 1)..Len(log'[g])
                 PROVE  \/ log'[g][i].op = "torn"
                        \/ pc' = "flush" /\ g = wgen /\ i = Len(log'[g])
      BY ZenonT(40), <2>1 DEF BufferInv
    <3>1. vis[g] \in Nat /\ Len(log[g]) \in Nat
      BY <1>0 DEF TypeInv, TypeOK
    <3>2. CASE i \in (vis[g] + 1)..Len(log[g])
      BY <2>1, <2>3, <3>1, <3>2 DEF BufferIInv, BufferInv
    <3>3. CASE i \notin (vis[g] + 1)..Len(log[g])
      <4>1. g = wgen /\ i = Len(log[g]) + 1
        BY <2>1, <2>3, <3>1, <3>3
      <4> QED
        BY ZenonT(40), <2>2, <2>3, <4>1
    <3> QED
      BY ZenonT(40), <3>2, <3>3
  <2> QED
    BY <2>1, <2>4 DEF BufferIInv, VisibleInv, CopyInv
<1>2. ASSUME NEW k \in Keys, NEW v \in Vals, Set(k, v) PROVE BufferIInv'
  BY ZenonT(40), <1>1, <1>2, CommandType DEF Set
<1>3. ASSUME NEW k \in Keys, Remove(k) PROVE BufferIInv'
  BY ZenonT(40), <1>1, <1>3, CommandType DEF Remove
<1>4. ASSUME NEW k \in Keys, RemoveMissing(k) PROVE BufferIInv'
  BY ZenonT(40), <1>4 DEF RemoveMissing, BufferIInv, BufferInv, VisibleInv, CopyInv, diskVars,
     memVars, genVars, CompactionGen
<1> QED
  BY ZenonT(40), <1>2, <1>3, <1>4 DEF Request

\* Flushing a file, whoever does it, leaves nothing of it in the buffer.
LEMMA FlushedBuffer ==
  ASSUME BufferIInv, NEW g \in Gens, vis' = Flushed(g)
  PROVE  /\ vis'[g] = Len(log[g])
         /\ \A h \in Gens : vis[h] <= vis'[h] /\ vis'[h] \in Nat
         /\ \A h \in Gens : \A i \in (vis'[h] + 1)..Len(log[h]) :
                h # g /\ i \in (vis[h] + 1)..Len(log[h])
<1>1. /\ vis \in [Gens -> Nat] /\ log \in [Gens -> Seq(Record)]
      /\ \A h \in Gens : vis[h] <= Len(log[h])
  BY DEF BufferIInv, IndexIInv, TypeInv, TypeOK, GenBounds
<1>2. \A h \in Gens : vis'[h] = IF h = g THEN Len(log[h]) ELSE vis[h]
  BY <1>1 DEF Flushed
<1>3. \A h \in Gens : vis[h] \in Nat /\ Len(log[h]) \in Nat
  BY <1>1
<1> QED
  BY <1>1, <1>2, <1>3

\* The steps of set and remove keep BufferIInv.
LEMMA BufferWriter ==
  ASSUME BufferIInv, IndexIInv', Flush \/ IndexCommand PROVE BufferIInv'
<1>0. /\ gens \subseteq Gens /\ TypeInv /\ mode = "up"
      /\ wgen \in gens /\ wgen \in Gens /\ wgen = currentGen
  BY ZenonT(40)
     DEF BufferIInv, IndexIInv, TypeInv, TypeOK, GenBounds, OpenInv, Flush, IndexCommand
<1>1. CASE Flush
  <2>1. /\ pc = "flush" /\ pc' = "index" /\ mode' = mode /\ vis' = Flushed(wgen)
        /\ wgen' = wgen /\ log' = log /\ index' = index /\ gens' = gens
    BY ZenonT(40), <1>1 DEF Flush, memVars, genVars
  <2>2. /\ vis'[wgen] = Len(log[wgen])
        /\ \A h \in Gens : vis[h] <= vis'[h] /\ vis'[h] \in Nat
        /\ \A h \in Gens : \A i \in (vis'[h] + 1)..Len(log[h]) :
               h # wgen /\ i \in (vis[h] + 1)..Len(log[h])
    BY ZenonT(40), <1>0, <2>1, FlushedBuffer
  <2>3. BufferInv'
    BY ZenonT(40), <2>1, <2>2 DEF BufferIInv, BufferInv
  <2>4. VisibleInv'
    <3> SUFFICES ASSUME NEW k \in Keys, index[k] # NoPos
                 PROVE  index[k].pos <= vis'[index[k].gen]
      BY ZenonT(40), <2>1 DEF VisibleInv
    <3>1. /\ index[k].gen \in Gens /\ index[k].pos \in Nat
          /\ index[k].pos <= vis[index[k].gen] /\ vis[index[k].gen] \in Nat
      BY ZenonT(40), <1>0, <2>1 DEF BufferIInv, VisibleInv, IndexIInv, IndexInLog, TypeInv, TypeOK,
         CommandPos
    <3> QED
      BY <2>2, <3>1
  <2> QED
    BY <2>1, <2>3, <2>4 DEF BufferIInv, CopyInv
<1>2. CASE IndexCommand
  <2>1. /\ pc = "index" /\ pc' \in {"idle", "newlog"} /\ mode' = mode
        /\ wgen' = wgen /\ log' = log /\ vis' = vis
    BY <1>2 DEF IndexCommand, Return, diskVars, genVars
  <2>2. BufferInv'
    BY ZenonT(40), <2>1 DEF BufferIInv, BufferInv
  <2>3. /\ vis[wgen] = Len(log[wgen]) /\ Cmd \in Command /\ Len(log[wgen]) \in Nat
    BY ZenonT(40), <1>0, <2>1 DEF BufferIInv, BufferInv, IndexIInv, WrittenInv, TypeInv, TypeOK
  <2>4. \A k \in Keys : index'[k] = IF k = Cmd.key
                                    THEN IF Cmd.op = "set"
                                         THEN [gen |-> wgen, pos |-> Len(log[wgen])]
                                         ELSE NoPos
                                    ELSE index[k]
    BY ZenonT(40), <1>0, <1>2, <2>3 DEF IndexCommand, TypeInv, TypeOK, Command
  <2>5. VisibleInv'
    BY <1>0, <2>1, <2>3, <2>4 DEF BufferIInv, VisibleInv
  <2> QED
    BY ZenonT(40), <2>1, <2>2, <2>5 DEF BufferIInv, CopyInv
<1> QED
  BY ZenonT(40), <1>1, <1>2

\* The steps of compact keep BufferIInv.
LEMMA BufferCompact ==
  ASSUME BufferIInv, IndexIInv', Compact, "create" \notin Faults, "flush" \notin Faults
  PROVE  BufferIInv'
<1> USE ConstantsAssumption DEF ConstantsAssumption
<1>0. /\ gens \subseteq Gens /\ TypeInv /\ IndexIInv /\ mode = "up"
      /\ wgen \in gens /\ wgen \in Gens /\ wgen = currentGen
      /\ currentGen \in 0..MaxGen
      /\ \A g \in Gens : vis[g] \in Nat /\ Len(log[g]) \in Nat
  <2>1. mode = "up"
    BY DEF BufferIInv, IndexIInv, TypeInv, TypeOK, GenBounds, Compact,
       CompactNewLog, CompactNewLogFails, CompactNewFile, CompactCallFails, CompactEntry,
       CompactEntryFails, CompactFlush, CompactSafePoint, CompactUnlink, CompactDone
  <2> QED
    BY <2>1 DEF BufferIInv, IndexIInv, TypeInv, TypeOK, GenBounds, OpenInv
<1>1. \A k \in Keys : index[k] # NoPos =>
          /\ index[k].gen \in gens /\ index[k].gen \in Gens
          /\ index[k].pos \in 1..Len(log[index[k].gen])
  BY ZenonT(40), <1>0 DEF IndexIInv, IndexInLog
<1>2. Compacting => CompactionGen \in Gens
  BY <1>0 DEF TypeInv, GenBounds, CompactionGen, Gens
<1>3. CASE CompactNewLog
  <2>1. /\ pc = "newlog" /\ pc' = "newcomp" /\ mode' = mode
        /\ log' = log /\ index' = index /\ vis' = Flushed(wgen)
    BY ZenonT(40), <1>3 DEF CompactNewLog, memVars
  <2>2. /\ \A h \in Gens : vis[h] <= vis'[h] /\ vis'[h] \in Nat
        /\ \A h \in Gens : \A i \in (vis'[h] + 1)..Len(log[h]) :
               h # wgen /\ i \in (vis[h] + 1)..Len(log[h])
    BY ZenonT(40), <1>0, <2>1, FlushedBuffer
  <2>3. BufferInv'
    BY ZenonT(40), <2>1, <2>2 DEF BufferIInv, BufferInv
  <2>4. VisibleInv'
    <3> SUFFICES ASSUME NEW k \in Keys, index[k] # NoPos
                 PROVE  index[k].pos <= vis'[index[k].gen]
      BY ZenonT(40), <2>1 DEF VisibleInv
    <3>1. index[k].pos <= vis[index[k].gen]
      BY ZenonT(40), <1>0, <2>1 DEF BufferIInv, VisibleInv
    <3>2. index[k].gen \in Gens /\ index[k].pos \in Int
      BY <1>1
    <3>3. /\ vis[index[k].gen] <= vis'[index[k].gen]
          /\ vis[index[k].gen] \in Nat /\ vis'[index[k].gen] \in Nat
      BY ZenonT(40), <1>0, <2>2, <3>2
    <3> QED
      BY <3>1, <3>2, <3>3
  <2> QED
    BY ZenonT(40), <2>1, <2>3, <2>4 DEF BufferIInv, CopyInv
<1>4. CASE CompactNewFile
  <2>1. /\ pc = "newcomp" /\ pc' = "copy" /\ mode' = mode
        /\ log' = log /\ index' = index /\ vis' = vis /\ CompactionGen' = CompactionGen
        /\ todo' = {k \in Keys : index[k] # NoPos}
    BY ZenonT(40), <1>4 DEF CompactNewFile, memVars, genVars, CompactionGen
  <2>2. /\ log[currentGen] = <<>> /\ log[CompactionGen] = <<>>
        /\ \A g \in gens : g <= currentGen
    BY ZenonT(40), <1>0, <2>1 DEF IndexIInv, OpenInv, Compacting
  <2>3. BufferInv'
    BY ZenonT(40), <2>1 DEF BufferIInv, BufferInv
  <2>4. VisibleInv'
    BY ZenonT(40), <2>1 DEF BufferIInv, VisibleInv
  <2>5. \A k \in Keys : index[k] # NoPos => index[k].gen < CompactionGen
    <3> SUFFICES ASSUME NEW k \in Keys, index[k] # NoPos
                 PROVE  index[k].gen < CompactionGen
      OBVIOUS
    <3>1. Len(log[index[k].gen]) # 0
      BY <1>0, <1>1
    <3>2. index[k].gen # currentGen /\ index[k].gen # CompactionGen
      BY <2>2, <3>1
    <3>3. index[k].gen <= currentGen /\ index[k].gen \in Gens
      BY ZenonT(40), <1>1, <2>2
    <3> QED
      BY <1>0, <3>2, <3>3 DEF CompactionGen, Gens
  <2>6. CopyInv'
    BY <2>1, <2>2, <2>5 DEF CopyInv
  <2> QED
    BY ZenonT(40), <2>3, <2>4, <2>6 DEF BufferIInv
<1>5. ASSUME NEW k \in Keys, CompactEntry(k) PROVE BufferIInv'
  <2>1. /\ pc = "copy" /\ pc' = "copy" /\ mode' = mode /\ k \in todo
        /\ vis' = vis /\ wgen' = wgen /\ todo' = todo \ {k}
        /\ CompactionGen' = CompactionGen /\ CompactionGen \in Gens
    BY ZenonT(40), <1>2, <1>5 DEF CompactEntry, callVars, genVars, CompactionGen, Compacting
  <2>2. index[k] # NoPos /\ index[k].gen < CompactionGen
    BY ZenonT(40), <2>1 DEF BufferIInv, CopyInv
  <2> DEFINE c == At(index[k])
  <2>3. c \in Record /\ c.key = k
    <3>1. c \in Record
      BY <1>1, <2>2 DEF At, TypeInv, TypeOK, IndexIInv, BufferIInv
    <3> QED
      BY ZenonT(40), <1>0, <2>2, <3>1 DEF IndexIInv, IndexInLog
  <2>4. /\ Len(log'[CompactionGen]) = NewPos
        /\ log'[CompactionGen][NewPos] = c
        /\ \A h \in Gens : h # CompactionGen => log'[h] = log[h]
        /\ \A h \in Gens : \A i \in 1..Len(log[h]) :
               i \in 1..Len(log'[h]) /\ log'[h][i] = log[h][i]
    <3>1. log' = [log EXCEPT ![CompactionGen] = Append(@, c)]
      BY ZenonT(40), <1>5 DEF CompactEntry
    <3> HIDE DEF c
    <3> QED
      BY ZenonT(40), <1>0, <2>1, <2>3, <3>1, AppendKeeps DEF NewPos
  <2>5. \A j \in Keys : index'[j] = IF j = k THEN [gen |-> CompactionGen, pos |-> NewPos]
                                    ELSE index[j]
    BY ZenonT(40), <1>0, <1>5 DEF CompactEntry, TypeInv, TypeOK
  <2>6. BufferInv'
    BY ZenonT(40), <2>1, <2>4 DEF BufferIInv, BufferInv
  <2>7. VisibleInv'
    BY <1>0, <2>1, <2>5 DEF BufferIInv, VisibleInv
  <2>8. CopyInv'
    <3>1. \A j \in todo' : index'[j] # NoPos /\ index'[j].gen < CompactionGen
      BY <1>0, <2>1, <2>5 DEF BufferIInv, CopyInv, TypeInv, TypeOK
    <3>2. ASSUME NEW i \in 1..Len(log'[CompactionGen])
          PROVE  /\ log'[CompactionGen][i].key \in Keys
                 /\ index'[log'[CompactionGen][i].key] = [gen |-> CompactionGen, pos |-> i]
      <4>1. CASE i = NewPos
        BY ZenonT(40), <2>3, <2>4, <2>5, <4>1
      <4>2. CASE i # NewPos
        <5>1. i \in 1..Len(log[CompactionGen])
          BY <1>0, <2>1, <2>4, <4>2 DEF NewPos
        <5> DEFINE j == log[CompactionGen][i].key
        <5>2. /\ log'[CompactionGen][i].key = j
              /\ j \in Keys /\ index[j] = [gen |-> CompactionGen, pos |-> i]
          BY ZenonT(40), <2>1, <2>4, <5>1 DEF BufferIInv, CopyInv
        <5>3. j # k
          BY <1>0, <2>1, <2>2, <5>2 DEF Gens
        <5> QED
          BY ZenonT(40), <2>5, <5>2, <5>3
      <4> QED
        BY ZenonT(40), <4>1, <4>2
    <3> QED
      BY ZenonT(40), <2>1, <3>1, <3>2 DEF CopyInv
  <2> QED
    BY ZenonT(40), <2>6, <2>7, <2>8 DEF BufferIInv
<1>6. ASSUME NEW k \in Keys, CompactEntryFails(k) PROVE FALSE
  <2>1. pc = "copy" /\ k \in todo /\ ~Readable(index[k])
    BY ZenonT(40), <1>6 DEF CompactEntryFails
  <2>2. index[k] # NoPos /\ index[k].gen < CompactionGen
    BY ZenonT(40), <2>1 DEF BufferIInv, CopyInv
  <2>3. index[k].pos <= vis[index[k].gen]
    BY <1>0, <1>2, <1>1, <2>1, <2>2 DEF BufferIInv, VisibleInv, Gens, Compacting
  <2> QED
    BY <1>0, <1>1, <2>1, <2>2, <2>3 DEF Readable
<1>7. CASE CompactFlush
  <2>1. /\ pc = "copy" /\ pc' = "safepoint" /\ mode' = mode
        /\ log' = log /\ index' = index /\ vis' = Flushed(CompactionGen)
        /\ CompactionGen \in Gens /\ CompactionGen' = CompactionGen
    BY <1>2, <1>7 DEF CompactFlush, memVars, genVars, Compacting, CompactionGen
  <2>2. /\ vis'[CompactionGen] = Len(log[CompactionGen])
        /\ \A h \in Gens : vis[h] <= vis'[h] /\ vis'[h] \in Nat
        /\ \A h \in Gens : \A i \in (vis'[h] + 1)..Len(log[h]) :
               h # CompactionGen /\ i \in (vis[h] + 1)..Len(log[h])
    BY ZenonT(40), <1>0, <2>1, FlushedBuffer
  <2>3. BufferInv'
    BY ZenonT(40), <2>1, <2>2 DEF BufferIInv, BufferInv
  <2>4. VisibleInv'
    <3> SUFFICES ASSUME NEW k \in Keys, index[k] # NoPos
                 PROVE  index[k].pos <= vis'[index[k].gen]
      BY ZenonT(40), <2>1 DEF VisibleInv
    <3>1. \/ index[k].pos <= vis[index[k].gen]
          \/ index[k].gen = CompactionGen
      BY ZenonT(40), <1>0, <2>1 DEF BufferIInv, VisibleInv
    <3>2. /\ index[k].gen \in Gens /\ index[k].pos \in Int
          /\ index[k].pos \in 1..Len(log[index[k].gen])
      BY <1>1
    <3>3. /\ vis[index[k].gen] <= vis'[index[k].gen]
          /\ vis[index[k].gen] \in Nat /\ vis'[index[k].gen] \in Nat
          /\ Len(log[index[k].gen]) \in Nat
      BY ZenonT(40), <1>0, <2>2, <3>2
    <3> QED
      BY <2>2, <3>1, <3>2, <3>3
  <2> QED
    BY ZenonT(40), <2>1, <2>3, <2>4 DEF BufferIInv, CopyInv
<1>8. CASE CompactSafePoint \/ CompactDone \/ \E g \in Gens : CompactUnlink(g)
  <2>1. /\ pc \notin {"flush", "copy"} /\ pc' \notin {"flush", "index", "copy", "safepoint"}
        /\ mode' = mode /\ log' = log /\ index' = index /\ vis' = vis
    BY <1>8 DEF CompactSafePoint, CompactDone, CompactUnlink, Return, diskVars, memVars,
       callVars
  <2>2. BufferInv' /\ VisibleInv'
    BY ZenonT(40), <2>1 DEF BufferIInv, BufferInv, VisibleInv
  <2> QED
    BY ZenonT(40), <2>1, <2>2 DEF BufferIInv, CopyInv
<1>9. ~CompactNewLogFails /\ ~CompactCallFails
  BY ZenonT(40) DEF CompactNewLogFails, CompactCallFails
<1> QED
  BY ZenonT(40), <1>3, <1>4, <1>5, <1>6, <1>7, <1>8, <1>9 DEF Compact

\* A spilled buffer keeps BufferIInv.
LEMMA BufferSpill ==
  ASSUME BufferIInv, IndexIInv', NEW g \in Gens, Spill(g) PROVE BufferIInv'
<1>1. /\ mode = "up" /\ mode' = "up" /\ pc' = pc /\ pc \in {"flush", "copy"}
      /\ todo' = todo /\ wgen' = wgen /\ log' = log /\ index' = index
      /\ CompactionGen' = CompactionGen
  BY ZenonT(40) DEF Spill, BufferIInv, IndexIInv, TypeInv, TypeOK, GenBounds, CompactionGen,
     memVars, genVars, callVars, loopVars
<1>2. \A h \in Gens : vis[h] \in Nat /\ Len(log[h]) \in Nat
  BY DEF BufferIInv, IndexIInv, TypeInv, TypeOK
<1>3. \A h \in Gens : vis'[h] = IF h = g THEN vis[h] + 1 ELSE vis[h]
  BY ZenonT(40) DEF Spill, BufferIInv, IndexIInv, TypeInv, TypeOK
<1>4. \A h \in Gens : vis[h] <= vis'[h] /\ vis'[h] \in Nat
  BY <1>2, <1>3
<1>5. BufferInv'
  <2>1. \A h \in Gens : \A i \in (vis'[h] + 1)..Len(log[h]) : i \in (vis[h] + 1)..Len(log[h])
    BY <1>2, <1>4
  <2> QED
    BY ZenonT(40), <1>1, <2>1 DEF BufferIInv, BufferInv
<1>6. VisibleInv'
  <2> SUFFICES ASSUME NEW k \in Keys, index[k] # NoPos
               PROVE  \/ index[k].pos <= vis'[index[k].gen]
                      \/ pc = "copy" /\ index[k].gen = CompactionGen
    BY ZenonT(40), <1>1 DEF VisibleInv
  <2>1. \/ index[k].pos <= vis[index[k].gen]
        \/ pc = "copy" /\ index[k].gen = CompactionGen
    BY ZenonT(40), <1>1 DEF BufferIInv, VisibleInv
  <2>2. index[k].gen \in Gens /\ index[k].pos \in Int
    BY <1>1 DEF BufferIInv, IndexIInv, IndexInLog, TypeInv, TypeOK, CommandPos
  <2>3. /\ vis[index[k].gen] <= vis'[index[k].gen]
        /\ vis[index[k].gen] \in Nat /\ vis'[index[k].gen] \in Nat
    BY ZenonT(40), <1>2, <1>4, <2>2
  <2> QED
    BY <2>1, <2>2, <2>3
<1>7. CopyInv'
  BY ZenonT(40), <1>1 DEF BufferIInv, CopyInv
<1> QED
  BY ZenonT(40), <1>5, <1>6, <1>7 DEF BufferIInv

\* The end of open: nothing is in a buffer yet.
LEMMA BufferOpenDone ==
  ASSUME BufferIInv, IndexIInv', OpenDone PROVE BufferIInv'
<1>1. /\ mode = "load" /\ mode' = "up" /\ pc = "idle" /\ pc' = "idle"
      /\ log' = log /\ vis' = vis /\ index' = index
  BY ZenonT(40) DEF OpenDone, BufferIInv, IndexIInv, TypeInv, GenBounds, memVars, callVars
<1>2. BufferInv'
  BY ZenonT(40), <1>1 DEF BufferIInv, BufferInv
<1>3. VisibleInv'
  BY ZenonT(40), <1>1 DEF BufferIInv, VisibleInv
<1> QED
  BY ZenonT(40), <1>1, <1>2, <1>3 DEF BufferIInv, CopyInv

\* Every step that is not a failed flush or creation keeps BufferIInv.
LEMMA BufferStep ==
  ASSUME "create" \notin Faults, "flush" \notin Faults
  PROVE  BufferIInv /\ [Next]_vars => BufferIInv'
<1> SUFFICES ASSUME BufferIInv, [Next]_vars PROVE BufferIInv'
  OBVIOUS
<1>1. IndexIInv'
  BY ZenonT(40), IndexStep DEF BufferIInv
<1>2. CASE UNCHANGED vars
  <2>1. /\ mode' = mode /\ log' = log /\ vis' = vis /\ index' = index
        /\ pc' = pc /\ todo' = todo /\ currentGen' = currentGen /\ wgen' = wgen
    BY ZenonT(40), <1>2 DEF vars, diskVars, memVars, genVars, loopVars, callVars
  <2>2. BufferInv'
    BY ZenonT(40), <2>1 DEF BufferIInv, BufferInv, CompactionGen
  <2>3. VisibleInv'
    BY ZenonT(40), <2>1 DEF BufferIInv, VisibleInv, CompactionGen
  <2>4. CopyInv'
    BY ZenonT(40), <2>1 DEF BufferIInv, CopyInv, CompactionGen
  <2> QED
    BY ZenonT(40), <1>1, <2>2, <2>3, <2>4 DEF BufferIInv
<1>3. CASE Open
  <2>1. OpenDone \/ mode' # "up"
    BY ZenonT(40), <1>3 DEF Open, OpenStart, LoadCommand, OpenFails, LoadNextFile
  <2> QED
    BY ZenonT(40), <1>1, <2>1, BufferClosed, BufferOpenDone
<1>4. CASE Crash
  BY <1>1, <1>4, BufferClosed DEF Crash
<1>5. ~FlushFails
  BY ZenonT(40) DEF FlushFails
<1> QED
  BY <1>1, <1>2, <1>3, <1>4, <1>5, BufferRequest, BufferWriter, BufferCompact,
     BufferSpill DEF Next, WriterStep

-----------------------------------------------------------------------------
(* What an open store does to its files.                                   *)

\* The writer works on an open store and leaves it open.
LEMMA ModeKept ==
  ASSUME Request \/ WriterStep \/ \E g \in Gens : Spill(g)
  PROVE  mode' = mode /\ (TypeInv => mode = "up")
<1>1. TypeInv /\ pc # "idle" => mode = "up"
  BY ZenonT(40) DEF TypeInv, GenBounds
<1>2. pc = "idle" => mode = "up"
  BY ZenonT(40) DEF Request, Set, Remove, RemoveMissing, Ready, WriterStep, Flush,
   FlushFails, IndexCommand, Compact, CompactNewLog, CompactNewLogFails, CompactNewFile,
   CompactCallFails, CompactEntry, CompactEntryFails, CompactFlush, CompactSafePoint,
   CompactUnlink, CompactDone, Spill
<1>3. mode' = mode
  BY ZenonT(40) DEF Request, Set, Remove, RemoveMissing, WriteCommand, WriteCommandFails, WriterStep, Flush,
   FlushFails, IndexCommand, Compact, CompactNewLog, CompactNewLogFails, CompactNewFile,
   CompactCallFails, CompactEntry, CompactEntryFails, CompactFlush, CompactSafePoint,
   CompactUnlink, CompactDone, Spill
<1> QED
  BY <1>1, <1>2, <1>3

\* What the writer may do to the files while gets are running: commands stay
\* where they are, more of them reach the file, only files below the safe point
\* are deleted, and a compaction ends its copying with a flush.
FilesKept ==
    /\ \A g \in Gens : \A i \in 1..Len(log[g]) :
           i \in 1..Len(log'[g]) /\ log'[g][i] = log[g][i]
    /\ \A g \in Gens : vis[g] <= vis'[g]
    /\ safePoint <= safePoint'
    /\ \A g \in gens : g \in gens' \/ g < safePoint'
    /\ pc = "copy" /\ ~(pc' = "copy" /\ CompactionGen' = CompactionGen) =>
           vis'[CompactionGen] = Len(log[CompactionGen])

\* Every step of the open log engine is one of those.
LEMMA FilesAreKept ==
  ASSUME "create" \notin Faults, "flush" \notin Faults, BufferIInv,
         [Next]_vars, mode = "up", mode' = "up"
  PROVE  FilesKept
<1> USE ConstantsAssumption DEF ConstantsAssumption
<1>0. /\ TypeInv /\ currentGen \in Nat /\ wgen \in Gens /\ safePoint \in Nat
      /\ gens \subseteq Gens /\ (pc = "copy" => CompactionGen \in Gens)
      /\ vis \in [Gens -> Nat] /\ log \in [Gens -> Seq(Record)]
      /\ \A g \in Gens : vis[g] \in Nat /\ Len(log[g]) \in Nat /\ vis[g] <= Len(log[g])
  BY DEF BufferIInv, IndexIInv, TypeInv, TypeOK, GenBounds, Compacting, CompactionGen, Gens
<1>1. CASE UNCHANGED vars
  BY <1>0, <1>1 DEF FilesKept, vars, diskVars, genVars, callVars, CompactionGen
<1>2. CASE Request
  <2>1. ASSUME NEW c \in Command, Ready, WriteCommand(c) \/ WriteCommandFails(c)
        PROVE  FilesKept
    <3>1. PICK d \in Record : log' = [log EXCEPT ![wgen] = Append(@, d)]
      BY ZenonT(40), <2>1 DEF WriteCommand, WriteCommandFails, Record
    <3>2. /\ vis' = vis /\ gens' = gens /\ safePoint' = safePoint /\ pc = "idle"
      BY ZenonT(40), <2>1 DEF WriteCommand, WriteCommandFails, Ready, genVars
    <3> QED
      BY <1>0, <3>1, <3>2, AppendKeeps DEF FilesKept
  <2>2. ASSUME NEW k \in Keys, RemoveMissing(k) PROVE FilesKept
    BY <1>0, <2>2 DEF RemoveMissing, FilesKept, diskVars, genVars
  <2> QED
    BY ZenonT(40), <1>2, <2>1, <2>2, CommandType DEF Request, Set, Remove
<1>3. CASE Flush \/ IndexCommand \/ (\E g \in Gens : Spill(g))
  <2>1. /\ log' = log /\ gens' = gens /\ safePoint' = safePoint
        /\ CompactionGen' = CompactionGen /\ (pc = "copy" => pc' = "copy")
    BY ZenonT(40), <1>3 DEF Flush, IndexCommand, Spill, diskVars, genVars, callVars, CompactionGen
  <2>2. CASE Flush
    BY <1>0, <2>1, <2>2, FlushedBuffer DEF Flush, FilesKept
  <2>3. CASE IndexCommand
    BY <1>0, <2>1, <2>3 DEF IndexCommand, diskVars, FilesKept
  <2>4. ASSUME NEW h \in Gens, Spill(h) PROVE FilesKept
    <3>1. \A g \in Gens : vis[g] <= vis'[g]
      BY <1>0, <2>4 DEF Spill
    <3> QED
      BY <1>0, <2>1, <3>1 DEF FilesKept
  <2> QED
    BY ZenonT(40), <1>3, <2>2, <2>3, <2>4
<1>4. CASE Compact
  <2>1. ASSUME NEW k \in Keys, CompactEntry(k) PROVE FilesKept
    <3>0. index[k].gen \in Gens /\ index[k].pos \in 1..Len(log[index[k].gen])
      BY <1>0, <2>1 DEF CompactEntry, Readable
    <3>1. At(index[k]) \in Record
      BY <1>0, <3>0 DEF At
    <3> QED
      BY <1>0, <2>1, <3>1, AppendKeeps
         DEF FilesKept, CompactEntry, genVars, callVars, CompactionGen
  <2>2. CASE \/ CompactNewLog \/ CompactFlush
             \/ \E k \in Keys : CompactEntryFails(k)
    <3>1. /\ log' = log /\ gens \subseteq gens' /\ safePoint' = safePoint
          /\ \/ pc = "copy" /\ vis' = Flushed(CompactionGen)
             \/ pc = "newlog" /\ vis' = Flushed(wgen)
      BY ZenonT(40), <2>2 DEF CompactNewLog, CompactFlush, CompactEntryFails, genVars
    <3>2. \A g \in Gens : vis[g] <= vis'[g]
      BY ZenonT(40), <1>0, <3>1, FlushedBuffer
    <3>3. pc = "copy" => vis'[CompactionGen] = Len(log[CompactionGen])
      BY ZenonT(40), <1>0, <3>1, FlushedBuffer
    <3> QED
      BY <1>0, <3>1, <3>2, <3>3 DEF FilesKept
  <2>3. CASE CompactNewFile \/ CompactSafePoint \/ CompactDone
    BY <1>0, <2>3 DEF CompactNewFile, CompactSafePoint, CompactDone, FilesKept,
       diskVars, genVars, BufferIInv, IndexIInv, OpenInv, Compacting, CompactionGen
  <2>4. ASSUME NEW g \in Gens, CompactUnlink(g) PROVE FilesKept
    <3>1. /\ pc = "unlink" /\ log' = log /\ vis' = vis /\ safePoint' = safePoint
          /\ gens' = gens \ {g} \/ gens' = gens
      BY <2>4 DEF CompactUnlink, genVars
    <3>2. g < safePoint
      BY ZenonT(40), <2>4 DEF CompactUnlink, FirstStale, BufferIInv, IndexIInv, ProgressInv
    <3> QED
      BY <1>0, <3>1, <3>2 DEF FilesKept
  <2> QED
    BY ZenonT(40), <1>4, <2>1, <2>2, <2>3, <2>4 DEF Compact, CompactNewLogFails, CompactCallFails
<1> QED
  BY ZenonT(40), <1>1, <1>2, <1>3, <1>4
     DEF Next, WriterStep, FlushFails, Open, OpenStart, LoadCommand, OpenDone, OpenFails,
         LoadNextFile, Crash

-----------------------------------------------------------------------------
(* Stale files.                                                            *)

\* Stale files are below the compaction file and, if none refuses to be
\* deleted, go oldest first.
LEMMA StaleStep ==
  ASSUME BufferIInv, StaleInv, [Next]_vars, "unlink" \notin Faults PROVE StaleInv'
<1>1. CASE CompactSafePoint
  BY <1>1 DEF CompactSafePoint, StaleInv, CompactionGen, diskVars
<1>2. ASSUME NEW g \in Gens, CompactUnlink(g) PROVE StaleInv'
  BY <1>2 DEF CompactUnlink, OtherStale, StaleInv, CompactionGen, genVars, callVars
<1>3. CASE UNCHANGED vars
  BY ZenonT(40), <1>3 DEF StaleInv, CompactionGen, vars, diskVars, genVars, callVars, loopVars
<1>4. CASE Request \/ Flush \/ FlushFails \/ IndexCommand \/ Crash
  BY ZenonT(40), <1>4 DEF Request, Set, Remove, RemoveMissing, Ready, WriteCommand,
     WriteCommandFails, Flush, FlushFails, IndexCommand, Crash, ResetVolatile, Return,
     StaleInv
<1>5. CASE \E g \in Gens : Spill(g)
  BY ZenonT(40), <1>5 DEF Spill, StaleInv, callVars
<1>6. CASE Open
  BY ZenonT(40), <1>6 DEF Open, OpenStart, LoadCommand, OpenDone, OpenFails, LoadNextFile,
     ResetVolatile, StaleInv, callVars, BufferIInv, IndexIInv, TypeInv, GenBounds
<1>7. CASE \/ CompactNewLog \/ CompactNewLogFails \/ CompactNewFile \/ CompactCallFails
           \/ CompactFlush \/ CompactDone
           \/ \E k \in Keys : CompactEntry(k) \/ CompactEntryFails(k)
  BY ZenonT(40), <1>7 DEF CompactNewLog, CompactNewLogFails, CompactNewFile, CompactCallFails,
     CompactFlush, CompactDone, CompactEntry, CompactEntryFails, Return, callVars, StaleInv
<1> QED
  BY ZenonT(40), <1>1, <1>2, <1>3, <1>4, <1>5, <1>6, <1>7 DEF Next, WriterStep, Compact
=============================================================================
