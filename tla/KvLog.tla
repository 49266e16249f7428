-------------------------------- MODULE KvLog --------------------------------
(***************************************************************************)
(* The log-structured storage engine behind KvStore (project-5,            *)
(* engines/kvs.rs): the generation files on disk, the in-memory index, the *)
(* one writer that the mutex admits, log compaction, and open/load after a *)
(* process crash.  Concurrent gets are added by module KvStore.            *)
(*                                                                         *)
(* A log file is a sequence of commands.  A CommandPos is the generation   *)
(* and the number of the command in that file; a record's length in bytes  *)
(* depends only on its kind (SetLen, RemoveLen).  log[g] is every byte the *)
(* process handed to the BufWriter of file g, vis[g] how many of those     *)
(* commands have reached the file.  A crash kills the process, not the     *)
(* machine: what reached the file stays, the rest is lost, and the command *)
(* at the boundary may be left half written ("torn").                      *)
(***************************************************************************)
EXTENDS Integers, Sequences, FiniteSets

CONSTANTS
    Keys, Vals,             \* the strings stored
    NoVal,                  \* "no value": the key is absent
    MaxGen,                 \* bound: generations 1..MaxGen may be used
    MaxLen,                 \* bound: set/remove commands per log file
    SetLen, RemoveLen,      \* bytes of a serialised Set and Remove
    Threshold,              \* COMPACTION_THRESHOLD
    Faults                  \* which I/O calls may fail

FaultKinds == {"write", "flush", "create", "unlink"}

ASSUME ConstantsAssumption ==
    /\ NoVal \notin Vals
    /\ MaxGen \in Nat \ {0} /\ MaxLen \in Nat /\ Threshold \in Nat
    /\ SetLen \in Nat \ {0} /\ RemoveLen \in Nat \ {0}
    /\ Faults \subseteq FaultKinds

VARIABLES
    mode,         \* "down" | "load" (inside KvStore::open) | "up"
    gens,         \* generations whose file is in the directory
    log, vis,     \* per generation: commands written, commands in the file
    index,        \* KvStoreWriter.index
    uncompacted,  \* KvStoreWriter.uncompacted
    currentGen,   \* KvStoreWriter.current_gen
    wgen,         \* the generation KvStoreWriter.writer appends to
    safePoint,    \* KvStoreReader.safe_point
    pc,           \* where the holder of the writer lock is
    todo,         \* index keys compact() has still to copy
    stale,        \* generations compact() has still to delete
    cursor,       \* next command load() reads
    reply         \* what the last set or remove returned

diskVars == <<gens, log, vis>>
memVars == <<index, uncompacted>>
genVars == <<currentGen, wgen, safePoint>>
loopVars == <<todo, stale>>
callVars == <<pc, reply>>
vars == <<mode, diskVars, memVars, genVars, loopVars, callVars, cursor>>

-----------------------------------------------------------------------------

Gens == 1..MaxGen

Command == [op : {"set"}, key : Keys, val : Vals]
             \cup [op : {"remove"}, key : Keys, val : {NoVal}]

Torn(c) == [op |-> "torn", key |-> c.key, val |-> c.val]

Record == Command \cup {Torn(c) : c \in Command}

CommandPos == [gen : 0..MaxGen, pos : Nat]

NoPos == [gen |-> 0, pos |-> 0]

At(p) == log[p.gen][p.pos]

CmdLen(c) == IF c.op = "set" THEN SetLen ELSE RemoveLen

\* Bytes of the command that k's index entry stops pointing at.
OldLen(k) == IF index[k] = NoPos THEN 0 ELSE SetLen

\* Mutant: the bytes of a remove command are not counted.
OwnLenZero(c) == 0

\* A remove command is itself garbage as soon as it is written.
OwnLen(c) == IF c.op = "set" THEN 0 ELSE CmdLen(c)

\* Mutant: flush leaves the bytes in the buffer.
FlushedNot(g) == vis

\* The buffer of the writer of generation g goes to the file.
Flushed(g) == [vis EXCEPT ![g] = Len(log[g])]

\* The command the writer is working on, between serialising and indexing it.
Cmd == log[wgen][Len(log[wgen])]

CompactionGen == currentGen - 1

\* The read_and of compact() finds the file and every byte of the command.
Readable(p) == p.gen \in gens /\ p.pos \in 1..vis[p.gen]

-----------------------------------------------------------------------------
(* KvStore::open on a directory: load every file, oldest first.            *)

Init ==
    /\ mode = "down"
    /\ gens = {}
    /\ log = [g \in Gens |-> <<>>]
    /\ vis = [g \in Gens |-> 0]
    /\ index = [k \in Keys |-> NoPos]
    /\ uncompacted = 0
    /\ currentGen = 0
    /\ wgen = 0
    /\ safePoint = 0
    /\ pc = "idle"
    /\ todo = {}
    /\ stale = {}
    /\ cursor = NoPos
    /\ reply = "none"

\* The volatile state of a process that is gone.
ResetVolatile ==
    /\ index' = [k \in Keys |-> NoPos]
    /\ uncompacted' = 0
    /\ currentGen' = 0
    /\ wgen' = 0
    /\ safePoint' = 0
    /\ pc' = "idle"
    /\ todo' = {}
    /\ stale' = {}
    /\ cursor' = NoPos
    /\ reply' = "none"

\* Bound: the generation OpenDone will create still fits.
OpenStart ==
    /\ mode = "down"
    /\ \A g \in gens : g < MaxGen
    /\ mode' = "load"
    /\ UNCHANGED <<diskVars, memVars, genVars, callVars, loopVars, cursor>>

\* g comes right after generation h in the sorted list of the log files.
Following(g, h) == g \in gens /\ g > h /\ \A f \in gens : f > h => f >= g

AtEndOfFile == cursor.gen # 0 => cursor.pos > Len(log[cursor.gen])

LoadNextFile(g) ==
    /\ mode = "load"
    /\ AtEndOfFile
    /\ Following(g, cursor.gen)
    /\ cursor' = [gen |-> g, pos |-> 1]
    /\ UNCHANGED <<mode, diskVars, memVars, genVars, callVars, loopVars>>

LoadCommand ==
    /\ mode = "load"
    /\ ~AtEndOfFile
    /\ At(cursor).op # "torn"
    /\ LET c == At(cursor)
       IN  /\ index' = [index EXCEPT ![c.key] =
                           IF c.op = "set" THEN cursor ELSE NoPos]
           /\ uncompacted' = uncompacted + OldLen(c.key) + OwnLen(c)
    /\ cursor' = [gen |-> cursor.gen, pos |-> cursor.pos + 1]
    /\ UNCHANGED <<mode, diskVars, genVars, callVars, loopVars>>

\* Mutant: open waits for a generation beyond the last.
AllLoadedStrict == AtEndOfFile /\ \A h \in gens : h < cursor.gen

AllLoaded == AtEndOfFile /\ \A h \in gens : h <= cursor.gen

OpenDone ==
    /\ mode = "load"
    /\ AllLoaded
    /\ mode' = "up"
    /\ currentGen' = cursor.gen + 1
    /\ wgen' = cursor.gen + 1
    /\ gens' = gens \cup {cursor.gen + 1}
    /\ cursor' = NoPos
    /\ UNCHANGED <<log, vis, memVars, safePoint, callVars, loopVars>>

\* A half written command is a deserialisation error; open propagates it, and
\* that of creating the new file.
OpenFails ==
    /\ mode = "load"
    /\ \/ ~AtEndOfFile /\ At(cursor).op = "torn"
       \/ AllLoaded /\ "create" \in Faults
    /\ mode' = "down"
    /\ ResetVolatile
    /\ UNCHANGED diskVars

-----------------------------------------------------------------------------
(* set and remove, run by the one thread that holds the writer mutex.      *)

\* Bound: a command starts only if its file and a compaction still fit.
Ready ==
    /\ mode = "up"
    /\ pc = "idle"
    /\ Len(log[wgen]) < MaxLen
    /\ currentGen + 2 <= MaxGen

Return(r) == pc' = "idle" /\ reply' = r

\* serde_json::to_writer into the BufWriter.
WriteCommand(c) ==
    /\ log' = [log EXCEPT ![wgen] = Append(@, c)]
    /\ pc' = "flush"
    /\ reply' = "none"
    /\ UNCHANGED <<mode, gens, vis, memVars, genVars, loopVars, cursor>>

\* to_writer fails after the BufWriter took part of the command.
WriteCommandFails(c) ==
    /\ "write" \in Faults
    /\ log' = [log EXCEPT ![wgen] = Append(@, Torn(c))]
    /\ Return("err")
    /\ UNCHANGED <<mode, gens, vis, memVars, genVars, loopVars, cursor>>

Set(k, v) ==
    /\ Ready
    /\ LET c == [op |-> "set", key |-> k, val |-> v]
       IN  WriteCommand(c) \/ WriteCommandFails(c)

Remove(k) ==
    /\ Ready
    /\ index[k] # NoPos
    /\ LET c == [op |-> "remove", key |-> k, val |-> NoVal]
       IN  WriteCommand(c) \/ WriteCommandFails(c)

RemoveMissing(k) ==
    /\ mode = "up"
    /\ pc = "idle"
    /\ index[k] = NoPos
    /\ reply' = "notfound"
    /\ UNCHANGED <<mode, diskVars, memVars, genVars, pc, loopVars, cursor>>

Flush ==
    /\ pc = "flush"
    /\ vis' = Flushed(wgen)
    /\ pc' = "index"
    /\ UNCHANGED <<mode, gens, log, memVars, genVars, loopVars, cursor, reply>>

FlushFails ==
    /\ "flush" \in Faults
    /\ pc = "flush"
    /\ Return("err")
    /\ UNCHANGED <<mode, diskVars, memVars, genVars, loopVars, cursor>>

MustCompact(bytes) == bytes > Threshold

IndexCommand ==
    /\ pc = "index"
    /\ index' = [index EXCEPT ![Cmd.key] =
                    IF Cmd.op = "set"
                    THEN [gen |-> currentGen, pos |-> Len(log[wgen])]
                    ELSE NoPos]
    /\ uncompacted' = uncompacted + OldLen(Cmd.key) + OwnLen(Cmd)
    /\ IF MustCompact(uncompacted')
       THEN pc' = "newlog" /\ UNCHANGED reply
       ELSE Return("ok")
    /\ UNCHANGED <<mode, diskVars, genVars, loopVars, cursor>>

-----------------------------------------------------------------------------
(* KvStoreWriter::compact.                                                 *)

\* current_gen moves on before the new log file is created; the old BufWriter
\* is dropped, which flushes it.
CompactNewLog ==
    /\ pc = "newlog"
    /\ currentGen' = currentGen + 2
    /\ wgen' = currentGen + 2
    /\ gens' = gens \cup {currentGen + 2}
    /\ vis' = Flushed(wgen)
    /\ pc' = "newcomp"
    /\ UNCHANGED <<mode, log, memVars, safePoint, loopVars, cursor, reply>>

CompactNewLogFails ==
    /\ "create" \in Faults
    /\ pc = "newlog"
    /\ currentGen' = currentGen + 2
    /\ Return("err")
    /\ UNCHANGED <<mode, diskVars, memVars, wgen, safePoint, loopVars, cursor>>

CompactNewFile ==
    /\ pc = "newcomp"
    /\ gens' = gens \cup {CompactionGen}
    /\ todo' = {k \in Keys : index[k] # NoPos}
    /\ pc' = "copy"
    /\ UNCHANGED <<mode, log, vis, memVars, genVars, stale, cursor, reply>>

\* Mutant: new_pos is not advanced from one entry to the next.
NewPosFixed == 1

NewPos == Len(log[CompactionGen]) + 1

\* One turn of the loop over the index: copy the command, repoint the entry.
CompactEntry(k) ==
    /\ pc = "copy"
    /\ k \in todo
    /\ Readable(index[k])
    /\ log' = [log EXCEPT ![CompactionGen] = Append(@, At(index[k]))]
    /\ index' = [index EXCEPT ![k] = [gen |-> CompactionGen, pos |-> NewPos]]
    /\ todo' = todo \ {k}
    /\ UNCHANGED <<mode, gens, vis, uncompacted, genVars, callVars, stale, cursor>>

\* read_and fails: compact() returns, dropping (so flushing) compaction_writer.
CompactEntryFails(k) ==
    /\ pc = "copy"
    /\ k \in todo
    /\ ~Readable(index[k])
    /\ vis' = Flushed(CompactionGen)
    /\ todo' = {}
    /\ Return("err")
    /\ UNCHANGED <<mode, gens, log, memVars, genVars, stale, cursor>>

\* Mutant: the loop over the index may stop early.
CopyDoneEarly == TRUE

CopyDone == todo = {}

\* Mutant: the copies are left in the buffer.
CompactFlushSkipped ==
    /\ pc = "copy"
    /\ CopyDone
    /\ todo' = {}
    /\ pc' = "safepoint"
    /\ UNCHANGED <<mode, diskVars, memVars, genVars, stale, cursor, reply>>

CompactFlush ==
    /\ pc = "copy"
    /\ CopyDone
    /\ vis' = Flushed(CompactionGen)
    /\ todo' = {}
    /\ pc' = "safepoint"
    /\ UNCHANGED <<mode, gens, log, memVars, genVars, stale, cursor, reply>>

\* Creating the compaction file or its last flush fails: ? returns at once.
CompactCallFails ==
    /\ \/ pc = "newcomp" /\ "create" \in Faults
       \/ pc = "copy" /\ CopyDone /\ "flush" \in Faults
    /\ Return("err")
    /\ UNCHANGED <<mode, diskVars, memVars, genVars, loopVars, cursor>>

CompactSafePoint ==
    /\ pc = "safepoint"
    /\ safePoint' = CompactionGen
    /\ stale' = {g \in gens : g < CompactionGen}
    /\ pc' = "unlink"
    /\ UNCHANGED <<mode, diskVars, memVars, currentGen, wgen, todo, cursor, reply>>

\* Mutant: the stale files are deleted in any order.
FirstStaleAny(g) == g \in stale

\* The stale files are deleted oldest first.
FirstStale(g) == g \in stale /\ \A h \in stale : g <= h

\* Mutant: the loop over the stale files does not advance.
OtherStaleAll(g) == stale

OtherStale(g) == stale \ {g}

\* A failed deletion is only logged.
CompactUnlink(g) ==
    /\ pc = "unlink"
    /\ FirstStale(g)
    /\ stale' = OtherStale(g)
    /\ \/ gens' = gens \ {g}
       \/ "unlink" \in Faults /\ UNCHANGED gens
    /\ UNCHANGED <<mode, log, vis, memVars, genVars, callVars, todo, cursor>>

CompactDone ==
    /\ pc = "unlink"
    /\ stale = {}
    /\ uncompacted' = 0
    /\ Return("ok")
    /\ UNCHANGED <<mode, diskVars, index, genVars, loopVars, cursor>>

-----------------------------------------------------------------------------
(* The environment: a BufWriter that fills up writes early, and a crash.   *)

Spill(g) ==
    /\ pc \in {"flush", "copy"}
    /\ g \in {wgen, CompactionGen}
    /\ g > 0
    /\ vis[g] < Len(log[g])
    /\ vis' = [vis EXCEPT ![g] = @ + 1]
    /\ UNCHANGED <<mode, gens, log, memVars, genVars, callVars, loopVars, cursor>>

\* What a crash leaves in file g: the commands that reached it, and perhaps
\* the beginning of the next one.
Surviving(g, torn) ==
    IF g \notin gens THEN <<>>
    ELSE LET kept == SubSeq(log[g], 1, vis[g])
         IN  IF g \in torn THEN Append(kept, Torn(log[g][vis[g] + 1])) ELSE kept

Crash ==
    /\ mode # "down"
    /\ mode' = "down"
    /\ \E torn \in SUBSET {g \in gens : vis[g] < Len(log[g])} :
           /\ log' = [g \in Gens |-> Surviving(g, torn)]
           /\ vis' = [g \in Gens |-> Len(Surviving(g, torn))]
    /\ ResetVolatile
    /\ UNCHANGED gens

-----------------------------------------------------------------------------

Open ==
    \/ OpenStart \/ LoadCommand \/ OpenDone \/ OpenFails
    \/ \E g \in gens : LoadNextFile(g)

Compact ==
    \/ CompactNewLog \/ CompactNewLogFails
    \/ CompactNewFile \/ CompactCallFails
    \/ \E k \in Keys : CompactEntry(k) \/ CompactEntryFails(k)
    \/ CompactFlush \/ CompactSafePoint
    \/ \E g \in Gens : CompactUnlink(g)
    \/ CompactDone

Request ==
    \/ \E k \in Keys, v \in Vals : Set(k, v)
    \/ \E k \in Keys : Remove(k) \/ RemoveMissing(k)

\* What the writer does on its own once a request has been accepted.
WriterStep == Flush \/ FlushFails \/ IndexCommand \/ Compact

Next ==
    \/ Open
    \/ Request
    \/ WriterStep
    \/ \E g \in Gens : Spill(g)
    \/ Crash

Spec == Init /\ [][Next]_vars

FairSpec == Spec /\ WF_vars(WriterStep) /\ WF_vars(Open)

-----------------------------------------------------------------------------
(* Properties.                                                             *)

\* Types of files, index and counters, and the order of the generation numbers
\* that open and compact allot.
TypeOK ==
    /\ mode \in {"down", "load", "up"}
    /\ gens \subseteq Gens
    /\ log \in [Gens -> Seq(Record)]
    /\ vis \in [Gens -> Nat]
    /\ index \in [Keys -> CommandPos]
    /\ uncompacted \in Nat
    /\ currentGen \in 0..MaxGen
    /\ wgen \in 0..MaxGen
    /\ safePoint \in 0..MaxGen
    /\ pc \in {"idle", "flush", "index", "newlog", "newcomp", "copy",
               "safepoint", "unlink"}
    /\ todo \subseteq Keys
    /\ stale \subseteq Gens
    /\ cursor \in CommandPos
    /\ reply \in {"none", "ok", "err", "notfound"}

\* The value a get of k reads through the index.
Live(k) == IF index[k] = NoPos THEN NoVal ELSE At(index[k]).val

Before(p, q) == p.gen < q.gen \/ (p.gen = q.gen /\ p.pos < q.pos)

\* Where the commands about k are in the files.
Stored(k) ==
    {p \in UNION {[gen : {g}, pos : 1..vis[g]] : g \in gens} :
        At(p).key = k /\ At(p).op # "torn"}

\* The same; during a load, in the part of the files that has been read.
Places(k) == {p \in Stored(k) : mode = "load" => Before(p, cursor)}

\* Replaying the commands about k in P, the last one wins and leaves v.
ReplaysTo(P, v) ==
    /\ \A p \in P : \/ At(p).val = v
                    \/ \E q \in P : Before(p, q) /\ At(q).val = v
    /\ v # NoVal => \E p \in P : At(p).val = v

\* The value open would recover for k from the files as they are.
Recovered(k) ==
    IF Stored(k) = {} THEN NoVal
    ELSE At(CHOOSE p \in Stored(k) : \A q \in Stored(k) : ~Before(p, q)).val

\* The value of k once the command being written, if it has reached the file,
\* is counted in.
Committed(k) ==
    IF /\ pc \in {"flush", "index"}
       /\ vis[wgen] = Len(log[wgen])
       /\ Cmd.key = k
    THEN Cmd.val
    ELSE Live(k)

\* Crash safety: at every step of set, remove, compact and load, replaying the
\* files (what open would do after a crash here) gives for every key exactly
\* the value the index gives, or the value of the command whose record is
\* already in the file but not yet in the index.  In particular compaction and
\* the deletion of stale generations never lose a live key nor bring back a
\* removed one, however far they get.
Durable ==
    mode # "down" => \A k \in Keys : ReplaysTo(Places(k), Committed(k))

\* KvStoreReader::close_stale_handles says of a compaction generation that it
\* "contains the sum of all operations before it": the generations from
\* safe_point on suffice to recover every key, even when deleting the stale
\* files failed.
SafePointSuffices ==
    mode = "up" /\ safePoint > 0 =>
        \A k \in Keys :
            ReplaysTo({p \in Places(k) : p.gen >= safePoint}, Committed(k))

\* The same comment: "the in-memory index contains no entries with generation
\* number less than safe_point".  The files from safe_point on are never
\* deleted, so every entry of the index names a file that is still there.
NoIndexBelowSafePoint ==
    mode = "up" =>
        \A k \in Keys : index[k] # NoPos =>
            index[k].gen >= safePoint /\ index[k].gen \in gens

\* "CommandPos represents the position and length of a json-serialized command
\* in the log": every index entry names a Set command about its own key among
\* the commands written to that generation.
IndexInLog ==
    mode # "down" =>
        \A k \in Keys : index[k] # NoPos =>
            /\ index[k].gen \in gens
            /\ index[k].pos \in 1..Len(log[index[k].gen])
            /\ At(index[k]).op = "set"
            /\ At(index[k]).key = k

\* Only the bytes of a set or remove reaching the file change what a restart
\* recovers, and only for its key; compaction, deletion of stale files, a
\* crash, a failed compaction and open itself never do.
OnlyCommandsChangeRecovery ==
    [][\A k \in Keys : Recovered(k)' # Recovered(k) =>
           pc = "flush" /\ Cmd.key = k /\ Recovered(k)' = Cmd.val]_vars

\* A set or remove that has been accepted returns, compaction included,
\* unless the process crashes first.
WriterReturns == pc # "idle" ~> pc = "idle"

\* open comes back: every log file is read to its end or to its first torn
\* command.
OpenReturns == mode = "load" ~> mode # "load"
=============================================================================
