------------------------------ MODULE SeqStore -------------------------------
(***************************************************************************)
(* The single-threaded KvStore of project-2 (kv.rs; project-3 keeps it     *)
(* unchanged): set, get, remove, open and a compaction that deletes stale  *)
(* files in the order of a HashMap and gives up at the first I/O error.    *)
(*                                                                         *)
(* A log file is a sequence of commands, a CommandPos a generation and the *)
(* number of the command in it.  What a BufWriter holds is lost by a crash *)
(* except for a prefix, and the command after that prefix may be torn.     *)
(***************************************************************************)
EXTENDS Integers, Sequences, SequencesExt

CONSTANTS
    NKeys, Vals, NoVal,  \* keys are 1..NKeys, in the order of the BTreeMap
    SetLen, RemoveLen,   \* bytes of a serialised Set and Remove
    Threshold,           \* COMPACTION_THRESHOLD
    MaxGen, MaxCmds      \* bounds: generations, commands in all files

VARIABLES
    up,                 \* a process has the store open
    files,              \* generation -> commands in its file
    pc,                 \* "idle" or the next step of the call in progress
    buf, compBuf,       \* contents of writer and of compaction_writer
    wgen, currentGen,   \* file of writer; KvStore.current_gen
    readers, index, uncompacted, stale,
    kv, failed,         \* ghosts: per key the value of the last call that
                        \* returned Ok, and the values of failed calls since
    hit,                \* ghost: kinds of I/O error this process has met
    interrupted         \* ghost: a compaction left stale files behind

bufVars == <<buf, compBuf>>
genVars == <<wgen, currentGen>>
memVars == <<readers, index, uncompacted>>
ghosts == <<kv, failed, hit, interrupted>>
vars == <<up, files, pc, bufVars, genVars, memVars, stale, ghosts>>

Keys == 1..NKeys
NoPos == [gen |-> 0, pos |-> 0]
Put(k, v) == [op |-> IF v = NoVal THEN "remove" ELSE "set", key |-> k, val |-> v]
Torn == [op |-> "torn", key |-> 0, val |-> NoVal]
CmdLen(c) == IF c.op = "remove" THEN RemoveLen ELSE SetLen
Live == {k \in Keys : index[k] # NoPos}
OldLen(ix, k) == IF ix[k] = NoPos THEN 0 ELSE SetLen
Gens == DOMAIN files
OnDisk(p) == p.gen \in Gens /\ p.pos \in DOMAIN files[p.gen]
At(p) == files[p.gen][p.pos]
Without(f, g) == [h \in DOMAIN f \ {g} |-> f[h]]
With(f, g, s) == [h \in DOMAIN f \cup {g} |-> IF h = g THEN s ELSE f[h]]

-----------------------------------------------------------------------------
(* KvStore::open.                                                          *)

\* Mutant: a replayed Remove does not count its own bytes.
LoadCommandSetOnly(s, p) ==
    LET c == At(p)
    IN  [index |-> [s.index EXCEPT ![c.key] = IF c.op = "set" THEN p ELSE NoPos],
         uncompacted |-> s.uncompacted + OldLen(s.index, c.key)]

\* One turn of the loop of load().
LoadCommand(s, p) ==
    LET c == At(p)
    IN  [index |-> [s.index EXCEPT ![c.key] = IF c.op = "set" THEN p ELSE NoPos],
         uncompacted |-> s.uncompacted + OldLen(s.index, c.key)
                           + (IF c.op = "remove" THEN RemoveLen ELSE 0)]

\* Positions of all commands in the order of sorted_gen_list.
Positions ==
    FlattenSeq([g \in 1..MaxGen |->
        [j \in 1..(IF g \in Gens THEN Len(files[g]) ELSE 0) |-> [gen |-> g, pos |-> j]]])

NothingLoaded == [index |-> [k \in Keys |-> NoPos], uncompacted |-> 0]
Loaded == FoldLeft(LoadCommand, NothingLoaded, Positions)
HasTorn == \E g \in Gens : \E i \in DOMAIN files[g] : files[g][i] = Torn
LastGen == IF Gens = {} THEN 0 ELSE CHOOSE g \in Gens : \A h \in Gens : h <= g

Value(p) == IF p = NoPos THEN NoVal ELSE At(p).val

Init ==
    /\ up = FALSE /\ files = <<>> /\ pc = "idle" /\ buf = <<>> /\ compBuf = <<>>
    /\ wgen = 0 /\ currentGen = 0 /\ readers = {} /\ stale = {}
    /\ index = NothingLoaded.index /\ uncompacted = 0
    /\ kv = [k \in Keys |-> NoVal] /\ failed = [k \in Keys |-> {}]
    /\ hit = {} /\ interrupted = FALSE

\* A torn command is a deserialisation error, which open returns: the store
\* stays closed.  Bound: MaxGen.
Open ==
    /\ ~up /\ ~HasTorn /\ LastGen < MaxGen
    /\ up' = TRUE
    /\ currentGen' = LastGen + 1 /\ wgen' = LastGen + 1
    /\ files' = With(files, LastGen + 1, <<>>)
    /\ readers' = Gens \cup {LastGen + 1}
    /\ LET s == Loaded
       IN  /\ index' = s.index
           /\ uncompacted' = s.uncompacted
           /\ kv' = [k \in Keys |-> Value(s.index[k])]
    /\ failed' = [k \in Keys |-> {}]
    /\ hit' = {} /\ interrupted' = FALSE
    /\ UNCHANGED <<pc, bufVars, stale>>

-----------------------------------------------------------------------------
(* set, get and remove.                                                    *)

Cmd == Last(buf)

\* Bound: a call starts only if its command and a compaction still fit.
Ready == up /\ pc = "idle" /\ Len(Positions) + Len(buf) < MaxCmds /\ currentGen + 2 <= MaxGen

Serialise(c) ==
    /\ buf' = Append(buf, c)
    /\ pc' = "flush"
    /\ UNCHANGED <<up, files, compBuf, genVars, memVars, stale, ghosts>>

Set(k, v) == Ready /\ Serialise(Put(k, v))

\* A key that is not in the index is KeyNotFound and nothing changes.
RemoveKey(k) == Ready /\ k \in Live /\ Serialise(Put(k, NoVal))

Ack(c) ==
    /\ kv' = [kv EXCEPT ![c.key] = c.val]
    /\ failed' = [failed EXCEPT ![c.key] = {}]

\* The call returns an error; what it wrote may still count after a restart.
Err(c, kind) ==
    /\ pc' = "idle"
    /\ failed' = [failed EXCEPT ![c.key] = @ \cup {c.val}]
    /\ hit' = hit \cup {kind}

\* Mutant: the position of the command is that of the file before buffered
\* bytes of an earlier, failed call.
WrittenPosShort == Len(files[wgen]) + 1

\* Where Cmd is in its file: writer.pos counts buffered bytes too.
WrittenPos == Len(files[wgen]) + Len(buf)

\* flush, the index entry, the accounting; only set starts a compaction.
Flush ==
    /\ pc = "flush"
    /\ LET p == [gen |-> currentGen, pos |-> WrittenPos]
           c == Cmd
       IN  /\ index' = [index EXCEPT ![c.key] = IF c.op = "set" THEN p ELSE NoPos]
           /\ uncompacted' = uncompacted + OldLen(index, c.key)
           /\ Ack(c)
           /\ pc' = IF c.op = "set" /\ uncompacted' > Threshold THEN "newlog" ELSE "idle"
    /\ files' = [files EXCEPT ![wgen] = @ \o buf]
    /\ buf' = <<>>
    /\ UNCHANGED <<up, compBuf, genVars, readers, stale, hit, interrupted>>

FlushFails ==
    /\ pc = "flush"
    /\ Err(Cmd, "flush")
    /\ UNCHANGED <<up, files, bufVars, genVars, memVars, stale, kv, interrupted>>

\* What get(k) answers: the reader map must know the generation (expect).
GetResult(k) ==
    IF index[k] = NoPos THEN NoVal
    ELSE IF index[k].gen \notin readers THEN "panic"
    ELSE IF OnDisk(index[k]) /\ At(index[k]).op = "set" THEN At(index[k]).val ELSE "err"

\* The end of a process.
Exit ==
    /\ up' = FALSE /\ pc' = "idle" /\ buf' = <<>> /\ compBuf' = <<>> /\ stale' = {}
    /\ wgen' = 0 /\ currentGen' = 0 /\ readers' = {} /\ uncompacted' = 0
    /\ index' = NothingLoaded.index /\ hit' = hit \cap {"lost"}
    /\ UNCHANGED kv

\* Dropping a BufWriter flushes it, also when a panic unwinds.
DropWriters ==
    [g \in Gens |-> files[g] \o (IF g = wgen THEN buf ELSE IF g = currentGen - 1 THEN compBuf ELSE <<>>)]

GetPanics(k) ==
    /\ up /\ pc = "idle" /\ GetResult(k) = "panic"
    /\ Exit /\ files' = DropWriters /\ UNCHANGED <<failed, interrupted>>

\* The store is dropped at the end of the process.
Close ==
    /\ up /\ pc = "idle"
    /\ Exit /\ files' = DropWriters /\ UNCHANGED <<failed, interrupted>>

-----------------------------------------------------------------------------
(* KvStore::compact.                                                       *)

\* A prefix of s, perhaps followed by part of the next command.
Leftovers(s) ==
    {SubSeq(s, 1, n) : n \in 0..Len(s)}
      \cup {Append(SubSeq(s, 1, n), Torn) : n \in 0..(Len(s) - 1)}

CompactNewLog ==
    /\ pc = "newlog"
    /\ currentGen' = currentGen + 2 /\ wgen' = currentGen + 2
    /\ files' = With(files, currentGen + 2, <<>>)
    /\ readers' = readers \cup {currentGen + 2}
    /\ pc' = "copy"
    /\ UNCHANGED <<up, bufVars, index, uncompacted, stale, ghosts>>

\* current_gen has moved on already when creating the file fails.
CompactNewLogFails ==
    /\ pc = "newlog"
    /\ currentGen' = currentGen + 2
    /\ pc' = "idle" /\ hit' = hit \cup {"create"}
    /\ UNCHANGED <<up, files, bufVars, wgen, memVars, stale, kv, failed, interrupted>>

CompactionGen == currentGen - 1

\* Entries whose bytes are in the file; io::copy finds none for another entry.
Sound(ks) == {k \in ks \cap Live : OnDisk(index[k])}

\* The loop runs over the index in the order of the keys.
Copies(ks) ==
    LET ordered == SelectSeq([i \in Keys |-> i], LAMBDA k : k \in Sound(ks))
    IN  [i \in DOMAIN ordered |-> At(index[ordered[i]])]

NewPos(k) == IF k \in Sound(Keys) THEN Cardinality({j \in Sound(Keys) : j <= k}) ELSE 0

Repointed(ks) ==
    [k \in Keys |-> IF k \in ks \cap Live THEN [gen |-> CompactionGen, pos |-> NewPos(k)]
                    ELSE index[k]]

CompactCopy ==
    /\ pc = "copy"
    /\ \A k \in Live : index[k].gen \in readers
    /\ files' = With(files, CompactionGen, <<>>)
    /\ readers' = readers \cup {CompactionGen}
    /\ compBuf' = Copies(Live)
    /\ index' = Repointed(Live)
    /\ hit' = IF \E k \in Live : ~OnDisk(index[k]) \/ At(index[k]) = Torn
               THEN hit \cup {"lost"} ELSE hit
    /\ pc' = "compflush"
    /\ UNCHANGED <<up, buf, genVars, uncompacted, stale, kv, failed, interrupted>>

\* Copying the entry of k fails: `?` returns, and dropping the writer flushes
\* the entries before it.
CompactCopyFails(k) ==
    /\ pc = "copy" /\ k \in Live
    /\ \A j \in Live : j <= k => index[j].gen \in readers
    /\ files' = With(files, CompactionGen, Copies({j \in Live : j < k}))
    /\ readers' = readers \cup {CompactionGen}
    /\ index' = Repointed({j \in Live : j < k})
    /\ pc' = "idle" /\ hit' = hit \cup {"comp"}
    /\ UNCHANGED <<up, bufVars, genVars, uncompacted, stale, kv, failed, interrupted>>

\* The entry of some key names a generation without reader: expect() panics
\* after the entries before it were copied.
CompactPanics(k) ==
    /\ pc = "copy" /\ k \in Live
    /\ index[k].gen \notin readers
    /\ \A j \in Live : j < k => index[j].gen \in readers
    /\ Exit
    /\ files' = With(files, CompactionGen, Copies({j \in Live : j < k}))
    /\ UNCHANGED <<failed, interrupted>>

\* Creating the compaction file fails.
CompactNewFileFails ==
    /\ pc = "copy"
    /\ pc' = "idle" /\ hit' = hit \cup {"comp"}
    /\ UNCHANGED <<up, files, bufVars, genVars, memVars, stale, kv, failed, interrupted>>

StaleGens == {g \in readers : g < CompactionGen}

\* Mutant: the copies are still in the buffer when the deletions start.
FlushedCopiesNot == files

FlushedCopies == [files EXCEPT ![CompactionGen] = compBuf]

CompactFlush ==
    /\ pc = "compflush"
    /\ files' = FlushedCopies
    /\ compBuf' = <<>>
    /\ stale' = StaleGens
    /\ pc' = "unlink"
    /\ UNCHANGED <<up, buf, genVars, memVars, ghosts>>

\* The flush fails, and the one on drop as well: part of the copies is missing.
CompactFlushFails ==
    /\ pc = "compflush"
    /\ \E a \in Leftovers(compBuf) : files' = [files EXCEPT ![CompactionGen] = a]
    /\ compBuf' = <<>>
    /\ pc' = "idle" /\ hit' = hit \cup {"compflush"}
    /\ UNCHANGED <<up, buf, genVars, memVars, stale, kv, failed, interrupted>>

CompactUnlink(g) ==
    /\ pc = "unlink" /\ g \in stale
    /\ files' = Without(files, g)
    /\ readers' = readers \ {g}
    /\ stale' = stale \ {g}
    /\ UNCHANGED <<up, pc, bufVars, genVars, index, uncompacted, ghosts>>

\* remove_file fails: `?` returns, uncompacted stays, the reader is gone.
CompactUnlinkFails(g) ==
    /\ pc = "unlink" /\ g \in stale
    /\ readers' = readers \ {g}
    /\ stale' = {}
    /\ pc' = "idle" /\ hit' = hit \cup {"unlink"} /\ interrupted' = TRUE
    /\ UNCHANGED <<up, files, bufVars, genVars, index, uncompacted, kv, failed>>

CompactDone ==
    /\ pc = "unlink" /\ stale = {}
    /\ uncompacted' = 0
    /\ pc' = "idle"
    /\ UNCHANGED <<up, files, bufVars, genVars, readers, index, stale, ghosts>>

-----------------------------------------------------------------------------

\* The process dies at any point; the call in progress has an open outcome.
Crash ==
    /\ up
    /\ \E a \in Leftovers(buf), b \in Leftovers(compBuf) :
           files' = [g \in Gens |-> files[g] \o (IF g = wgen THEN a
                                                 ELSE IF g = CompactionGen THEN b ELSE <<>>)]
    /\ interrupted' = (interrupted \/ pc = "unlink")
    /\ failed' = IF pc = "flush" THEN [failed EXCEPT ![Cmd.key] = @ \cup {Cmd.val}] ELSE failed
    /\ Exit

Compact ==
    \/ CompactNewLog \/ CompactNewLogFails \/ CompactCopy \/ CompactNewFileFails
    \/ CompactFlush \/ CompactFlushFails \/ CompactDone
    \/ \E k \in Keys : CompactPanics(k) \/ CompactCopyFails(k)
    \/ \E g \in stale : CompactUnlink(g) \/ CompactUnlinkFails(g)

Next ==
    \/ Open \/ Flush \/ FlushFails \/ Close \/ Crash \/ Compact
    \/ \E k \in Keys : RemoveKey(k) \/ GetPanics(k) \/ \E v \in Vals : Set(k, v)

Spec == Init /\ [][Next]_vars

Symmetry == Permutations(Vals)

-----------------------------------------------------------------------------

\* What the next open recovers for a key is the value of the last call that
\* returned Ok or of a call that failed since.  Only a key whose removal was
\* the last such call may come back, and only if a compaction was stopped
\* while it deleted stale files: compact() deletes them in no order.  Nothing
\* is said after a compaction that went on from a compaction file whose flush
\* had failed: it deletes the only copies left.
RecoveryExplained ==
    ~HasTorn /\ "lost" \notin hit => LET found == Loaded.index IN \A k \in Keys :
        \/ Value(found[k]) \in {kv[k]} \cup failed[k]
        \/ (interrupted \/ pc = "unlink") /\ NoVal \in {kv[k]} \cup failed[k]

\* Between calls get answers every key with the value of the last set or
\* remove that returned Ok, and finds a reader for it, through compactions and
\* failed calls, as long as no log file could not be created and no compaction
\* file could not be flushed.
GetExact ==
    up /\ pc = "idle" /\ hit \cap {"create", "compflush"} = {} =>
        \A k \in Keys : GetResult(k) = kv[k]

DiskBytes == FoldLeft(LAMBDA n, p : n + CmdLen(At(p)), 0, Positions)

\* "uncompacted" is the size of the files minus that of the live commands,
\* except that remove() does not count the remove records written since the
\* last open or compaction: those are in the current file.
UncompactedKnown ==
    up /\ pc = "idle" /\ hit = {} =>
        uncompacted + RemoveLen * Len(SelectSeq(files[wgen], LAMBDA c : c.op = "remove"))
          = DiskBytes - SetLen * Cardinality(Live)
=============================================================================
