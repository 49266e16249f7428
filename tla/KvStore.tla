------------------------------- MODULE KvStore -------------------------------
(***************************************************************************)
(* KvStore of project-5: the log engine of module KvLog together with the  *)
(* gets that run concurrently with the writer on the threads of the pool.  *)
(* A get looks its key up in the shared index, takes a KvStoreReader from  *)
(* the reader pool, reads the command through that reader's own file       *)
(* handles and puts the reader back.  An error on the way returns through  *)
(* `?` before the reader is put back, so the reader is lost to the pool.   *)
(* The index is a SkipMap: its get and insert are atomic here.             *)
(*                                                                         *)
(* Project-4 has the same log engine; there every clone of the store has a *)
(* reader of its own, named here after the thread that uses the clone.     *)
(***************************************************************************)
EXTENDS KvLog

CONSTANTS
    Threads,        \* threads of the pool
    Concurrency,    \* the argument of open: how many readers are made
    NoOp, Unset     \* "no write in progress", "no answer yet"

ASSUME ReaderAssumption ==
    /\ Concurrency \in Nat \ {0}
    /\ NoOp \notin Command
    /\ Unset \notin Vals \cup {NoVal}

VARIABLES
    cloned,     \* project-4: a reader per clone instead of the pool
    pool,       \* reader_pool: the queue of idle readers
    handles,    \* per reader: the generations it has an open file for
    job,        \* per thread: where its get is
    answer      \* per thread: what its last get returned

readerVars == <<cloned, pool, handles, job, answer>>
storeVars == <<vars, readerVars>>

ReaderIds == 1..Concurrency
Readers == ReaderIds \cup Threads

Idle == [pc |-> "idle", pos |-> NoPos, reader |-> 0]

FullPool == [i \in ReaderIds |-> i]

FreshReaders ==
    /\ pool' = IF cloned THEN <<>> ELSE FullPool
    /\ handles' = [r \in Readers |-> {}]
    /\ job' = [t \in Threads |-> Idle]
    /\ answer' = [t \in Threads |-> Unset]
    /\ UNCHANGED cloned

InitStore ==
    /\ Init
    /\ cloned \in BOOLEAN
    /\ pool = IF cloned THEN <<>> ELSE FullPool
    /\ handles = [r \in Readers |-> {}]
    /\ job = [t \in Threads |-> Idle]
    /\ answer = [t \in Threads |-> Unset]

Finish(t, a) ==
    /\ job' = [job EXCEPT ![t] = Idle]
    /\ answer' = [answer EXCEPT ![t] = a]

GetLookup(t, k) ==
    /\ mode = "up"
    /\ job[t].pc = "idle"
    /\ IF index[k] = NoPos
       THEN Finish(t, NoVal)
       ELSE /\ job' = [job EXCEPT ![t] = [pc |-> "open", pos |-> index[k],
                                          reader |-> 0]]
            /\ UNCHANGED answer
    /\ UNCHANGED <<vars, cloned, pool, handles>>

\* Mutant: the get waits for a reader to come back.
GetPanicWaits(t) ==
    /\ job[t].pc = "open" /\ ~cloned
    /\ pool = <<>>
    /\ UNCHANGED <<vars, readerVars>>

\* reader_pool.pop().unwrap() on an empty pool panics; the oneshot sender is
\* dropped and the caller sees an error.
GetPanic(t) ==
    /\ job[t].pc = "open" /\ ~cloned
    /\ pool = <<>>
    /\ Finish(t, "err")
    /\ UNCHANGED <<vars, cloned, pool, handles>>

\* The handles reader r is left with by close_stale_handles.
KeptHandles(r) == {g \in handles[r] : g >= safePoint}

\* Mutant: the reader is used without being taken out of the pool.
PoppedNot == pool

Popped == Tail(pool)

\* The handles a failed read leaves: a reader of the pool is lost with its own.
Left(r) == IF cloned THEN KeptHandles(r) ELSE {}

\* The first half of read_and: drop stale handles, open the file if needed.
GetOpen(t) ==
    /\ job[t].pc = "open"
    /\ cloned \/ pool # <<>>
    /\ LET r == IF cloned THEN t ELSE Head(pool)
           g == job[t].pos.gen
       IN  /\ pool' = IF cloned THEN pool ELSE Popped
           /\ \/ /\ g \in KeptHandles(r) \cup gens
                 /\ handles' = [handles EXCEPT ![r] = KeptHandles(r) \cup {g}]
                 /\ job' = [job EXCEPT ![t] = [pc |-> "read", pos |-> job[t].pos,
                                               reader |-> r]]
                 /\ UNCHANGED answer
              \/ /\ g \notin KeptHandles(r) \cup gens
                 /\ handles' = [handles EXCEPT ![r] = Left(r)]
                 /\ Finish(t, "err")
    /\ UNCHANGED <<vars, cloned>>

\* The second half: read the command; Err unless all of it is in the file.
GetRead(t) ==
    /\ job[t].pc = "read"
    /\ LET p == job[t].pos
           r == job[t].reader
       IN  \/ /\ p.pos <= vis[p.gen]
              /\ pool' = IF cloned THEN pool ELSE Append(pool, r)
              /\ Finish(t, IF At(p).op = "set" THEN At(p).val ELSE "err")
              /\ UNCHANGED handles
           \/ /\ p.pos > vis[p.gen]
              /\ handles' = [handles EXCEPT ![r] = IF cloned THEN @ ELSE {}]
              /\ Finish(t, "err")
              /\ UNCHANGED pool
    /\ UNCHANGED <<vars, cloned>>

\* A thread gets a new clone of the store, whose reader has no file open.
CloneStore(t) ==
    /\ cloned /\ mode = "up" /\ job[t].pc = "idle"
    /\ handles' = [handles EXCEPT ![t] = {}]
    /\ UNCHANGED <<vars, cloned, pool, job, answer>>

\* In project-4 the store that open returns keeps the files it has replayed open.
OpenStore ==
    /\ Open
    /\ \/ UNCHANGED handles
       \/ cloned /\ mode' = "up" /\ \E t \in Threads : handles' = [handles EXCEPT ![t] = gens]
    /\ UNCHANGED <<cloned, pool, job, answer>>

Get(t) ==
    \/ \E k \in Keys : GetLookup(t, k)
    \/ GetPanic(t) \/ GetOpen(t) \/ GetRead(t)

NextStore ==
    \/ OpenStore
    \/ /\ Request \/ WriterStep \/ \E g \in Gens : Spill(g)
       /\ UNCHANGED readerVars
    \/ Crash /\ FreshReaders
    \/ \E t \in Threads : Get(t) \/ CloneStore(t)

StoreSpec == InitStore /\ [][NextStore]_storeVars

FairStoreSpec ==
    /\ StoreSpec
    /\ WF_storeVars(WriterStep /\ UNCHANGED readerVars)
    /\ \A t \in Threads :
           WF_storeVars(GetPanic(t) \/ GetOpen(t) \/ GetRead(t))

-----------------------------------------------------------------------------
(* Properties.                                                             *)

\* The state of the KvsEngine that the store implements: the map its callers
\* see (while it is closed, the one open would recover), the write in progress,
\* and the value each running get found when it looked its key up.
kvBar == [k \in Keys |-> IF mode = "up" THEN Live(k) ELSE Recovered(k)]
opBar == IF pc \in {"flush", "index"} THEN Cmd ELSE NoOp
seenBar ==
    [t \in Threads |-> IF job[t].pc = "idle" THEN Unset ELSE At(job[t].pos).val]

Engine == INSTANCE KvsEngine WITH
    up <- mode = "up", kv <- kvBar, op <- opBar, seen <- seenBar

\* The open store is a KvsEngine: every get that answers with a value answers
\* with the value its key had when the get looked it up, however the file is
\* compacted, unlinked or buffered meanwhile; and a restart brings back exactly
\* the writes applied before the crash, plus possibly the one in progress.
RefinesEngine == Engine!Spec

\* A KvStoreReader is never shared: it is idle in the pool at most once, or
\* held by exactly one get.  (Its RefCell is not safe for two threads.)
ReadersExclusive ==
    /\ \A i, j \in 1..Len(pool) : pool[i] = pool[j] => i = j
    /\ \A t \in Threads : job[t].pc = "read" =>
           /\ \A i \in 1..Len(pool) : pool[i] # job[t].reader
           /\ \A u \in Threads : job[u].pc = "read" /\ u # t =>
                  job[u].reader # job[t].reader

\* Every get that starts comes to an end, with an answer, an error or the end
\* of the process.
GetReturns == \A t \in Threads : job[t].pc # "idle" ~> job[t].pc = "idle"

\* close_stale_handles says that "the stale files can be deleted": a get misses
\* its file only if a compaction has ended since it looked its key up, and finds
\* its file too short only while the compaction that wrote the entry runs.  A get
\* that overlaps no compaction does not fail.
GetFailsOnlyBesideCompaction ==
    \A t \in Threads :
        LET p == job[t].pos
        IN  /\ job[t].pc = "open" /\ p.gen \notin gens => p.gen < safePoint
            /\ job[t].pc = "read" /\ p.pos > vis[p.gen] => pc = "copy" /\ p.gen = CompactionGen
=============================================================================
