------------------------------ MODULE MapReduce ------------------------------
(***************************************************************************)
(* The map-reduce exercise: a test program generates a case (input files   *)
(* and, last, the expected result) unless its directory already exists,    *)
(* and submits a job to a pool of workers that write one intermediate      *)
(* file per map task and reduce task.  The reduce phase is not written:    *)
(* the program panics when the map phase is over.  A program may also be   *)
(* killed anywhere; files stay, and the next program finds them.  A URL is *)
(* a number, in the order of the strings; a file is a sequence of URLs.    *)
(***************************************************************************)
EXTENDS Naturals, Sequences, FiniteSets

CONSTANTS NMap, NReduce, Workers,
          Urls,     \* a set of numbers
          Records,  \* eachRecords of the generators
          Top,      \* how many URLs the result lists (10 in the code)
          MaxRuns,  \* bound: programs started one after the other
          Missing   \* a file that does not exist

ASSUME SizesType ==
  NMap \in Nat /\ NReduce \in Nat \ {0} /\ Records \in Nat /\ Top \in Nat
ASSUME UrlsAreOrdered == Urls \subseteq Nat
ASSUME MissingIsNoFile == Missing \notin Seq(Urls \X Nat)

Maps == 1 .. NMap
Reduces == 0 .. NReduce - 1

VARIABLES dir,                 \* the directory of the case exists
          input, result, mid,  \* files: map inputs, expected result, map outputs
          prog,                \* the program: where it is and the file it generates
          task, worker, exit,  \* the cluster
          ihash,               \* the hash of each URL
          interrupted          \* history: a generator did not finish

files == <<dir, input, result, mid>>
cluster == <<task, worker, exit>>
vars == <<files, prog, cluster, ihash, interrupted>>

Contents == [1 .. Records -> Urls]

Idle == [st |-> "idle", t |-> 0, data |-> << >>]

Init ==
  /\ dir = FALSE
  /\ input = [m \in Maps |-> Missing]
  /\ result = Missing
  /\ mid = [p \in Maps \X Reduces |-> Missing]
  /\ prog = [st |-> "start", i |-> 1, run |-> 1]
  /\ task = [m \in Maps |-> "none"]
  /\ worker = [w \in Workers |-> Idle]
  /\ exit = FALSE
  /\ ihash \in [Urls -> 0 .. NReduce]
  /\ interrupted = FALSE

\* urlCount of the generators, over the given sequence of URLs.
Seen(s) == {s[n] : n \in DOMAIN s}

CountIn(s, u) == Cardinality({n \in DOMAIN s : s[n] = u})

Better(s, u, v) == \/ CountIn(s, u) > CountIn(s, v)
                   \/ CountIn(s, u) = CountIn(s, v) /\ u < v

\* The URLs by falling count and, for equal counts, in the order of the strings.
Sorted(s) ==
  [n \in 1 .. Cardinality(Seen(s)) |->
     CHOOSE u \in Seen(s) : Cardinality({v \in Seen(s) : Better(s, v, u)}) = n - 1]

TopN(s, n) == [i \in 1 .. (IF Len(Sorted(s)) < n THEN Len(Sorted(s)) ELSE n) |->
                 <<Sorted(s)[i], CountIn(s, Sorted(s)[i])>>]
-----------------------------------------------------------------------------
\* The generators: a directory that exists is taken for a finished case.
CaseExists ==
  /\ prog.st = "start" /\ dir
  /\ prog' = [prog EXCEPT !.st = "submit"]
  /\ UNCHANGED <<files, cluster, ihash, interrupted>>

\* CreateFileAndBuf makes the directory, then creates or truncates the file.
GenMkdir ==
  /\ prog.st = "start" /\ ~dir
  /\ dir' = TRUE
  /\ prog' = [prog EXCEPT !.st = "next"]
  /\ UNCHANGED <<input, result, mid, cluster, ihash, interrupted>>

GenCreate ==
  /\ prog.st = "next" /\ prog.i <= NMap
  /\ input' = [input EXCEPT ![prog.i] = << >>]
  /\ prog' = [prog EXCEPT !.st = "fill"]
  /\ UNCHANGED <<dir, result, mid, cluster, ihash, interrupted>>

\* The records reach the file when the buffer is flushed by SafeClose.
GenFill ==
  /\ prog.st = "fill"
  /\ \E c \in Contents : input' = [input EXCEPT ![prog.i] = c]
  /\ prog' = [prog EXCEPT !.st = "next", !.i = @ + 1]
  /\ UNCHANGED <<dir, result, mid, cluster, ihash, interrupted>>

AllInput == LET cat[m \in 0 .. NMap] == IF m = 0 THEN << >> ELSE cat[m - 1] \o input[m]
            IN cat[NMap]

GenResultUnflushed ==
  /\ prog.st = "next" /\ prog.i > NMap
  /\ result' = << >>
  /\ prog' = [prog EXCEPT !.st = "submit"]
  /\ UNCHANGED <<dir, input, mid, cluster, ihash, interrupted>>

GenResultCreate ==
  /\ prog.st = "next" /\ prog.i > NMap
  /\ result' = << >>
  /\ prog' = [prog EXCEPT !.st = "result"]
  /\ UNCHANGED <<dir, input, mid, cluster, ihash, interrupted>>

GenResult ==
  /\ prog.st = "result"
  /\ result' = TopN(AllInput, Top)
  /\ prog' = [prog EXCEPT !.st = "submit"]
  /\ UNCHANGED <<dir, input, mid, cluster, ihash, interrupted>>
-----------------------------------------------------------------------------
\* Submit: run makes a task per input and a goroutine that sends it.
Submit ==
  /\ prog.st = "submit"
  /\ task' = [m \in Maps |-> "sending"]
  /\ prog' = [prog EXCEPT !.st = "mapping"]
  /\ UNCHANGED <<files, worker, exit, ihash, interrupted>>

\* select in worker: with a task to receive and exit closed, either may be chosen.
TakeTask(w, m) ==
  /\ worker[w].st = "idle" /\ task[m] = "sending"
  /\ worker' = [worker EXCEPT ![w] = [Idle EXCEPT !.st = "read", !.t = m]]
  /\ task' = [task EXCEPT ![m] = "taken"]
  /\ UNCHANGED <<files, prog, exit, ihash, interrupted>>

\* A file that is not there makes the program panic.
ReadInput(w) ==
  LET m == worker[w].t IN
  /\ worker[w].st = "read"
  /\ IF input[m] = Missing
     THEN prog' = [prog EXCEPT !.st = "dead"] /\ UNCHANGED worker
     ELSE worker' = [worker EXCEPT ![w] = [@ EXCEPT !.st = "create", !.data = input[m]]]
          /\ UNCHANGED prog
  /\ UNCHANGED <<files, task, exit, ihash, interrupted>>

CreateOutputsAppending(w) ==
  /\ worker[w].st = "create"
  /\ mid' = [p \in DOMAIN mid |->
               IF p[1] = worker[w].t /\ mid[p] = Missing THEN << >> ELSE mid[p]]
  /\ worker' = [worker EXCEPT ![w].st = "write"]
  /\ UNCHANGED <<dir, input, result, prog, task, exit, ihash, interrupted>>

CreateOutputs(w) ==
  /\ worker[w].st = "create"
  /\ mid' = [p \in DOMAIN mid |-> IF p[1] = worker[w].t THEN << >> ELSE mid[p]]
  /\ worker' = [worker EXCEPT ![w].st = "write"]
  /\ UNCHANGED <<dir, input, result, prog, task, exit, ihash, interrupted>>

\* The URLs of s whose hash selects reduce task r, in their order.
Bucket(s, r) ==
  LET b[n \in 0 .. Len(s)] ==
        IF n = 0 THEN << >>
        ELSE IF ihash[s[n]] % NReduce = r THEN Append(b[n - 1], s[n]) ELSE b[n - 1]
  IN b[Len(s)]

\* The pairs of the map function go to the file of their bucket; then wg.Done.
WriteOutputs(w) ==
  LET m == worker[w].t IN
  /\ worker[w].st = "write"
  /\ mid' = [p \in DOMAIN mid |->
               IF p[1] = m THEN mid[p] \o Bucket(worker[w].data, p[2]) ELSE mid[p]]
  /\ task' = [task EXCEPT ![m] = "done"]
  /\ worker' = [worker EXCEPT ![w] = Idle]
  /\ UNCHANGED <<dir, input, result, prog, exit, ihash, interrupted>>

\* run has waited for every task; the reduce phase panics.
Mapped == \A m \in Maps : task[m] = "done"

MapPhaseOver ==
  /\ prog.st = "mapping" /\ Mapped
  /\ prog' = [prog EXCEPT !.st = "mapped"]
  /\ UNCHANGED <<files, cluster, ihash, interrupted>>

Shutdown ==
  /\ prog.st \in {"submit", "mapping"} /\ ~exit
  /\ exit' = TRUE
  /\ UNCHANGED <<files, prog, task, worker, ihash, interrupted>>

WorkerExitsOnce(w) ==
  /\ worker[w].st = "idle" /\ exit /\ \A v \in Workers : worker[v].st # "exited"
  /\ worker' = [worker EXCEPT ![w].st = "exited"]
  /\ UNCHANGED <<files, prog, task, exit, ihash, interrupted>>

WorkerExits(w) ==
  /\ worker[w].st = "idle" /\ exit
  /\ worker' = [worker EXCEPT ![w].st = "exited"]
  /\ UNCHANGED <<files, prog, task, exit, ihash, interrupted>>

\* A panic or a kill ends the program; the next one starts with a new cluster.
Alive == prog.st \notin {"mapped", "dead"}

Killed ==
  /\ Alive /\ prog.run < MaxRuns
  /\ prog' = [prog EXCEPT !.st = "dead"]
  /\ interrupted' = (interrupted \/ prog.st \in {"next", "fill", "result"})
  /\ UNCHANGED <<files, cluster, ihash>>

Rerun ==
  /\ ~Alive /\ prog.run < MaxRuns
  /\ prog' = [st |-> "start", i |-> 1, run |-> prog.run + 1]
  /\ task' = [m \in Maps |-> "none"]
  /\ worker' = [w \in Workers |-> Idle]
  /\ exit' = FALSE
  /\ UNCHANGED <<files, ihash, interrupted>>

WorkerStep(w) == ReadInput(w) \/ CreateOutputs(w) \/ WriteOutputs(w) \/ WorkerExits(w)
                 \/ \E m \in Maps : TakeTask(w, m)

Next == \/ Alive /\ (CaseExists \/ GenMkdir \/ GenCreate \/ GenFill \/ GenResultCreate \/ GenResult
                     \/ Submit \/ MapPhaseOver \/ Shutdown \/ \E w \in Workers : WorkerStep(w))
        \/ Killed \/ Rerun

Spec == Init /\ [][Next]_vars

\* Goroutines that can run are scheduled; nobody has to kill or rerun a program.
FairSpec == /\ Spec /\ WF_vars(Alive /\ MapPhaseOver)
            /\ \A w \in Workers : WF_vars(Alive /\ WorkerStep(w))
-----------------------------------------------------------------------------

\* The pairs of URL u that a reduce task r finds in the map outputs.
FoundBy(r, u) ==
  LET n[m \in 0 .. NMap] == IF m = 0 THEN 0 ELSE n[m - 1] + CountIn(mid[<<m, r>>], u)
  IN n[NMap]

\* When the reduce phase begins, each intermediate file holds exactly the pairs
\* of its map input that hash to its reduce task, whatever an earlier program
\* or another worker left behind; so the reduce function of the example finds
\* every URL with its full count in one task, and in no other.
MapOutputExact ==
  prog.st = "mapped" =>
    /\ \A p \in Maps \X Reduces : mid[p] = Bucket(input[p[1]], p[2])
    /\ \A u \in Seen(AllInput) : \E r \in Reduces :
         /\ FoundBy(r, u) = CountIn(AllInput, u)
         /\ \A q \in Reduces \ {r} : FoundBy(q, u) = 0

\* The result lists URLs with their counts over all the inputs, in order, and
\* none that was left out is better.
ResultRight ==
  LET listed == {result[i][1] : i \in DOMAIN result} IN
  /\ \A i \in DOMAIN result : result[i][2] = CountIn(AllInput, result[i][1])
  /\ \A i, j \in DOMAIN result : i < j => Better(AllInput, result[i][1], result[j][1])
  /\ Len(result) <= Top
  /\ Len(result) = Top \/ listed = Seen(AllInput)
  /\ \A u \in Seen(AllInput) \ listed, v \in listed : Better(AllInput, v, u)

\* A job is submitted for a complete case, all inputs filled and the expected
\* result right, unless an earlier program stopped in the middle of generating
\* it: the generators take a directory that exists for a finished case.
CaseComplete ==
  prog.st \in {"mapping", "mapped"} =>
    interrupted \/ (/\ \A m \in Maps : input[m] \in Contents
                    /\ result # Missing /\ ResultRight)

\* Shutdown returns: every worker leaves, although select may go on taking tasks.
ShutdownReturns == exit ~> (\A w \in Workers : worker[w].st = "exited") \/ ~Alive \/ ~exit
=============================================================================
