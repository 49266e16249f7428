----------------------------- MODULE SharedQueue -----------------------------
(***************************************************************************)
(* SharedQueueThreadPool of projects 4 and 5: threads that take jobs from  *)
(* one unbounded channel.  A job that panics unwinds its thread; dropping  *)
(* the thread's TaskReceiver while it panics spawns a replacement.  If the *)
(* OS refuses the replacement, the closure that owns the cloned receiver   *)
(* is dropped on the thread that is still panicking, so the same Drop runs *)
(* again, one level deeper on the stack.                                   *)
(*                                                                         *)
(* The channel is crossbeam's: recv fails only when the queue is empty and *)
(* no sender is left, send fails only when no receiver is left.            *)
(***************************************************************************)
EXTENDS Integers, Sequences, FiniteSets

CONSTANTS
    Tasks,      \* the closures handed to spawn
    NoTask,
    Threads,    \* names for OS threads, each used once
    Sizes,      \* the numbers of threads new is called with
    MaxClones,  \* bound: clones of the pool at a time
    MaxDepth,   \* nested drops that fit on a stack
    OsFails     \* whether the OS may refuse to create a thread

ASSUME PoolAssumption ==
    /\ Sizes \subseteq Nat
    /\ MaxClones \in Nat \ {0}
    /\ MaxDepth \in Nat
    /\ OsFails \in BOOLEAN
    /\ NoTask \notin Tasks
    /\ IsFiniteSet(Threads)

VARIABLES
    size,    \* the argument of new
    stage,   \* inside new, open, new has failed, or the process has aborted
    senders, \* pool values (clones of tx) still alive
    queue,   \* the channel
    thread,  \* per thread: where it is
    task,    \* per thread: the job it runs
    depth,   \* per thread: nested TaskReceiver drops
    starts,  \* per job: how often it was started
    status   \* per job: how far it came

poolVars == <<size, stage, senders, queue, thread, task, depth, starts, status>>
jobVars == <<task, starts, status>>

In(states) == {w \in Threads : thread[w] \in states}

\* Threads that own a TaskReceiver and will go on, or are being replaced.
Serving == In({"recv", "run", "unwinding"})

Receivers == In({"recv", "run", "unwinding", "exiting"})

PoolInit ==
    /\ size \in Sizes
    /\ stage = "new"
    /\ senders = 1
    /\ queue = <<>>
    /\ thread = [w \in Threads |-> "unborn"]
    /\ task = [w \in Threads |-> NoTask]
    /\ depth = [w \in Threads |-> 0]
    /\ starts = [j \in Tasks |-> 0]
    /\ status = [j \in Tasks |-> "new"]

-----------------------------------------------------------------------------
(* new                                                                     *)

NewThread(w) ==
    /\ stage = "new"
    /\ Cardinality(Serving) < size
    /\ thread[w] = "unborn"
    /\ thread' = [thread EXCEPT ![w] = "recv"]
    /\ UNCHANGED <<size, stage, senders, queue, depth, jobVars>>

\* `?` leaves new and drops tx.
NewFails ==
    /\ OsFails
    /\ stage = "new"
    /\ Cardinality(Serving) < size
    /\ stage' = "failed"
    /\ senders' = 0
    /\ UNCHANGED <<size, queue, thread, depth, jobVars>>

NewReturns ==
    /\ stage = "new"
    /\ Cardinality(Serving) = size
    /\ stage' = "open"
    /\ UNCHANGED <<size, senders, queue, thread, depth, jobVars>>

-----------------------------------------------------------------------------
(* The owner of the pool                                                   *)

ClonePool ==
    /\ stage = "open"
    /\ senders \in 1..(MaxClones - 1)
    /\ senders' = senders + 1
    /\ UNCHANGED <<size, stage, queue, thread, depth, jobVars>>

DropPool ==
    /\ stage = "open"
    /\ senders > 0
    /\ senders' = senders - 1
    /\ UNCHANGED <<size, stage, queue, thread, depth, jobVars>>

Spawn(j) ==
    /\ stage = "open"
    /\ senders > 0
    /\ status[j] = "new"
    /\ Receivers # {}
    /\ queue' = Append(queue, j)
    /\ status' = [status EXCEPT ![j] = "sent"]
    /\ UNCHANGED <<size, stage, senders, thread, task, depth, starts>>

\* send fails and expect panics in the caller.
SpawnPanics(j) ==
    /\ stage = "open"
    /\ senders > 0
    /\ status[j] = "new"
    /\ Receivers = {}
    /\ status' = [status EXCEPT ![j] = "rejected"]
    /\ UNCHANGED <<size, stage, senders, queue, thread, task, depth, starts>>

-----------------------------------------------------------------------------
(* run_tasks                                                               *)

\* Mutant: the job is looked at but not taken out of the channel.
AfterRecvPeek == queue

AfterRecv == Tail(queue)

Recv(w) ==
    /\ stage # "aborted"
    /\ thread[w] = "recv"
    /\ queue # <<>>
    /\ queue' = AfterRecv
    /\ task' = [task EXCEPT ![w] = Head(queue)]
    /\ starts' = [starts EXCEPT ![Head(queue)] = @ + 1]
    /\ status' = [status EXCEPT ![Head(queue)] = "started"]
    /\ thread' = [thread EXCEPT ![w] = "run"]
    /\ UNCHANGED <<size, stage, senders, depth>>

\* The error is logged and the loop goes on.
RecvErr(w) ==
    /\ stage # "aborted"
    /\ thread[w] = "recv"
    /\ queue = <<>>
    /\ senders = 0
    /\ UNCHANGED poolVars

End(w, result, state) ==
    /\ stage # "aborted"
    /\ thread[w] = "run"
    /\ thread' = [thread EXCEPT ![w] = state]
    /\ status' = [status EXCEPT ![task[w]] = result]
    /\ task' = [task EXCEPT ![w] = NoTask]
    /\ UNCHANGED <<size, stage, senders, queue, depth, starts>>

Finish(w) == End(w, "done", "recv")

\* Mutant: the thread ends without the drop that replaces it.
PanicForgets(w) == End(w, "panicked", "exiting")

Panic(w) == End(w, "panicked", "unwinding")

-----------------------------------------------------------------------------
(* Drop for TaskReceiver, on a thread that is panicking                    *)

Respawn(w, n) ==
    /\ stage # "aborted"
    /\ thread[w] = "unwinding"
    /\ thread[n] = "unborn"
    /\ thread' = [thread EXCEPT ![w] = "exiting", ![n] = "recv"]
    /\ depth' = [depth EXCEPT ![w] = 0]
    /\ UNCHANGED <<size, stage, senders, queue, jobVars>>

RespawnFails(w) ==
    /\ OsFails
    /\ stage # "aborted"
    /\ thread[w] = "unwinding"
    /\ depth[w] < MaxDepth
    /\ depth' = [depth EXCEPT ![w] = @ + 1]
    /\ UNCHANGED <<size, stage, senders, queue, thread, jobVars>>

StackOverflow(w) ==
    /\ OsFails
    /\ stage # "aborted"
    /\ thread[w] = "unwinding"
    /\ depth[w] = MaxDepth
    /\ stage' = "aborted"
    /\ UNCHANGED <<size, senders, queue, thread, depth, jobVars>>

\* The receiver itself is dropped and the thread is gone.
Exit(w) ==
    /\ stage # "aborted"
    /\ thread[w] = "exiting"
    /\ thread' = [thread EXCEPT ![w] = "dead"]
    /\ UNCHANGED <<size, stage, senders, queue, depth, jobVars>>

-----------------------------------------------------------------------------

Work(w) ==
    \/ Recv(w) \/ RecvErr(w) \/ Finish(w) \/ Panic(w) \/ Exit(w)
    \/ \E n \in Threads : Respawn(w, n)

PoolNext ==
    \/ NewFails \/ NewReturns \/ ClonePool \/ DropPool
    \/ \E j \in Tasks : Spawn(j) \/ SpawnPanics(j)
    \/ \E w \in Threads :
           NewThread(w) \/ Work(w) \/ RespawnFails(w) \/ StackOverflow(w)

PoolSpec == PoolInit /\ [][PoolNext]_poolVars

\* Runnable threads are scheduled and jobs come to an end.  Nothing is assumed
\* of the owner of the pool.
PoolFairSpec == PoolSpec /\ \A w \in Threads : WF_poolVars(Work(w))

-----------------------------------------------------------------------------
(* Properties                                                              *)

\* "if the function panics the threadpool continues to operate with the same
\* number of threads" (trait ThreadPool): whatever panics when, as many threads
\* as new was asked for serve the queue or are on their way to be replaced.
SameNumberOfThreads == stage = "open" => Cardinality(Serving) = size

\* A job is never lost, duplicated or run twice on its way through the channel
\* and the threads: a sent job is in the channel exactly once, a started one
\* has left it and is with exactly one thread.
JobsInOnePlace ==
    \A j \in Tasks :
        /\ Cardinality({i \in 1..Len(queue) : queue[i] = j})
              = (IF status[j] = "sent" THEN 1 ELSE 0)
        /\ Cardinality({w \in Threads : task[w] = j})
              = (IF status[j] = "started" THEN 1 ELSE 0)
        /\ starts[j] = (IF status[j] \in {"started", "done", "panicked"} THEN 1 ELSE 0)

\* Every job that spawn accepted is run to its end, even if others panic all
\* the threads, if the OS refuses replacements for a while, and if the pool is
\* dropped while the job waits.  Only a pool without threads, or the abort of
\* the process after a refusal that lasts, leaves it waiting.
JobsEnd ==
    \A j \in Tasks :
        size > 0 /\ status[j] = "sent" ~>
            status[j] \in {"done", "panicked"} \/ stage = "aborted"
=============================================================================
