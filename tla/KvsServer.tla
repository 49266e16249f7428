----------------------------- MODULE KvsServer -----------------------------
(***************************************************************************)
(* kvs-server and its clients: the start-up with its engine file, the loop *)
(* over connections, one request after another on a connection, the two    *)
(* engines, clients that leave at any point, and a server that is killed.  *)
(* `version` is the project: 3 serves one connection at a time, 4 serves   *)
(* each connection as a job of a pool, 5 runs a tokio stream whose         *)
(* for_each takes the next connection when the last one is over.           *)
(*                                                                         *)
(* The store is one key.  Its content carries the number of the update     *)
(* that wrote it, so that contents can be ordered.  An update takes two    *)
(* steps: kvs writes the log and then the index, sled changes the tree and *)
(* then flushes it.                                                        *)
(***************************************************************************)
EXTENDS Naturals, Sequences, FiniteSets

CONSTANTS Clients,      \* the client processes
          Pool,         \* threads of the pool of project 4
          MaxAsks       \* bound: requests sent, all clients together

VARIABLES version,      \* 3, 4 or 5
          phase,        \* of the server process
          engine,       \* the engine it runs
          file,         \* content of the file "engine"
          torn,         \* history: the process died inside the write of `file`
          disk, mem,    \* per engine: what is recovered; what a get returns
          backlog,      \* connections no thread has taken yet
          conn, gone,   \* per client: its connection; it has closed its end
          job,          \* per client: its request
          asks, seq,    \* requests sent; updates applied
          acked         \* per engine: last update a client knows of

server == <<version, phase, engine, file, torn>>
data == <<disk, mem, seq>>
clients == <<backlog, conn, gone, job>>
vars == <<server, data, clients, asks, acked>>

Engines == {"kvs", "sled"}
Versions == {3, 4, 5}
Kinds == {"get", "set", "remove"}

\* A request: its kind, how far it is, the number of the content it wrote or
\* read, whether it succeeded, and `acked` when it was sent.
Job(st, kind, n, ok, floor) == [st |-> st, kind |-> kind, n |-> n, ok |-> ok, floor |-> floor]
NoJob == Job("none", "get", 0, FALSE, 0)
Larger(a, b) == IF a < b THEN b ELSE a

Init == /\ version \in Versions
        /\ phase = "down"
        /\ engine = "kvs"
        /\ file = "none"
        /\ torn = FALSE
        /\ disk = [e \in Engines |-> [n |-> 0, set |-> FALSE]]
        /\ mem = [n |-> 0, set |-> FALSE]
        /\ backlog = << >>
        /\ conn = [c \in Clients |-> "none"]
        /\ gone = [c \in Clients |-> FALSE]
        /\ job = [c \in Clients |-> NoJob]
        /\ asks = 0 /\ seq = 0
        /\ acked = [e \in Engines |-> 0]

-----------------------------------------------------------------------------
(* Start-up.                                                               *)

\* current_engine: a file that does not parse counts as no file.
CurrentEngine == IF file = "torn" THEN "none" ELSE file

Chosen(opt) == IF opt # "none" THEN opt
               ELSE IF CurrentEngine # "none" THEN CurrentEngine ELSE "kvs"

\* Mutant: the option is not compared with the engine file.
StartUnchecked(opt) == /\ phase \in {"down", "ended"}
                       /\ engine' = Chosen(opt)
                       /\ phase' = "chosen"
                       /\ UNCHANGED <<version, file, torn, data, clients, asks, acked>>

\* main: with another engine than the one on file the process exits.
Start(opt) == /\ phase \in {"down", "ended"}
              /\ CurrentEngine \in {"none", Chosen(opt)}
              /\ engine' = Chosen(opt)
              /\ phase' = "chosen"
              /\ UNCHANGED <<version, file, torn, data, clients, asks, acked>>

\* fs::write truncates the file and then writes it, on every start.
TruncateFile == /\ phase = "chosen"
                /\ phase' = "truncated"
                /\ file' = "torn"
                /\ UNCHANGED <<version, engine, torn, data, clients, asks, acked>>

WriteFile == /\ phase = "truncated"
             /\ phase' = "written"
             /\ file' = engine
             /\ UNCHANGED <<version, engine, torn, data, clients, asks, acked>>

\* The engine is opened, and then the address is bound.
OpenEngine == /\ phase = "written"
              /\ phase' = "serving"
              /\ mem' = disk[engine]
              /\ UNCHANGED <<version, engine, file, torn, disk, seq, clients, asks, acked>>

\* Every client sees its connection closed or reset.
AllLost == /\ backlog' = << >>
           /\ conn' = [c \in Clients |-> "none"]
           /\ gone' = [c \in Clients |-> FALSE]
           /\ job' = [c \in Clients |-> NoJob]

\* The process is killed, or an error of the start-up ends main.
Crash == /\ phase \notin {"down", "ended"}
         /\ phase' = "down"
         /\ torn' = (torn \/ phase = "truncated")
         /\ AllLost
         /\ UNCHANGED <<version, engine, file, data, asks, acked>>

-----------------------------------------------------------------------------
(* Clients.                                                                *)

\* connect returns once the connection is in the listener's backlog.
Connect(c) == /\ phase = "serving"
              /\ conn[c] = "none"
              /\ conn' = [conn EXCEPT ![c] = "backlog"]
              /\ backlog' = Append(backlog, c)
              /\ UNCHANGED <<server, data, gone, job, asks, acked>>

\* get, set and remove write one request, flush it and wait for its answer.
Send(c, kind) == /\ conn[c] # "none" /\ ~gone[c]
                 /\ job[c].st = "none"
                 /\ asks < MaxAsks
                 /\ asks' = asks + 1
                 /\ job' = [job EXCEPT ![c] = Job("sent", kind, 0, FALSE, acked[engine])]
                 /\ UNCHANGED <<server, data, backlog, conn, gone, acked>>

\* The client process ends.  Of a request nobody has read, a part may be missing.
Leave(c) == /\ conn[c] # "none" /\ ~gone[c]
            /\ gone' = [gone EXCEPT ![c] = TRUE]
            /\ \/ job' = job
               \/ job[c].st = "sent" /\ job' = [job EXCEPT ![c] = Job("cut", job[c].kind, 0, FALSE, 0)]
            /\ UNCHANGED <<server, data, backlog, conn, asks, acked>>

-----------------------------------------------------------------------------
(* The loop over connections.                                              *)

InService == {c \in Clients : conn[c] = "serving"}
Capacity == IF version = 4 THEN Pool ELSE 1

\* incoming yields the connection and serve starts on it.  In project 4 the
\* loop spawns a job at once, and the job waits for a thread.
Take(c) == /\ phase = "serving"
           /\ backlog # << >> /\ c = Head(backlog)
           /\ Cardinality(InService) < Capacity
           /\ backlog' = Tail(backlog)
           /\ conn' = [conn EXCEPT ![c] = "serving"]
           /\ UNCHANGED <<server, data, gone, job, asks, acked>>

Over(c) == /\ conn' = [conn EXCEPT ![c] = "none"]
           /\ gone' = [gone EXCEPT ![c] = FALSE]
           /\ job' = [job EXCEPT ![c] = NoJob]

\* An error logged and forgotten (3, 4); or one that ends for_each, the tokio
\* runtime and the process (5).
Logged(c) == /\ Over(c)
             /\ backlog' = SelectSeq(backlog, LAMBDA d : d # c)
             /\ UNCHANGED <<server, data, asks, acked>>

EndsServer == /\ phase' = "ended"
              /\ AllLost
              /\ UNCHANGED <<version, engine, file, torn, data, asks, acked>>

ConnectionError(c) == IF version = 5 THEN EndsServer ELSE Logged(c)

\* The connection was reset before it was accepted.
AcceptFails(c) == /\ phase = "serving"
                  /\ backlog # << >> /\ c = Head(backlog)
                  /\ version = 4 \/ Cardinality(InService) < Capacity
                  /\ gone[c]
                  /\ ConnectionError(c)

\* serve returns an error: the connection is reset, half a request (3, 4), or an
\* answer that cannot be written.
ServeFails(c) == /\ conn[c] = "serving" /\ gone[c]
                 /\ job[c].st \in {"none", "cut", "answer"}
                 /\ job[c].st = "cut" => version # 5
                 /\ ConnectionError(c)

\* The request stream is at its end.
ServeReturns(c) == /\ conn[c] = "serving" /\ gone[c]
                   /\ job[c].st = "none"
                   /\ Over(c)
                   /\ UNCHANGED <<server, data, backlog, asks, acked>>

-----------------------------------------------------------------------------
(* Requests.  The calls of projects 3 and 4 return; in project 5 the       *)
(* engine works on a thread of its own and the connection awaits it.       *)

Asked(c, kinds) == conn[c] = "serving" /\ job[c].st = "sent" /\ job[c].kind \in kinds
Becomes(c, st, n, ok) == job' = [job EXCEPT ![c] = Job(st, job[c].kind, n, ok, job[c].floor)]
NewContent(c) == [n |-> seq + 1, set |-> job[c].kind = "set"]

\* The mutex of the kvs writer is held through both steps.
WriterFree == engine = "kvs" => \A c \in Clients : job[c].st # "half"

\* Project 5 answers half a request with an error.
CutAnswered(c) == /\ version = 5 /\ conn[c] = "serving" /\ job[c].st = "cut"
                  /\ Becomes(c, "answer", 0, FALSE)
                  /\ UNCHANGED <<server, data, backlog, conn, gone, asks, acked>>

EngineGet(c) == /\ Asked(c, {"get"})
                /\ Becomes(c, "answer", mem.n, TRUE)
                /\ UNCHANGED <<server, data, backlog, conn, gone, asks, acked>>

\* Mutant: the error of a remove is logged and not answered.
KeyNotFoundSilent(c) == /\ Asked(c, {"remove"}) /\ WriterFree
                        /\ ~mem.set
                        /\ UNCHANGED vars

KeyNotFound(c) == /\ Asked(c, {"remove"}) /\ WriterFree
                  /\ ~mem.set
                  /\ Becomes(c, "answer", 0, FALSE)
                  /\ UNCHANGED <<server, data, backlog, conn, gone, asks, acked>>

\* First half of set and remove.
UpdateFirst(c) ==
    /\ Asked(c, {"set", "remove"}) /\ WriterFree
    /\ job[c].kind = "remove" => mem.set
    /\ seq' = seq + 1
    /\ Becomes(c, "half", seq + 1, FALSE)
    /\ \/ engine = "kvs" /\ disk' = [disk EXCEPT ![engine] = NewContent(c)] /\ mem' = mem
       \/ engine = "sled" /\ mem' = NewContent(c) /\ disk' = disk
    /\ UNCHANGED <<server, backlog, conn, gone, asks, acked>>

Half(c) == job[c].st = "half" /\ Becomes(c, "answer", job[c].n, TRUE)

\* Mutant: sled is not flushed.
UpdateSecondUnflushed(c) ==
    /\ Half(c)
    /\ mem' = IF engine = "kvs" THEN disk[engine] ELSE mem
    /\ UNCHANGED <<server, disk, seq, backlog, conn, gone, asks, acked>>

\* Mutant: the index of kvs is not updated.
UpdateSecondUnindexed(c) ==
    /\ Half(c)
    /\ disk' = IF engine = "sled" THEN [disk EXCEPT ![engine] = mem] ELSE disk
    /\ UNCHANGED <<server, mem, seq, backlog, conn, gone, asks, acked>>

\* Second half: the index of kvs; the flush of sled, of all that is in the tree.
UpdateSecond(c) ==
    /\ Half(c)
    /\ \/ engine = "kvs" /\ mem' = disk[engine] /\ disk' = disk
       \/ engine = "sled" /\ disk' = [disk EXCEPT ![engine] = mem] /\ mem' = mem
    /\ UNCHANGED <<server, seq, backlog, conn, gone, asks, acked>>

\* The call fails before it changed anything, or kvs fails in the flush of a
\* command that reaches the file nevertheless.
FirstFails(c) ==
    /\ Asked(c, Kinds)
    /\ job[c].kind # "get" => WriterFree
    /\ Becomes(c, "answer", 0, FALSE)
    /\ \/ UNCHANGED data
       \/ /\ engine = "kvs" /\ job[c].kind # "get"
          /\ job[c].kind = "remove" => mem.set
          /\ seq' = seq + 1
          /\ disk' = [disk EXCEPT ![engine] = NewContent(c)]
          /\ mem' = mem
    /\ UNCHANGED <<server, backlog, conn, gone, asks, acked>>

\* The flush of sled fails; or kvs fails in the compaction after its index
\* update, which a remove of project 3 does not start.
SecondFails(c) ==
    /\ job[c].st = "half"
    /\ engine = "kvs" /\ version = 3 => job[c].kind = "set"
    /\ Becomes(c, "answer", 0, FALSE)
    /\ mem' = IF engine = "kvs" THEN disk[engine] ELSE mem
    /\ UNCHANGED <<server, disk, seq, backlog, conn, gone, asks, acked>>

\* sled's own thread flushes the tree now and then.
SledFlushes == /\ phase = "serving" /\ engine = "sled"
               /\ disk[engine] # mem
               /\ disk' = [disk EXCEPT ![engine] = mem]
               /\ UNCHANGED <<server, mem, seq, clients, asks, acked>>

\* What the client may rely on from now on.  A get of sled may have seen a
\* change that is not flushed.
Learnt(c) == IF job[c].ok /\ ~gone[c] /\ (job[c].kind # "get" \/ engine = "kvs")
             THEN job[c].n ELSE 0

\* The answer is written; a client that has left never reads it.
Reply(c) == /\ conn[c] = "serving" /\ job[c].st = "answer"
            /\ acked' = [acked EXCEPT ![engine] = Larger(@, Learnt(c))]
            /\ job' = [job EXCEPT ![c] = NoJob]
            /\ UNCHANGED <<server, data, backlog, conn, gone, asks>>

-----------------------------------------------------------------------------
Serve(c) == \/ Take(c) \/ ServeFails(c) \/ ServeReturns(c)
            \/ EngineGet(c) \/ KeyNotFound(c) \/ UpdateFirst(c) \/ UpdateSecond(c)
            \/ CutAnswered(c) \/ Reply(c)

Next == \/ \E opt \in Engines \cup {"none"} : Start(opt)
        \/ TruncateFile \/ WriteFile \/ OpenEngine \/ Crash \/ SledFlushes
        \/ \E c \in Clients : \/ Connect(c) \/ Leave(c) \/ Serve(c)
                              \/ AcceptFails(c) \/ FirstFails(c) \/ SecondFails(c)
        \/ \E c \in Clients, kind \in Kinds : Send(c, kind)

Spec == Init /\ [][Next]_vars

\* The threads of the server run; kvs-client exits after its one request.
FairSpec == /\ Spec
            /\ \A c \in Clients : /\ WF_vars(Serve(c))
                                  /\ WF_vars(job[c].st = "none" /\ Leave(c))

-----------------------------------------------------------------------------
(* An update a client was told of is on disk, with both engines and        *)
(* whatever calls run beside it; with kvs, so is what a get has shown.     *)
AckedDurable == \A e \in Engines : disk[e].n >= acked[e]

(* A get never answers with a content older than the last update whose     *)
(* answer had been received, by any client, when the get was sent.         *)
GetFresh == \A c \in Clients :
               job[c].st = "answer" /\ job[c].kind = "get" /\ job[c].ok => job[c].n >= job[c].floor

(* main compares --engine with the engine file: no server runs one engine  *)
(* in a directory that holds data of the other, unless a process died      *)
(* inside the write of that file, which every start repeats.               *)
EngineAgrees == phase = "serving" /\ ~torn => \A e \in Engines \ {engine} : disk[e].n = 0

(* Every request gets its answer, or its connection is lost: also a        *)
(* request that waits behind other connections, an engine error and a      *)
(* remove of a missing key.                                                *)
RequestsEnd == \A c \in Clients : (job[c].st # "none") ~> (job[c].st = "none")
=============================================================================
