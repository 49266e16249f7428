---------------------------- MODULE ServerProofs ----------------------------
(***************************************************************************)
(* The key-value server and the thread pool it runs on.  For any set of    *)
(* clients, any pool and any number of requests, an acknowledged update is *)
(* durable, a get is fresh, and the engine file keeps the engines apart.   *)
(* For any number of threads and jobs, and every pattern of panics and     *)
(* refused threads, the pool keeps its number of threads and loses or      *)
(* repeats no job.                                                         *)
(***************************************************************************)
EXTENDS KvsServer, SharedQueue, TLAPS

-----------------------------------------------------------------------------
(* The server.                                                             *)

Stored == [n : Nat, set : BOOLEAN]

Request == [st : {"none", "sent", "cut", "half", "answer"}, kind : Kinds,
            n : Nat, ok : BOOLEAN, floor : Nat]

\* Types of what the proofs speak about.
Types ==
    /\ version \in Versions
    /\ phase \in {"down", "chosen", "truncated", "written", "serving", "ended"}
    /\ engine \in Engines
    /\ file \in Engines \cup {"none", "torn"}
    /\ disk \in [Engines -> Stored] /\ mem \in Stored
    /\ conn \in [Clients -> {"none", "backlog", "serving"}]
    /\ job \in [Clients -> Request]
    /\ seq \in Nat
    /\ acked \in [Engines -> Nat]

\* A server that does not serve has no connections and no requests.
NoRequests == phase # "serving" => \A c \in Clients : conn[c] = "none" /\ job[c].st = "none"

\* The content of a later update has a larger number.
Numbered == (\A e \in Engines : disk[e].n <= seq) /\ mem.n <= seq

\* kvs writes the log before the index, sled the tree before the disk.
Order == phase = "serving" =>
    /\ engine = "kvs" => mem.n <= disk[engine].n
    /\ engine = "sled" => disk[engine].n <= mem.n
    /\ acked[engine] <= mem.n

\* How far an update is, and what its answer, or that of a get, vouches for.
GoodJob(j) ==
    /\ j.st = "half" /\ engine = "kvs" => j.n <= disk[engine].n
    /\ j.st = "half" /\ engine = "sled" => j.n <= mem.n
    /\ j.st = "answer" /\ j.ok => j.n <= mem.n
    /\ j.st = "answer" /\ j.ok /\ (j.kind # "get" \/ engine = "kvs") => j.n <= disk[engine].n
    /\ j.st = "answer" /\ j.ok /\ j.kind = "get" => j.floor <= j.n
    /\ j.st # "none" => j.floor <= acked[engine]
    /\ j.st = "half" => j.kind # "get"

Jobs == \A c \in Clients : GoodJob(job[c])

Inv == Types /\ NoRequests /\ Numbered /\ Order /\ Jobs /\ AckedDurable

-----------------------------------------------------------------------------
\* The start-up and the end of a process keep Inv: OpenEngine loads what is on
\* disk, and a server that is not serving has no requests.
LEMMA ProcessKeepsInv ==
    Inv /\ ((\E opt \in Engines \cup {"none"} : Start(opt))
              \/ TruncateFile \/ WriteFile \/ OpenEngine \/ Crash \/ EndsServer) => Inv'
<1>1. ASSUME Inv, NEW opt \in Engines \cup {"none"}, Start(opt)
      PROVE  Inv'
    BY <1>1 DEF Inv, Types, NoRequests, Numbered, Order, Jobs, AckedDurable, GoodJob, Start,
                Chosen, CurrentEngine, data, clients, Engines
<1>2. ASSUME Inv, TruncateFile \/ WriteFile
      PROVE  Inv'
    BY <1>2 DEF Inv, Types, NoRequests, Numbered, Order, Jobs, AckedDurable, GoodJob,
                TruncateFile, WriteFile, data, clients
<1>3. ASSUME Inv, OpenEngine
      PROVE  Inv'
    BY <1>3 DEF Inv, Types, NoRequests, Numbered, Order, Jobs, AckedDurable, GoodJob,
                OpenEngine, clients, Engines, Stored
<1>4. ASSUME Inv, Crash \/ EndsServer
      PROVE  Inv'
    <2>1. NoJob \in Request /\ NoJob.st = "none"
        BY DEF NoJob, Job, Request, Kinds
    <2>2. /\ phase' \in {"down", "ended"}
          /\ job' = [c \in Clients |-> NoJob] /\ conn' = [c \in Clients |-> "none"]
        BY <1>4 DEF Crash, EndsServer, AllLost
    <2>3. UNCHANGED <<version, engine, file, disk, mem, seq, acked>>
        BY <1>4 DEF Crash, EndsServer, data
    <2> QED BY <1>4, <2>1, <2>2, <2>3 DEF Inv, Types, NoRequests, Numbered, Order, Jobs,
                                          AckedDurable, GoodJob
<1> QED BY ZenonT(40), <1>1, <1>2, <1>3, <1>4

\* One request moves on, and no content, log or acknowledgement goes back.
LEMMA JobStep ==
    ASSUME Inv, phase = "serving",
           NEW c \in Clients, NEW j \in Request, job' = [job EXCEPT ![c] = j],
           conn' \in [Clients -> {"none", "backlog", "serving"}],
           UNCHANGED <<version, phase, engine, file>>,
           disk' \in [Engines -> Stored], mem' \in Stored, seq' \in Nat,
           acked' \in [Engines -> Nat],
           \A e \in Engines : disk[e].n <= disk'[e].n /\ acked[e] <= acked'[e],
           mem.n <= mem'.n,
           Numbered', Order', AckedDurable', GoodJob(j)'
    PROVE  Inv'
<1>1. Types' /\ NoRequests'
    BY ZenonT(40) DEF Inv, Types, NoRequests
<1>2. ASSUME NEW d \in Clients
      PROVE  GoodJob(job[d])'
    <2>1. CASE d = c
        BY <2>1 DEF Inv, Types
    <2>2. CASE d # c
        <3>1. job'[d] = job[d] /\ job[d] \in Request /\ GoodJob(job[d])
            BY <2>2 DEF Inv, Types, Jobs
        <3>2. /\ disk[engine].n \in Nat /\ disk'[engine].n \in Nat /\ disk[engine].n <= disk'[engine].n
              /\ mem.n \in Nat /\ mem'.n \in Nat /\ engine' = engine
              /\ acked[engine] \in Nat /\ acked'[engine] \in Nat /\ acked[engine] <= acked'[engine]
            BY DEF Inv, Types, Stored
        <3> QED BY <3>1, <3>2 DEF GoodJob, Request
    <2> QED BY ZenonT(40), <2>1, <2>2
<1> QED BY <1>1, <1>2 DEF Inv, Jobs

\* One request moves on and nothing else changes.
LEMMA QuietStep ==
    ASSUME Inv, phase = "serving",
           NEW c \in Clients, NEW j \in Request, job' = [job EXCEPT ![c] = j],
           conn' \in [Clients -> {"none", "backlog", "serving"}],
           UNCHANGED <<version, phase, engine, file, disk, mem, seq, acked>>,
           GoodJob(j)
    PROVE  Inv'
<1>1. /\ \A e \in Engines : disk[e].n <= disk'[e].n /\ acked[e] <= acked'[e]
      /\ mem.n <= mem'.n
    BY DEF Inv, Types, Stored
<1>2. Numbered' /\ Order' /\ AckedDurable' /\ GoodJob(j)'
    BY DEF Inv, Numbered, Order, AckedDurable, GoodJob
<1>3. disk' \in [Engines -> Stored] /\ mem' \in Stored /\ seq' \in Nat /\ acked' \in [Engines -> Nat]
    BY DEF Inv, Types
<1> QED BY ZenonT(40), <1>1, <1>2, <1>3, JobStep

\* Opening, using and closing a connection keeps Inv.
LEMMA ConnectionKeepsInv ==
    ASSUME Inv, NEW c \in Clients,
           \/ Connect(c) \/ Leave(c) \/ Take(c) \/ AcceptFails(c) \/ ServeFails(c)
           \/ ServeReturns(c) \/ (\E kind \in Kinds : Send(c, kind))
    PROVE  Inv'
<1>1. CASE Connect(c) \/ Take(c)
    <2>1. /\ phase = "serving" /\ conn' \in [Clients -> {"none", "backlog", "serving"}]
          /\ UNCHANGED <<version, phase, engine, file, disk, mem, seq, acked, job>>
        BY <1>1 DEF Connect, Take, server, data, Inv, Types
    <2> QED BY <2>1 DEF Inv, Types, NoRequests, Numbered, Order, Jobs, AckedDurable, GoodJob
<1>2. NoJob \in Request /\ GoodJob(NoJob)
    BY DEF NoJob, Job, Request, Kinds, GoodJob
<1>3. ASSUME NEW kind \in Kinds, Send(c, kind)
      PROVE  Inv'
    <2> DEFINE j == Job("sent", kind, 0, FALSE, acked[engine])
    <2>1. /\ phase = "serving" /\ conn' = conn /\ job' = [job EXCEPT ![c] = j]
          /\ UNCHANGED <<version, phase, engine, file, disk, mem, seq, acked>>
        BY <1>3 DEF Send, server, data, Inv, NoRequests
    <2>2. j \in Request /\ GoodJob(j)
        BY DEF Inv, Types, Job, Request, GoodJob
    <2> HIDE DEF j
    <2> QED BY ZenonT(40), <2>1, <2>2, QuietStep DEF Inv, Types
<1>4. CASE Leave(c)
    <2> DEFINE j == Job("cut", job[c].kind, 0, FALSE, 0)
    <2>1. /\ phase = "serving" /\ conn' = conn
          /\ UNCHANGED <<version, phase, engine, file, disk, mem, seq, acked>>
        BY <1>4 DEF Leave, server, data, Inv, NoRequests
    <2>2. CASE job' = job
        BY <2>1, <2>2 DEF Inv, Types, NoRequests, Numbered, Order, Jobs, AckedDurable, GoodJob
    <2>3. CASE job' = [job EXCEPT ![c] = j]
        <3>1. j \in Request /\ GoodJob(j)
            BY DEF Inv, Types, Job, Request, GoodJob
        <3> HIDE DEF j
        <3> QED BY ZenonT(40), <2>1, <2>3, <3>1, QuietStep DEF Inv, Types
    <2> QED BY ZenonT(40), <1>4, <2>2, <2>3 DEF Leave
<1>5. ASSUME phase = "serving", Over(c),
             UNCHANGED <<version, phase, engine, file, disk, mem, seq, acked>>
      PROVE  Inv'
    <2>1. job' = [job EXCEPT ![c] = NoJob]
          /\ conn' \in [Clients -> {"none", "backlog", "serving"}]
        BY <1>5 DEF Over, Inv, Types
    <2> QED BY ZenonT(40), <1>2, <1>5, <2>1, QuietStep
<1>6. CASE AcceptFails(c) \/ ServeFails(c)
    <2>1. phase = "serving" /\ (EndsServer \/ Logged(c))
        BY ZenonT(40), <1>6 DEF AcceptFails, ServeFails, ConnectionError, Inv, NoRequests
    <2>2. CASE EndsServer
        BY <2>2, ProcessKeepsInv
    <2>3. CASE Logged(c)
        BY ZenonT(40), <2>1, <2>3, <1>5 DEF Logged, server, data
    <2> QED BY <2>1, <2>2, <2>3
<1>7. CASE ServeReturns(c)
    BY <1>7, <1>5 DEF ServeReturns, server, data, Inv, NoRequests
<1> QED BY <1>1, <1>3, <1>4, <1>6, <1>7

\* Requests that change no content keep Inv, and so does a flush of sled's own.
LEMMA ReadKeepsInv ==
    ASSUME Inv, NEW c \in Clients, CutAnswered(c) \/ EngineGet(c) \/ KeyNotFound(c)
    PROVE  Inv'
<1> DEFINE n == IF EngineGet(c) THEN mem.n ELSE 0
           ok == IF EngineGet(c) THEN TRUE ELSE FALSE
           j == Job("answer", job[c].kind, n, ok, job[c].floor)
<1>1. /\ job' = [job EXCEPT ![c] = j] /\ conn' = conn /\ conn[c] # "none"
      /\ UNCHANGED <<version, phase, engine, file, disk, mem, seq, acked>>
    <2>1. CASE EngineGet(c)
        BY <2>1 DEF EngineGet, Becomes, Asked, server, data
    <2>2. CASE ~EngineGet(c)
        BY ZenonT(40), <2>2 DEF CutAnswered, KeyNotFound, Becomes, Asked, server, data
    <2> QED BY ZenonT(40), <2>1, <2>2
<1>2. phase = "serving"
    BY <1>1 DEF Inv, NoRequests
<1>3. job[c] \in Request /\ mem.n \in Nat
    BY ZenonT(40) DEF Inv, Types, Stored
<1>4. j \in Request
    BY ZenonT(40), <1>3 DEF Job, Request
<1>5. GoodJob(j)
    <2>1. /\ disk[engine].n \in Nat /\ acked[engine] \in Nat /\ job[c].floor \in Nat
          /\ acked[engine] <= mem.n /\ (engine = "kvs" => mem.n <= disk[engine].n)
        BY ZenonT(40), <1>2, <1>3 DEF Inv, Types, Stored, Order, Request
    <2>2. job[c].st # "none" /\ GoodJob(job[c])
        BY ZenonT(40) DEF CutAnswered, EngineGet, KeyNotFound, Asked, Inv, Jobs
    <2>3. job[c].floor <= acked[engine]
        BY ZenonT(40), <2>2 DEF GoodJob
    <2>4. EngineGet(c) => job[c].kind = "get"
        BY DEF EngineGet, Asked
    <2> QED BY <1>3, <2>1, <2>3, <2>4 DEF GoodJob, Job
<1> HIDE DEF j
<1> QED BY ZenonT(40), <1>1, <1>2, <1>4, <1>5, QuietStep DEF Inv, Types

LEMMA FlushKeepsInv ==
    ASSUME Inv, SledFlushes
    PROVE  Inv'
<1>1. /\ phase = "serving" /\ engine = "sled" /\ disk' = [disk EXCEPT ![engine] = mem]
      /\ UNCHANGED <<version, phase, engine, file, mem, seq, conn, job, acked>>
    BY DEF SledFlushes, server, clients
<1>2. /\ disk' \in [Engines -> Stored]
      /\ disk'[engine] = mem /\ \A e \in Engines \ {engine} : disk'[e] = disk[e]
      /\ disk[engine].n \in Nat /\ mem.n \in Nat /\ disk[engine].n <= mem.n
    BY ZenonT(40), <1>1 DEF Inv, Types, Stored, Order
<1>3. Types' /\ NoRequests' /\ Numbered' /\ Order'
    BY <1>1, <1>2 DEF Inv, Types, NoRequests, Numbered, Order
<1>4. AckedDurable'
    BY ZenonT(40), <1>1, <1>2 DEF Inv, Types, Order, AckedDurable
<1>5. ASSUME NEW d \in Clients
      PROVE  GoodJob(job[d])'
    <2>1. job[d] \in Request /\ GoodJob(job[d])
        BY ZenonT(40) DEF Inv, Types, Jobs
    <2> QED BY ZenonT(40), <1>1, <1>2, <2>1 DEF GoodJob, Request
<1> QED BY <1>3, <1>4, <1>5 DEF Inv, Jobs

\* Facts about the state in which a request of client c is worked on.
LEMMA Working ==
    ASSUME Inv, NEW c \in Clients, job[c].st # "none"
    PROVE  /\ phase = "serving" /\ engine \in Engines /\ job[c] \in Request
           /\ disk[engine] \in Stored /\ mem \in Stored /\ seq \in Nat /\ acked[engine] \in Nat
           /\ disk[engine].n <= seq /\ mem.n <= seq
           /\ (engine = "kvs" => mem.n <= disk[engine].n)
           /\ (engine = "sled" => disk[engine].n <= mem.n)
           /\ acked[engine] <= mem.n /\ acked[engine] <= disk[engine].n
           /\ GoodJob(job[c]) /\ job[c].floor <= acked[engine]
<1>1. /\ phase = "serving" /\ engine \in Engines /\ job[c] \in Request /\ GoodJob(job[c])
      /\ disk[engine] \in Stored /\ mem \in Stored /\ seq \in Nat /\ acked[engine] \in Nat
    BY DEF Inv, Types, NoRequests, Jobs
<1>2. acked[engine] <= disk[engine].n
    BY <1>1 DEF Inv, AckedDurable, Stored
<1> QED BY <1>1, <1>2 DEF Inv, Numbered, Order, GoodJob

\* The engine in use gets a new content on disk or in memory, no older than the
\* one it had; then JobStep applies.
LEMMA ContentStep ==
    ASSUME Inv, NEW c \in Clients, job[c].st # "none",
           NEW j \in Request, job' = [job EXCEPT ![c] = j], conn' = conn,
           UNCHANGED <<version, phase, engine, file, acked>>,
           NEW d \in Stored, disk' = [disk EXCEPT ![engine] = d], mem' \in Stored, seq' \in Nat,
           disk[engine].n <= d.n, mem.n <= mem'.n, seq <= seq', d.n <= seq', mem'.n <= seq',
           engine = "kvs" => mem'.n <= d.n,
           engine = "sled" => d.n <= mem'.n,
           GoodJob(j)'
    PROVE  Inv'
<1>1. /\ disk' \in [Engines -> Stored] /\ disk'[engine] = d
      /\ \A e \in Engines \ {engine} : disk'[e] = disk[e]
    BY DEF Inv, Types
<1>2. \A e \in Engines : disk[e].n \in Nat /\ acked[e] \in Nat /\ disk[e].n <= seq
                         /\ acked[e] <= disk[e].n
    BY ZenonT(40) DEF Inv, Types, Stored, Numbered, AckedDurable
<1>3. d.n \in Nat /\ mem.n \in Nat /\ mem'.n \in Nat /\ seq \in Nat
    BY DEF Inv, Types, Stored
<1>4. \A e \in Engines : disk[e].n <= disk'[e].n /\ acked[e] <= acked'[e]
    BY <1>1, <1>2, <1>3
<1>5. Numbered' /\ AckedDurable'
    <2>1. ASSUME NEW e \in Engines
          PROVE  disk'[e].n <= seq' /\ acked'[e] <= disk'[e].n
        <3>1. CASE e = engine
            BY <1>1, <1>2, <1>3, <3>1
        <3>2. CASE e # engine
            BY <1>1, <1>2, <1>3, <3>2
        <3> QED BY ZenonT(40), <3>1, <3>2
    <2> QED BY <1>1, <1>2, <1>3, <2>1 DEF Numbered, AckedDurable, Stored
<1>6. Order'
    BY <1>1, <1>2, <1>3, Working DEF Order
<1>7. phase = "serving" /\ conn' \in [Clients -> {"none", "backlog", "serving"}]
      /\ acked' \in [Engines -> Nat]
    BY Working DEF Inv, Types
<1> QED BY ZenonT(40), <1>1, <1>4, <1>5, <1>6, <1>7, JobStep

\* Both halves of an update keep Inv, whether they succeed or fail.
LEMMA UpdateKeepsInv ==
    ASSUME Inv, NEW c \in Clients,
           UpdateFirst(c) \/ UpdateSecond(c) \/ FirstFails(c) \/ SecondFails(c)
    PROVE  Inv'
<1>1. /\ job[c].st # "none" /\ conn' = conn
      /\ UNCHANGED <<version, phase, engine, file, acked>>
    BY ZenonT(40) DEF UpdateFirst, UpdateSecond, FirstFails, SecondFails, Half, Asked, server
<1> DEFINE D == disk[engine]
           New == NewContent(c)
<1>2. /\ D \in Stored /\ D.n \in Nat /\ mem \in Stored /\ mem.n \in Nat /\ seq \in Nat
      /\ disk = [disk EXCEPT ![engine] = D] /\ engine \in Engines
      /\ D.n <= seq /\ mem.n <= seq
      /\ (engine = "kvs" => mem.n <= D.n) /\ (engine = "sled" => D.n <= mem.n)
    BY ZenonT(40), <1>1, Working DEF Inv, Types, Stored
<1>3. job[c] \in Request /\ GoodJob(job[c]) /\ job[c].floor <= acked[engine]
    BY ZenonT(40), <1>1, Working
<1>4. New \in Stored /\ New.n = seq + 1
    BY <1>2 DEF NewContent, Stored
<1>5. \A st \in {"half", "answer"}, n \in Nat, ok \in BOOLEAN :
          Job(st, job[c].kind, n, ok, job[c].floor) \in Request
    BY ZenonT(40), <1>3 DEF Job, Request
<1>6. CASE UpdateFirst(c)
    <2>1. seq + 1 \in Nat /\ Job("half", job[c].kind, seq + 1, FALSE, job[c].floor) \in Request
        BY <1>2, <1>3 DEF Job, Request
    <2>2. job' = [job EXCEPT ![c] = Job("half", job[c].kind, seq + 1, FALSE, job[c].floor)]
          /\ seq' = seq + 1
        BY <1>6 DEF UpdateFirst, Becomes
    <2>3. PICK j \in Request : /\ j = Job("half", job[c].kind, seq + 1, FALSE, job[c].floor)
                              /\ job' = [job EXCEPT ![c] = j]
        BY ZenonT(40), <2>1, <2>2, Zenon
    <2>4. j.st = "half" /\ j.n = seq + 1 /\ j.floor = job[c].floor /\ j.kind # "get"
        BY ZenonT(40), <1>6, <2>3 DEF Job, UpdateFirst, Asked
    <2>5. CASE engine = "kvs" /\ disk' = [disk EXCEPT ![engine] = New] /\ mem' = mem
        <3>1. disk'[engine] = New
            BY ZenonT(40), <1>2, <2>5 DEF Inv, Types
        <3>2. GoodJob(j)'
            BY <1>1, <1>2, <1>3, <1>4, <2>4, <2>5, <3>1 DEF GoodJob
        <3>3. /\ D.n <= New.n /\ mem.n <= mem'.n /\ seq <= seq' /\ New.n <= seq' /\ mem'.n <= seq'
              /\ mem'.n <= New.n /\ engine # "sled" /\ seq' \in Nat
            BY <1>2, <1>4, <2>2, <2>5
        <3> HIDE DEF New
        <3> QED BY ZenonT(40), <1>1, <1>2, <1>4, <2>3, <2>5, <3>2, <3>3, ContentStep
    <2>6. CASE engine = "sled" /\ mem' = New /\ disk' = disk
        <3>1. GoodJob(j)'
            BY <1>1, <1>2, <1>3, <1>4, <2>4, <2>6 DEF GoodJob
        <3>2. /\ D.n <= D.n /\ mem.n <= mem'.n /\ seq <= seq' /\ D.n <= seq' /\ mem'.n <= seq'
              /\ D.n <= mem'.n /\ engine # "kvs" /\ seq' \in Nat
            BY <1>2, <1>4, <2>2, <2>6
        <3> HIDE DEF New, D
        <3> QED BY ZenonT(40), <1>1, <1>2, <1>4, <2>3, <2>6, <3>1, <3>2, ContentStep DEF D
    <2> QED BY <1>6, <2>5, <2>6 DEF UpdateFirst
<1>7. CASE UpdateSecond(c)
    <2>1. PICK j \in Request : /\ j = Job("answer", job[c].kind, job[c].n, TRUE, job[c].floor)
                              /\ job' = [job EXCEPT ![c] = j] /\ seq' = seq
                              /\ job[c].n \in Nat /\ job[c].st = "half"
        BY ZenonT(40), <1>3, <1>5, <1>7 DEF UpdateSecond, Half, Becomes, Request
    <2>2. j.st = "answer" /\ j.n = job[c].n /\ j.floor = job[c].floor /\ j.kind = job[c].kind
        BY ZenonT(40), <2>1 DEF Job
    <2>3. (engine = "kvs" => job[c].n <= D.n) /\ (engine = "sled" => job[c].n <= mem.n)
        BY ZenonT(40), <1>3, <2>1 DEF GoodJob
    <2>4. job[c].kind # "get"
        BY ZenonT(40), <1>3, <2>1 DEF GoodJob
    <2>5. CASE engine = "kvs" /\ mem' = D /\ disk' = disk
        <3>1. GoodJob(j)'
            BY <1>1, <1>2, <1>3, <2>2, <2>3, <2>4, <2>5 DEF GoodJob
        <3>2. /\ D.n <= D.n /\ mem.n <= mem'.n /\ seq <= seq' /\ D.n <= seq' /\ mem'.n <= seq'
              /\ mem'.n <= D.n /\ engine # "sled"
            BY <1>2, <2>1, <2>5
        <3> HIDE DEF D
        <3> QED BY ZenonT(40), <1>1, <1>2, <2>1, <2>5, <3>1, <3>2, ContentStep DEF D
    <2>6. CASE engine = "sled" /\ disk' = [disk EXCEPT ![engine] = mem] /\ mem' = mem
        <3>1. disk'[engine] = mem
            BY ZenonT(40), <1>2, <2>6 DEF Inv, Types
        <3>2. GoodJob(j)'
            BY ZenonT(40), <1>1, <1>2, <1>3, <2>2, <2>3, <2>4, <2>6, <3>1 DEF GoodJob
        <3>3. /\ D.n <= mem.n /\ mem.n <= mem'.n /\ seq <= seq' /\ mem.n <= seq' /\ mem'.n <= seq'
              /\ mem.n <= mem'.n /\ engine # "kvs"
            BY <1>2, <2>1, <2>6
        <3> QED BY ZenonT(40), <1>1, <1>2, <2>1, <2>6, <3>2, <3>3, ContentStep
    <2> QED BY ZenonT(40), <1>7, <2>5, <2>6 DEF UpdateSecond
<1>8. CASE FirstFails(c) \/ SecondFails(c)
    <2>1. PICK j \in Request : /\ j = Job("answer", job[c].kind, 0, FALSE, job[c].floor)
                              /\ job' = [job EXCEPT ![c] = j]
        BY ZenonT(40), <1>5, <1>8 DEF FirstFails, SecondFails, Becomes
    <2>2. GoodJob(j)'
        BY ZenonT(40), <1>1, <1>3, <2>1 DEF GoodJob, Job
    <2>3. CASE UNCHANGED data
        <3>1. D.n <= D.n /\ mem.n <= mem'.n /\ mem'.n <= seq' /\ D.n <= seq' /\ seq <= seq'
              /\ disk' = disk /\ mem' = mem /\ seq' = seq
            BY <1>2, <2>3 DEF data
        <3> HIDE DEF D
        <3> QED BY ZenonT(40), <1>1, <1>2, <2>1, <2>2, <3>1, ContentStep DEF D
    <2>4. CASE engine = "kvs" /\ disk' = [disk EXCEPT ![engine] = New] /\ mem' = mem /\ seq' = seq + 1
        <3>1. /\ D.n <= New.n /\ mem.n <= mem'.n /\ mem'.n <= seq' /\ New.n <= seq' /\ seq <= seq'
              /\ mem'.n <= New.n /\ engine # "sled" /\ seq' \in Nat
            BY <1>2, <1>4, <2>4
        <3> HIDE DEF New
        <3> QED BY ZenonT(40), <1>1, <1>2, <1>4, <2>1, <2>2, <2>4, <3>1, ContentStep
    <2>5. CASE engine = "kvs" /\ mem' = D /\ disk' = disk /\ seq' = seq
        <3>1. D.n <= D.n /\ mem.n <= mem'.n /\ mem'.n <= seq' /\ D.n <= seq' /\ seq <= seq'
              /\ mem'.n <= D.n /\ engine # "sled"
            BY <1>2, <2>5
        <3> HIDE DEF D
        <3> QED BY ZenonT(40), <1>1, <1>2, <2>1, <2>2, <2>5, <3>1, ContentStep DEF D
    <2> QED BY ZenonT(40), <1>8, <2>3, <2>4, <2>5 DEF FirstFails, SecondFails, data
<1> QED BY ZenonT(40), <1>6, <1>7, <1>8

\* An answer that is read makes known what is on disk and in memory by now.
LEMMA ReplyKeepsInv ==
    ASSUME Inv, NEW c \in Clients, Reply(c)
    PROVE  Inv'
<1>1. /\ job[c].st = "answer" /\ job' = [job EXCEPT ![c] = NoJob] /\ conn' = conn
      /\ UNCHANGED <<version, phase, engine, file, disk, mem, seq>>
      /\ acked' = [acked EXCEPT ![engine] = Larger(@, Learnt(c))]
    BY DEF Reply, server, data
<1>2. /\ phase = "serving" /\ engine \in Engines /\ job[c] \in Request
      /\ disk[engine].n \in Nat /\ mem.n \in Nat /\ acked[engine] \in Nat
      /\ acked[engine] <= mem.n /\ acked[engine] <= disk[engine].n /\ GoodJob(job[c])
    BY ZenonT(40), <1>1, Working DEF Stored
<1>3. Learnt(c) \in Nat /\ Learnt(c) <= mem.n /\ Learnt(c) <= disk[engine].n
    BY <1>1, <1>2 DEF Learnt, GoodJob, Request
<1>4. /\ acked' \in [Engines -> Nat] /\ acked'[engine] <= mem.n
      /\ acked'[engine] <= disk[engine].n /\ acked[engine] <= acked'[engine]
      /\ \A e \in Engines \ {engine} : acked'[e] = acked[e]
    BY <1>1, <1>2, <1>3 DEF Larger, Inv, Types
<1>5. \A e \in Engines : disk[e].n <= disk'[e].n /\ acked[e] <= acked'[e]
    BY <1>1, <1>4 DEF Inv, Types, Stored
<1>6. Numbered' /\ Order'
    BY ZenonT(40), <1>1, <1>2, <1>4 DEF Inv, Numbered, Order
<1>7. AckedDurable'
    BY ZenonT(40), <1>1, <1>2, <1>4 DEF Inv, Types, Stored, AckedDurable
<1>8. NoJob \in Request /\ GoodJob(NoJob)' /\ mem.n <= mem'.n
    BY <1>1, <1>2 DEF NoJob, Job, Request, Kinds, GoodJob
<1> QED BY ZenonT(40), <1>1, <1>2, <1>4, <1>5, <1>6, <1>7, <1>8, JobStep DEF Inv, Types

-----------------------------------------------------------------------------
LEMMA InvInductive ==
    Inv /\ [Next]_vars => Inv'
<1> SUFFICES ASSUME Inv, [Next]_vars
             PROVE  Inv'
    OBVIOUS
<1>1. CASE UNCHANGED vars
    BY <1>1 DEF vars, server, data, clients, Inv, Types, NoRequests, Numbered, Order, Jobs,
                AckedDurable, GoodJob
<1>2. CASE (\E opt \in Engines \cup {"none"} : Start(opt))
           \/ TruncateFile \/ WriteFile \/ OpenEngine \/ Crash
    BY <1>2, ProcessKeepsInv
<1>3. CASE SledFlushes
    BY ZenonT(40), <1>3, FlushKeepsInv
<1>4. ASSUME NEW c \in Clients, NEW kind \in Kinds, Send(c, kind)
      PROVE  Inv'
    BY ZenonT(40), <1>4, ConnectionKeepsInv
<1>5. ASSUME NEW c \in Clients,
             Connect(c) \/ Leave(c) \/ Serve(c) \/ AcceptFails(c) \/ FirstFails(c) \/ SecondFails(c)
      PROVE  Inv'
    BY ZenonT(40), <1>5, ConnectionKeepsInv, ReadKeepsInv, UpdateKeepsInv, ReplyKeepsInv DEF Serve
<1> QED BY ZenonT(40), <1>1, <1>2, <1>3, <1>4, <1>5 DEF Next

LEMMA InvInvariant == Spec => []Inv
<1>1. Init => Inv
    BY DEF Init, Inv, Types, NoRequests, Numbered, Order, Jobs, AckedDurable, GoodJob, NoJob, Job,
           Request, Kinds, Stored, Engines, Versions
<1> QED BY <1>1, InvInductive, PTL DEF Spec

\* serve writes the Ok answer of a set or remove after the engine call returned,
\* kvs flushes its log before it returns and sled its tree: however requests of
\* any number of clients interleave, fail, or are cut off by a kill, an update a
\* client was told of is on disk.
THEOREM AcknowledgedIsDurable == Spec => []AckedDurable
BY InvInvariant, PTL DEF Inv

\* A get that succeeds answers with nothing older than the last update that had
\* been acknowledged when it was sent, also after restarts of the server.
THEOREM GetsAreFresh == Spec => []GetFresh
<1>1. Inv => GetFresh
    BY ZenonT(40) DEF Inv, Types, Jobs, GoodJob, Request, GetFresh
<1> QED BY <1>1, InvInvariant, PTL

-----------------------------------------------------------------------------
\* No engine but e has data.
Only(e) == \A d \in Engines \ {e} : disk[d].n = 0

\* What the engine file says of the data: it is unreadable only inside its write,
\* a process that got that far runs the engine on file, and only the engine that
\* runs, and the one on file, has data.
Apart == ~torn =>
    /\ file = "torn" => phase = "truncated"
    /\ phase \in {"written", "serving"} => file = engine
    /\ phase \notin {"down", "ended"} => Only(engine)
    /\ phase # "truncated" => Only(file)

\* Requests leave the engine file alone and write to the engine in use.
LEMMA RequestKeepsApart ==
    ASSUME Inv, Apart, phase = "serving", phase' \in {"serving", "ended"},
           UNCHANGED <<engine, file, torn>>, \A e \in Engines \ {engine} : disk'[e] = disk[e]
    PROVE  Apart'
BY DEF Apart, Only

LEMMA ApartInductive ==
    Inv /\ Apart /\ [Next]_vars => Apart'
<1> SUFFICES ASSUME Inv, Apart, [Next]_vars
             PROVE  Apart'
    OBVIOUS
<1>1. CASE UNCHANGED vars
    BY ZenonT(40), <1>1 DEF vars, server, data, Apart, Only
<1>2. ASSUME NEW opt \in Engines \cup {"none"}, Start(opt)
      PROVE  Apart'
    BY ZenonT(40), <1>2 DEF Start, Chosen, CurrentEngine, data, Apart, Only, Inv, Types, Engines
<1>3. CASE TruncateFile \/ WriteFile \/ OpenEngine
    <2>1. CASE TruncateFile
        BY ZenonT(40), <2>1 DEF TruncateFile, data, Apart, Only
    <2>2. CASE WriteFile
        BY ZenonT(40), <2>2 DEF WriteFile, data, Apart, Only, Inv, Types, Engines
    <2>3. CASE OpenEngine
        BY ZenonT(40), <2>3 DEF OpenEngine, Apart, Only
    <2> QED BY ZenonT(40), <1>3, <2>1, <2>2, <2>3
<1>4. CASE Crash
    <2>1. ~torn' => ~torn /\ phase # "truncated"
        BY ZenonT(40), <1>4, Zenon DEF Crash
    <2> QED BY ZenonT(40), <1>4, <2>1 DEF Crash, data, Apart, Only
<1>5. CASE SledFlushes
    BY ZenonT(40), <1>5, RequestKeepsApart DEF SledFlushes, server, Inv, Types
<1>6. ASSUME NEW c \in Clients, NEW kind \in Kinds, Send(c, kind)
      PROVE  Apart'
    BY <1>6, RequestKeepsApart DEF Send, server, data, Inv, NoRequests
<1>7. ASSUME NEW c \in Clients,
             Connect(c) \/ Leave(c) \/ Serve(c) \/ AcceptFails(c) \/ FirstFails(c) \/ SecondFails(c)
      PROVE  Apart'
    <2>1. phase = "serving"
        BY ZenonT(40), <1>7, Zenon DEF Inv, NoRequests, Connect, Leave, Serve, AcceptFails, FirstFails, SecondFails,
                    Take, ServeFails, ServeReturns, EngineGet, KeyNotFound, UpdateFirst,
                    UpdateSecond, CutAnswered, Reply, Asked, Half
    <2>2. CASE Connect(c) \/ Leave(c) \/ Take(c) \/ ServeFails(c) \/ ServeReturns(c)
               \/ AcceptFails(c)
        <3>1. UNCHANGED <<engine, file, torn, disk>> /\ phase' \in {"serving", "ended"}
            BY ZenonT(40), <2>1, <2>2 DEF Connect, Leave, Take, ServeFails, ServeReturns, AcceptFails,
                              ConnectionError, EndsServer, Logged, server, data
        <3> QED BY ZenonT(40), <2>1, <3>1, RequestKeepsApart
    <2>3. CASE EngineGet(c) \/ KeyNotFound(c) \/ CutAnswered(c) \/ Reply(c) \/ SecondFails(c)
        <3>1. UNCHANGED <<phase, engine, file, torn, disk>>
            BY ZenonT(40), <2>3 DEF EngineGet, KeyNotFound, CutAnswered, Reply, SecondFails, server, data
        <3> QED BY ZenonT(40), <2>1, <3>1, RequestKeepsApart
    <2>4. CASE UpdateFirst(c) \/ UpdateSecond(c) \/ FirstFails(c)
        <3>1. UNCHANGED <<phase, engine, file, torn>>
              /\ (disk' = disk \/ \E x : disk' = [disk EXCEPT ![engine] = x])
            BY ZenonT(40), <2>4 DEF UpdateFirst, UpdateSecond, FirstFails, server, data
        <3>2. \A e \in Engines \ {engine} : disk'[e] = disk[e]
            BY ZenonT(40), <3>1 DEF Inv, Types
        <3> QED BY ZenonT(40), <2>1, <3>1, <3>2, RequestKeepsApart
    <2> QED BY ZenonT(40), <1>7, <2>2, <2>3, <2>4 DEF Serve
<1> QED BY ZenonT(40), <1>1, <1>2, <1>3, <1>4, <1>5, <1>6, <1>7 DEF Next

\* main compares --engine with the engine file and rewrites the file before it
\* opens the engine: unless a process died inside that write, a server never
\* runs beside data of the other engine, through any number of restarts.
THEOREM EnginesStayApart == Spec => []EngineAgrees
<1>1. Init => Apart
    BY DEF Init, Apart, Only, Engines
<1>2. Apart => EngineAgrees
    BY ZenonT(40) DEF Apart, Only, EngineAgrees
<1> QED BY <1>1, <1>2, ApartInductive, InvInvariant, PTL DEF Spec

-----------------------------------------------------------------------------
(* The thread pool.                                                        *)

INSTANCE FiniteSetTheorems

States == {"unborn", "recv", "run", "unwinding", "exiting", "dead"}

\* While new runs no thread has taken a job, so the threads it has made are
\* all there and their number says how often its loop has run.
CountInv ==
    /\ size \in Nat
    /\ thread \in [Threads -> States]
    /\ stage = "new" => Cardinality(Serving) <= size
    /\ stage = "new" => queue = <<>> /\ \A w \in Threads : thread[w] \in {"unborn", "recv"}
    /\ stage = "open" => Cardinality(Serving) = size

\* The threads that serve are finitely many.
LEMMA ServingFinite ==
    IsFiniteSet(Serving) /\ Cardinality(Serving) \in Nat
<1>1. Serving \subseteq Threads
  BY DEF Serving, In
<1>2. IsFiniteSet(Threads)
  BY ZenonT(40), PoolAssumption
<1>3. IsFiniteSet(Serving)
  BY ZenonT(40), <1>1, <1>2, FS_Subset
<1> QED
  BY <1>3, FS_CardinalityType

\* Before new runs there is no thread.
LEMMA CountInit == PoolInit => CountInv
<1> SUFFICES ASSUME PoolInit PROVE CountInv
  OBVIOUS
<1>1. Serving = {}
  BY DEF PoolInit, Serving, In
<1>2. Cardinality(Serving) = 0
  BY <1>1, FS_EmptySet
<1>3. size \in Nat
  BY ZenonT(40), PoolAssumption DEF PoolInit
<1>4. thread \in [Threads -> States]
  BY ZenonT(40) DEF PoolInit, States
<1> QED
  BY <1>2, <1>3, <1>4 DEF PoolInit, CountInv

\* A step that starts a thread in the loop of new adds one.
LEMMA CountNewThread ==
    ASSUME CountInv, NEW w \in Threads, NewThread(w)
    PROVE  CountInv'
<1>1. w \notin Serving
  BY ZenonT(40) DEF NewThread, Serving, In
<1>2. Serving' = Serving \cup {w}
  BY ZenonT(40) DEF NewThread, Serving, In, CountInv
<1>3. Cardinality(Serving') = Cardinality(Serving) + 1
  BY ZenonT(40), <1>1, <1>2, ServingFinite, FS_AddElement
<1>4. Cardinality(Serving') <= size
  BY <1>3, ServingFinite DEF NewThread, CountInv
<1>5. thread' \in [Threads -> States]
  BY ZenonT(40) DEF NewThread, CountInv, States
<1>6. \A v \in Threads : thread'[v] \in {"unborn", "recv"}
  BY DEF NewThread, CountInv
<1> QED
  BY <1>4, <1>5, <1>6 DEF NewThread, CountInv

\* The replacement of a panicking thread takes its place in the count.
LEMMA CountRespawn ==
    ASSUME CountInv, NEW w \in Threads, NEW n \in Threads, Respawn(w, n)
    PROVE  CountInv'
<1>1. w \in Serving /\ n \notin Serving /\ n # w
  BY ZenonT(40) DEF Respawn, Serving, In
<1>2. thread' \in [Threads -> States]
  BY DEF Respawn, CountInv, States
<1>3. thread'[w] = "exiting" /\ thread'[n] = "recv"
  BY ZenonT(40), <1>1 DEF Respawn, CountInv
<1>4. \A v \in Threads \ {w, n} : thread'[v] = thread[v]
  BY ZenonT(40) DEF Respawn, CountInv
<1>5. Serving' = (Serving \ {w}) \cup {n}
  BY <1>1, <1>3, <1>4 DEF Serving, In
<1>6. /\ IsFiniteSet(Serving \ {w})
      /\ Cardinality(Serving \ {w}) = Cardinality(Serving) - 1
  BY ZenonT(40), <1>1, ServingFinite, FS_RemoveElement
<1>7. Cardinality((Serving \ {w}) \cup {n}) = Cardinality(Serving \ {w}) + 1
  BY ZenonT(40), <1>1, <1>6, FS_AddElement
<1>8. Cardinality(Serving') = Cardinality(Serving)
  BY <1>5, <1>6, <1>7, ServingFinite
<1>9. stage # "new"
  BY ZenonT(40) DEF Respawn, CountInv
<1> QED
  BY ZenonT(40), <1>2, <1>8, <1>9 DEF Respawn, CountInv

\* A thread that takes, ends or abandons a job, or exits after it was replaced,
\* does not change which threads serve.
LEMMA CountWork ==
    ASSUME CountInv, NEW w \in Threads,
           Recv(w) \/ Finish(w) \/ Panic(w) \/ Exit(w)
    PROVE  CountInv'
<1>1. thread' \in [Threads -> States]
  BY DEF Recv, Finish, Panic, End, Exit, CountInv, States
<1>2. \A v \in Threads \ {w} : thread'[v] = thread[v]
  BY ZenonT(40) DEF Recv, Finish, Panic, End, Exit, CountInv
<1>3. w \in Serving' <=> w \in Serving
  BY ZenonT(40) DEF Recv, Finish, Panic, End, Exit, CountInv, Serving, In
<1>4. Serving' = Serving
  BY ZenonT(40), <1>2, <1>3 DEF Serving, In
<1>5. stage # "new"
  BY ZenonT(40) DEF Recv, Finish, Panic, End, Exit, CountInv
<1>6. stage' = stage /\ size' = size
  BY ZenonT(40) DEF Recv, Finish, Panic, End, Exit
<1> QED
  BY ZenonT(40), <1>1, <1>4, <1>5, <1>6 DEF CountInv

\* The other steps leave every thread where it is.
LEMMA CountElse ==
    ASSUME CountInv,
           \/ NewFails \/ NewReturns \/ ClonePool \/ DropPool
           \/ \E j \in Tasks : Spawn(j) \/ SpawnPanics(j)
           \/ \E w \in Threads : RecvErr(w) \/ RespawnFails(w) \/ StackOverflow(w)
           \/ UNCHANGED poolVars
    PROVE  CountInv'
<1>1. thread' = thread /\ size' = size
  BY ZenonT(40) DEF NewFails, NewReturns, ClonePool, DropPool, Spawn, SpawnPanics, RecvErr,
         RespawnFails, StackOverflow, poolVars
<1>2. Serving' = Serving
  BY ZenonT(40), <1>1 DEF Serving, In
<1>3. stage' = "new" => stage = "new" /\ queue' = queue
  BY ZenonT(40) DEF NewFails, NewReturns, ClonePool, DropPool, Spawn, SpawnPanics, RecvErr,
         RespawnFails, StackOverflow, poolVars
<1>4. stage' = "open" => stage = "open" \/ Cardinality(Serving) = size
  BY ZenonT(40) DEF NewFails, NewReturns, ClonePool, DropPool, Spawn, SpawnPanics, RecvErr,
         RespawnFails, StackOverflow, poolVars
<1> QED
  BY ZenonT(40), <1>1, <1>2, <1>3, <1>4 DEF CountInv

\* ThreadPool::spawn keeps its promise "the thread count is not reduced": once
\* new has returned, the threads that serve the queue or are being replaced are
\* as many as new was asked for, also while the OS refuses threads.
THEOREM ThreadCountKept == PoolSpec => []SameNumberOfThreads
<1>1. CountInv /\ [PoolNext]_poolVars => CountInv'
  <2> SUFFICES ASSUME CountInv, [PoolNext]_poolVars PROVE CountInv'
    OBVIOUS
  <2>1. CASE \E w \in Threads : NewThread(w)
    BY ZenonT(40), <2>1, CountNewThread
  <2>2. CASE \E w, n \in Threads : Respawn(w, n)
    BY ZenonT(40), <2>2, CountRespawn
  <2>3. CASE \E w \in Threads : Recv(w) \/ Finish(w) \/ Panic(w) \/ Exit(w)
    BY <2>3, CountWork
  <2> QED
    BY <2>1, <2>2, <2>3, CountElse DEF PoolNext, Work
<1>2. CountInv => SameNumberOfThreads
  BY ZenonT(40) DEF CountInv, SameNumberOfThreads
<1> QED
  BY CountInit, <1>1, <1>2, PTL DEF PoolSpec

-----------------------------------------------------------------------------
Positions == 1 .. Len(queue)

JobTypes ==
    /\ queue \in Seq(Tasks)
    /\ task \in [Threads -> Tasks \cup {NoTask}]
    /\ thread \in [Threads -> States]
    /\ status \in [Tasks -> {"new", "sent", "rejected", "started", "done", "panicked"}]
    /\ starts \in [Tasks -> Nat]

\* Sent jobs are the ones in the channel, at one position each.
Queued ==
    /\ \A a, b \in Positions : queue[a] = queue[b] => a = b
    /\ \A a \in Positions : status[queue[a]] = "sent"
    /\ \A j \in Tasks : status[j] = "sent" => \E a \in Positions : queue[a] = j

\* Started jobs are the ones the running threads have, one thread each.
Held ==
    /\ \A w \in Threads : thread[w] = "run" <=> task[w] # NoTask
    /\ \A w \in Threads : task[w] # NoTask => status[task[w]] = "started"
    /\ \A v, w \in Threads : task[v] = task[w] /\ task[v] # NoTask => v = w
    /\ \A j \in Tasks : status[j] = "started" => \E w \in Threads : task[w] = j

StartedOnce ==
    \A j \in Tasks :
        starts[j] = (IF status[j] \in {"started", "done", "panicked"} THEN 1 ELSE 0)

PlaceInv == JobTypes /\ Queued /\ Held /\ StartedOnce

LEMMA PlaceSpawn ==
    ASSUME PlaceInv, NEW j \in Tasks, Spawn(j)
    PROVE  PlaceInv'
<1>1. /\ queue' = Append(queue, j) /\ status' = [status EXCEPT ![j] = "sent"]
      /\ status[j] = "new" /\ UNCHANGED <<thread, task, starts>>
  BY DEF Spawn
<1>2. JobTypes'
  BY <1>1 DEF PlaceInv, JobTypes
<1>3. /\ status'[j] = "sent" /\ \A i \in Tasks \ {j} : status'[i] = status[i]
  BY ZenonT(40), <1>1 DEF PlaceInv, JobTypes
<1>4. /\ Len(queue') = Len(queue) + 1 /\ Len(queue) \in Nat /\ queue'[Len(queue) + 1] = j
      /\ \A a \in Positions : queue'[a] = queue[a] /\ queue[a] \in Tasks \ {j}
  BY <1>1 DEF PlaceInv, JobTypes, Queued, Positions
<1>5. Queued'
  <2>1. Positions' = Positions \cup {Len(queue) + 1}
    BY <1>4 DEF Positions
  <2>2. Len(queue) + 1 \notin Positions
    BY ZenonT(40), <1>4 DEF Positions
  <2>3. \A a, b \in Positions' : queue'[a] = queue'[b] => a = b
    BY <1>4, <2>1, <2>2 DEF PlaceInv, Queued
  <2>4. \A a \in Positions' : status'[queue'[a]] = "sent"
    BY ZenonT(40), <1>3, <1>4, <2>1 DEF PlaceInv, Queued
  <2>5. ASSUME NEW i \in Tasks, status'[i] = "sent"
        PROVE  \E a \in Positions' : queue'[a] = i
    BY ZenonT(40), <1>3, <1>4, <2>1, <2>5 DEF PlaceInv, Queued
  <2> QED
    BY ZenonT(40), <2>3, <2>4, <2>5 DEF Queued
<1>6. Held' /\ StartedOnce'
  BY <1>1, <1>3 DEF PlaceInv, JobTypes, Held, StartedOnce
<1> QED
  BY ZenonT(40), <1>2, <1>5, <1>6 DEF PlaceInv

LEMMA PlaceRecv ==
    ASSUME PlaceInv, NEW w \in Threads, Recv(w)
    PROVE  PlaceInv'
<1>0. queue # << >> /\ Head(queue) \in Tasks
  BY DEF Recv, PlaceInv, JobTypes
<1>1. PICK j \in Tasks :
      /\ j = Head(queue) /\ queue # << >> /\ queue' = Tail(queue)
      /\ task' = [task EXCEPT ![w] = j] /\ starts' = [starts EXCEPT ![j] = starts[j] + 1]
      /\ status' = [status EXCEPT ![j] = "started"] /\ thread' = [thread EXCEPT ![w] = "run"]
      /\ thread[w] = "recv"
  BY ZenonT(40), <1>0 DEF Recv, AfterRecv
<1>2. JobTypes'
  BY <1>1 DEF PlaceInv, JobTypes, States
<1>3. /\ status'[j] = "started" /\ starts'[j] = starts[j] + 1
      /\ \A i \in Tasks \ {j} : status'[i] = status[i] /\ starts'[i] = starts[i]
      /\ task'[w] = j /\ thread'[w] = "run"
      /\ \A v \in Threads \ {w} : task'[v] = task[v] /\ thread'[v] = thread[v]
  BY ZenonT(40), <1>1 DEF PlaceInv, JobTypes
<1>4. /\ Len(queue) \in Nat /\ Len(queue') = Len(queue) - 1 /\ 1 \in Positions /\ queue[1] = j
      /\ \A a \in Positions' : queue'[a] = queue[a + 1] /\ a + 1 \in Positions /\ a + 1 # 1
  BY <1>1 DEF PlaceInv, JobTypes, Positions
<1>5. status[j] = "sent"
  BY <1>4 DEF PlaceInv, Queued
<1>6. \A a \in Positions' : queue'[a] \in Tasks \ {j}
  <2>1. \A a \in Positions : a # 1 => queue[a] # queue[1]
    BY ZenonT(40), <1>4 DEF PlaceInv, Queued
  <2>2. \A a \in Positions : queue[a] \in Tasks
    BY DEF PlaceInv, JobTypes, Positions
  <2> QED
    BY ZenonT(40), <1>4, <2>1, <2>2
<1>7. Queued'
  <2>1. \A a, b \in Positions' : queue'[a] = queue'[b] => a = b
    <3>1. ASSUME NEW a \in Positions', NEW b \in Positions', queue'[a] = queue'[b]
          PROVE  a = b
      <4>1. a + 1 = b + 1
        BY <1>4, <3>1 DEF PlaceInv, Queued
      <4> QED
        BY <1>4, <4>1 DEF Positions
    <3> QED
      BY ZenonT(40), <3>1
  <2>2. \A a \in Positions' : status'[queue'[a]] = "sent"
    BY <1>3, <1>4, <1>6 DEF PlaceInv, Queued
  <2>3. ASSUME NEW i \in Tasks, status'[i] = "sent"
        PROVE  \E a \in Positions' : queue'[a] = i
    <3>1. i # j /\ status[i] = "sent"
      BY ZenonT(40), <1>3, <2>3
    <3>2. PICK a \in Positions : queue[a] = i
      BY ZenonT(40), <3>1 DEF PlaceInv, Queued
    <3>3. a # 1
      BY ZenonT(40), <1>4, <3>1, <3>2
    <3>4. a - 1 \in Positions' /\ (a - 1) + 1 = a
      BY <1>4, <3>3 DEF Positions
    <3> QED
      BY ZenonT(40), <1>4, <3>2, <3>4
  <2> QED
    BY ZenonT(40), <2>1, <2>2, <2>3 DEF Queued
<1>8. task[w] = NoTask /\ \A v \in Threads : task[v] # j
  BY ZenonT(40), <1>1, <1>5, PoolAssumption DEF PlaceInv, Held, JobTypes
<1>9. Held'
  BY <1>3, <1>5, <1>8, PoolAssumption DEF PlaceInv, Held, JobTypes
<1>10. StartedOnce'
  BY <1>3, <1>5 DEF PlaceInv, StartedOnce
<1> QED
  BY <1>2, <1>7, <1>9, <1>10 DEF PlaceInv

LEMMA PlaceEnd ==
    ASSUME PlaceInv, NEW w \in Threads, Finish(w) \/ Panic(w)
    PROVE  PlaceInv'
<1>1. PICK result \in {"done", "panicked"}, state \in {"recv", "unwinding"} :
      /\ thread[w] = "run" /\ thread' = [thread EXCEPT ![w] = state]
      /\ status' = [status EXCEPT ![task[w]] = result] /\ task' = [task EXCEPT ![w] = NoTask]
      /\ UNCHANGED <<queue, starts>>
  BY ZenonT(40) DEF Finish, Panic, End
<1>2. task[w] \in Tasks /\ status[task[w]] = "started"
  BY <1>1 DEF PlaceInv, JobTypes, Held
<1>3. JobTypes'
  BY ZenonT(40), <1>1, <1>2 DEF PlaceInv, JobTypes, States
<1>4. /\ status'[task[w]] = result
      /\ \A i \in Tasks \ {task[w]} : status'[i] = status[i]
      /\ task'[w] = NoTask /\ thread'[w] = state
      /\ \A v \in Threads \ {w} : task'[v] = task[v] /\ thread'[v] = thread[v]
  BY ZenonT(40), <1>1, <1>2 DEF PlaceInv, JobTypes
<1>5. Queued'
  BY <1>1, <1>2, <1>4 DEF PlaceInv, JobTypes, Queued, Positions
<1>6. Held'
  BY <1>1, <1>2, <1>4 DEF PlaceInv, JobTypes, Held
<1>7. StartedOnce'
  BY ZenonT(40), <1>1, <1>2, <1>4 DEF PlaceInv, StartedOnce
<1> QED
  BY ZenonT(40), <1>3, <1>5, <1>6, <1>7 DEF PlaceInv

\* The other steps move no job; they move threads that run none.
LEMMA PlaceElse ==
    ASSUME PlaceInv, UNCHANGED <<queue, task, starts>>, thread' \in [Threads -> States],
           \A w \in Threads : thread'[w] = thread[w] \/ (thread[w] # "run" /\ thread'[w] # "run"),
           \/ status' = status
           \/ \E j \in Tasks : status[j] = "new" /\ status' = [status EXCEPT ![j] = "rejected"]
    PROVE  PlaceInv'
<1>1. \A i \in Tasks : \/ status'[i] = status[i]
                       \/ status[i] = "new" /\ status'[i] = "rejected"
  BY ZenonT(40) DEF PlaceInv, JobTypes
<1>2. JobTypes'
  BY ZenonT(40) DEF PlaceInv, JobTypes
<1>3. Queued'
  BY <1>1 DEF PlaceInv, JobTypes, Queued, Positions
<1>4. Held'
  BY <1>1 DEF PlaceInv, JobTypes, Held
<1>5. StartedOnce'
  BY ZenonT(40), <1>1 DEF PlaceInv, StartedOnce
<1> QED
  BY ZenonT(40), <1>2, <1>3, <1>4, <1>5 DEF PlaceInv

\* A set of positions or threads with at most one member, counted.
LEMMA CountOne ==
    ASSUME NEW S, NEW c \in BOOLEAN, c => (\E x : S = {x}), ~c => S = {}
    PROVE  Cardinality(S) = (IF c THEN 1 ELSE 0)
BY ZenonT(40), FS_EmptySet, FS_Singleton

\* The channel hands every job to one thread and run_tasks takes it once: no job
\* is lost, duplicated or run twice, for any number of threads, also while they
\* panic, are replaced, or the pool is dropped with jobs waiting.
THEOREM JobsKeepTheirPlace == PoolSpec => []JobsInOnePlace
<1>1. PoolInit => PlaceInv
  BY DEF PoolInit, PlaceInv, JobTypes, Queued, Held, StartedOnce, Positions, States
<1>2. PlaceInv /\ [PoolNext]_poolVars => PlaceInv'
  <2> SUFFICES ASSUME PlaceInv, [PoolNext]_poolVars PROVE PlaceInv'
    OBVIOUS
  <2>1. CASE \E j \in Tasks : Spawn(j)
    BY <2>1, PlaceSpawn
  <2>2. CASE \E w \in Threads : Recv(w)
    BY <2>2, PlaceRecv
  <2>3. CASE \E w \in Threads : Finish(w) \/ Panic(w)
    BY <2>3, PlaceEnd
  <2>4. CASE \E w \in Threads : NewThread(w) \/ Exit(w) \/ \E n \in Threads : Respawn(w, n)
    <3>1. UNCHANGED <<queue, task, starts, status>>
      BY ZenonT(40), <2>4 DEF NewThread, Exit, Respawn, jobVars
    <3>2. thread' \in [Threads -> States]
      BY ZenonT(40), <2>4 DEF NewThread, Exit, Respawn, PlaceInv, JobTypes, States
    <3>3. \A v \in Threads : thread'[v] = thread[v] \/ (thread[v] # "run" /\ thread'[v] # "run")
      BY ZenonT(40), <2>4 DEF NewThread, Exit, Respawn, PlaceInv, JobTypes
    <3> QED
      BY ZenonT(40), <3>1, <3>2, <3>3, PlaceElse
  <2>5. CASE \/ NewFails \/ NewReturns \/ ClonePool \/ DropPool \/ UNCHANGED poolVars
             \/ \E j \in Tasks : SpawnPanics(j)
             \/ \E w \in Threads : RecvErr(w) \/ RespawnFails(w) \/ StackOverflow(w)
    <3>1. /\ UNCHANGED <<queue, task, starts, thread>>
          /\ \/ status' = status
             \/ \E j \in Tasks : status[j] = "new" /\ status' = [status EXCEPT ![j] = "rejected"]
      BY ZenonT(40), <2>5 DEF NewFails, NewReturns, ClonePool, DropPool, poolVars, SpawnPanics, RecvErr,
                  RespawnFails, StackOverflow, jobVars
    <3>2. thread' \in [Threads -> States]
      BY ZenonT(40), <3>1 DEF PlaceInv, JobTypes
    <3> QED
      BY ZenonT(40), <3>1, <3>2, PlaceElse
  <2> QED
    BY ZenonT(40), <2>1, <2>2, <2>3, <2>4, <2>5 DEF PoolNext, Work
<1>3. PlaceInv => JobsInOnePlace
  <2> SUFFICES ASSUME PlaceInv, NEW j \in Tasks
               PROVE  /\ Cardinality({i \in 1..Len(queue) : queue[i] = j})
                            = (IF status[j] = "sent" THEN 1 ELSE 0)
                      /\ Cardinality({w \in Threads : task[w] = j})
                            = (IF status[j] = "started" THEN 1 ELSE 0)
    BY ZenonT(40) DEF JobsInOnePlace, PlaceInv, StartedOnce
  <2> DEFINE Q == {i \in 1..Len(queue) : queue[i] = j}
             T == {w \in Threads : task[w] = j}
  <2>1. (status[j] = "sent" => \E x : Q = {x}) /\ (status[j] # "sent" => Q = {})
    <3>1. CASE status[j] = "sent"
      <4>1. PICK a \in Positions : queue[a] = j
        BY ZenonT(40), <3>1 DEF PlaceInv, Queued
      <4>2. Q = {a}
        BY <4>1 DEF PlaceInv, Queued, Positions
      <4> QED
        BY ZenonT(40), <3>1, <4>2
    <3>2. CASE status[j] # "sent"
      BY <3>2 DEF PlaceInv, Queued, Positions
    <3> QED
      BY ZenonT(40), <3>1, <3>2
  <2>2. (status[j] = "started" => \E x : T = {x}) /\ (status[j] # "started" => T = {})
    <3>1. CASE status[j] = "started"
      <4>1. PICK w \in Threads : task[w] = j
        BY ZenonT(40), <3>1 DEF PlaceInv, Held
      <4>2. T = {w}
        BY ZenonT(40), <4>1, PoolAssumption DEF PlaceInv, Held
      <4> QED
        BY ZenonT(40), <3>1, <4>2
    <3>2. CASE status[j] # "started"
      BY <3>2, PoolAssumption DEF PlaceInv, Held
    <3> QED
      BY ZenonT(40), <3>1, <3>2
  <2> HIDE DEF Q, T
  <2>3. Cardinality(Q) = (IF status[j] = "sent" THEN 1 ELSE 0)
    BY ZenonT(40), <2>1, CountOne
  <2>4. Cardinality(T) = (IF status[j] = "started" THEN 1 ELSE 0)
    BY ZenonT(40), <2>2, CountOne
  <2> QED
    BY ZenonT(40), <2>3, <2>4 DEF Q, T
<1> QED
  BY <1>1, <1>2, <1>3, PTL DEF PoolSpec
=============================================================================
