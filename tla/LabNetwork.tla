----------------------------- MODULE LabNetwork -----------------------------
(***************************************************************************)
(* The simulated network of labrpc: client ends that a test enables and    *)
(* disables, servers it adds and deletes, and one task per call that       *)
(* carries a request to a handler and a reply back, or pretends that it    *)
(* was lost.  An end is named <<owner, incarnation, server>>; it is        *)
(* connected to its third component when it is created and never again.    *)
(***************************************************************************)
EXTENDS Naturals, FiniteSets

CONSTANTS Servers,  \* the names the tests give to servers
          Calls     \* one identifier per Client::call

VARIABLES enabled,    \* the enabled ends
          servers,    \* name -> id of the instance; 0 is a deleted server
          reliable,   \* no request or reply is dropped
          reordering, \* replies may be held back
          poisoned,   \* a task panicked inside the lock of the endpoints
          rpc         \* the task of each call

netVars == <<enabled, servers, reliable, reordering, poisoned, rpc>>

Target(e) == e[3]

Gone(j) == j \notin DOMAIN servers \/ servers[j] = 0

NoCall == [st |-> "none", end |-> <<0, 0, 0>>, srv |-> 0, drop |-> FALSE,
           late |-> FALSE, res |-> "none", quiet |-> FALSE, early |-> FALSE,
           stale |-> FALSE]

NetInit ==
  /\ enabled = {}
  /\ servers = << >>
  /\ reliable \in BOOLEAN
  /\ reordering \in BOOLEAN
  /\ poisoned = FALSE
  /\ rpc = [c \in Calls |-> NoCall]

\* quiet, early and stale are history: the end was up when the call was made
\* and has been since, the server had never been added, the caller had already
\* been shut down.
Call(c, e, stale) ==
  /\ rpc[c].st = "none"
  /\ rpc' = [rpc EXCEPT ![c] =
               [NoCall EXCEPT !.st = "queued", !.end = e, !.stale = stale,
                  !.early = Target(e) \notin DOMAIN servers,
                  !.quiet = e \in enabled /\ ~Gone(Target(e))]]
  /\ UNCHANGED <<enabled, servers, reliable, reordering, poisoned>>

Answer(c, r) == rpc' = [rpc EXCEPT ![c].st = "done", ![c].res = r]

NetUnchanged == UNCHANGED <<enabled, servers, reliable, reordering, poisoned>>

\* end_info indexes the map of servers, whether or not the end is enabled.
EndInfoPanics(c) ==
  /\ rpc[c].st = "queued"
  /\ Target(rpc[c].end) \notin DOMAIN servers
  /\ poisoned' = TRUE
  /\ Answer(c, "recv")
  /\ UNCHANGED <<enabled, servers, reliable, reordering>>

Known(c) == rpc[c].st = "queued" /\ Target(rpc[c].end) \in DOMAIN servers

Routed(c) == rpc[c].end \in enabled /\ ~Gone(Target(rpc[c].end))

LoseRequest(c) ==
  /\ Known(c)
  /\ Routed(c) => ~reliable
  /\ rpc' = [rpc EXCEPT ![c].st = "lost"]
  /\ NetUnchanged

LossChoiceAlways == BOOLEAN

LossChoice == IF reliable THEN {FALSE} ELSE BOOLEAN

LateChoice == IF reordering THEN BOOLEAN ELSE {FALSE}

Accept(c) ==
  /\ Known(c)
  /\ Routed(c)
  /\ \E drop \in LossChoice, late \in LateChoice :
       rpc' = [rpc EXCEPT ![c].st = "delayed", ![c].drop = drop, ![c].late = late,
                          ![c].srv = servers[Target(rpc[c].end)]]
  /\ NetUnchanged

TimesOut(c) ==
  /\ rpc[c].st = "lost"
  /\ Answer(c, "timeout")
  /\ NetUnchanged

\* The hooks of the client and the handler are not labrpc's code: either may
\* return an error, which is the answer to the call.
DispatchFails(c) ==
  /\ rpc[c].st \in {"delayed", "running"}
  /\ Answer(c, "err")
  /\ NetUnchanged

Dispatch(c) ==
  /\ rpc[c].st = "delayed"
  /\ rpc' = [rpc EXCEPT ![c].st = "running"]
  /\ NetUnchanged

HandlerEnds(c) ==
  /\ rpc[c].st = "running"
  /\ rpc' = [rpc EXCEPT ![c].st = "ran"]
  /\ NetUnchanged

IsServerDeadAnyId(e, id) == e \notin enabled \/ Gone(Target(e))

IsServerDead(e, id) == e \notin enabled \/ Gone(Target(e)) \/ servers[Target(e)] # id

Dead(c) == IsServerDead(rpc[c].end, rpc[c].srv)

ServerDeadDeleted(c) ==
  /\ rpc[c].st = "running"
  /\ Gone(Target(rpc[c].end))
  /\ Answer(c, "stopped")
  /\ NetUnchanged

\* server_dead polls while the handler runs; the select drops the handler.
ServerDead(c) ==
  /\ rpc[c].st = "running"
  /\ Dead(c)
  /\ Answer(c, "stopped")
  /\ NetUnchanged

Reply(c) ==
  /\ rpc[c].st = "ran"
  /\ \/ Dead(c) /\ Answer(c, "stopped")
     \/ ~Dead(c) /\ rpc[c].drop /\ Answer(c, "timeout")
     \/ /\ ~Dead(c) /\ ~rpc[c].drop
        /\ IF rpc[c].late THEN rpc' = [rpc EXCEPT ![c].st = "held"]
                          ELSE Answer(c, "ok")
  /\ NetUnchanged

HeldReply(c) ==
  /\ rpc[c].st = "held"
  /\ Answer(c, "ok")
  /\ NetUnchanged

\* The steps of the task of call c that need nothing but the network.
Task(c) == \/ EndInfoPanics(c) \/ LoseRequest(c) \/ Accept(c)
           \/ TimesOut(c) \/ DispatchFails(c) \/ Dispatch(c) \/ ServerDead(c)
           \/ Reply(c) \/ HeldReply(c)

\* The steps a call cannot be denied: all but the handler's own.
Progress(c) == \/ EndInfoPanics(c) \/ LoseRequest(c) \/ Accept(c) \/ TimesOut(c)
               \/ Dispatch(c) \/ ServerDead(c) \/ Reply(c) \/ HeldReply(c)

\* enable, add_server and delete_server, as one change of the endpoints.
SetEndpoints(en, sv) ==
  /\ enabled' = en
  /\ servers' = sv
  /\ rpc' = [c \in Calls |-> [rpc[c] EXCEPT !.quiet =
               @ /\ rpc[c].end \in en /\ Target(rpc[c].end) \in DOMAIN sv
                 /\ sv[Target(rpc[c].end)] = servers[Target(rpc[c].end)]]]
  /\ UNCHANGED <<reliable, reordering, poisoned>>

DeleteServer(i) == [servers EXCEPT ![i] = 0]

AddServer(i, id) == [j \in DOMAIN servers \cup {i} |-> IF j = i THEN id ELSE servers[j]]
=============================================================================
