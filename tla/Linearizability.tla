--------------------------- MODULE Linearizability ---------------------------
(***************************************************************************)
(* The linearizability checker: a history is split by key, one thread per  *)
(* key searches for a linearization of its part with a doubly linked list  *)
(* of call and return entries, and the caller gathers the verdicts, kills  *)
(* the search after the first bad one, or stops waiting at a timeout.  A   *)
(* string is the sequence of the values it was put together from; a Bitset *)
(* is the set of its positions.                                            *)
(***************************************************************************)
EXTENDS Integers, Sequences, SequencesExt, FiniteSets

CONSTANTS Keys,    \* keys of the histories
          MaxOps,  \* bound: operations in a history
          MaxTime  \* bound: times of calls and returns

VARIABLES history,  \* the Operations to check
          path,     \* check_operations or check_events
          timed,    \* a timeout was given
          kill,     \* the flag the searches read
          workers,  \* one search per key of the history
          caller    \* wait_res and the joins

vars == <<history, path, timed, kill, workers, caller>>

None == -1

\* What a client may have asked and, for a get, seen.
Requests == {[op |-> "PUT", val |-> <<1>>], [op |-> "APPEND", val |-> <<2>>],
             [op |-> "GET", val |-> << >>], [op |-> "GET", val |-> <<1, 2>>]}

Intervals == {t \in (1 .. MaxTime) \X (1 .. MaxTime) : t[1] <= t[2]}

Operation(ks) == {[req |-> r, key |-> k, call |-> t[1], finish |-> t[2]] :
                    r \in Requests, k \in ks, t \in Intervals}

\* Bound: the longest histories use one key, as events and without a timeout.
Histories == UNION {[1 .. n -> Operation(Keys)] : n \in 0 .. MaxOps - 1}

LongHistories == UNION {[1 .. MaxOps -> Operation({k})] : k \in {CHOOSE k \in Keys : TRUE}}

\* KvModel: a partition holds the operations of one key.
Part(h, k) == SelectSeq(h, LAMBDA o : o.key = k)

KeysOf(h) == {h[i].key : i \in DOMAIN h}

Step(state, req) ==
  CASE req.op = "GET" -> <<req.val = state, state>>
    [] req.op = "PUT" -> <<TRUE, req.val>>
    [] req.op = "APPEND" -> <<TRUE, state \o req.val>>

\* A call and a return entry for every operation, sorted by time; the sort is
\* stable, so of two entries with one time the earlier pushed comes first.
Entry(h, i, c) == [call |-> c, id |-> i, req |-> h[i].req,
                   time |-> IF c THEN h[i].call ELSE h[i].finish]

Pushed(h) == [n \in 1 .. 2 * Len(h) |-> Entry(h, (n + 1) \div 2, n % 2 = 1)]

Sorted(es) ==
  LET until[t \in 0 .. MaxTime] ==
        IF t = 0 THEN << >> ELSE until[t - 1] \o SelectSeq(es, LAMBDA e : e.time = t) IN
  until[MaxTime]

MakeEntries(h) == Sorted(Pushed(h))

\* check_events gets the entries of the whole history in order, gives each to
\* the key of its call, and numbers the operations anew as they appear.
PartEvents(h, k) == SelectSeq(MakeEntries(h), LAMBDA e : h[e.id].key = k)

FirstAt(es, id) == CHOOSE p \in DOMAIN es : es[p].id = id /\ \A q \in 1 .. p - 1 : es[q].id # id

NewId(es, id) == Cardinality({es[q].id : q \in 1 .. FirstAt(es, id)})

Renumber(es) == [p \in DOMAIN es |-> [es[p] EXCEPT !.id = NewId(es, @)]]

EntriesOf(k) == IF path = "events" THEN Renumber(PartEvents(history, k))
                ELSE MakeEntries(Part(history, k))

\* Node p of the list is entry p, node 0 the head that check_single pushes.
FromEntries(es) ==
  [st |-> "search", es |-> es, at |-> IF es = << >> THEN None ELSE 1, 
   calls |-> << >>, state |-> << >>, linearized |-> {}, cache |-> {},
   next |-> [p \in 0 .. Len(es) |-> IF p = Len(es) THEN None ELSE p + 1],
   prev |-> [p \in 0 .. Len(es) |-> p - 1]]

Matched(w, p) ==
  LET later == {q \in p + 1 .. Len(w.es) : w.es[q].id = w.es[p].id /\ ~w.es[q].call} IN
  IF w.es[p].call /\ later # {} THEN CHOOSE q \in later : TRUE ELSE None

Init ==
  /\ \/ history \in Histories /\ timed \in BOOLEAN /\ path = "operations"
     \/ history \in Histories /\ timed = FALSE /\ path = "events"
     \/ history \in LongHistories /\ timed = FALSE /\ path = "events"
  /\ kill = FALSE
  /\ workers = [k \in KeysOf(history) |-> [FromEntries(<< >>) EXCEPT !.st = "spawned"]]
  /\ caller = [st |-> "wait", ok |-> TRUE, count |-> Cardinality(KeysOf(history)),
               expired |-> FALSE]

Lift(w, p) ==
  LET m  == Matched(w, p)
      n1 == [w.next EXCEPT ![w.prev[p]] = w.next[p]]
      p1 == [w.prev EXCEPT ![w.next[p]] = w.prev[p]]
      n2 == [n1 EXCEPT ![p1[m]] = n1[m]]
      p2 == IF n1[m] = None THEN p1 ELSE [p1 EXCEPT ![n1[m]] = p1[m]] IN
  [w EXCEPT !.next = n2, !.prev = p2]

UnliftForward(w, p) ==
  LET m  == Matched(w, p)
      n1 == [w.next EXCEPT ![w.prev[m]] = m]
      n2 == [n1 EXCEPT ![w.prev[p]] = p]
      p2 == [w.prev EXCEPT ![n1[p]] = p] IN
  [w EXCEPT !.next = n2, !.prev = p2]

Unlift(w, p) ==
  LET m  == Matched(w, p)
      n1 == [w.next EXCEPT ![w.prev[m]] = m]
      p1 == IF w.next[m] = None THEN w.prev ELSE [w.prev EXCEPT ![w.next[m]] = m]
      n2 == [n1 EXCEPT ![p1[p]] = p]
      p2 == [p1 EXCEPT ![n1[p]] = p] IN
  [w EXCEPT !.next = n2, !.prev = p2]

CacheByState(w, lin, state) == \E c \in w.cache : c[2] = state

CacheContains(w, lin, state) == <<lin, state>> \in w.cache

\* A call entry: linearize the operation here, unless it cannot be or this was tried.
TryCall(w) ==
  LET p    == w.at
      res  == Step(w.state, w.es[p].req)
      lin  == w.linearized \cup {w.es[p].id}
      done == [Lift(w, p) EXCEPT !.state = res[2], !.linearized = lin,
                 !.cache = @ \cup {<<lin, res[2]>>},
                 !.calls = Append(@, [at |-> p, state |-> w.state])] IN
  IF res[1] /\ ~CacheContains(w, lin, res[2])
  THEN [done EXCEPT !.at = done.next[0]]
  ELSE [w EXCEPT !.at = w.next[p]]

\* A return entry: its call was not linearized in time; undo the last choice.
Backtrack(w) ==
  LET top  == w.calls[Len(w.calls)]
      undo == Unlift(w, top.at) IN
  IF w.calls = << >> THEN [w EXCEPT !.st = "false"]
  ELSE [undo EXCEPT !.calls = Front(w.calls), !.state = top.state,
          !.linearized = @ \ {w.es[top.at].id}, !.at = undo.next[top.at]]

\* One turn of the loop of check_single.
Iterate(w) ==
  IF w.next[0] = None THEN [w EXCEPT !.st = "true"]
  ELSE IF kill THEN [w EXCEPT !.st = "false"]
  ELSE IF Matched(w, w.at) # None THEN TryCall(w) ELSE Backtrack(w)

BuildList(k) ==
  /\ workers[k].st = "spawned"
  /\ \E es \in {EntriesOf(k)} : workers' = [workers EXCEPT ![k] = FromEntries(es)]
  /\ UNCHANGED <<history, path, timed, kill, caller>>

CheckSingle(k) ==
  /\ workers[k].st = "search"
  /\ workers' = [workers EXCEPT ![k] = Iterate(@)]
  /\ UNCHANGED <<history, path, timed, kill, caller>>

ReceiveFirst(k) ==
  LET ok == workers[k].st = "true" IN
  /\ caller.st = "wait" /\ workers[k].st \in {"true", "false"}
  /\ workers' = [workers EXCEPT ![k].st = "sent"]
  /\ kill' = (kill \/ ~ok)
  /\ caller' = [caller EXCEPT !.ok = @ /\ ok,
                  !.count = IF ok THEN @ - 1 ELSE @,
                  !.st = "join"]
  /\ UNCHANGED <<history, path, timed>>

ReceiveUncounted(k) ==
  LET ok == workers[k].st = "true" IN
  /\ caller.st = "wait" /\ workers[k].st \in {"true", "false"}
  /\ workers' = [workers EXCEPT ![k].st = "sent"]
  /\ kill' = (kill \/ ~ok)
  /\ caller' = [caller EXCEPT !.ok = @ /\ ok,
                  !.st = IF ~ok \/ caller.count = 1 THEN "join" ELSE @]
  /\ UNCHANGED <<history, path, timed>>

\* The verdicts reach the caller in any order; "sent" ones it has taken.
Receive(k) ==
  LET ok == workers[k].st = "true" IN
  /\ caller.st = "wait" /\ workers[k].st \in {"true", "false"}
  /\ workers' = [workers EXCEPT ![k].st = "sent"]
  /\ kill' = (kill \/ ~ok)
  /\ caller' = [caller EXCEPT !.ok = @ /\ ok,
                  !.count = IF ok THEN @ - 1 ELSE @,
                  !.st = IF ~ok \/ caller.count = 1 THEN "join" ELSE @]
  /\ UNCHANGED <<history, path, timed>>

Timeout ==
  /\ caller.st = "wait" /\ timed
  /\ caller' = [caller EXCEPT !.st = "join", !.expired = TRUE]
  /\ UNCHANGED <<history, path, timed, kill, workers>>

Join ==
  /\ caller.st = "join"
  /\ \A k \in DOMAIN workers : workers[k].st \notin {"spawned", "search"}
  /\ caller' = [caller EXCEPT !.st = "done"]
  /\ UNCHANGED <<history, path, timed, kill, workers>>

Next == \/ \E k \in DOMAIN workers : BuildList(k) \/ CheckSingle(k) \/ Receive(k)
        \/ Timeout \/ Join

Spec == Init /\ [][Next]_vars

\* As long as a thread can run or a timeout is pending, one of them goes on.
FairSpec == Spec /\ WF_vars(Next)
-----------------------------------------------------------------------------

Lifted(w) == {p \in 1 .. Len(w.es) : w.es[p].id \in w.linearized}

\* The list of check_single is the history without the operations on the stack
\* of choices, in both directions: lift and unlift are inverse in the order in
\* which they are used.
ListExact ==
  \A k \in DOMAIN workers : LET w == workers[k]
                                kept == (0 .. Len(w.es)) \ Lifted(w) IN
    \A p \in kept :
      /\ w.next[p] = (IF \A q \in kept : q <= p THEN None
                      ELSE CHOOSE q \in kept : q > p /\ \A r \in kept : r > p => q <= r)
      /\ w.next[p] # None => w.prev[w.next[p]] = p

\* The definition: the operations can be ordered so that every get sees the
\* value of its key and no operation comes before one it follows in time.
Legal(h, order) ==
  LET after[n \in 0 .. Len(h)] ==
        IF n = 0 THEN [k \in Keys |-> << >>]
        ELSE [after[n - 1] EXCEPT ![h[order[n]].key] = Step(@, h[order[n]].req)[2]] IN
  \A n \in 1 .. Len(h) : Step(after[n - 1][h[order[n]].key], h[order[n]].req)[1]

Orders(n) == {f \in [1 .. n -> 1 .. n] : \A i, j \in 1 .. n : i # j => f[i] # f[j]}

Linearizable(h, Before(_, _)) ==
  \E order \in Orders(Len(h)) :
    /\ \A i, j \in DOMAIN h : i < j => ~Before(h[order[j]], h[order[i]])
    /\ Legal(h, order)

StrictlyBefore(a, b) == a.finish < b.call

BeforeOrTied(a, b) == a.finish <= b.call

\* An accepted history is linearizable, unless wait_res stopped waiting: lists,
\* cache, kill flag and threads lose no counterexample.
AcceptSound ==
  caller.st = "done" /\ caller.ok /\ ~caller.expired => Linearizable(history, StrictlyBefore)

\* A rejected history is not linearizable, also after a timeout, when an
\* operation that returns at the very time another is called counts as earlier.
RejectSound ==
  caller.st = "done" /\ ~caller.ok => ~Linearizable(history, BeforeOrTied)

\* The check returns, unless there is nothing to wait for and no timeout either.
CheckReturns == (history # << >> \/ timed) => <>(caller.st = "done")
=============================================================================
