----------------------------- MODULE RaftConfig -----------------------------
(***************************************************************************)
(* The test harness of the raft labs: it starts, crashes, connects and     *)
(* disconnects instances, records what they commit, and asks them who      *)
(* leads.  Raft itself is not written yet.  For the log, an instance is    *)
(* any program, right or wrong, that reports commits; for the questions    *)
(* about leaders it keeps election safety, so that an alarm is a false     *)
(* one.  Instances keep running after kill().                              *)
(***************************************************************************)
EXTENDS Naturals, Sequences, FiniteSets, TLC

CONSTANTS N,         \* servers 1 .. N
          Entries,   \* commands
          MaxInc,    \* bound: incarnations of all servers together
          MaxIndex,  \* bound: log indexes
          MaxTerm    \* bound: terms

ASSUME ConstantsAssumption == N \in Nat /\ MaxIndex \in Nat /\ MaxTerm \in Nat

Servers == 1 .. N

VARIABLES inc, alive, connected, enabled,  \* instances and their ends
          disk, mine,                      \* persisters of a server, the one of each incarnation
          logs, maxIndex, poisoned,        \* storage
          lost,                            \* incarnations whose apply task is gone
          term, leader, leaderOf,          \* what get_state reports; history of elections
          at, test,                        \* the thread of the test: where it is, its locals
          topic                            \* bound: what the test and the instances are busy with

VARIABLE reported  \* history: <<index, entry>> of every commit reported

net == <<inc, alive, connected, enabled, disk, mine>>
storage == <<logs, maxIndex, poisoned, lost, reported>>
raft == <<term, leader, leaderOf>>
thread == <<at, test>>
vars == <<net, storage, raft, thread, topic>>

End(i, j) == <<i, inc[i], j>>

Sum(f) == LET S[i \in 0 .. N] == IF i = 0 THEN 0 ELSE f[i] + S[i - 1] IN S[N]

NoLocals == [index |-> 0, cmd |-> 0, need |-> 0, retry |-> FALSE,
             j |-> 1, term |-> 0, leaders |-> {}, moved |-> FALSE]  \* moved is history

\* Config::new has started and connected every server.
Init ==
  /\ inc = [i \in Servers |-> 1]
  /\ alive = [i \in Servers |-> TRUE]
  /\ connected = [i \in Servers |-> TRUE]
  /\ enabled = {<<i, 1, j>> : i \in Servers, j \in Servers}
  /\ disk = [i \in Servers |-> <<0, 0>>]
  /\ mine = [i \in Servers |-> <<2>>]
  /\ logs = [i \in Servers |-> << >>]
  /\ maxIndex = 0
  /\ poisoned = FALSE
  /\ lost = {}
  /\ term = [i \in Servers |-> 0]
  /\ leader = [i \in Servers |-> FALSE]
  /\ leaderOf = [t \in 1 .. MaxTerm |-> 0]
  /\ at = "idle" /\ test = NoLocals
  /\ topic \in {"log", "state", "leaders"}
  /\ reported = {}

Running == at = "idle"

OutgoingOf(i) == {e \in enabled : \E j \in Servers : e = End(i, j)}

EndsOf(i) == {e \in enabled : \E j \in Servers : e = End(i, j) \/ e = End(j, i)}

Disconnect(i) ==
  /\ Running
  /\ connected' = [connected EXCEPT ![i] = FALSE]
  /\ enabled' = enabled \ EndsOf(i)
  /\ UNCHANGED <<inc, alive, disk, mine, storage, raft, thread>>

\* The tests attach a server only while an instance of it runs.
Connect(i) ==
  LET on == [connected EXCEPT ![i] = TRUE] IN
  /\ Running /\ alive[i]
  /\ connected' = on
  /\ enabled' = enabled \cup {End(i, j) : j \in {s \in Servers : on[s]}}
                        \cup {End(j, i) : j \in {s \in Servers : on[s]}}
  /\ UNCHANGED <<inc, alive, disk, mine, storage, raft, thread>>

SamePersister(i) == disk

\* A fresh persister with a copy of what the old one holds.
FreshPersister(i) == [disk EXCEPT ![i] = Append(@, @[Len(@)])]

Crash1(i) ==
  /\ Running /\ alive[i]
  /\ connected' = [connected EXCEPT ![i] = FALSE]
  /\ enabled' = enabled \ EndsOf(i)
  /\ disk' = FreshPersister(i)
  /\ alive' = [alive EXCEPT ![i] = FALSE]
  /\ UNCHANGED <<inc, mine, storage, raft, thread>>

\* crash1, then an instance with fresh ends on the persister that crash1 made.
Start1(i) ==
  /\ Running /\ Sum(inc) < MaxInc
  /\ connected' = [connected EXCEPT ![i] = FALSE]
  /\ enabled' = enabled \ EndsOf(i)
  /\ disk' = FreshPersister(i)
  /\ inc' = [inc EXCEPT ![i] = @ + 1]
  /\ mine' = [mine EXCEPT ![i] = Append(@, Len(disk'[i]))]
  /\ alive' = [alive EXCEPT ![i] = TRUE]
  /\ leader' = [leader EXCEPT ![i] = FALSE]
  /\ UNCHANGED <<storage, term, leaderOf, thread>>

\* save_raft_state of any incarnation, in the persister it was given.
Persist(i, k) ==
  /\ k <= inc[i]
  /\ \E v \in 0 .. 1 : disk' = [disk EXCEPT ![i][mine[i][k]] = v]
  /\ UNCHANGED <<inc, alive, connected, enabled, mine, storage, raft, thread>>
-----------------------------------------------------------------------------
\* Applying reads and writes the log of server i, whichever incarnation applies.
CanApply(i, k, index) == k <= inc[i] /\ <<i, k>> \notin lost /\ ~poisoned /\ index <= MaxIndex

ConflictsOwnLog(i, index, e) == index \in DOMAIN logs[i] /\ logs[i][index] # e

Conflicts(i, index, e) == \E j \in Servers : index \in DOMAIN logs[j] /\ logs[j][index] # e

OutOfOrder(i, index) == index > 1 /\ (index - 1) \notin DOMAIN logs[i]

Put(log, index, e) == [x \in DOMAIN log \cup {index} |-> IF x = index THEN e ELSE log[x]]

Apply(i, k, index, e) ==
  /\ CanApply(i, k, index)
  /\ ~Conflicts(i, index, e) /\ ~OutOfOrder(i, index)
  /\ logs' = [logs EXCEPT ![i] = Put(@, index, e)]
  /\ maxIndex' = IF index > maxIndex THEN index ELSE maxIndex
  /\ reported' = reported \cup {<<index, e>>}
  /\ UNCHANGED <<net, poisoned, lost, raft, thread>>

ApplyPanicsUnlocked(i, k, index, e) ==
  /\ CanApply(i, k, index)
  /\ Conflicts(i, index, e) \/ OutOfOrder(i, index)
  /\ lost' = lost \cup {<<i, k>>}
  /\ reported' = reported \cup {<<index, e>>}
  /\ UNCHANGED <<net, logs, maxIndex, poisoned, raft, thread>>

\* The closure panics while it holds the lock of the storage.
ApplyPanics(i, k, index, e) ==
  /\ CanApply(i, k, index)
  /\ Conflicts(i, index, e) \/ OutOfOrder(i, index)
  /\ poisoned' = TRUE
  /\ reported' = reported \cup {<<index, e>>}
  /\ UNCHANGED <<net, logs, maxIndex, lost, raft, thread>>

\* decode panics before the lock is taken: only the task that applies is gone.
ApplyUndecodable(i, k) ==
  /\ CanApply(i, k, 1)
  /\ lost' = lost \cup {<<i, k>>}
  /\ UNCHANGED <<net, logs, maxIndex, poisoned, reported, raft, thread>>

\* n_committed: how many servers hold an entry at index, and the last one seen.
Holders(index) == {i \in Servers : index \in DOMAIN logs[i]}

Committed(index) ==
  IF Holders(index) = {} THEN 0
  ELSE logs[CHOOSE i \in Holders(index) : \A j \in Holders(index) : j <= i][index]

Disagree(index) == \E i, j \in Holders(index) : logs[i][index] # logs[j][index]

Goes(where, locals) == at' = where /\ test' = locals /\ UNCHANGED <<net, storage, raft>>

Fails(why) == Goes(why, test)

OneBegin(e, need, retry) ==
  /\ Running
  /\ Goes("submit", [NoLocals EXCEPT !.cmd = e, !.need = need, !.retry = retry])

\* Some connected server claims to lead and returns an index for the command.
OneSubmit(index) ==
  /\ at = "submit"
  /\ \E i \in Servers : connected[i] /\ alive[i]
  /\ Goes("poll", [test EXCEPT !.index = index])

EnoughAny(index, need, e) ==
  /\ Cardinality(Holders(index)) > 0
  /\ Cardinality(Holders(index)) >= need

Enough(index, need, e) ==
  /\ Cardinality(Holders(index)) > 0
  /\ Cardinality(Holders(index)) >= need
  /\ Committed(index) = e

OneReturn ==
  /\ at = "poll" /\ ~poisoned /\ ~Disagree(test.index)
  /\ Enough(test.index, test.need, test.cmd)
  /\ Goes("agreed", test)

OneRetry == at = "poll" /\ test.retry /\ Goes("submit", test)

\* No agreement in time, a poisoned lock, or n_committed finds two values.
OnePanics == at \in {"submit", "poll"} /\ Fails("panicked")

WaitBegin(index, need, startTerm) ==
  /\ Running
  /\ Goes("wait", [NoLocals EXCEPT !.index = index, !.need = need, !.term = startTerm])

\* n_committed once more after the loop; the value it returns is not compared.
WaitReturn ==
  /\ at = "wait" /\ ~poisoned /\ ~Disagree(test.index)
  /\ Cardinality(Holders(test.index)) >= test.need
  /\ Goes("agreed", [test EXCEPT !.cmd = Committed(test.index)])

\* Someone has moved on to a later term: None, although the entry may be there.
WaitNone ==
  /\ at = "wait" /\ \E i \in Servers : alive[i] /\ term[i] > test.term
  /\ Goes("idle", NoLocals)

WaitPanics == at = "wait" /\ Fails("panicked")

\* The value one() or wait() returned has been used by the test.
Used == at = "agreed" /\ Goes("idle", NoLocals)

\* end() takes the lock of the storage.
EndTest == Running /\ (IF poisoned THEN Fails("panicked") ELSE Fails("passed"))
-----------------------------------------------------------------------------
\* The elections of a Raft that keeps election safety.
NewTerm(i) ==
  /\ \E t \in 1 .. MaxTerm :
       /\ t > term[i]
       /\ term' = [term EXCEPT ![i] = t]
  /\ leader' = [leader EXCEPT ![i] = FALSE]
  /\ test' = [test EXCEPT !.moved = @ \/ at \in {"terms", "one term"}]
  /\ UNCHANGED <<net, storage, leaderOf, at>>

Elected(i) ==
  /\ term[i] > 0 /\ leaderOf[term[i]] = 0
  /\ leaderOf' = [leaderOf EXCEPT ![term[i]] = i]
  /\ leader' = [leader EXCEPT ![i] = TRUE]
  /\ UNCHANGED <<net, storage, term, thread>>

\* The checks visit the connected servers in order.
Skips == test.j <= N /\ ~connected[test.j]

CheckOneLeader == Running /\ Goes("term", NoLocals)

CheckTerms == Running /\ Goes("terms", NoLocals)

\* get_state reads the term and, later, whether the server leads.
ReadTerm ==
  /\ at = "term" /\ test.j <= N
  /\ IF Skips THEN Goes(at, [test EXCEPT !.j = @ + 1])
     ELSE Goes("leads", [test EXCEPT !.term = term[test.j]])

ReadLeader ==
  /\ at = "leads"
  /\ Goes("term", [test EXCEPT !.j = @ + 1, !.moved = @ \/ term[test.j] # test.term,
                             !.leaders = IF leader[test.j] THEN @ \cup {<<test.term, test.j>>} ELSE @])

TwoLeadersAnyTerm(ls) == \E x, y \in ls : x # y

TwoLeaders(ls) == \E x, y \in ls : x # y /\ x[1] = y[1]

\* A lap is over: two leaders of one term, the leader of the last term, or another lap.
LeaderVerdict ==
  /\ at = "term" /\ test.j > N
  /\ \/ TwoLeaders(test.leaders) /\ Fails("two leaders")
     \/ ~TwoLeaders(test.leaders) /\ test.leaders # {} /\ Goes("idle", NoLocals)
     \/ test.leaders = {} /\ (Goes("term", NoLocals) \/ Fails("panicked"))

CheckTerm ==
  /\ at = "terms" /\ test.j <= N
  /\ IF Skips \/ term[test.j] = test.term THEN Goes(at, [test EXCEPT !.j = @ + 1])
     ELSE IF test.term = 0 THEN Goes(at, [test EXCEPT !.j = @ + 1, !.term = term[test.j]])
     ELSE Fails("disagree on term")

TermsVerdict == at = "terms" /\ test.j > N /\ Goes("one term", test)

TermUsed == at = "one term" /\ Goes("idle", NoLocals)

Over == at \in {"passed", "panicked", "two leaders", "disagree on term"}

Instances ==
  \E i \in Servers :
    \/ topic = "leaders" /\ (NewTerm(i) \/ Elected(i))
    \/ topic = "state" /\ \E k \in 1 .. inc[i] : Persist(i, k)
    \/ /\ topic = "log"
       /\ \E k \in 1 .. inc[i] :
            \/ ApplyUndecodable(i, k)
            \/ \E index \in 1 .. MaxIndex, e \in Entries :
                 Apply(i, k, index, e) \/ ApplyPanics(i, k, index, e)

AboutLog ==
  \/ \E e \in Entries, need \in Servers, retry \in BOOLEAN : OneBegin(e, need, retry)
  \/ \E index \in 1 .. MaxIndex : OneSubmit(index)
  \/ OneReturn \/ OneRetry \/ OnePanics \/ EndTest

Wait ==
  \/ \E index \in 1 .. MaxIndex, need \in Servers, t \in 1 .. MaxTerm : WaitBegin(index, need, t)
  \/ WaitReturn \/ WaitNone \/ WaitPanics \/ Used

AboutLeaders ==
  \/ CheckOneLeader \/ ReadTerm \/ ReadLeader \/ LeaderVerdict
  \/ CheckTerms \/ CheckTerm \/ TermsVerdict \/ TermUsed

Next ==
  /\ \/ \E i \in Servers : Disconnect(i) \/ Connect(i) \/ Crash1(i) \/ Start1(i)
     \/ ~Over /\ Instances
     \/ topic = "log" /\ AboutLog
     \/ topic = "leaders" /\ AboutLeaders
     \/ topic # "state" /\ Wait
  /\ UNCHANGED topic

Symmetry == Permutations(Entries)

Spec == Init /\ [][Next]_vars
-----------------------------------------------------------------------------

\* After any mix of connect, disconnect, crash1 and start1 the enabled ends are
\* exactly the current ends between two connected servers: no end of an old
\* incarnation can send.
EndsMatchConnected ==
  enabled = {End(p[1], p[2]) : p \in {q \in Servers \X Servers : connected[q[1]] /\ connected[q[2]]}}

\* The recorded logs agree and have no holes, whatever the instances report, so
\* the panic inside n_committed is never reached.
StorageAgrees ==
  /\ \A index \in 1 .. MaxIndex : ~Disagree(index)
  /\ \A i \in Servers : \A index \in DOMAIN logs[i] : index = 1 \/ (index - 1) \in DOMAIN logs[i]

\* The index one() returns holds the command it submitted, and what wait()
\* returns is held, by as many servers as were asked for.
AgreementReal ==
  at = "agreed" =>
    Cardinality({i \in Holders(test.index) : logs[i][test.index] = test.cmd}) >= test.need

\* A test that reaches the end of end() has seen no two values reported for one
\* index: the panic of the apply task poisons the lock that end() takes.
PassedMeansAgreed ==
  at = "passed" => \A x, y \in reported : x[1] = y[1] => x[2] = y[2]

\* check_one_leader sees two leaders in a term of a Raft that never has two only
\* if some server changed terms between the two reads of its get_state.  If no
\* term changed meanwhile, check_terms returns the term of every connected server
\* that has one at all.
VerdictsTrue ==
  /\ at = "two leaders" => test.moved
  /\ at = "one term" /\ ~test.moved =>
       \A i \in Servers : connected[i] => term[i] \in {0, test.term}

\* While a server is down, no instance that still runs changes the state that
\* the next one will be given.
StateFrozenWhileDown ==
  [][\A i \in Servers : ~alive[i] /\ ~alive'[i] =>
       disk'[i][Len(disk'[i])] = disk[i][Len(disk[i])]]_vars
=============================================================================
