-------------------------- MODULE RaftConfigProofs --------------------------
(***************************************************************************)
(* Proofs about RaftConfig for any number of servers, incarnations,        *)
(* commands, indexes and terms: which ends can send, what the storage      *)
(* holds, what a test that passed has seen, that the state of a server     *)
(* that is down is out of reach of its old instances, that agreements are  *)
(* real and that the verdicts about leaders and terms are true.            *)
(***************************************************************************)
EXTENDS RaftConfig, TLAPS

\* Types of what the proofs speak about.
Types ==
  /\ inc \in [Servers -> Nat]
  /\ alive \in [Servers -> BOOLEAN]
  /\ connected \in [Servers -> BOOLEAN]
  /\ DOMAIN logs = Servers

-----------------------------------------------------------------------------
\* A step that asks the instances something, or answers, or an election.
Asks ==
  /\ UNCHANGED <<net, storage>>
  /\ at' = "passed" => at = "passed" \/ ~poisoned

\* What a step can be.
LEMMA Steps ==
  ASSUME [Next]_vars
  PROVE  \/ \E i \in Servers : Disconnect(i) \/ Connect(i) \/ Crash1(i) \/ Start1(i)
         \/ \E i \in Servers : \E k \in 1 .. inc[i] : Persist(i, k)
         \/ at # "passed" /\ \E i \in Servers : \E k \in 1 .. inc[i] :
              \/ ApplyUndecodable(i, k)
              \/ \E index \in 1 .. MaxIndex, e \in Entries :
                   Apply(i, k, index, e) \/ ApplyPanics(i, k, index, e)
         \/ Asks
<1>1. CASE UNCHANGED vars
    BY <1>1 DEF vars, thread, Asks
<1>2. ASSUME NEW i \in Servers, NewTerm(i) \/ Elected(i)
      PROVE  Asks
    BY ZenonT(40), <1>2 DEF NewTerm, Elected, Asks, thread
<1>3. CASE AboutLog
    <2>1. \A where, locals : Goes(where, locals) /\ where # "passed" => Asks
        BY DEF Goes, Asks
    <2>2. CASE EndTest
        BY <2>2 DEF EndTest, Fails, Goes, Asks
    <2> QED BY ZenonT(40), <1>3, <2>1, <2>2 DEF AboutLog, OneBegin, OneSubmit, OneReturn, OneRetry, OnePanics,
                                    Fails
<1>4. CASE Wait
    <2>1. \A where, locals : Goes(where, locals) /\ where # "passed" => Asks
        BY DEF Goes, Asks
    <2> QED BY ZenonT(40), <1>4, <2>1 DEF Wait, WaitBegin, WaitReturn, WaitNone, WaitPanics, Used, Fails
<1>5. CASE AboutLeaders
    <2>1. \A where, locals : Goes(where, locals) /\ where # "passed" => Asks
        BY DEF Goes, Asks
    <2>2. CASE CheckOneLeader \/ CheckTerms \/ TermsVerdict \/ TermUsed \/ LeaderVerdict
        BY <2>1, <2>2 DEF CheckOneLeader, CheckTerms, TermsVerdict, TermUsed, LeaderVerdict, Fails
    <2>3. CASE ReadTerm \/ ReadLeader \/ CheckTerm
        BY <2>1, <2>3 DEF ReadTerm, ReadLeader, CheckTerm, Fails
    <2> QED BY <1>5, <2>2, <2>3 DEF AboutLeaders
<1> QED BY ZenonT(40), <1>1, <1>2, <1>3, <1>4, <1>5 DEF Next, Instances, Over

LEMMA TypesInvariant == Spec => []Types
<1>1. Init => Types
    BY DEF Init, Types
<1>2. ASSUME Types, [Next]_vars
      PROVE  Types'
    <2>1. ASSUME NEW i \in Servers, Disconnect(i) \/ Connect(i) \/ Crash1(i) \/ Start1(i)
          PROVE  Types'
        <3>1. logs' = logs
            BY <2>1 DEF Disconnect, Connect, Crash1, Start1, storage
        <3>2. connected' \in [Servers -> BOOLEAN]
            BY ZenonT(40), <1>2, <2>1 DEF Disconnect, Connect, Crash1, Start1, Types
        <3>3. alive' \in [Servers -> BOOLEAN]
            BY ZenonT(40), <1>2, <2>1 DEF Disconnect, Connect, Crash1, Start1, Types
        <3>4. inc' \in [Servers -> Nat]
            BY <1>2, <2>1 DEF Disconnect, Connect, Crash1, Start1, Types
        <3> QED BY <1>2, <3>1, <3>2, <3>3, <3>4 DEF Types
    <2>2. ASSUME NEW i \in Servers, NEW k \in 1 .. inc[i],
                 Persist(i, k) \/ ApplyUndecodable(i, k)
                 \/ \E index \in 1 .. MaxIndex, e \in Entries : ApplyPanics(i, k, index, e)
          PROVE  Types'
        BY <1>2, <2>2 DEF Persist, ApplyUndecodable, ApplyPanics, net, storage, Types
    <2>3. ASSUME NEW i \in Servers, NEW k \in 1 .. inc[i], NEW index \in 1 .. MaxIndex,
                 NEW e \in Entries, Apply(i, k, index, e)
          PROVE  Types'
        <3>1. UNCHANGED <<inc, alive, connected>> /\ DOMAIN logs' = DOMAIN logs
            BY <2>3 DEF Apply, net
        <3> QED BY <1>2, <3>1 DEF Types
    <2>4. CASE Asks
        BY <1>2, <2>4 DEF Asks, net, storage, Types
    <2> QED BY <1>2, <2>1, <2>2, <2>3, <2>4, Steps
<1> QED BY <1>1, <1>2, PTL DEF Spec

-----------------------------------------------------------------------------
\* EndsMatchConnected, one end at a time.
Ends == \A e : e \in enabled <=> \E a, b \in Servers : connected[a] /\ connected[b] /\ e = End(a, b)

LEMMA EndsAreEnds == Ends <=> EndsMatchConnected
<1> DEFINE Attached == {q \in Servers \X Servers : connected[q[1]] /\ connected[q[2]]}
           All == {End(p[1], p[2]) : p \in Attached}
<1>1. \A e : e \in All <=> \E a, b \in Servers : connected[a] /\ connected[b] /\ e = End(a, b)
    <2>1. ASSUME NEW e, e \in All
          PROVE  \E a, b \in Servers : connected[a] /\ connected[b] /\ e = End(a, b)
        <3>1. PICK p \in Attached : e = End(p[1], p[2])
            BY <2>1
        <3> QED BY <3>1
    <2>2. ASSUME NEW a \in Servers, NEW b \in Servers, connected[a], connected[b]
          PROVE  End(a, b) \in All
        <3>1. <<a, b>> \in Attached /\ <<a, b>>[1] = a /\ <<a, b>>[2] = b
            BY <2>2
        <3> QED BY <3>1
    <2> QED BY <2>1, <2>2
<1>2. EndsMatchConnected <=> enabled = All
    BY DEF EndsMatchConnected
<1> QED BY ZenonT(40), <1>1, <1>2 DEF Ends

\* The steps that cut a server off leave the ends of the others.
LEMMA CutOff ==
  ASSUME Types, Ends, NEW i \in Servers, enabled' = enabled \ EndsOf(i),
         connected' = [connected EXCEPT ![i] = FALSE],
         \A j \in Servers \ {i} : inc'[j] = inc[j]
  PROVE  Ends'
<1>1. /\ ~connected'[i] /\ \A j \in Servers \ {i} : connected'[j] = connected[j]
    BY DEF Types
<1>2. ASSUME NEW e, e \in enabled'
      PROVE  \E a, b \in Servers : connected'[a] /\ connected'[b] /\ e = <<a, inc'[a], b>>
    <2>1. PICK a, b \in Servers : connected[a] /\ connected[b] /\ e = <<a, inc[a], b>>
        BY <1>2 DEF Ends, End
    <2>2. a # i /\ b # i
        BY <1>2, <2>1 DEF EndsOf, End
    <2> QED BY <1>1, <2>1, <2>2
<1>3. ASSUME NEW a \in Servers, NEW b \in Servers, connected'[a], connected'[b]
      PROVE  <<a, inc'[a], b>> \in enabled'
    <2>1. a # i /\ b # i /\ connected[a] /\ connected[b] /\ inc'[a] = inc[a]
        BY <1>1, <1>3
    <2>2. <<a, inc[a], b>> \in enabled
        BY <2>1 DEF Ends, End
    <2>3. <<a, inc[a], b>> \notin EndsOf(i)
        BY <2>1 DEF EndsOf, End
    <2> QED BY <2>1, <2>2, <2>3
<1> QED BY <1>2, <1>3 DEF Ends, End

LEMMA ConnectEnds ==
  ASSUME Types, Ends, NEW i \in Servers, Connect(i)
  PROVE  Ends'
<1> DEFINE on == [connected EXCEPT ![i] = TRUE]
<1>1. /\ connected' = on /\ inc' = inc
      /\ enabled' = enabled \cup {End(i, j) : j \in {s \in Servers : on[s]}}
                            \cup {End(j, i) : j \in {s \in Servers : on[s]}}
    BY DEF Connect
<1>2. on[i] /\ \A j \in Servers \ {i} : on[j] = connected[j]
    BY DEF Types
<1> HIDE DEF on
<1>3. ASSUME NEW e
      PROVE  e \in enabled' <=> \E a, b \in Servers : on[a] /\ on[b] /\ e = End(a, b)
    <2>1. e \in enabled <=> \E a, b \in Servers : connected[a] /\ connected[b] /\ e = End(a, b)
        BY DEF Ends
    <2>2. e \in enabled' <=> \/ e \in enabled
                             \/ \E b \in Servers : on[b] /\ (e = End(i, b) \/ e = End(b, i))
        BY <1>1
    <2> QED BY <1>2, <2>1, <2>2
<1> QED BY <1>1, <1>3 DEF Ends, End

\* connect, disconnect, crash1 and start1 enable and disable ends one by one, over
\* tables of ends that start1 replaces: whatever their order, an end can send
\* exactly if it is a current end between two connected servers.
THEOREM OnlyCurrentEndsSend == Spec => []EndsMatchConnected
<1>1. Init => Ends
    BY DEF Init, Ends, End
<1>2. ASSUME Types, Ends, [Next]_vars
      PROVE  Ends'
    <2>1. ASSUME NEW i \in Servers, Disconnect(i) \/ Crash1(i) \/ Start1(i)
          PROVE  Ends'
        <3>1. /\ enabled' = enabled \ EndsOf(i) /\ connected' = [connected EXCEPT ![i] = FALSE]
              /\ \A j \in Servers \ {i} : inc'[j] = inc[j]
            BY <1>2, <2>1 DEF Disconnect, Crash1, Start1, Types
        <3> QED BY ZenonT(40), <1>2, <3>1, CutOff
    <2>2. ASSUME NEW i \in Servers, Connect(i)
          PROVE  Ends'
        BY <1>2, <2>2, ConnectEnds
    <2>3. ASSUME UNCHANGED <<enabled, connected, inc>>
          PROVE  Ends'
        BY <1>2, <2>3 DEF Ends, End
    <2>4. ASSUME NEW i \in Servers, NEW k \in 1 .. inc[i],
                 Persist(i, k) \/ ApplyUndecodable(i, k)
                 \/ \E index \in 1 .. MaxIndex, e \in Entries :
                      Apply(i, k, index, e) \/ ApplyPanics(i, k, index, e)
          PROVE  Ends'
        BY <2>3, <2>4 DEF Persist, ApplyUndecodable, Apply, ApplyPanics, net
    <2>5. CASE Asks
        BY <2>3, <2>5 DEF Asks, net
    <2> QED BY <1>2, <2>1, <2>2, <2>4, <2>5, Steps
<1> QED BY <1>1, <1>2, TypesInvariant, EndsAreEnds, PTL DEF Spec

-----------------------------------------------------------------------------
\* Two logs never differ.
Agree == \A a, b \in Servers : \A x \in DOMAIN logs[a] \cap DOMAIN logs[b] : logs[a][x] = logs[b][x]

NoHoles == \A a \in Servers : \A x \in DOMAIN logs[a] : x = 1 \/ (x - 1) \in DOMAIN logs[a]

\* Until a report is refused, every report is in some log.
Recorded ==
  ~poisoned => \A r \in reported : \E a \in Servers : r[1] \in DOMAIN logs[a] /\ logs[a][r[1]] = r[2]

LogsOK == Agree /\ NoHoles /\ Recorded

\* A commit that is not refused agrees with every log and extends its own.
LEMMA ApplyLogs ==
  ASSUME Types, LogsOK, NEW i \in Servers, NEW k, NEW index \in 1 .. MaxIndex, NEW e \in Entries,
         Apply(i, k, index, e)
  PROVE  LogsOK'
<1>1. /\ logs' = [logs EXCEPT ![i] = Put(logs[i], index, e)]
      /\ reported' = reported \cup {<<index, e>>} /\ poisoned' = poisoned
    BY DEF Apply
<1>2. /\ \A a \in Servers : index \in DOMAIN logs[a] => logs[a][index] = e
      /\ index > 1 => (index - 1) \in DOMAIN logs[i]
    BY DEF Apply, Conflicts, OutOfOrder
<1>3. /\ DOMAIN logs'[i] = DOMAIN logs[i] \cup {index} /\ logs'[i][index] = e
      /\ \A x \in DOMAIN logs[i] : logs'[i][x] = logs[i][x]
      /\ \A a \in Servers \ {i} : logs'[a] = logs[a]
    <2>1. logs'[i] = Put(logs[i], index, e) /\ \A a \in Servers \ {i} : logs'[a] = logs[a]
        BY <1>1 DEF Types
    <2> QED BY <1>2, <2>1 DEF Put
<1>4. Agree'
    BY <1>2, <1>3 DEF LogsOK, Agree
<1>5. NoHoles'
    <2>1. ASSUME NEW a \in Servers, NEW x \in DOMAIN logs'[a]
          PROVE  x = 1 \/ (x - 1) \in DOMAIN logs'[a]
        <3>1. CASE a # i
            BY <1>3, <3>1 DEF LogsOK, NoHoles
        <3>2. CASE a = i /\ x = index
            BY <1>2, <1>3, <3>2
        <3>3. CASE a = i /\ x # index
            BY <1>3, <3>3 DEF LogsOK, NoHoles
        <3> QED BY <3>1, <3>2, <3>3
    <2> QED BY <2>1 DEF NoHoles
<1>6. Recorded'
    <2>1. ASSUME ~poisoned, NEW r \in reported
          PROVE  \E a \in Servers : r[1] \in DOMAIN logs'[a] /\ logs'[a][r[1]] = r[2]
        <3>1. PICK a \in Servers : r[1] \in DOMAIN logs[a] /\ logs[a][r[1]] = r[2]
            BY <2>1 DEF LogsOK, Recorded
        <3>2. CASE a = i
            BY <1>3, <3>1, <3>2
        <3>3. CASE a # i
            BY <1>3, <3>1, <3>3
        <3> QED BY <3>2, <3>3
    <2>2. <<index, e>>[1] \in DOMAIN logs'[i] /\ logs'[i][<<index, e>>[1]] = <<index, e>>[2]
        BY <1>3
    <2> QED BY <1>1, <2>1, <2>2 DEF Recorded
<1> QED BY <1>4, <1>5, <1>6 DEF LogsOK

LEMMA LogsInvariant == Spec => []LogsOK
<1>1. Init => LogsOK
    BY DEF Init, LogsOK, Agree, NoHoles, Recorded
<1>2. ASSUME Types, LogsOK, [Next]_vars
      PROVE  LogsOK'
    <2>1. ASSUME UNCHANGED logs,
                 UNCHANGED <<poisoned, reported>> \/ poisoned'
          PROVE  LogsOK'
        BY <1>2, <2>1 DEF LogsOK, Agree, NoHoles, Recorded
    <2>2. ASSUME NEW i \in Servers, Disconnect(i) \/ Connect(i) \/ Crash1(i) \/ Start1(i)
          PROVE  LogsOK'
        BY <2>1, <2>2 DEF Disconnect, Connect, Crash1, Start1, storage
    <2>3. ASSUME NEW i \in Servers, NEW k \in 1 .. inc[i],
                 Persist(i, k) \/ ApplyUndecodable(i, k)
                 \/ \E index \in 1 .. MaxIndex, e \in Entries : ApplyPanics(i, k, index, e)
          PROVE  LogsOK'
        BY <2>1, <2>3 DEF Persist, ApplyUndecodable, ApplyPanics, storage
    <2>4. ASSUME NEW i \in Servers, NEW k \in 1 .. inc[i], NEW index \in 1 .. MaxIndex,
                 NEW e \in Entries, Apply(i, k, index, e)
          PROVE  LogsOK'
        BY <1>2, <2>4, ApplyLogs
    <2>5. CASE Asks
        BY <2>1, <2>5 DEF Asks, storage
    <2> QED BY <1>2, <2>2, <2>3, <2>4, <2>5, Steps
<1> QED BY <1>1, <1>2, TypesInvariant, PTL DEF Spec

\* Whatever the instances of any number of servers report, in whatever order and
\* from however many incarnations, the storage agrees and has no holes: the check
\* is made against every log in the critical section that inserts.
THEOREM StorageAlwaysAgrees == Spec => []StorageAgrees
<1>1. LogsOK => StorageAgrees
    BY DEF LogsOK, Agree, NoHoles, StorageAgrees, Disagree, Holders
<1> QED BY <1>1, LogsInvariant, PTL

\* A report that is refused poisons the lock that end() takes, so a test that
\* passed has seen no two values for one index.
THEOREM PassedTestsAgreed == Spec => []PassedMeansAgreed
<1>1. Init => PassedMeansAgreed
    BY DEF Init, PassedMeansAgreed
<1>2. ASSUME LogsOK, PassedMeansAgreed, [Next]_vars
      PROVE  PassedMeansAgreed'
    <2>1. ~poisoned => \A x, y \in reported : x[1] = y[1] => x[2] = y[2]
        BY <1>2 DEF LogsOK, Agree, Recorded
    <2>2. CASE Asks
        BY <1>2, <2>1, <2>2 DEF Asks, storage, PassedMeansAgreed
    <2>3. ASSUME NEW i \in Servers, Disconnect(i) \/ Connect(i) \/ Crash1(i) \/ Start1(i)
          PROVE  PassedMeansAgreed'
        BY <1>2, <2>3 DEF Disconnect, Connect, Crash1, Start1, storage, thread, PassedMeansAgreed
    <2>4. ASSUME NEW i \in Servers, NEW k \in 1 .. inc[i], Persist(i, k)
          PROVE  PassedMeansAgreed'
        BY <1>2, <2>4 DEF Persist, storage, thread, PassedMeansAgreed
    <2>5. ASSUME at # "passed", NEW i \in Servers, NEW k \in 1 .. inc[i],
                 \/ ApplyUndecodable(i, k)
                 \/ \E index \in 1 .. MaxIndex, e \in Entries :
                      Apply(i, k, index, e) \/ ApplyPanics(i, k, index, e)
          PROVE  PassedMeansAgreed'
        BY <2>5 DEF ApplyUndecodable, Apply, ApplyPanics, thread, PassedMeansAgreed
    <2> QED BY <1>2, <2>2, <2>3, <2>4, <2>5, Steps
<1> QED BY <1>1, <1>2, LogsInvariant, PTL DEF Spec

-----------------------------------------------------------------------------
\* The last persister is what the next incarnation gets a copy of, and no
\* incarnation of a server that is down writes to it.
Persisters ==
  /\ disk \in [Servers -> Seq({0, 1})]
  /\ mine \in [Servers -> Seq(Nat)]
  /\ \A i \in Servers :
       /\ Len(disk[i]) > 0
       /\ Len(mine[i]) = inc[i]
       /\ \A k \in 1 .. inc[i] :
            /\ mine[i][k] \in 1 .. Len(disk[i])
            /\ ~alive[i] => mine[i][k] < Len(disk[i])

\* crash1 copies the last persister to a new one.
LEMMA Copied ==
  ASSUME Persisters, NEW i \in Servers, disk' = FreshPersister(i)
  PROVE  /\ disk' \in [Servers -> Seq({0, 1})]
         /\ Len(disk'[i]) = Len(disk[i]) + 1
         /\ disk'[i][Len(disk'[i])] = disk[i][Len(disk[i])]
         /\ \A j \in Servers \ {i} : disk'[j] = disk[j]
<1>1. disk[i] \in Seq({0, 1}) /\ Len(disk[i]) > 0
    BY DEF Persisters
<1>2. disk[i][Len(disk[i])] \in {0, 1}
    BY <1>1
<1>3. /\ disk' = [disk EXCEPT ![i] = Append(disk[i], disk[i][Len(disk[i])])]
    BY DEF FreshPersister
<1>4. Append(disk[i], disk[i][Len(disk[i])]) \in Seq({0, 1})
    BY <1>1, <1>2
<1>5. disk'[i] = Append(disk[i], disk[i][Len(disk[i])]) /\ \A j \in Servers \ {i} : disk'[j] = disk[j]
    BY <1>3 DEF Persisters
<1>6. disk' \in [Servers -> Seq({0, 1})]
    BY ZenonT(40), <1>3, <1>4 DEF Persisters
<1> QED BY <1>1, <1>2, <1>5, <1>6

\* An instance writes to the persister it was given.
LEMMA Written ==
  ASSUME Types, Persisters, NEW i \in Servers, NEW k \in 1 .. inc[i], Persist(i, k)
  PROVE  /\ disk' \in [Servers -> Seq({0, 1})]
         /\ \A j \in Servers : Len(disk'[j]) = Len(disk[j])
         /\ ~alive[i] => disk'[i][Len(disk'[i])] = disk[i][Len(disk[i])]
         /\ \A j \in Servers \ {i} : disk'[j] = disk[j]
<1>1. PICK v \in 0 .. 1 : disk' = [disk EXCEPT ![i] = [disk[i] EXCEPT ![mine[i][k]] = v]]
    BY ZenonT(40) DEF Persist
<1>2. /\ disk[i] \in Seq({0, 1}) /\ mine[i][k] \in 1 .. Len(disk[i]) /\ v \in {0, 1}
      /\ ~alive[i] => mine[i][k] < Len(disk[i])
    BY DEF Persisters
<1>3. disk'[i] = [disk[i] EXCEPT ![mine[i][k]] = v] /\ \A j \in Servers \ {i} : disk'[j] = disk[j]
    BY <1>1 DEF Persisters
<1>4. [disk[i] EXCEPT ![mine[i][k]] = v] \in Seq({0, 1}) /\ Len([disk[i] EXCEPT ![mine[i][k]] = v]) = Len(disk[i])
    BY <1>2
<1>5. disk' \in [Servers -> Seq({0, 1})]
    BY <1>1, <1>4 DEF Persisters
<1>6. ~alive[i] => disk'[i][Len(disk'[i])] = disk[i][Len(disk[i])]
    BY <1>2, <1>3, <1>4
<1> QED BY ZenonT(40), <1>3, <1>4, <1>5, <1>6

LEMMA PersistersInvariant == Spec => []Persisters
<1>1. Init => Persisters
    BY DEF Init, Persisters
<1>2. ASSUME Types, Persisters, [Next]_vars
      PROVE  Persisters'
    <2>1. ASSUME UNCHANGED <<disk, mine, inc, alive>>
          PROVE  Persisters'
        BY ZenonT(40), <1>2, <2>1 DEF Persisters
    <2>2. ASSUME NEW i \in Servers, Crash1(i)
          PROVE  Persisters'
        BY <1>2, <2>2, Copied DEF Crash1, Types, Persisters
    <2>3. ASSUME NEW i \in Servers, Start1(i)
          PROVE  Persisters'
        <3>1. /\ inc[i] \in Nat /\ mine[i] \in Seq(Nat) /\ disk[i] \in Seq({0, 1})
              /\ Len(mine[i]) = inc[i]
            BY ZenonT(40), <1>2 DEF Types, Persisters
        <3>2. /\ inc'[i] = inc[i] + 1 /\ mine'[i] = Append(mine[i], Len(disk'[i])) /\ alive'[i]
              /\ \A j \in Servers \ {i} : inc'[j] = inc[j] /\ mine'[j] = mine[j] /\ alive'[j] = alive[j]
            BY ZenonT(40), <1>2, <2>3 DEF Start1, Types, Persisters
        <3>3. /\ disk' \in [Servers -> Seq({0, 1})] /\ Len(disk'[i]) = Len(disk[i]) + 1
              /\ \A j \in Servers \ {i} : disk'[j] = disk[j]
            BY <1>2, <2>3, Copied DEF Start1
        <3>4. Len(disk'[i]) \in Nat /\ Append(mine[i], Len(disk'[i])) \in Seq(Nat)
            BY <3>1, <3>3
        <3>5. mine' \in [Servers -> Seq(Nat)]
            BY <1>2, <2>3, <3>4 DEF Start1, Persisters
        <3>6. \A k \in 1 .. inc'[i] : mine'[i][k] \in 1 .. Len(disk'[i])
            <4>1. ASSUME NEW k \in 1 .. inc[i]
                  PROVE  mine'[i][k] \in 1 .. Len(disk'[i])
                BY <1>2, <3>1, <3>2, <3>3 DEF Persisters
            <4>2. mine'[i][inc[i] + 1] \in 1 .. Len(disk'[i])
                BY <1>2, <3>1, <3>2, <3>3 DEF Persisters
            <4> QED BY <3>1, <3>2, <4>1, <4>2
        <3>7. Len(mine'[i]) = inc'[i] /\ Len(disk'[i]) > 0
            BY <1>2, <3>1, <3>2, <3>3 DEF Persisters
        <3> QED BY ZenonT(40), <1>2, <3>2, <3>3, <3>5, <3>6, <3>7 DEF Persisters
    <2>4. ASSUME NEW i \in Servers, NEW k \in 1 .. inc[i], Persist(i, k)
          PROVE  Persisters'
        BY ZenonT(40), <1>2, <2>4, Written DEF Persist, Persisters
    <2>5. ASSUME NEW i \in Servers, NEW k \in 1 .. inc[i],
                 \/ ApplyUndecodable(i, k)
                 \/ \E index \in 1 .. MaxIndex, e \in Entries :
                      Apply(i, k, index, e) \/ ApplyPanics(i, k, index, e)
          PROVE  Persisters'
        BY ZenonT(40), <2>1, <2>5 DEF ApplyUndecodable, Apply, ApplyPanics, net
    <2>6. ASSUME NEW i \in Servers, Disconnect(i) \/ Connect(i)
          PROVE  Persisters'
        BY <2>1, <2>6 DEF Disconnect, Connect
    <2>7. CASE Asks
        BY ZenonT(40), <2>1, <2>7 DEF Asks, net
    <2> QED BY ZenonT(40), <1>2, <2>2, <2>3, <2>4, <2>5, <2>6, <2>7, Steps
<1> QED BY <1>1, <1>2, TypesInvariant, PTL DEF Spec

\* crash1 gives the old instance's persister up for a copy, so instances that go
\* on running after kill() cannot change what the next incarnation will read.
THEOREM DownStateFrozen == Spec => StateFrozenWhileDown
<1> DEFINE Frozen == \A i \in Servers : ~alive[i] /\ ~alive'[i] =>
                        disk'[i][Len(disk'[i])] = disk[i][Len(disk[i])]
<1>1. ASSUME Types, Persisters, [Next]_vars
      PROVE  Frozen
    <2>1. ASSUME NEW i \in Servers, Crash1(i) \/ Start1(i)
          PROVE  Frozen
        BY ZenonT(40), <1>1, <2>1, Copied DEF Crash1, Start1
    <2>2. ASSUME NEW i \in Servers, NEW k \in 1 .. inc[i], Persist(i, k)
          PROVE  Frozen
        BY <1>1, <2>2, Written
    <2>3. ASSUME disk' = disk
          PROVE  Frozen
        BY ZenonT(40), <2>3
    <2>4. ASSUME NEW i \in Servers, NEW k \in 1 .. inc[i],
                 \/ ApplyUndecodable(i, k)
                 \/ \E index \in 1 .. MaxIndex, e \in Entries :
                      Apply(i, k, index, e) \/ ApplyPanics(i, k, index, e)
          PROVE  Frozen
        BY ZenonT(40), <2>3, <2>4 DEF ApplyUndecodable, Apply, ApplyPanics, net
    <2>5. ASSUME NEW i \in Servers, Disconnect(i) \/ Connect(i)
          PROVE  Frozen
        BY ZenonT(40), <2>3, <2>5 DEF Disconnect, Connect
    <2>6. CASE Asks
        BY <2>3, <2>6 DEF Asks, net
    <2> QED BY ZenonT(40), <1>1, <2>1, <2>2, <2>4, <2>5, <2>6, Steps
<1>2. Types /\ Persisters /\ [Next]_vars => [Frozen]_vars
    BY <1>1
<1> QED BY <1>2, TypesInvariant, PersistersInvariant, PTL DEF Spec, StateFrozenWhileDown

-----------------------------------------------------------------------------
\* The locals of the test.
Locals ==
  [index : Nat, cmd : Entries \cup {0}, need : Nat, retry : BOOLEAN, j : 1 .. N + 1,
   term : Nat, leaders : SUBSET (Nat \X Servers), moved : BOOLEAN]

\* Types of the thread and of what it asks for.
ThreadTypes ==
  /\ test \in Locals
  /\ at = "leads" => test.j <= N
  /\ \A i \in Servers : \A x \in DOMAIN logs[i] : logs[i][x] \in Entries
  /\ term \in [Servers -> 0 .. MaxTerm]
  /\ leader \in [Servers -> BOOLEAN]
  /\ leaderOf \in [1 .. MaxTerm -> 0 .. N]

\* A server that leads was elected in its term.
Elections == \A i \in Servers : leader[i] => term[i] \in 1 .. MaxTerm /\ leaderOf[term[i]] = i

\* Who was elected leads, says a check that read each state at one moment.
LeadersSeen(ls) == \A x \in ls : x[1] \in 1 .. MaxTerm /\ leaderOf[x[1]] = x[2]

\* The connected servers below j are in the term t or in none.
TermsSeen(j, t) == \A i \in Servers : i < j /\ connected[i] => term[i] \in {0, t}

\* VerdictsTrue, and what it rests on while the checks run.
Verdicts ==
  /\ ThreadTypes
  /\ Elections
  /\ at \in {"term", "leads"} /\ ~test.moved => LeadersSeen(test.leaders)
  /\ at = "one term" => test.j = N + 1
  /\ at \in {"terms", "one term"} /\ ~test.moved => TermsSeen(test.j, test.term)
  /\ at = "two leaders" => test.moved

\* The locals of a fresh check.
LEMMA FreshLocals ==
  NoLocals \in Locals /\ ~NoLocals.moved /\ NoLocals.leaders = {} /\ NoLocals.j = 1
BY ConstantsAssumption DEF ConstantsAssumption, NoLocals, Locals

\* The test thread goes on.
LEMMA GoesOn ==
  ASSUME Verdicts, NEW where, NEW locals \in Locals, Goes(where, locals),
         where = "leads" => locals.j <= N,
         where \in {"term", "leads"} /\ ~locals.moved => LeadersSeen(locals.leaders),
         where = "one term" => locals.j = N + 1,
         where \in {"terms", "one term"} /\ ~locals.moved => TermsSeen(locals.j, locals.term),
         where = "two leaders" => locals.moved
  PROVE  Verdicts'
<1>1. /\ at' = where /\ test' = locals
      /\ UNCHANGED <<connected, logs, term, leader, leaderOf>>
    BY DEF Goes, net, storage, raft
<1>2. ThreadTypes' /\ Elections'
    BY ZenonT(40), <1>1 DEF Verdicts, ThreadTypes, Elections
<1>3. \A ls : LeadersSeen(ls)' <=> LeadersSeen(ls)
    BY <1>1 DEF LeadersSeen
<1>4. \A j, t : TermsSeen(j, t)' <=> TermsSeen(j, t)
    BY <1>1 DEF TermsSeen
<1> QED BY ZenonT(40), <1>1, <1>2, <1>3, <1>4 DEF Verdicts

\* What the types say of the thread.
LEMMA ThreadFacts ==
  ASSUME Verdicts
  PROVE  /\ N \in Nat /\ test \in Locals /\ test.j \in 1 .. N + 1 /\ test.moved \in BOOLEAN
         /\ test.j <= N => test.j \in Servers /\ test.j + 1 \in 1 .. N + 1
         /\ test.leaders \in SUBSET (Nat \X Servers) /\ test.term \in Nat
         /\ term \in [Servers -> Nat]
<1>1. test \in Locals /\ term \in [Servers -> 0 .. MaxTerm] /\ N \in Nat /\ MaxTerm \in Nat
    BY ConstantsAssumption DEF ConstantsAssumption, Verdicts, ThreadTypes
<1>2. /\ test.j \in 1 .. N + 1 /\ test.moved \in BOOLEAN
      /\ test.leaders \in SUBSET (Nat \X Servers) /\ test.term \in Nat
    BY <1>1 DEF Locals
<1>3. test.j <= N => test.j \in Servers /\ test.j + 1 \in 1 .. N + 1
    BY <1>1, <1>2 DEF Servers
<1>4. term \in [Servers -> Nat]
    BY <1>1
<1> QED BY ZenonT(40), <1>1, <1>2, <1>3, <1>4

\* The checks that visit the servers.
LEMMA LeaderVerdicts ==
  ASSUME Verdicts, AboutLeaders
  PROVE  Verdicts'
<1>0. /\ N \in Nat /\ test \in Locals /\ test.j \in 1 .. N + 1 /\ test.moved \in BOOLEAN
      /\ test.j <= N => test.j \in Servers /\ test.j + 1 \in 1 .. N + 1
      /\ test.leaders \in SUBSET (Nat \X Servers) /\ test.term \in Nat
    BY ThreadFacts
<1>1. \A i \in Servers : term[i] \in Nat
    BY ThreadFacts
<1>2. ASSUME NEW where \in {"idle", "panicked", "disagree on term"}, NEW locals \in Locals,
             Goes(where, locals)
      PROVE  Verdicts'
    BY <1>2, GoesOn
<1>3. ASSUME Goes("term", NoLocals) \/ Goes("terms", NoLocals)
      PROVE  Verdicts'
    <2>1. LeadersSeen({}) /\ TermsSeen(1, NoLocals.term)
        BY <1>0 DEF LeadersSeen, TermsSeen, Servers
    <2> QED BY ZenonT(40), <1>3, <2>1, FreshLocals, GoesOn
<1>4. CASE ReadTerm
    <2>1. CASE Goes("term", [test EXCEPT !.j = @ + 1]) /\ test.j <= N
        <3>1. /\ [test EXCEPT !.j = @ + 1] \in Locals
              /\ [test EXCEPT !.j = @ + 1].leaders = test.leaders
              /\ [test EXCEPT !.j = @ + 1].moved = test.moved
            BY <1>0, <2>1 DEF Locals
        <3> QED BY <1>4, <2>1, <3>1, GoesOn DEF ReadTerm, Verdicts
    <2>2. CASE Goes("leads", [test EXCEPT !.term = term[test.j]]) /\ test.j <= N
        <3>1. /\ [test EXCEPT !.term = term[test.j]] \in Locals
              /\ [test EXCEPT !.term = term[test.j]].leaders = test.leaders
              /\ [test EXCEPT !.term = term[test.j]].moved = test.moved
              /\ [test EXCEPT !.term = term[test.j]].j = test.j
            BY ZenonT(40), <1>0, <1>1, <2>2 DEF Locals
        <3> QED BY <1>4, <2>2, <3>1, GoesOn DEF ReadTerm, Verdicts
    <2> QED BY <1>4, <2>1, <2>2 DEF ReadTerm
<1>5. CASE ReadLeader
    <2> DEFINE ls == IF leader[test.j] THEN test.leaders \cup {<<test.term, test.j>>}
                     ELSE test.leaders
               mv == test.moved \/ term[test.j] # test.term
               l == [test EXCEPT !.j = @ + 1, !.moved = @ \/ term[test.j] # test.term,
                       !.leaders = IF leader[test.j] THEN @ \cup {<<test.term, test.j>>} ELSE @]
    <2>1. at = "leads" /\ Goes("term", l) /\ test.j \in Servers /\ test.j + 1 \in 1 .. N + 1
        BY <1>0, <1>5 DEF ReadLeader, Verdicts, ThreadTypes
    <2>2. ls \in SUBSET (Nat \X Servers) /\ mv \in BOOLEAN
        BY <1>0, <2>1
    <2>3. l \in Locals /\ l.leaders = ls /\ l.moved = mv
        BY ZenonT(40), <1>0, <2>1, <2>2 DEF Locals
    <2>4. ~mv => LeadersSeen(ls)
        BY <2>1 DEF Verdicts, Elections, LeadersSeen
    <2> HIDE DEF l, ls, mv
    <2> QED BY <2>1, <2>3, <2>4, GoesOn
<1>6. CASE LeaderVerdict
    <2>1. TwoLeaders(test.leaders) => test.moved
        <3>1. ~test.moved => LeadersSeen(test.leaders)
            BY ZenonT(40), <1>6 DEF LeaderVerdict, Verdicts
        <3>2. \A x, y \in test.leaders : x[1] = y[1] /\ x[2] = y[2] => x = y
            BY <1>0
        <3> QED BY <3>1, <3>2 DEF LeadersSeen, TwoLeaders
    <2>2. CASE Goes("two leaders", test) /\ TwoLeaders(test.leaders)
        BY <1>0, <2>1, <2>2, GoesOn
    <2> QED BY ZenonT(40), <1>0, <1>2, <1>3, <1>6, <2>2, FreshLocals DEF LeaderVerdict, Fails
<1>7. CASE CheckTerm
    <2>0. at = "terms" /\ test.j <= N
        BY <1>7 DEF CheckTerm
    <2>1. CASE /\ Skips \/ term[test.j] = test.term
               /\ Goes("terms", [test EXCEPT !.j = @ + 1])
        <3>1. /\ [test EXCEPT !.j = @ + 1] \in Locals
              /\ [test EXCEPT !.j = @ + 1].j = test.j + 1
              /\ [test EXCEPT !.j = @ + 1].term = test.term
              /\ [test EXCEPT !.j = @ + 1].moved = test.moved
            BY ZenonT(40), <1>0, <2>0 DEF Locals
        <3>2. TermsSeen(test.j, test.term) => TermsSeen(test.j + 1, test.term)
            BY <1>0, <2>0, <2>1 DEF TermsSeen, Skips, Servers
        <3> QED BY ZenonT(40), <2>0, <2>1, <3>1, <3>2, GoesOn DEF Verdicts
    <2>2. CASE /\ test.term = 0
               /\ Goes("terms", [test EXCEPT !.j = @ + 1, !.term = term[test.j]])
        <3> DEFINE l == [test EXCEPT !.j = @ + 1, !.term = term[test.j]]
        <3>1. l \in Locals /\ l.j = test.j + 1 /\ l.term = term[test.j] /\ l.moved = test.moved
            BY ZenonT(40), <1>0, <1>1, <2>0 DEF Locals
        <3>2. TermsSeen(test.j, test.term) => TermsSeen(test.j + 1, term[test.j])
            BY <1>0, <2>0, <2>2 DEF TermsSeen, Servers
        <3>3. Goes("terms", l)
            BY ZenonT(40), <2>2
        <3> HIDE DEF l
        <3> QED BY <2>0, <3>1, <3>2, <3>3, GoesOn DEF Verdicts
    <2> QED BY ZenonT(40), <1>0, <1>2, <1>7, <2>0, <2>1, <2>2 DEF CheckTerm, Fails
<1>8. CASE TermsVerdict
    <2>1. at = "terms" /\ test.j = N + 1 /\ Goes("one term", test)
        <3>1. at = "terms" /\ test.j > N /\ Goes("one term", test)
            BY ZenonT(40), <1>8 DEF TermsVerdict
        <3>2. test.j > N => test.j = N + 1
            BY <1>0
        <3> QED BY <3>1, <3>2
    <2> QED BY <1>0, <2>1, GoesOn DEF Verdicts
<1> QED BY <1>2, <1>3, <1>4, <1>5, <1>6, <1>7, <1>8, FreshLocals
       DEF AboutLeaders, CheckOneLeader, CheckTerms, TermUsed

\* The elections, the instances and what the test does to the servers.
LEMMA OtherVerdicts ==
  ASSUME Types, Verdicts, NEW i \in Servers,
         \/ Disconnect(i) \/ Connect(i) \/ Crash1(i) \/ Start1(i) \/ NewTerm(i) \/ Elected(i)
         \/ \E k \in 1 .. inc[i] :
              \/ Persist(i, k) \/ ApplyUndecodable(i, k)
              \/ \E index \in 1 .. MaxIndex, e \in Entries :
                   Apply(i, k, index, e) \/ ApplyPanics(i, k, index, e)
  PROVE  Verdicts'
<1>1. CASE UNCHANGED <<connected, logs, raft, thread>>
    BY ZenonT(40), <1>1 DEF Verdicts, ThreadTypes, Elections, LeadersSeen, TermsSeen, raft, thread
<1>2. CASE Disconnect(i) \/ Connect(i) \/ Crash1(i) \/ Start1(i)
    <2>1. at = "idle" /\ UNCHANGED <<logs, term, leaderOf, thread>>
        BY ZenonT(40), <1>2 DEF Disconnect, Connect, Crash1, Start1, Running, storage, raft
    <2>2. leader' = leader \/ leader' = [leader EXCEPT ![i] = FALSE]
        BY ZenonT(40), <1>2 DEF Disconnect, Connect, Crash1, Start1, raft
    <2> QED BY ZenonT(40), <2>1, <2>2 DEF Verdicts, ThreadTypes, Elections, thread
<1>3. ASSUME NEW k \in 1 .. inc[i], NEW index \in 1 .. MaxIndex, NEW e \in Entries,
             Apply(i, k, index, e)
      PROVE  Verdicts'
    <2>1. UNCHANGED <<connected, raft, thread>> /\ logs' = [logs EXCEPT ![i] = Put(logs[i], index, e)]
        BY ZenonT(40), <1>3 DEF Apply, net
    <2>2. \A a \in Servers : \A x \in DOMAIN logs'[a] : logs'[a][x] \in Entries
        <3>1. logs'[i] = Put(logs[i], index, e) /\ \A a \in Servers \ {i} : logs'[a] = logs[a]
            BY ZenonT(40), <2>1 DEF Types
        <3>2. \A a \in Servers : \A x \in DOMAIN logs[a] : logs[a][x] \in Entries
            BY ZenonT(40) DEF Verdicts, ThreadTypes
        <3> QED BY <3>1, <3>2 DEF Put
    <2> QED BY ZenonT(40), <2>1, <2>2
        DEF Verdicts, ThreadTypes, Elections, LeadersSeen, TermsSeen, raft, thread
<1>4. CASE NewTerm(i)
    <2> DEFINE mv == test.moved \/ at \in {"terms", "one term"}
               l == [test EXCEPT !.moved = @ \/ at \in {"terms", "one term"}]
    <2>1. PICK t \in 1 .. MaxTerm : term' = [term EXCEPT ![i] = t]
        BY <1>4 DEF NewTerm
    <2>2. /\ leader' = [leader EXCEPT ![i] = FALSE] /\ test' = l /\ at' = at
          /\ UNCHANGED <<connected, logs, leaderOf>>
        BY <1>4 DEF NewTerm, net, storage
    <2>3. /\ l \in Locals /\ l.j = test.j /\ l.leaders = test.leaders /\ l.moved = mv
          /\ test.moved \in BOOLEAN
        BY ZenonT(40) DEF Verdicts, ThreadTypes, Locals
    <2> HIDE DEF l
    <2>4. /\ test' \in Locals /\ test'.j = test.j /\ test'.leaders = test.leaders
          /\ test'.moved = mv
        BY ZenonT(40), <2>2, <2>3
    <2>5. term' \in [Servers -> 0 .. MaxTerm] /\ leader' \in [Servers -> BOOLEAN] /\ ~leader'[i]
          /\ \A a \in Servers \ {i} : leader'[a] = leader[a] /\ term'[a] = term[a]
        <3>1. term \in [Servers -> 0 .. MaxTerm] /\ leader \in [Servers -> BOOLEAN]
            BY ZenonT(40) DEF Verdicts, ThreadTypes
        <3>2. t \in 0 .. MaxTerm
            BY ConstantsAssumption DEF ConstantsAssumption
        <3> QED BY <2>1, <2>2, <3>1, <3>2
    <2>6. ThreadTypes'
        BY ZenonT(40), <2>2, <2>4, <2>5 DEF Verdicts, ThreadTypes
    <2>7. Elections'
        BY ZenonT(40), <2>2, <2>5 DEF Verdicts, Elections
    <2> QED BY ZenonT(40), <2>2, <2>4, <2>6, <2>7 DEF Verdicts, LeadersSeen
<1>5. CASE Elected(i)
    <2>1. /\ term[i] > 0 /\ leaderOf[term[i]] = 0 /\ UNCHANGED <<connected, logs, term, thread>>
          /\ leaderOf' = [leaderOf EXCEPT ![term[i]] = i] /\ leader' = [leader EXCEPT ![i] = TRUE]
        BY <1>5 DEF Elected, net, storage
    <2>2. term[i] \in 1 .. MaxTerm /\ i \in 1 .. N /\ N \in Nat
        <3>1. term[i] \in 0 .. MaxTerm /\ MaxTerm \in Nat /\ N \in Nat
            BY ZenonT(40), ConstantsAssumption DEF ConstantsAssumption, Verdicts, ThreadTypes
        <3> QED BY <2>1, <3>1 DEF Servers
    <2>0. leaderOf \in [1 .. MaxTerm -> 0 .. N] /\ leader \in [Servers -> BOOLEAN]
        BY ZenonT(40) DEF Verdicts, ThreadTypes
    <2>3. /\ leaderOf' \in [1 .. MaxTerm -> 0 .. N] /\ leader' \in [Servers -> BOOLEAN]
          /\ leaderOf'[term[i]] = i
        BY <2>0, <2>1, <2>2
    <2>4. \A t \in 1 .. MaxTerm : leaderOf[t] # 0 => leaderOf'[t] = leaderOf[t]
        BY ZenonT(40), <2>0, <2>1, <2>2
    <2>5. ThreadTypes'
        BY ZenonT(40), <2>1, <2>3 DEF Verdicts, ThreadTypes, thread
    <2>6. Elections'
        <3>0. \A a \in Servers : a # 0
            BY <2>2 DEF Servers
        <3>1. \A a \in Servers : a # 0 /\ (a # i => leader'[a] = leader[a])
            BY ZenonT(40), <2>0, <2>1, <3>0
        <3>2. Elections
            BY ZenonT(40) DEF Verdicts
        <3> QED BY ZenonT(40), <2>1, <2>2, <2>3, <2>4, <3>1, <3>2 DEF Elections
    <2>7. LeadersSeen(test.leaders) => LeadersSeen(test.leaders)'
        <3>1. \A x \in test.leaders : x[2] # 0
            BY <2>2, ThreadFacts DEF Servers
        <3> QED BY ZenonT(40), <2>1, <2>4, <3>1 DEF LeadersSeen, thread
    <2>8. at' = at /\ test' = test
        BY <2>1 DEF thread
    <2>9. (at \in {"term", "leads"} /\ ~test.moved => LeadersSeen(test.leaders))'
        BY ZenonT(40), <2>7, <2>8 DEF Verdicts, LeadersSeen
    <2>10. (at \in {"terms", "one term"} /\ ~test.moved => TermsSeen(test.j, test.term))'
        BY ZenonT(40), <2>1, <2>8 DEF Verdicts, TermsSeen
    <2>11. (at = "one term" => test.j = N + 1)' /\ (at = "two leaders" => test.moved)'
        BY ZenonT(40), <2>8 DEF Verdicts
    <2> QED BY ZenonT(40), <2>5, <2>6, <2>9, <2>10, <2>11 DEF Verdicts
<1>6. ASSUME NEW k \in 1 .. inc[i],
             Persist(i, k) \/ ApplyUndecodable(i, k)
             \/ \E index \in 1 .. MaxIndex, e \in Entries : ApplyPanics(i, k, index, e)
      PROVE  Verdicts'
    BY ZenonT(40), <1>1, <1>6 DEF Persist, ApplyUndecodable, ApplyPanics, net, storage
<1> QED BY ZenonT(40), <1>2, <1>3, <1>4, <1>5, <1>6

INSTANCE FiniteSetTheorems

\* Of the servers that hold an index one is the last.
LEMMA LastHolder ==
  ASSUME NEW H \in SUBSET Servers, H # {}
  PROVE  \E i \in H : \A j \in H : j <= i
<1> DEFINE S == {N - i : i \in H}
<1>1. N \in Nat /\ \A i \in H : i \in Nat /\ N - i \in Nat
    BY ConstantsAssumption DEF ConstantsAssumption, Servers
<1>2. S \subseteq Nat /\ S # {}
    BY ZenonT(40), <1>1
<1>3. PICK m \in S : \A n \in S : ~(<<n, m>> \in OpToRel(<, Nat))
    BY ZenonT(40), <1>2, NatLessThanWellFounded, WFMin
<1>4. \A n \in S : ~(n < m)
    BY ZenonT(40), <1>2, <1>3 DEF OpToRel
<1>5. PICK i \in H : m = N - i
    OBVIOUS
<1>6. ASSUME NEW j \in H
      PROVE  j <= i
    <2>1. ~(N - j < N - i)
        BY <1>4, <1>5
    <2> QED BY <1>1, <2>1
<1> QED BY ZenonT(40), <1>6

\* n_committed returns what some server holds.
LEMMA CommittedIs ==
  ASSUME NEW index, Holders(index) # {}
  PROVE  \E i \in Holders(index) : Committed(index) = logs[i][index]
<1> DEFINE last == CHOOSE i \in Holders(index) : \A j \in Holders(index) : j <= i
<1>1. \E i \in Holders(index) : \A j \in Holders(index) : j <= i
    BY ZenonT(40), LastHolder DEF Holders
<1>2. last \in Holders(index)
    BY <1>1
<1> QED BY ZenonT(40), <1>2 DEF Committed

\* What the test thread does about the log.
LEMMA LogVerdicts ==
  ASSUME Verdicts, AboutLog \/ Wait
  PROVE  Verdicts'
<1>1. ASSUME NEW where \in {"submit", "poll", "agreed", "panicked", "passed", "wait", "idle"},
             NEW locals \in Locals, Goes(where, locals)
      PROVE  Verdicts'
    BY ZenonT(40), <1>1, GoesOn
<1>2. test \in Locals
    BY DEF Verdicts, ThreadTypes
<1>3. ASSUME NEW l \in Locals, NEW e \in Entries, NEW need \in Servers, NEW retry \in BOOLEAN
      PROVE  [l EXCEPT !.cmd = e, !.need = need, !.retry = retry] \in Locals
    <2>1. need \in Nat
        BY ConstantsAssumption DEF ConstantsAssumption, Servers
    <2>2. [l EXCEPT !.cmd = e] \in Locals
        BY DEF Locals
    <2>3. \A m \in Locals : [m EXCEPT !.need = need] \in Locals
        BY ZenonT(40), <2>1 DEF Locals
    <2>4. \A m \in Locals : [m EXCEPT !.retry = retry] \in Locals
        BY ZenonT(40) DEF Locals
    <2> QED BY ZenonT(40), <2>2, <2>3, <2>4
<1>4. ASSUME NEW index \in 1 .. MaxIndex
      PROVE  [test EXCEPT !.index = index] \in Locals
    BY <1>2, ConstantsAssumption DEF ConstantsAssumption, Locals
<1>5. ASSUME NEW l \in Locals, NEW index \in 1 .. MaxIndex, NEW need \in Servers,
             NEW t \in 1 .. MaxTerm
      PROVE  [l EXCEPT !.index = index, !.need = need, !.term = t] \in Locals
    <2>1. index \in Nat /\ need \in Nat /\ t \in Nat
        BY ConstantsAssumption DEF ConstantsAssumption, Servers
    <2>2. [l EXCEPT !.index = index] \in Locals
        BY <2>1 DEF Locals
    <2>3. \A m \in Locals : [m EXCEPT !.need = need] \in Locals
        BY ZenonT(40), <2>1 DEF Locals
    <2>4. \A m \in Locals : [m EXCEPT !.term = t] \in Locals
        BY ZenonT(40), <2>1 DEF Locals
    <2> QED BY ZenonT(40), <2>2, <2>3, <2>4
<1>6. [test EXCEPT !.cmd = Committed(test.index)] \in Locals
    <2>1. Committed(test.index) \in Entries \cup {0}
        <3>1. CASE Holders(test.index) = {}
            BY ZenonT(40), <3>1 DEF Committed
        <3>2. CASE Holders(test.index) # {}
            <4>1. PICK i \in Holders(test.index) : Committed(test.index) = logs[i][test.index]
                BY ZenonT(40), <3>2, CommittedIs
            <4> QED BY ZenonT(40), <4>1 DEF Holders, Verdicts, ThreadTypes
        <3> QED BY ZenonT(40), <3>1, <3>2
    <2> QED BY ZenonT(40), <1>2, <2>1 DEF Locals
<1>7. CASE AboutLog
    <2>1. ASSUME NEW e \in Entries, NEW need \in Servers, NEW retry \in BOOLEAN,
                 OneBegin(e, need, retry)
          PROVE  Verdicts'
        BY ZenonT(40), <1>1, <1>3, <2>1, FreshLocals DEF OneBegin
    <2>2. ASSUME NEW index \in 1 .. MaxIndex, OneSubmit(index)
          PROVE  Verdicts'
        BY ZenonT(40), <1>1, <1>4, <2>2 DEF OneSubmit
    <2>3. CASE OneReturn \/ OneRetry \/ OnePanics \/ EndTest
        BY ZenonT(40), <1>1, <1>2, <2>3 DEF OneReturn, OneRetry, OnePanics, EndTest, Fails
    <2> QED BY ZenonT(40), <1>7, <2>1, <2>2, <2>3 DEF AboutLog
<1>8. CASE Wait
    <2>1. ASSUME NEW index \in 1 .. MaxIndex, NEW need \in Servers, NEW t \in 1 .. MaxTerm,
                 WaitBegin(index, need, t)
          PROVE  Verdicts'
        BY ZenonT(40), <1>1, <1>5, <2>1, FreshLocals DEF WaitBegin
    <2>2. CASE WaitReturn
        BY ZenonT(40), <1>1, <1>6, <2>2 DEF WaitReturn
    <2>3. CASE WaitNone \/ WaitPanics \/ Used
        BY ZenonT(40), <1>1, <1>2, <2>3, FreshLocals DEF WaitNone, WaitPanics, Used, Fails
    <2> QED BY ZenonT(40), <1>8, <2>1, <2>2, <2>3 DEF Wait
<1> QED BY ZenonT(40), <1>7, <1>8

\* The checks see what Verdicts says, whatever runs beside them.
LEMMA VerdictsInvariant == Spec => []Verdicts
<1>1. Init => Verdicts
    <2> SUFFICES ASSUME Init PROVE Verdicts
        OBVIOUS
    <2>1. test \in Locals
        BY ZenonT(40), FreshLocals DEF Init
    <2>2. ThreadTypes
        BY <2>1, ConstantsAssumption DEF Init, ThreadTypes, ConstantsAssumption
    <2> QED BY ZenonT(40), <2>2 DEF Init, Verdicts, Elections
<1>2. ASSUME Types, Verdicts, [Next]_vars
      PROVE  Verdicts'
    <2>1. CASE UNCHANGED vars
        BY <1>2, <2>1 DEF vars, net, storage, raft, thread, Verdicts, ThreadTypes, Elections,
           LeadersSeen, TermsSeen
    <2>2. CASE Next
        BY ZenonT(40), <1>2, <2>2, LogVerdicts, LeaderVerdicts, OtherVerdicts DEF Next, Instances
    <2> QED BY ZenonT(40), <1>2, <2>1, <2>2
<1> QED BY <1>1, <1>2, TypesInvariant, PTL DEF Spec

\* For any number of servers whose Raft elects at most one leader per term:
\* check_one_leader reports two leaders of a term only if a server changed terms
\* between the two reads of its state, and what check_terms returns is the term
\* of every connected server that has one, unless a term changed meanwhile.
THEOREM VerdictsAlwaysTrue == Spec => []VerdictsTrue
<1>1. Verdicts => VerdictsTrue
    <2> SUFFICES ASSUME Verdicts PROVE VerdictsTrue
        OBVIOUS
    <2>1. \A i \in Servers : i < N + 1
        BY ConstantsAssumption DEF ConstantsAssumption, Servers
    <2> QED BY <2>1 DEF Verdicts, TermsSeen, VerdictsTrue
<1> QED BY <1>1, VerdictsInvariant, PTL

-----------------------------------------------------------------------------
\* More servers are more servers.
LEMMA MoreServers ==
  ASSUME NEW S, NEW T \in SUBSET Servers, S \subseteq T
  PROVE  Cardinality(S) \in Nat /\ Cardinality(T) \in Nat /\ Cardinality(S) <= Cardinality(T)
<1>1. IsFiniteSet(Servers)
    BY FS_Interval, ConstantsAssumption DEF ConstantsAssumption, Servers
<1>2. IsFiniteSet(T)
    BY ZenonT(40), <1>1, FS_Subset
<1>3. IsFiniteSet(S) /\ Cardinality(S) <= Cardinality(T)
    BY ZenonT(40), <1>2, FS_Subset
<1> QED BY ZenonT(40), <1>2, <1>3, FS_CardinalityType

\* If no two logs differ at an index, n_committed returns what all who hold it hold.
LEMMA AllHold ==
  ASSUME NEW index, ~Disagree(index)
  PROVE  {i \in Holders(index) : logs[i][index] = Committed(index)} = Holders(index)
<1>1. CASE Holders(index) = {}
    BY ZenonT(40), <1>1
<1>2. CASE Holders(index) # {}
    <2>1. PICK a \in Holders(index) : Committed(index) = logs[a][index]
        BY <1>2, CommittedIs
    <2> QED BY ZenonT(40), <2>1 DEF Disagree
<1> QED BY ZenonT(40), <1>1, <1>2

\* What one() and wait() have seen stays so until the test has used it.
LEMMA AgreementStep ==
  ASSUME Types, Verdicts, AgreementReal, [Next]_vars
  PROVE  AgreementReal'
<1>0. test \in Locals /\ test.need \in Nat
    BY ZenonT(40) DEF Verdicts, ThreadTypes, Locals
<1>1. CASE at' # "agreed"
    BY <1>1 DEF AgreementReal
<1>2. CASE OneReturn
    <2>1. /\ Cardinality(Holders(test.index)) >= test.need /\ Committed(test.index) = test.cmd
          /\ ~Disagree(test.index) /\ test' = test /\ logs' = logs
        BY ZenonT(40), <1>2 DEF OneReturn, Enough, Goes, storage
    <2>2. Holders(test.index) = {i \in Holders(test.index) : logs[i][test.index] = test.cmd}
        BY ZenonT(40), <2>1, AllHold
    <2>3. Cardinality({i \in Holders(test.index) : logs[i][test.index] = test.cmd}) >= test.need
        BY ZenonT(40), <2>1, <2>2
    <2> QED BY ZenonT(40), <2>1, <2>3 DEF AgreementReal, Holders
<1>3. CASE WaitReturn
    <2>1. /\ Cardinality(Holders(test.index)) >= test.need /\ ~Disagree(test.index)
          /\ test' = [test EXCEPT !.cmd = Committed(test.index)] /\ logs' = logs
        BY <1>3 DEF WaitReturn, Goes, storage
    <2>2. /\ test'.index = test.index /\ test'.need = test.need
          /\ test'.cmd = Committed(test.index)
        BY ZenonT(40), <1>0, <2>1 DEF Locals
    <2>3. Cardinality({i \in Holders(test.index) : logs[i][test.index] = test'.cmd}) >= test.need
        BY ZenonT(40), <2>1, <2>2, AllHold
    <2> QED BY ZenonT(40), <2>1, <2>2, <2>3 DEF AgreementReal, Holders
<1>4. ASSUME at = "agreed", test'.index = test.index, test'.cmd = test.cmd, test'.need = test.need,
             \A a \in Servers : \A x \in DOMAIN logs[a] :
               x \in DOMAIN logs'[a] /\ logs'[a][x] = logs[a][x]
      PROVE  AgreementReal'
    <2> DEFINE S == {i \in Holders(test.index) : logs[i][test.index] = test.cmd}
               T == {i \in Servers : test.index \in DOMAIN logs'[i] /\ logs'[i][test.index] = test.cmd}
    <2>1. S \subseteq T /\ T \in SUBSET Servers
        BY ZenonT(40), <1>4 DEF Holders
    <2>2. Cardinality(S) >= test.need
        BY ZenonT(40), <1>4 DEF AgreementReal
    <2>3. Cardinality(T) >= test.need
        <3> HIDE DEF S, T
        <3>1. Cardinality(S) \in Nat /\ Cardinality(T) \in Nat /\ Cardinality(S) <= Cardinality(T)
            BY ZenonT(40), <2>1, MoreServers
        <3> QED BY <1>0, <2>2, <3>1
    <2>4. {i \in Holders(test.index) : logs[i][test.index] = test.cmd}' = T
        BY ZenonT(40), <1>4 DEF Holders
    <2> HIDE DEF T
    <2> QED BY ZenonT(40), <1>4, <2>3, <2>4 DEF AgreementReal
<1>5. CASE at = "agreed" /\ UNCHANGED <<logs, test>>
    BY <1>4, <1>5
<1>6. ASSUME NEW i \in Servers, NewTerm(i)
      PROVE  AgreementReal'
    <2>1. /\ test' = [test EXCEPT !.moved = @ \/ at \in {"terms", "one term"}]
          /\ at' = at /\ logs' = logs
        BY ZenonT(40), <1>6 DEF NewTerm, storage
    <2>2. test'.index = test.index /\ test'.cmd = test.cmd /\ test'.need = test.need
        BY ZenonT(40), <1>0, <2>1 DEF Locals
    <2> QED BY ZenonT(40), <1>1, <1>4, <2>1, <2>2
<1>7. ASSUME NEW i \in Servers, NEW k \in 1 .. inc[i],
             NEW index \in 1 .. MaxIndex, NEW e \in Entries, Apply(i, k, index, e)
      PROVE  AgreementReal'
    <2>1. /\ logs' = [logs EXCEPT ![i] = Put(logs[i], index, e)] /\ test' = test /\ at' = at
          /\ index \in DOMAIN logs[i] => logs[i][index] = e
        BY ZenonT(40), <1>7 DEF Apply, Conflicts, thread
    <2>2. logs'[i] = Put(logs[i], index, e) /\ \A a \in Servers \ {i} : logs'[a] = logs[a]
        BY ZenonT(40), <2>1 DEF Types
    <2>3. \A a \in Servers : \A x \in DOMAIN logs[a] :
            x \in DOMAIN logs'[a] /\ logs'[a][x] = logs[a][x]
        BY ZenonT(40), <2>1, <2>2 DEF Put
    <2> QED BY ZenonT(40), <1>1, <1>4, <2>1, <2>3
<1>8. ASSUME NEW i \in Servers, NEW k \in 1 .. inc[i],
             Persist(i, k) \/ ApplyUndecodable(i, k)
             \/ \E index \in 1 .. MaxIndex, e \in Entries : ApplyPanics(i, k, index, e)
      PROVE  AgreementReal'
    <2>1. at' = at /\ test' = test /\ logs' = logs
        BY ZenonT(40), <1>8 DEF Persist, ApplyUndecodable, ApplyPanics, storage, thread
    <2> QED BY ZenonT(40), <1>1, <1>5, <2>1
<1>9. ASSUME NEW i \in Servers, Disconnect(i) \/ Connect(i) \/ Crash1(i) \/ Start1(i)
      PROVE  AgreementReal'
    BY ZenonT(40), <1>1, <1>9 DEF Disconnect, Connect, Crash1, Start1, Running, thread
<1>10. ASSUME NEW i \in Servers, Elected(i)
       PROVE  AgreementReal'
    BY ZenonT(40), <1>1, <1>5, <1>10 DEF Elected, thread, storage
<1>11. CASE UNCHANGED vars
    BY ZenonT(40), <1>1, <1>5, <1>11 DEF vars, thread, storage
<1>12. CASE AboutLog \/ Wait \/ AboutLeaders
    <2>1. \A where, locals : Goes(where, locals) /\ where # "agreed" => at' # "agreed"
        BY ZenonT(40) DEF Goes
    <2>2. CASE AboutLog
        BY ZenonT(40), <1>1, <1>2, <2>1, <2>2
           DEF AboutLog, OneBegin, OneSubmit, OneRetry, OnePanics, EndTest, Fails
    <2>3. CASE Wait
        BY ZenonT(40), <1>1, <1>3, <2>1, <2>3 DEF Wait, WaitBegin, WaitNone, WaitPanics, Used, Fails
    <2>4. CASE AboutLeaders
        BY ZenonT(40), <1>1, <2>1, <2>4
           DEF AboutLeaders, CheckOneLeader, CheckTerms, TermsVerdict, TermUsed, LeaderVerdict,
               ReadTerm, ReadLeader, CheckTerm, Fails
    <2> QED BY ZenonT(40), <1>12, <2>2, <2>3, <2>4
<1> QED BY ZenonT(40), <1>6, <1>7, <1>8, <1>9, <1>10, <1>11, <1>12 DEF Next, Instances

\* Whatever the instances of any number of servers report, the index one()
\* returns holds its command, and the value wait() returns is held, at as many
\* servers as were asked for; and it stays so while the test uses the answer.
THEOREM AgreementAlwaysReal == Spec => []AgreementReal
<1>1. Init => AgreementReal
    BY DEF Init, AgreementReal
<1> QED BY <1>1, TypesInvariant, VerdictsInvariant, AgreementStep, PTL DEF Spec
=============================================================================
