------------------------------ MODULE KvsEngine ------------------------------
(***************************************************************************)
(* What the trait KvsEngine promises its callers: a map from keys to       *)
(* values.  Writes are applied one at a time, each at one instant; a get   *)
(* answers with the value its key had at one instant of the call, or with  *)
(* an error.  A crash may let the write in progress take effect or not and *)
(* changes nothing else: what was applied is there again after the next    *)
(* open.                                                                   *)
(***************************************************************************)
CONSTANTS Keys, Vals, NoVal, Threads, NoOp, Unset

VARIABLES
    up,     \* the store is open
    kv,     \* the map
    op,     \* the write in progress, or NoOp
    seen,   \* per thread: the value its get will answer with, or Unset
    answer  \* per thread: what its last get returned, or Unset

vars == <<up, kv, op, seen, answer>>

Write == [op : {"set"}, key : Keys, val : Vals]
           \cup [op : {"remove"}, key : Keys, val : {NoVal}]

Applied(c) == [kv EXCEPT ![c.key] = c.val]

Init ==
    /\ up = FALSE
    /\ kv = [k \in Keys |-> NoVal]
    /\ op = NoOp
    /\ seen = [t \in Threads |-> Unset]
    /\ answer = [t \in Threads |-> Unset]

Open ==
    /\ ~up
    /\ up' = TRUE
    /\ UNCHANGED <<kv, op, seen, answer>>

Crash ==
    /\ up
    /\ up' = FALSE
    /\ op' = NoOp
    /\ kv' \in {kv} \cup (IF op = NoOp THEN {} ELSE {Applied(op)})
    /\ seen' = [t \in Threads |-> Unset]
    /\ answer' = [t \in Threads |-> Unset]

Begin(c) ==
    /\ up
    /\ op = NoOp
    /\ c.op = "remove" => kv[c.key] # NoVal
    /\ op' = c
    /\ UNCHANGED <<up, kv, seen, answer>>

Apply ==
    /\ op # NoOp
    /\ kv' = Applied(op)
    /\ op' = NoOp
    /\ UNCHANGED <<up, seen, answer>>

Fail ==
    /\ op # NoOp
    /\ op' = NoOp
    /\ UNCHANGED <<up, kv, seen, answer>>

GetBegin(t, k) ==
    /\ up
    /\ seen[t] = Unset
    /\ seen' = [seen EXCEPT ![t] = kv[k]]
    /\ UNCHANGED <<up, kv, op, answer>>

GetEnd(t, r) ==
    /\ seen[t] # Unset
    /\ r \in {seen[t], "err"}
    /\ answer' = [answer EXCEPT ![t] = r]
    /\ seen' = [seen EXCEPT ![t] = Unset]
    /\ UNCHANGED <<up, kv, op>>

\* A key that is not in the index is answered at once.
GetAbsent(t, k) ==
    /\ up
    /\ seen[t] = Unset
    /\ kv[k] = NoVal
    /\ answer' = [answer EXCEPT ![t] = NoVal]
    /\ UNCHANGED <<up, kv, op, seen>>

Next ==
    \/ Open \/ Crash \/ Apply \/ Fail
    \/ \E c \in Write : Begin(c)
    \/ \E t \in Threads :
           \/ \E k \in Keys : GetBegin(t, k) \/ GetAbsent(t, k)
           \/ \E r \in Vals \cup {NoVal, "err"} : GetEnd(t, r)

Spec == Init /\ [][Next]_vars
=============================================================================
