----------------------------- MODULE SetObject -----------------------------
(***************************************************************************)
(* What the lists of list/ and the tables of hash/ promise their callers   *)
(* (the comments on add, delete and find): a set of keys with atomic       *)
(* operations.                                                             *)
(*                                                                         *)
(* An add or a delete that returns true changes the set at one instant     *)
(* between its call and its return.  Any other call changes nothing, and   *)
(* its answer is right at some instant of the call: saw holds what could   *)
(* be seen of its key since it began.  A specification that implements     *)
(* this one is linearizable.                                               *)
(***************************************************************************)
CONSTANTS Threads, Keys, None

VARIABLES
  set,    \* the keys in the list
  op,     \* what each thread is doing: see OpState
  key,    \* the key it was called with
  saw,    \* the statuses its key has had since the call
  res     \* what its last call returned

vars == <<set, op, key, saw, res>>

\* "alloc" is an add that has still to find memory for its node; "added" and
\* "deleted" are calls that have had their effect and have still to return.
OpState == {"idle", "alloc", "add", "added", "delete", "deleted", "find"}
Pending == {"alloc", "add", "delete", "find"}

Status(k) == IF k \in set THEN "in" ELSE "out"

Init ==
  /\ set = {}
  /\ op = [t \in Threads |-> "idle"]
  /\ key = [t \in Threads |-> None]
  /\ saw = [t \in Threads |-> {}]
  /\ res = [t \in Threads |-> None]

Call(t, o, k) ==
  /\ op[t] = "idle"
  /\ op' = [op EXCEPT ![t] = o]
  /\ key' = [key EXCEPT ![t] = k]
  /\ saw' = [saw EXCEPT ![t] = {Status(k)}]
  /\ res' = [res EXCEPT ![t] = None]
  /\ UNCHANGED set

Allocate(t) ==
  /\ op[t] = "alloc"
  /\ op' = [op EXCEPT ![t] = "add"]
  /\ UNCHANGED <<set, key, saw, res>>

\* The status of thread t's key becomes s, before the eyes of the calls under way.
Show(t, s) ==
  saw' = [u \in Threads |->
            IF u = t THEN {}
            ELSE IF op[u] \in Pending /\ key[u] = key[t] THEN saw[u] \cup {s}
            ELSE saw[u]]

AddEffect(t) ==
  /\ op[t] = "add" /\ key[t] \notin set
  /\ op' = [op EXCEPT ![t] = "added"]
  /\ set' = set \cup {key[t]}
  /\ Show(t, "in")
  /\ UNCHANGED <<key, res>>

DeleteEffect(t) ==
  /\ op[t] = "delete" /\ key[t] \in set
  /\ op' = [op EXCEPT ![t] = "deleted"]
  /\ set' = set \ {key[t]}
  /\ Show(t, "out")
  /\ UNCHANGED <<key, res>>

Return(t, r) ==
  /\ op' = [op EXCEPT ![t] = "idle"]
  /\ key' = [key EXCEPT ![t] = None]
  /\ saw' = [saw EXCEPT ![t] = {}]
  /\ res' = [res EXCEPT ![t] = r]
  /\ UNCHANGED set

ReturnTrue(t) ==
  /\ op[t] \in {"added", "deleted"} \/ (op[t] = "find" /\ "in" \in saw[t])
  /\ Return(t, TRUE)

ReturnFalse(t) ==
  /\ \/ op[t] = "add" /\ "in" \in saw[t]
     \/ op[t] \in {"delete", "find"} /\ "out" \in saw[t]
     \/ op[t] = "alloc"     \* no memory
  /\ Return(t, FALSE)

Next ==
  \E t \in Threads :
    \/ \E o \in {"alloc", "delete", "find"}, k \in Keys : Call(t, o, k)
    \/ Allocate(t) \/ AddEffect(t) \/ DeleteEffect(t)
    \/ ReturnTrue(t) \/ ReturnFalse(t)

Spec == Init /\ [][Next]_vars
=============================================================================
