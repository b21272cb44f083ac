------------------------------ MODULE FIFOQueue ------------------------------
(***************************************************************************)
(* What the queues of queue/ promise their callers (queue/common.h, and    *)
(* the way queue/stub.c uses enq and deq): a first-in first-out queue with *)
(* atomic operations.                                                      *)
(*                                                                         *)
(* A call is three steps: the invocation, the instant at which it takes    *)
(* effect, and the return.  A deq that returns false has no effect; all it *)
(* promises is that the queue was empty at some instant between its call   *)
(* and its return, which sawEmpty records.  A specification that           *)
(* implements this one is linearizable.                                    *)
(***************************************************************************)
EXTENDS Sequences

CONSTANTS Threads, Values, None

VARIABLES
  items,     \* the values in the queue, oldest first
  op,        \* what each thread is doing: see OpState
  arg,       \* the value a thread is enqueueing, or has just dequeued
  sawEmpty   \* the threads in deq since a moment at which the queue was empty

vars == <<items, op, arg, sawEmpty>>

\* "enq" and "deq": called, without effect so far; "enqed" and "deqed": the
\* effect has taken place and the call has still to return.
OpState == {"idle", "enq", "enqed", "deq", "deqed"}

Init ==
  /\ items = << >>
  /\ op = [t \in Threads |-> "idle"]
  /\ arg = [t \in Threads |-> None]
  /\ sawEmpty = {}

EnqCall(t, v) ==
  /\ op[t] = "idle"
  /\ op' = [op EXCEPT ![t] = "enq"]
  /\ arg' = [arg EXCEPT ![t] = v]
  /\ UNCHANGED <<items, sawEmpty>>

EnqEffect(t) ==
  /\ op[t] = "enq"
  /\ op' = [op EXCEPT ![t] = "enqed"]
  /\ items' = Append(items, arg[t])
  /\ UNCHANGED <<arg, sawEmpty>>

\* enq returns true.
EnqReturn(t) ==
  /\ op[t] = "enqed"
  /\ op' = [op EXCEPT ![t] = "idle"]
  /\ arg' = [arg EXCEPT ![t] = None]
  /\ UNCHANGED <<items, sawEmpty>>

\* enq returns false: it found no memory, and leaves the queue alone.
EnqReturnFail(t) ==
  /\ op[t] = "enq"
  /\ op' = [op EXCEPT ![t] = "idle"]
  /\ arg' = [arg EXCEPT ![t] = None]
  /\ UNCHANGED <<items, sawEmpty>>

DeqCall(t) ==
  /\ op[t] = "idle"
  /\ op' = [op EXCEPT ![t] = "deq"]
  /\ sawEmpty' = IF items = << >> THEN sawEmpty \cup {t} ELSE sawEmpty
  /\ UNCHANGED <<items, arg>>

DeqEffect(t) ==
  /\ op[t] = "deq"
  /\ items # << >>
  /\ op' = [op EXCEPT ![t] = "deqed"]
  /\ arg' = [arg EXCEPT ![t] = Head(items)]
  /\ items' = Tail(items)
  /\ sawEmpty' = IF Tail(items) = << >> THEN {u \in Threads : op'[u] = "deq"}
                                        ELSE sawEmpty \ {t}

\* deq returns true, with arg[t] in *val.
DeqReturn(t) ==
  /\ op[t] = "deqed"
  /\ op' = [op EXCEPT ![t] = "idle"]
  /\ arg' = [arg EXCEPT ![t] = None]
  /\ UNCHANGED <<items, sawEmpty>>

\* deq returns false.
DeqReturnEmpty(t) ==
  /\ op[t] = "deq"
  /\ t \in sawEmpty
  /\ op' = [op EXCEPT ![t] = "idle"]
  /\ sawEmpty' = sawEmpty \ {t}
  /\ UNCHANGED <<items, arg>>

Next ==
  \E t \in Threads :
    \/ \E v \in Values : EnqCall(t, v)
    \/ EnqEffect(t) \/ EnqReturn(t) \/ EnqReturnFail(t)
    \/ DeqCall(t) \/ DeqEffect(t) \/ DeqReturn(t) \/ DeqReturnEmpty(t)

Spec == Init /\ [][Next]_vars
=============================================================================
