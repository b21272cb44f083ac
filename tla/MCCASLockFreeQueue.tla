------------------------- MODULE MCCASLockFreeQueue -------------------------
(* Small instances of CASLockFreeQueue for TLC. *)
EXTENDS CASLockFreeQueue, TLC

CONSTANTS
  Enqueuers, Dequeuers,   \* the threads that call enq, and those that call deq
  Runner                  \* the thread that is never stopped

MCSymmetry ==
  Permutations(Enqueuers) \cup Permutations(Dequeuers) \cup Permutations(Values)

MCNext ==
  \/ \E t \in Enqueuers, v \in Values : EnqCall(t, v)
  \/ \E t \in Dequeuers : DeqCall(t)
  \/ \E t \in Threads : Step(t)

MCSpec == Init /\ [][MCNext]_vars

MCFairSpec == MCSpec /\ WF_vars(Step(Runner))

\* Lock-freedom of the thread the scheduler keeps running.
RunnerLockFree == LockFree(Runner)
=============================================================================
