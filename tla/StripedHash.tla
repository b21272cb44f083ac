---------------------------- MODULE StripedHash ----------------------------
(***************************************************************************)
(* The table of hash/StripedHash.c: a fixed array of locks, each for a     *)
(* stripe of the buckets, and a resize that takes all of them.  A step is  *)
(* one access to memory that other threads can change at that moment: the  *)
(* reads of table_size before the lock, and the read and the write of      *)
(* setSize, which threads with different locks count up and down together. *)
(* What a thread does to a bucket under its lock is one step, and so are   *)
(* the unlock()s after it.                                                 *)
(*                                                                         *)
(* A chain is kept sorted without duplicates (module ChainHash shows the   *)
(* same functions to do so) and is the set of its keys here.               *)
(***************************************************************************)
EXTENDS Integers

CONSTANTS
  Threads,
  Keys,       \* not negative
  InitSize,   \* the argument of init_hashtable
  Load,       \* 4: the load above which policy asks for a resize
  Retry,      \* 2: what retry starts from
  MaxCalls,   \* a bound on the calls
  None        \* no thread, no key

LockIds == 0..(InitSize - 1)     \* lock_size = InitSize

VARIABLES
  bucket, table_size, setSize,
  mtx,                 \* the holder of each lock
  lost,                \* a resize without memory has kept the locks, for good
  dead,                \* the process has ended: delete_node read through NULL
  pc, op, key,         \* a thread's place, the function it is in, its argument
  ts, myBucket,        \* its local variables
  retry, ret,
  i,                   \* the next lock to take in resize
  count,               \* setSize, as it was read by ++ or --
  res, found,          \* what its last add or delete, and its last find, returned
  calls,               \* the calls so far
  saw                  \* history: the statuses its key has had since the call

table == <<bucket, table_size>>
process == <<lost, dead, calls>>
answers == <<res, found>>
vars == <<table, setSize, mtx, process, pc, op, key, ts, myBucket, retry, ret, i, count, answers, saw>>

init_bucket(size) == [b \in 0..(size - 1) |-> {}]

init_hashtable ==
  /\ bucket = init_bucket(InitSize)
  /\ table_size = InitSize
  /\ setSize = 0
  /\ mtx = [l \in LockIds |-> None]

Init ==
  /\ init_hashtable
  /\ lost = FALSE /\ dead = FALSE /\ calls = 0
  /\ pc = [t \in Threads |-> "idle"]
  /\ op = [t \in Threads |-> None]
  /\ key = [t \in Threads |-> None]
  /\ ts = [t \in Threads |-> 0]
  /\ myBucket = [t \in Threads |-> 0]
  /\ retry = [t \in Threads |-> Retry]
  /\ ret = [t \in Threads |-> FALSE]
  /\ i = [t \in Threads |-> 0]
  /\ count = [t \in Threads |-> 0]
  /\ res = [t \in Threads |-> None]
  /\ found = [t \in Threads |-> None]
  /\ saw = [t \in Threads |-> {}]

-----------------------------------------------------------------------------
hashCode(k, size) == k % size
lockKey(h) == h % InitSize

Contents == UNION {bucket[b] : b \in DOMAIN bucket}
Status(k) == IF k \in Contents THEN "in" ELSE "out"

\* Has thread u's call still to take effect?
Pending(u) == pc[u] # "idle" /\ ~ ret[u]
Show(t, s) ==
  saw' = [u \in Threads |->
            IF u = t THEN {}
            ELSE IF Pending(u) /\ key[u] = key[t] THEN saw[u] \cup {s}
            ELSE saw[u]]

Goto(t, to) == pc' = [pc EXCEPT ![t] = to]

-----------------------------------------------------------------------------
(* Calls and returns *)

Call(t, o, k) ==
  /\ pc[t] = "idle" /\ calls < MaxCalls
  /\ calls' = calls + 1
  /\ Goto(t, CASE o = "add" -> "create" [] o = "delete" -> "size" [] o = "find" -> "hash")
  /\ op' = [op EXCEPT ![t] = o]
  /\ key' = [key EXCEPT ![t] = k]
  /\ res' = IF o = "find" THEN res ELSE [res EXCEPT ![t] = None]
  /\ found' = IF o = "find" THEN [found EXCEPT ![t] = None] ELSE found
  /\ saw' = [saw EXCEPT ![t] = {Status(k)}]
  /\ UNCHANGED <<table, setSize, mtx, lost, dead, ts, myBucket, retry, ret, i, count>>

Return(t, r) ==
  /\ pc' = [pc EXCEPT ![t] = "idle"]
  /\ op' = [op EXCEPT ![t] = None]
  /\ key' = [key EXCEPT ![t] = None]
  /\ ts' = [ts EXCEPT ![t] = 0]
  /\ myBucket' = [myBucket EXCEPT ![t] = 0]
  /\ retry' = [retry EXCEPT ![t] = Retry]
  /\ ret' = [ret EXCEPT ![t] = FALSE]
  /\ i' = [i EXCEPT ![t] = 0]
  /\ count' = [count EXCEPT ![t] = 0]
  /\ res' = IF op[t] = "find" THEN res ELSE [res EXCEPT ![t] = r]
  /\ found' = IF op[t] = "find" THEN [found EXCEPT ![t] = r] ELSE found
  /\ saw' = [saw EXCEPT ![t] = {}]

-----------------------------------------------------------------------------
(* add and delete *)

\* An add finds memory for its node, or none in any of its attempts.
create_node(t) ==
  /\ pc[t] = "create"
  /\ Goto(t, "size") \/ Goto(t, "policy")
  /\ UNCHANGED <<table, setSize, mtx, process, op, key, ts, myBucket, retry, ret, i, count, answers, saw>>

\* table_size = ht->table_size
ReadSize(t) ==
  /\ pc[t] = "size"
  /\ Goto(t, "hash")
  /\ ts' = [ts EXCEPT ![t] = table_size]
  /\ UNCHANGED <<table, setSize, mtx, process, op, key, myBucket, retry, ret, i, count, answers, saw>>

\* myBucket = hashCode(key, ht)
Hash(t) ==
  /\ pc[t] = "hash"
  /\ Goto(t, "lock")
  /\ myBucket' = [myBucket EXCEPT ![t] = hashCode(key[t], table_size)]
  /\ UNCHANGED <<table, setSize, mtx, process, op, key, ts, retry, ret, i, count, answers, saw>>

CanLock(t) == pc[t] = "lock" /\ mtx[lockKey(myBucket[t])] = None

\* Mutant: a resize before the lock goes unnoticed.
SameSizeAlways(t) == TRUE

\* table_size == ht->table_size, with the lock
SameSize(t) == ts[t] = table_size

\* The node of t's key: in the chain, and with add_node or delete_node to do so?
Chain(t) == bucket[myBucket[t]]
Succeeds(t) == SameSize(t) /\ (op[t] = "add" <=> key[t] \notin Chain(t))

\* The walk to the end of the chain, and the read through NULL.
delete_node_reads_null(t) ==
  /\ op[t] = "delete" /\ SameSize(t)
  /\ Chain(t) # {} /\ \A k \in Chain(t) : k < key[t]

\* lock; add_node or delete_node: the effect; and the read of setSize++ or --
Attempt(t) ==
  /\ op[t] \in {"add", "delete"} /\ CanLock(t) /\ Succeeds(t)
  /\ mtx' = [mtx EXCEPT ![lockKey(myBucket[t])] = t]
  /\ bucket' = [bucket EXCEPT ![myBucket[t]] =
                  IF op[t] = "add" THEN @ \cup {key[t]} ELSE @ \ {key[t]}]
  /\ count' = [count EXCEPT ![t] = setSize]
  /\ ret' = [ret EXCEPT ![t] = TRUE]
  /\ Goto(t, "count")
  /\ Show(t, IF op[t] = "add" THEN "in" ELSE "out")
  /\ UNCHANGED <<table_size, setSize, process, op, key, ts, myBucket, retry, i, answers>>

\* lock, nothing done, unlock: "while (retry-- > 0)"
AttemptFails(t) ==
  /\ op[t] \in {"add", "delete"} /\ CanLock(t) /\ ~ Succeeds(t) /\ ~ delete_node_reads_null(t)
  /\ retry' = [retry EXCEPT ![t] = @ - 1]
  /\ Goto(t, IF retry[t] > 0 THEN "size" ELSE IF op[t] = "add" THEN "policy" ELSE "return")
  /\ UNCHANGED <<table, setSize, mtx, process, op, key, ts, myBucket, ret, i, count, answers, saw>>

delete_dies(t) ==
  /\ CanLock(t) /\ delete_node_reads_null(t)
  /\ dead' = TRUE
  /\ UNCHANGED <<table, setSize, mtx, lost, calls, pc, op, key, ts, myBucket, retry, ret, i, count, answers, saw>>

\* The write of setSize++ or --, and unlock
Count(t) ==
  /\ pc[t] = "count"
  /\ setSize' = IF op[t] = "add" THEN count[t] + 1 ELSE count[t] - 1
  /\ mtx' = [mtx EXCEPT ![lockKey(myBucket[t])] = None]
  /\ Goto(t, IF op[t] = "add" THEN "policy" ELSE "return")
  /\ UNCHANGED <<table, process, op, key, ts, myBucket, retry, ret, i, count, answers, saw>>

ReturnRet(t) ==
  /\ pc[t] = "return"
  /\ Return(t, ret[t])
  /\ UNCHANGED <<table, setSize, mtx, process>>

-----------------------------------------------------------------------------
(* resize *)

\* setSize is unsigned: below 0 it wraps, and its quotient by a power of two is a
\* negative int.
policy(n, size) == n >= 0 /\ n \div size > Load

\* "if (policy(ht))", without a lock
Policy(t) ==
  /\ pc[t] = "policy"
  /\ Goto(t, IF policy(setSize, table_size) THEN "resize" ELSE "return")
  /\ UNCHANGED <<table, setSize, mtx, process, op, key, ts, myBucket, retry, ret, i, count, answers, saw>>

\* table_size = ht->table_size; the table may have grown since policy looked.
ResizeBegin(t) ==
  /\ pc[t] = "resize"
  /\ ts' = [ts EXCEPT ![t] = table_size]
  /\ Goto(t, "lockall")
  /\ UNCHANGED <<table, setSize, mtx, process, op, key, myBucket, retry, ret, i, count, answers, saw>>

ResizeLock(t) ==
  /\ pc[t] = "lockall" /\ i[t] < InitSize
  /\ mtx[i[t]] = None
  /\ mtx' = [mtx EXCEPT ![i[t]] = t]
  /\ i' = [i EXCEPT ![t] = @ + 1]
  /\ UNCHANGED <<table, setSize, process, pc, op, key, ts, myBucket, retry, ret, count, answers, saw>>

UnlockAll == mtx' = [l \in LockIds |-> None]

\* Mutant: the locks are kept when another thread has resized the table.
ResizeDoneKeepsLocks(t) ==
  /\ pc[t] = "lockall" /\ i[t] = InitSize /\ ts[t] # table_size
  /\ Goto(t, "return")
  /\ UNCHANGED <<table, setSize, mtx, process, op, key, ts, myBucket, retry, ret, i, count, answers, saw>>

\* Another thread has resized the table.
ResizeDone(t) ==
  /\ pc[t] = "lockall" /\ i[t] = InitSize /\ ts[t] # table_size
  /\ UnlockAll
  /\ Goto(t, "return")
  /\ UNCHANGED <<table, setSize, process, op, key, ts, myBucket, retry, ret, i, count, answers, saw>>

\* Every node goes to its bucket of a table twice as large.
Resize(t) ==
  /\ pc[t] = "lockall" /\ i[t] = InitSize /\ ts[t] = table_size
  /\ table_size' = 2 * table_size
  /\ bucket' = [b \in 0..(2 * table_size - 1) |->
                  {k \in Contents : hashCode(k, 2 * table_size) = b}]
  /\ UnlockAll
  /\ Goto(t, "return")
  /\ UNCHANGED <<setSize, process, op, key, ts, myBucket, retry, ret, i, count, answers, saw>>

\* init_bucket fails: resize returns with all locks, and no call gets to the
\* table any more.
ResizeFails(t) ==
  /\ pc[t] = "lockall" /\ i[t] = InitSize /\ ts[t] = table_size
  /\ lost' = TRUE
  /\ Goto(t, "return")
  /\ UNCHANGED <<table, setSize, mtx, dead, calls, op, key, ts, myBucket, retry, ret, i, count, answers, saw>>

-----------------------------------------------------------------------------
(* find *)

\* Mutant: the node the walk stops at has the key, or a larger one.
find_nodeStopsAt(t) == \E k \in Chain(t) : key[t] <= k

find_node(t) == key[t] \in Chain(t)

\* lock; find_node in the bucket chosen before the lock; unlock
find(t) ==
  /\ op[t] = "find" /\ CanLock(t)
  /\ Return(t, find_node(t))
  /\ UNCHANGED <<table, setSize, mtx, process>>

-----------------------------------------------------------------------------
Step(t) ==
  /\ ~ dead
  /\ \/ create_node(t) \/ ReadSize(t) \/ Hash(t)
     \/ Attempt(t) \/ AttemptFails(t) \/ delete_dies(t) \/ Count(t) \/ ReturnRet(t)
     \/ Policy(t) \/ ResizeBegin(t) \/ ResizeLock(t) \/ ResizeDone(t) \/ Resize(t) \/ ResizeFails(t)
     \/ find(t)

Invoke(t) == ~ dead /\ \E o \in {"add", "delete", "find"}, k \in Keys : Call(t, o, k)

Next == \E t \in Threads : Invoke(t) \/ Step(t)

Spec == Init /\ [][Next]_vars

-----------------------------------------------------------------------------
(* Properties *)

\* An add without memory takes no lock for its key and does nothing.
NoMemory(t) ==
  op[t] = "add" /\ ~ ret[t] /\ retry[t] = Retry /\ pc[t] \notin {"size", "hash", "lock"}

AbstractOp(t) ==
  CASE op[t] \in {None, "find"} -> "idle"
    [] NoMemory(t) -> "alloc"
    [] op[t] \in {"add", "delete"} /\ ~ NoMemory(t) ->
         IF ~ ret[t] THEN op[t] ELSE IF op[t] = "add" THEN "added" ELSE "deleted"

Abstract == INSTANCE SetObject WITH
  set <- Contents,
  op  <- [t \in Threads |-> AbstractOp(t)],
  key <- [t \in Threads |-> IF op[t] = "find" THEN None ELSE key[t]],
  saw <- [t \in Threads |-> IF op[t] = "find" THEN {} ELSE saw[t]]

\* A find that returns true has seen its key in the table during the call.
FindTrueIsTrue ==
  [][\A t \in Threads : found'[t] = TRUE /\ found[t] # TRUE => "in" \in saw[t]]_vars

\* add and delete are linearizable through a resize by another thread at any
\* moment, while no call meets more than Retry resizes; find, which does not look
\* at table_size again under its lock, is right when it returns true.
Linearizable == Abstract!Spec /\ FindTrueIsTrue

-----------------------------------------------------------------------------
(* Liveness *)

\* The scheduler runs every thread, and the calls end: a mutex is free at last.
FairSpec == Spec /\ \A t \in Threads : WF_vars(Step(t))

\* No deadlock between stripes and resizes: every call returns, unless the
\* process died or a resize without memory kept the locks.
CallsReturn == []<>(dead \/ lost \/ \A t \in Threads : pc[t] = "idle")
=============================================================================
