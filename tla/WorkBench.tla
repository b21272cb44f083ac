----------------------------- MODULE WorkBench -----------------------------
(***************************************************************************)
(* The test bench of queue/stub.c around a queue that keeps the promise of *)
(* FIFOQueue: main creates a master and thread_num workers; the workers    *)
(* meet at a barrier, enqueue item_num keys each, dequeue item_num keys    *)
(* each, and report; the master waits for their reports and gives the      *)
(* verdict.  list/stub.c is the same bench around a list that keeps the    *)
(* promise of SetObject: a worker adds its keys and deletes the same keys. *)
(* hash/stub.c is that bench around a table, and computes the sum it       *)
(* expects in an int.                                                      *)
(*                                                                         *)
(* begin_mtx and end_mtx guard begin_thread_num and end_thread_num and     *)
(* nothing else, so what a thread does between lock and unlock (or the     *)
(* wait, which unlocks) is one step.  A thread in pthread_cond_wait may    *)
(* wake up without a signal.                                               *)
(***************************************************************************)
EXTENDS Integers, Sequences, Functions, FiniteSetsExt

CONSTANTS
  Options,              \* the pairs <<thread_num, item_num>> main may be given
  MaxEnqFailures,       \* how many calls of enq find no memory
  Garbage,              \* what an uninitialized getval may hold
  None                  \* no value

ASSUME BenchAssumption ==
  /\ Options \subseteq (Nat \ {0}) \X (Nat \ {0})
  /\ \A o \in Options : o[1] * o[2] <= 46340   \* n * (n + 1) fits the int of hash/stub.c
  /\ MaxEnqFailures \in Nat
  /\ Garbage \subseteq Nat

MaxThreads == Max({o[1] : o \in Options})
MaxItems == Max({o[2] : o \in Options})
Threads == 0..(MaxThreads - 1)
AllKeys == 1..(MaxThreads * MaxItems)
CheckIndex == 0..(MaxThreads * MaxItems)

VARIABLES
  bench,                      \* the program: "queue", "list" or "hash"
  items, op, arg, sawEmpty,   \* the queue: see FIFOQueue
  set, listOp, key, saw, res, \* the list or table: see SetObject
  threadNum, itemNum,         \* system_variables
  main, created,              \* main's place in workbench, its loop counter
  master, worker,             \* the place of the master and of each worker
  beginNum, endNum,           \* begin_thread_num, end_thread_num
  i, getval, sum,             \* the locals i and getval, and sum[no]
  check,                      \* check[]
  enqErrors, delErrors,       \* the lines "ERROR: add" and "ERROR: del" printed
  verdict                     \* "OK" or "FAILED", once the master has printed it

queue == <<items, op, arg, sawEmpty>>
list == <<set, listOp, key, saw, res>>
results == <<i, getval, sum, check, enqErrors, delErrors>>
options == <<threadNum, itemNum>>
vars == <<bench, queue, list, options, main, created, master, worker, beginNum, endNum, results, verdict>>

Queue == INSTANCE FIFOQueue WITH Values <- AllKeys
List == INSTANCE SetObject WITH Keys <- AllKeys, op <- listOp

Workers == 0..(threadNum - 1)
Keys == 1..(threadNum * itemNum)

Init ==
  /\ bench \in {"queue", "list", "hash"}
  /\ Queue!Init /\ List!Init
  /\ \E o \in Options : threadNum = o[1] /\ itemNum = o[2]
  /\ main = "create" /\ created = 0
  /\ master = "new" /\ worker = [t \in Threads |-> "new"]
  /\ beginNum = 0 /\ endNum = 0
  /\ i = [t \in Threads |-> 0]
  /\ getval = [t \in Threads |-> None]
  /\ sum = [t \in Threads |-> 0]
  /\ check = [v \in CheckIndex |-> 0]
  /\ enqErrors = 0 /\ delErrors = 0
  /\ verdict = None

\* The process is there until main returns or aborts.
Alive == main \notin {"returned", "aborted"}

-----------------------------------------------------------------------------
(* main, in workbench *)

CreateMaster ==
  /\ main = "create" /\ master = "new"
  /\ master' = "test"
  /\ UNCHANGED <<bench, queue, list, options, main, created, worker, beginNum, endNum, results, verdict>>

CreateWorker ==
  /\ main = "create" /\ master # "new"
  /\ created < threadNum
  /\ created' = created + 1
  /\ worker' = [worker EXCEPT ![created] = "begin"]
  /\ UNCHANGED <<bench, queue, list, options, main, master, beginNum, endNum, results, verdict>>

\* A calloc or a pthread_create fails: goto end, where stat_data is freed.
CreateFails ==
  /\ main = "create"
  /\ created < threadNum
  /\ main' = "end"
  /\ UNCHANGED <<bench, queue, list, options, created, master, worker, beginNum, endNum, results, verdict>>

\* workbench returns -1.
Abort ==
  /\ main = "end"
  /\ main' = "aborted"
  /\ UNCHANGED <<bench, queue, list, options, created, master, worker, beginNum, endNum, results, verdict>>

\* pthread_join, of the workers in turn and then of the master.
Join ==
  /\ main = "create" /\ created = threadNum
  /\ \A t \in Workers : worker[t] = "exit"
  /\ master = "exit"
  /\ main' = "returned"
  /\ UNCHANGED <<bench, queue, list, options, created, master, worker, beginNum, endNum, results, verdict>>

-----------------------------------------------------------------------------
(* master_thread *)

\* The loop's condition holds, at the first test or after a wakeup.
MasterWaits ==
  /\ Alive /\ master = "test"
  /\ endNum # threadNum
  /\ master' = "wait"
  /\ UNCHANGED <<bench, queue, list, options, main, created, worker, beginNum, endNum, results, verdict>>

\* A wakeup without a signal.
MasterWakes ==
  /\ Alive /\ master = "wait"
  /\ master' = "test"
  /\ UNCHANGED <<bench, queue, list, options, main, created, worker, beginNum, endNum, results, verdict>>

\* count1 * count2: the even one of n and n + 1 is halved.
Expected ==
  LET n == itemNum * threadNum
  IN  IF n % 2 = 0 THEN (n \div 2) * (n + 1) ELSE ((n + 1) \div 2) * n

HashExpected == ((itemNum * threadNum) * (itemNum * threadNum + 1)) \div 2

MasterReports ==
  /\ Alive /\ master = "test"
  /\ endNum = threadNum
  /\ master' = "exit"
  /\ verdict' = IF SumFunctionOnSet(sum, Workers) = (IF bench = "hash" THEN HashExpected ELSE Expected)
                THEN "OK" ELSE "FAILED"
  /\ UNCHANGED <<bench, queue, list, options, main, created, worker, beginNum, endNum, results>>

-----------------------------------------------------------------------------
(* worker_thread *)

Goto(t, from, to) ==
  /\ Alive
  /\ worker[t] = from
  /\ worker' = [worker EXCEPT ![t] = to]

\* Mutant: pthread_cond_signal in place of pthread_cond_broadcast.
SignalOne(w) ==
  LET waiting == {t \in Threads : w[t] = "wait"}
  IN  IF waiting = {} THEN w ELSE [w EXCEPT ![CHOOSE t \in waiting : TRUE] = "test"]

\* The threads waiting on begin_cond are woken.
Broadcast(w) == [t \in Threads |-> IF w[t] = "wait" THEN "test" ELSE w[t]]

\* Mutant: no barrier.
WorkerRuns(t) ==
  /\ Goto(t, "begin", "enq")
  /\ beginNum' = beginNum + 1
  /\ UNCHANGED <<bench, queue, list, options, main, created, master, endNum, results, verdict>>

\* The barrier: the last worker to come wakes the others, and goes on.
WorkerBegins(t) ==
  /\ Alive
  /\ worker[t] = "begin"
  /\ IF threadNum = 1
       THEN UNCHANGED beginNum /\ worker' = [worker EXCEPT ![t] = "enq"]
       ELSE /\ beginNum' = beginNum + 1
            /\ worker' = IF beginNum' = threadNum
                           THEN Broadcast([worker EXCEPT ![t] = "enq"])
                           ELSE [worker EXCEPT ![t] = "wait"]
  /\ UNCHANGED <<bench, queue, list, options, main, created, master, endNum, results, verdict>>

\* A wakeup without a signal.
WorkerWakes(t) ==
  /\ Goto(t, "wait", "test")
  /\ UNCHANGED <<bench, queue, list, options, main, created, master, beginNum, endNum, results, verdict>>

\* Mutant: a woken worker counts itself once more.
WorkerBeginsAgain(t) ==
  /\ Goto(t, "test", IF beginNum < threadNum THEN "begin" ELSE "enq")
  /\ UNCHANGED <<bench, queue, list, options, main, created, master, beginNum, endNum, results, verdict>>

\* The test of the loop around the wait.
WorkerTests(t) ==
  /\ Goto(t, "test", IF beginNum < threadNum THEN "wait" ELSE "enq")
  /\ UNCHANGED <<bench, queue, list, options, main, created, master, beginNum, endNum, results, verdict>>

\* Mutant: key++ after the call.
KeyBefore(t) == t * itemNum + i[t]

\* The key of the iteration, after ++key.
Key(t) == t * itemNum + i[t] + 1

WorkerCalls(t) ==
  /\ Alive /\ bench = "queue"
  /\ \/ worker[t] = "enq" /\ Queue!EnqCall(t, Key(t))
     \/ worker[t] = "deq" /\ Queue!DeqCall(t)
  /\ UNCHANGED <<bench, list, options, main, created, master, worker, beginNum, endNum, results, verdict>>

\* The call takes effect inside the queue.
QueueStep(t) ==
  /\ Alive
  /\ Queue!EnqEffect(t) \/ Queue!DeqEffect(t)
  /\ UNCHANGED <<bench, list, options, main, created, master, worker, beginNum, endNum, results, verdict>>

\* After the i-th iteration of the loop at from: the next one, or on to the next
\* loop.
NextIteration(t, from, to) ==
  /\ Goto(t, from, IF i[t] + 1 = itemNum THEN to ELSE from)
  /\ i' = [i EXCEPT ![t] = (@ + 1) % itemNum]

\* Mutant: a worker turns to deq after its first enq.
EnqReturnsOnce(t) ==
  /\ bench = "queue"
  /\ Goto(t, "enq", "deq")
  /\ Queue!EnqReturn(t)
  /\ UNCHANGED <<bench, list, options, main, created, master, beginNum, endNum, results, verdict>>

EnqReturns(t) ==
  /\ bench = "queue"
  /\ NextIteration(t, "enq", "deq")
  /\ \/ Queue!EnqReturn(t) /\ UNCHANGED enqErrors
     \/ /\ Queue!EnqReturnFail(t)
        /\ enqErrors < MaxEnqFailures
        /\ enqErrors' = enqErrors + 1
  /\ UNCHANGED <<bench, list, options, main, created, master, beginNum, endNum, getval, sum, check,
                 delErrors, verdict>>

\* sum[no] += getval; check[getval]++.  Two threads can race for an element of
\* check only if they got the same value: if some deq failed.
Record(t, v) ==
  /\ getval' = [getval EXCEPT ![t] = v]
  /\ sum' = [sum EXCEPT ![t] = @ + v]
  /\ check' = [check EXCEPT ![v] = @ + 1]

\* A deq that returns false leaves getval as it was; before the first success
\* that is whatever the stack holds.
DeqReturns(t) ==
  /\ bench = "queue"
  /\ NextIteration(t, "deq", "end")
  /\ \/ /\ Queue!DeqReturn(t)
        /\ Record(t, arg[t])
        /\ UNCHANGED delErrors
     \/ /\ Queue!DeqReturnEmpty(t)
        /\ delErrors' = delErrors + 1
        /\ \E v \in IF getval[t] = None THEN Garbage ELSE {getval[t]} : Record(t, v)
  /\ UNCHANGED <<bench, list, options, main, created, master, beginNum, endNum, enqErrors, verdict>>

(* The calls of worker_thread in list/stub.c and hash/stub.c *)

ListCalls(t) ==
  /\ Alive /\ bench # "queue"
  /\ \/ worker[t] = "enq" /\ List!Call(t, "alloc", Key(t))
     \/ worker[t] = "deq" /\ List!Call(t, "delete", Key(t))
  /\ UNCHANGED <<bench, queue, options, main, created, master, worker, beginNum, endNum, results, verdict>>

\* The call takes effect inside the list.
ListStep(t) ==
  /\ Alive
  /\ List!Allocate(t) \/ List!AddEffect(t) \/ List!DeleteEffect(t)
  /\ UNCHANGED <<bench, queue, options, main, created, master, worker, beginNum, endNum, results, verdict>>

AddReturns(t) ==
  /\ bench # "queue"
  /\ NextIteration(t, "enq", "deq")
  /\ \/ List!ReturnTrue(t) /\ UNCHANGED enqErrors
     \/ /\ List!ReturnFalse(t)
        /\ enqErrors < MaxEnqFailures
        /\ enqErrors' = enqErrors + 1
  /\ UNCHANGED <<bench, queue, options, main, created, master, beginNum, endNum, getval, sum, check,
                 delErrors, verdict>>

\* The value of a node is its key.
DeleteReturns(t) ==
  /\ bench # "queue"
  /\ NextIteration(t, "deq", "end")
  /\ \/ /\ List!ReturnTrue(t)
        /\ Record(t, key[t])
        /\ UNCHANGED delErrors
     \/ /\ List!ReturnFalse(t)
        /\ delErrors' = delErrors + 1
        /\ \E v \in IF getval[t] = None THEN Garbage ELSE {getval[t]} : Record(t, v)
  /\ UNCHANGED <<bench, queue, options, main, created, master, beginNum, endNum, enqErrors, verdict>>

\* The end count, and the signal to the master.
WorkerEnds(t) ==
  /\ Goto(t, "end", "exit")
  /\ endNum' = endNum + 1
  /\ master' = IF master = "wait" THEN "test" ELSE master
  /\ UNCHANGED <<bench, queue, list, options, main, created, beginNum, results, verdict>>

-----------------------------------------------------------------------------
MainStep == CreateMaster \/ CreateWorker \/ CreateFails \/ Abort \/ Join
MasterStep == MasterWaits \/ MasterReports
WorkerStep(t) ==
  \/ WorkerBegins(t) \/ WorkerTests(t)
  \/ WorkerCalls(t) \/ QueueStep(t) \/ EnqReturns(t) \/ DeqReturns(t)
  \/ ListCalls(t) \/ ListStep(t) \/ AddReturns(t) \/ DeleteReturns(t)
  \/ WorkerEnds(t)

\* After the exit of the process nothing happens.
Ended == ~ Alive /\ UNCHANGED vars

Next ==
  \/ MainStep \/ MasterStep \/ MasterWakes
  \/ \E t \in Workers : WorkerStep(t) \/ WorkerWakes(t)
  \/ Ended

Spec == Init /\ [][Next]_vars

\* The scheduler runs every thread that can run; nothing makes a thread wake up
\* without a signal.
FairSpec ==
  /\ Spec
  /\ WF_vars(MainStep)
  /\ WF_vars(MasterStep)
  /\ \A t \in Threads : WF_vars(WorkerStep(t))

-----------------------------------------------------------------------------
(* Properties *)

TypeOK ==
  /\ main \in {"create", "end", "returned", "aborted"}
  /\ <<threadNum, itemNum>> \in Options
  /\ created \in 0..threadNum
  /\ master \in {"new", "test", "wait", "exit"}
  /\ worker \in [Threads -> {"new", "begin", "wait", "test", "enq", "deq", "end", "exit"}]
  /\ beginNum \in 0..threadNum /\ endNum \in 0..threadNum
  /\ i \in [Threads -> 0..(itemNum - 1)]
  /\ getval \in [Threads -> CheckIndex \cup Garbage \cup {None}]
  /\ sum \in [Threads -> Nat]
  /\ check \in [CheckIndex -> Nat]
  /\ enqErrors \in 0..MaxEnqFailures /\ delErrors \in Nat
  /\ verdict \in {None, "OK", "FAILED"}
  /\ items \in Seq(AllKeys)

\* A deq fails only for want of an item some enq failed to add: a worker starts
\* to dequeue when it has enqueued its own items, though the others may still be
\* enqueueing or may take its items.  A delete fails only if the add of its key did.  In
\* the end the queue or the list is empty and the two kinds of error lines are
\* equally many.
ErrorsBalance ==
  /\ delErrors <= enqErrors
  /\ verdict # None => delErrors = enqErrors /\ items = << >> /\ set = {}

\* If no enq failed, the master prints "test OK" and every key was dequeued
\* exactly once.
VerdictOK ==
  enqErrors = 0 =>
    /\ verdict # "FAILED"
    /\ \A v \in CheckIndex : check[v] <= 1
    /\ verdict = "OK" => \A v \in Keys : check[v] = 1

\* No thread uses what has been freed: not the queue or list, which the master frees when
\* all workers have counted themselves out; not stat_data, which workbench frees
\* at end, for the barrier holds back the workers when one of them could not be
\* created.
NoUseAfterFree ==
  /\ master = "exit" => \A t \in Workers : worker[t] = "exit" /\ op[t] = "idle" /\ listOp[t] = "idle"
  /\ main = "end" =>
       /\ master \in {"new", "test", "wait"} /\ endNum = 0
       /\ \A t \in Workers : worker[t] \in {"new", "begin", "wait", "test"}

\* The bench comes to its end: no wakeup is lost at the barrier or at the end
\* count, and main returns or aborts.
Terminates == <>(~ Alive)
=============================================================================
