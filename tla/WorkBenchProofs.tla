-------------------------- MODULE WorkBenchProofs --------------------------
(***************************************************************************)
(* What the test benches of queue/stub.c, list/stub.c and hash/stub.c      *)
(* guarantee for every number of threads and items: their types, that      *)
(* nothing is used after it has been freed, and that their error lines     *)
(* balance.                                                                *)
(*                                                                         *)
(* The loops of the workers are counted in slots: the slot <<t, j>> is     *)
(* iteration j of worker t, once in the loop of enq or add and once in     *)
(* that of deq or delete.                                                  *)
(***************************************************************************)
EXTENDS WorkBench, FiniteSets, FiniteSetTheorems, TLAPS

Slots == Threads \X (0..(itemNum - 1))
KeyOf(s) == s[1] * itemNum + s[2] + 1

\* The loop of enq or add has done with slot s, or its call has had its effect.
PutAt(s) ==
  \/ worker[s[1]] \in {"deq", "end", "exit"}
  \/ /\ worker[s[1]] = "enq"
     /\ \/ s[2] < i[s[1]]
        \/ s[2] = i[s[1]] /\ (op[s[1]] = "enqed" \/ listOp[s[1]] = "added")

\* The same for the loop of deq or delete.
TakenAt(s) ==
  \/ worker[s[1]] \in {"end", "exit"}
  \/ /\ worker[s[1]] = "deq"
     /\ \/ s[2] < i[s[1]]
        \/ s[2] = i[s[1]] /\ (op[s[1]] = "deqed" \/ listOp[s[1]] = "deleted")

Put == {s \in Slots : PutAt(s)}
Taken == {s \in Slots : TakenAt(s)}

\* The slots whose key is in the list, and those whose deq may return false.
In == {s \in Slots : KeyOf(s) \in set}
Seen == {s \in Slots : s[1] \in sawEmpty /\ s[2] = i[s[1]]}

Past == {"enq", "deq", "end", "exit"}
Came == {t \in Workers : worker[t] \notin {"new", "begin"}}
Left == {t \in Workers : worker[t] = "exit"}

Types ==
  /\ TypeOK
  /\ bench \in {"queue", "list", "hash"}
  /\ op \in [Threads -> Queue!OpState] /\ arg \in [Threads -> AllKeys \cup {None}]
  /\ sawEmpty \subseteq Threads
  /\ listOp \in [Threads -> List!OpState] /\ key \in [Threads -> AllKeys \cup {None}]
  /\ saw \in [Threads -> SUBSET {"in", "out"}]
  /\ set \subseteq AllKeys

\* begin_thread_num counts the workers that have come to the barrier, and none
\* goes past it before all have been created; end_thread_num counts the workers
\* that have left.
Barrier ==
  /\ \A t \in Threads : worker[t] = "new" <=> created <= t
  /\ \A t \in Threads : worker[t] \in Past => created = threadNum
  /\ beginNum = IF threadNum = 1 THEN 0 ELSE Cardinality(Came)
  /\ endNum = Cardinality(Left)
  /\ main = "end" => created < threadNum
  /\ master = "exit" => endNum = threadNum
  /\ verdict # None => master = "exit"

\* The call a worker is in fits its loop, and is about its own key, whose status
\* no other thread changes.
Calls(t) ==
  /\ worker[t] \notin {"enq", "deq"} => op[t] = "idle" /\ listOp[t] = "idle" /\ i[t] = 0
  /\ worker[t] = "enq" => op[t] \in {"idle", "enq", "enqed"} /\ listOp[t] \in {"idle", "alloc", "add", "added"}
  /\ worker[t] = "deq" => op[t] \in {"idle", "deq", "deqed"} /\ listOp[t] \in {"idle", "delete", "deleted"}
  /\ bench = "queue" => listOp[t] = "idle"
  /\ bench # "queue" => op[t] = "idle"
  /\ t \in sawEmpty => op[t] = "deq"
  /\ op[t] \in {"enq", "enqed", "deqed"} => arg[t] \in AllKeys
  /\ listOp[t] # "idle" => key[t] = Key(t)
  /\ listOp[t] \in {"alloc", "add", "delete"} => saw[t] = {List!Status(Key(t))}

\* What has been put in is still there or has been taken out, the error lines
\* apart.
Balance ==
  /\ Cardinality(Put) + delErrors = Len(items) + Cardinality(In) + Cardinality(Taken) + enqErrors
  /\ bench = "queue" => set = {} /\ delErrors + Cardinality(Seen) <= enqErrors
  /\ bench # "queue" => items = << >>
  /\ \A s \in In : s \in Put /\ s \notin Taken
  /\ \A k \in set : \E s \in Slots : k = KeyOf(s)

IInv == Types /\ Barrier /\ (\A t \in Threads : Calls(t)) /\ Balance

-----------------------------------------------------------------------------
(* Numbers *)

LEMMA MaxOf ==
  ASSUME NEW S \in SUBSET Nat, S # {}, NEW n \in Nat, \A x \in S : x <= n
  PROVE  Max(S) \in S /\ \A x \in S : x <= Max(S)
<1> DEFINE R == StrictSubsetOrdering(0..n)
           T == {(x + 1)..n : x \in S}
<1>1. T \subseteq FiniteSubsetsOf(0..n) /\ T # {}
  <2>1. ASSUME NEW x \in S PROVE (x + 1)..n \in SUBSET (0..n) /\ IsFiniteSet((x + 1)..n)
    BY FS_Interval
  <2> QED BY <2>1, Zenon DEF FiniteSubsetsOf
<1>2. PICK X \in T : \A Y \in T : <<Y, X>> \notin R
  BY <1>1, FS_StrictSubsetOrderingWellFounded, WFMin, Zenon
<1>3. PICK x \in S : X = (x + 1)..n
  BY Zenon
<1>4. ASSUME NEW y \in S, ~ (x >= y) PROVE FALSE
  <2>1. (y + 1)..n \in T /\ (y + 1)..n \subseteq X /\ y \in X /\ y \notin (y + 1)..n
    BY <1>3, <1>4
  <2>2. (y + 1)..n \in SUBSET (0..n) /\ X \in SUBSET (0..n)
    BY <1>3
  <2>3. <<(y + 1)..n, X>> \in R
    BY <2>1, <2>2, Zenon DEF StrictSubsetOrdering
  <2> QED BY <1>2, <2>1, <2>3, Zenon
<1>5. \E z \in S : \A y \in S : z >= y
  BY <1>4, Zenon
<1> QED BY <1>5, Zenon DEF Max

LEMMA Sizes ==
  ASSUME <<threadNum, itemNum>> \in Options
  PROVE  /\ threadNum \in Nat \ {0} /\ itemNum \in Nat \ {0}
         /\ MaxThreads \in Nat /\ threadNum <= MaxThreads
         /\ MaxItems \in Nat /\ itemNum <= MaxItems
         /\ Workers \subseteq Threads /\ Threads \subseteq Nat
<1>1. ASSUME NEW o \in Options
      PROVE  o[1] \in Nat \ {0} /\ o[2] \in Nat \ {0} /\ o[1] <= 46340 /\ o[2] <= 46340
  <2>1. o[1] \in Nat \ {0} /\ o[2] \in Nat \ {0} /\ o[1] * o[2] <= 46340
    BY BenchAssumption
  <2>2. \A x, y \in Nat \ {0} : x <= x * y /\ y <= x * y /\ x * y \in Nat
    OBVIOUS
  <2> QED BY <2>1, <2>2
<1>2. threadNum \in {o[1] : o \in Options} /\ itemNum \in {o[2] : o \in Options}
  OBVIOUS
<1>3. {o[1] : o \in Options} \in SUBSET Nat /\ {o[2] : o \in Options} \in SUBSET Nat
  BY <1>1
<1>4. PICK n \in Nat : /\ \A x \in {o[1] : o \in Options} : x <= n
                       /\ \A x \in {o[2] : o \in Options} : x <= n
  BY <1>1
<1>5. ASSUME NEW A \in SUBSET Nat, \A x \in A : x <= n, NEW y \in A
      PROVE  Max(A) \in Nat /\ y <= Max(A)
  BY <1>5, MaxOf, Zenon
<1>6. MaxThreads \in Nat /\ threadNum <= MaxThreads
  BY <1>2, <1>3, <1>4, <1>5, Zenon DEF MaxThreads
<1>7. MaxItems \in Nat /\ itemNum <= MaxItems
  BY <1>2, <1>3, <1>4, <1>5, Zenon DEF MaxItems
<1>8. threadNum \in Nat \ {0} /\ itemNum \in Nat \ {0}
  BY <1>1
<1> QED BY <1>6, <1>7, <1>8 DEF Workers, Threads

LEMMA Products ==
  ASSUME NEW a \in Nat, NEW b \in Nat, NEW c \in Nat, NEW d \in Nat, a <= b, c <= d
  PROVE  a * c <= b * d
<1>1. PICK x \in Nat : b = a + x
  <2>1. b - a \in Nat /\ b = a + (b - a)
    OBVIOUS
  <2> QED BY <2>1
<1>2. PICK y \in Nat : d = c + y
  <2>1. d - c \in Nat /\ d = c + (d - c)
    OBVIOUS
  <2> QED BY <2>1
<1>3. a * y \in Nat /\ x * c \in Nat /\ x * y \in Nat /\ a * c \in Nat
  OBVIOUS
<1>4. b * d = a * c + a * y + x * c + x * y
  BY <1>1, <1>2
<1> QED BY <1>3, <1>4

\* The loops of a worker start again at 0.
LEMMA Wrap ==
  ASSUME NEW m \in Nat \ {0}, NEW j \in 0..(m - 1)
  PROVE  (j + 1) % m = IF j + 1 = m THEN 0 ELSE j + 1
OBVIOUS

LEMMA KeyRange ==
  ASSUME <<threadNum, itemNum>> \in Options, NEW t \in Workers, NEW j \in 0..(itemNum - 1)
  PROVE  t * itemNum + j + 1 \in AllKeys
<1>1. /\ threadNum \in Nat \ {0} /\ itemNum \in Nat \ {0} /\ MaxThreads \in Nat /\ MaxItems \in Nat
      /\ threadNum <= MaxThreads /\ itemNum <= MaxItems /\ t \in Nat /\ j \in Nat
      /\ t + 1 \in Nat /\ t + 1 <= MaxThreads /\ j + 1 <= itemNum
  BY Sizes DEF Workers
<1>2. (t + 1) * itemNum <= MaxThreads * MaxItems
  BY <1>1, Products
<1>3. (t + 1) * itemNum = t * itemNum + itemNum /\ t * itemNum \in Nat /\ MaxThreads * MaxItems \in Nat
  BY <1>1
<1> QED BY <1>1, <1>2, <1>3 DEF AllKeys

\* No key belongs to two slots.
LEMMA KeysApart ==
  ASSUME NEW m \in Nat, NEW t \in Nat, NEW u \in Nat, NEW j \in 0..(m - 1), NEW k \in 0..(m - 1),
         t * m + j + 1 = u * m + k + 1
  PROVE  t = u /\ j = k
<1>1. ASSUME NEW x \in Nat, NEW y \in Nat, NEW p \in 0..(m - 1), NEW q \in 0..(m - 1), x < y
      PROVE  x * m + p + 1 # y * m + q + 1
  <2>1. x + 1 \in Nat /\ x + 1 <= y /\ m <= m
    BY <1>1
  <2>2. (x + 1) * m <= y * m
    BY <2>1, Products
  <2>3. (x + 1) * m = x * m + m /\ x * m \in Nat /\ y * m \in Nat
    OBVIOUS
  <2> QED BY <2>2, <2>3
<1>2. ~ (t < u) /\ ~ (u < t)
  BY <1>1
<1>3. t = u /\ t * m \in Nat
  BY <1>2
<1> QED BY <1>3

LEMMA SlotFacts ==
  ASSUME <<threadNum, itemNum>> \in Options
  PROVE  /\ IsFiniteSet(Slots) /\ IsFiniteSet(Workers) /\ Cardinality(Workers) = threadNum
         /\ \A S \in SUBSET Slots : IsFiniteSet(S) /\ Cardinality(S) \in Nat
         /\ \A S \in SUBSET Workers : /\ IsFiniteSet(S) /\ Cardinality(S) \in 0..threadNum
                                      /\ Cardinality(S) = threadNum => S = Workers
<1>1. threadNum \in Nat \ {0} /\ itemNum \in Nat \ {0} /\ MaxThreads \in Nat
  BY Sizes
<1>2. IsFiniteSet(Threads) /\ IsFiniteSet(0..(itemNum - 1))
  <2>1. 0 \in Int /\ MaxThreads - 1 \in Int /\ itemNum - 1 \in Int
    BY <1>1
  <2> QED BY <2>1, FS_Interval, Zenon DEF Threads
<1>3. IsFiniteSet(Slots)
  BY <1>2, FS_Product, Zenon DEF Slots
<1>4. IsFiniteSet(Workers) /\ Cardinality(Workers) = threadNum
  <2>1. 0 \in Int /\ threadNum - 1 \in Int /\ ~ (0 > threadNum - 1) /\ threadNum - 1 - 0 + 1 = threadNum
    BY <1>1
  <2> QED BY <2>1, FS_Interval, Zenon DEF Workers
<1>5. \A S \in SUBSET Slots : IsFiniteSet(S) /\ Cardinality(S) \in Nat
  BY <1>3, FS_Subset, FS_CardinalityType, Zenon
<1>6. \A S \in SUBSET Workers : /\ IsFiniteSet(S) /\ Cardinality(S) \in Nat
                                /\ Cardinality(S) <= threadNum
                                /\ Cardinality(S) = threadNum => S = Workers
  BY <1>4, FS_Subset, FS_CardinalityType, Zenon
<1>7. \A n \in Nat : n <= threadNum => n \in 0..threadNum
  BY <1>1
<1> QED BY <1>3, <1>4, <1>5, <1>6, <1>7, Zenon

\* One more in a set.
LEMMA OneMore ==
  ASSUME NEW S, IsFiniteSet(S), NEW x, NEW T, T = S \cup {x}
  PROVE  Cardinality(T) = IF x \in S THEN Cardinality(S) ELSE Cardinality(S) + 1
BY FS_AddElement, Zenon

-----------------------------------------------------------------------------
(* Steps of main, the master and the barrier *)

Places == {"new", "begin", "wait", "test", "enq", "deq", "end", "exit"}

\* A worker comes to its loops, or is done with them.
Moves(t) ==
  \/ worker'[t] = worker[t]
  \/ {worker[t], worker'[t]} \subseteq {"new", "begin", "wait", "test"}
  \/ worker[t] \in {"begin", "test"} /\ worker'[t] = "enq"
  \/ worker[t] = "end" /\ worker'[t] = "exit"

LEMMA ControlStep ==
  ASSUME IInv, UNCHANGED <<bench, queue, list, options, results>>,
         main' \in {"create", "end", "returned", "aborted"}, created' \in 0..threadNum,
         master' \in {"new", "test", "wait", "exit"}, worker' \in [Threads -> Places],
         beginNum' \in 0..threadNum, endNum' \in 0..threadNum, verdict' \in {None, "OK", "FAILED"},
         \A t \in Threads : Moves(t), Barrier'
  PROVE  IInv'
<1>1. /\ UNCHANGED <<bench, items, op, arg, sawEmpty, set, listOp, key, saw, threadNum, itemNum>>
      /\ UNCHANGED <<i, getval, sum, check, enqErrors, delErrors>>
  BY Zenon DEF queue, list, options, results
<1>2. Types /\ Balance /\ \A t \in Threads : Calls(t)
  BY Zenon DEF IInv
<1>3. Types'
  <2>1. TypeOK'
    BY <1>1, <1>2, Zenon DEF Types, TypeOK, Places
  <2> QED BY <1>1, <1>2, <2>1, Zenon DEF Types
<1>4. ASSUME NEW t \in Threads PROVE Calls(t)'
  <2>1. Calls(t) /\ Moves(t)
    BY <1>2, Zenon
  <2>2. Key(t)' = Key(t) /\ List!Status(Key(t))' = List!Status(Key(t))
    BY <1>1, Zenon DEF Key, List!Status
  <2>3. worker'[t] \in {"enq", "deq"} =>
          worker[t] = worker'[t] \/ (worker'[t] = "enq" /\ worker[t] \notin {"enq", "deq"})
    BY <2>1, Zenon DEF Moves
  <2>4. worker'[t] \notin {"enq", "deq"} => worker[t] \notin {"enq", "deq"}
    BY <2>1, Zenon DEF Moves
  <2> QED BY <1>1, <2>1, <2>2, <2>3, <2>4, Zenon DEF Calls
<1>5. Balance'
  <2>1. Slots' = Slots /\ In' = In /\ Seen' = Seen /\ \A s : KeyOf(s)' = KeyOf(s)
    BY <1>1, Zenon DEF Slots, In, Seen, KeyOf
  <2>2. ASSUME NEW s \in Slots PROVE (PutAt(s)' <=> PutAt(s)) /\ (TakenAt(s)' <=> TakenAt(s))
    <3>1. s[1] \in Threads /\ s[2] \in 0..(itemNum - 1)
      BY Zenon DEF Slots
    <3>2. Calls(s[1]) /\ Moves(s[1]) /\ UNCHANGED <<i, op, listOp>>
      BY <1>1, <1>2, <3>1, Zenon
    <3>3. ~ (s[2] < 0)
      BY <3>1
    <3>4. CASE worker'[s[1]] = worker[s[1]]
      BY <3>2, <3>4, Zenon DEF PutAt, TakenAt
    <3>5. CASE worker[s[1]] \in {"new", "begin", "wait", "test"}
      <4>1. i'[s[1]] = 0 /\ op'[s[1]] = "idle" /\ listOp'[s[1]] = "idle"
        BY <3>2, <3>5, Zenon DEF Calls
      <4>2. worker'[s[1]] \in {"new", "begin", "wait", "test", "enq"}
        BY <3>2, <3>5, Zenon DEF Moves
      <4> QED BY <3>3, <3>5, <4>1, <4>2, Zenon DEF PutAt, TakenAt
    <3>6. CASE worker[s[1]] = "end" /\ worker'[s[1]] = "exit"
      BY <3>6, Zenon DEF PutAt, TakenAt
    <3> QED BY <3>2, <3>4, <3>5, <3>6, Zenon DEF Moves
  <2>3. Put' = Put /\ Taken' = Taken
    BY <2>1, <2>2, Zenon DEF Put, Taken
  <2> QED BY <1>1, <1>2, <2>1, <2>3, Zenon DEF Balance
<1> QED BY <1>3, <1>4, <1>5, Zenon DEF IInv

LEMMA AllCame ==
  ASSUME Types, Barrier, \A t \in Workers : worker[t] # "new"
  PROVE  created = threadNum
<1>1. threadNum \in Nat \ {0} /\ created \in 0..threadNum /\ Workers \subseteq Threads
  BY Sizes DEF Types, TypeOK
<1>2. threadNum - 1 \in Workers
  BY <1>1 DEF Workers
<1>3. ~ (created <= threadNum - 1)
  BY <1>1, <1>2, Zenon DEF Barrier
<1> QED BY <1>1, <1>3

\* The steps of main and of the master that leave the workers as they are.
LEMMA OutsideStep ==
  ASSUME IInv, UNCHANGED <<bench, queue, list, options, results, created, worker, beginNum, endNum>>,
         main' \in {"create", "end", "returned", "aborted"}, main' = "end" => created < threadNum,
         master' \in {"new", "test", "wait", "exit"}, master' = "exit" => endNum = threadNum,
         verdict' \in {None, "OK", "FAILED"}, verdict' # None => master' = "exit"
  PROVE  IInv'
<1>1. /\ UNCHANGED <<bench, queue, list, options, results>> /\ UNCHANGED <<created, worker, beginNum, endNum>>
      /\ UNCHANGED <<threadNum, itemNum>>
  BY Zenon DEF options
<1>2. Types /\ Barrier
  BY Zenon DEF IInv
<1>3. created' \in 0..threadNum /\ worker' \in [Threads -> Places] /\ beginNum' \in 0..threadNum /\ endNum' \in 0..threadNum
  BY <1>1, <1>2, Zenon DEF Types, TypeOK, Places
<1>4. Came' = Came /\ Left' = Left
  BY <1>1, Zenon DEF Came, Left, Workers
<1>5. Barrier'
  BY <1>1, <1>2, <1>4, Zenon DEF Barrier
<1>6. \A t \in Threads : Moves(t)
  BY <1>1, Zenon DEF Moves
<1> QED BY <1>1, <1>3, <1>5, <1>6, ControlStep, Zenon

LEMMA CreateWorkerStep ==
  ASSUME IInv, CreateWorker
  PROVE  IInv'
<1>1. /\ UNCHANGED <<bench, queue, list, options, results>>
      /\ UNCHANGED <<main, master, beginNum, endNum, verdict, threadNum, itemNum>>
      /\ main = "create" /\ created < threadNum /\ created' = created + 1
      /\ worker' = [worker EXCEPT ![created] = "begin"]
  BY Zenon DEF CreateWorker, options
<1>2. Types /\ Barrier
  BY Zenon DEF IInv
<1>3. /\ threadNum \in Nat \ {0} /\ created \in 0..threadNum /\ Threads \subseteq Nat
      /\ Workers \subseteq Threads /\ worker \in [Threads -> Places]
  BY <1>2, Sizes DEF Types, TypeOK, Places
<1>4. created \in Threads /\ created' \in 0..threadNum
  BY <1>1, <1>3 DEF Workers
<1>5. worker[created] = "new"
  BY <1>2, <1>3, <1>4 DEF Barrier
<1>6. ASSUME NEW t \in Threads
      PROVE  worker'[t] = IF t = created THEN "begin" ELSE worker[t]
  BY <1>1, <1>3, Zenon
<1>7. worker' \in [Threads -> Places]
  BY <1>1, <1>3, <1>4, Zenon DEF Places
<1>8. Came' = Came /\ Left' = Left
  <2>1. Workers' = Workers
    BY <1>1, Zenon DEF Workers
  <2>2. ASSUME NEW t \in Workers
        PROVE  /\ worker'[t] \in {"new", "begin"} <=> worker[t] \in {"new", "begin"}
               /\ worker'[t] = "exit" <=> worker[t] = "exit"
    BY <1>3, <1>5, <1>6, Zenon
  <2> QED BY <2>1, <2>2, Zenon DEF Came, Left
<1>9. Barrier'
  <2>1. ASSUME NEW t \in Threads
        PROVE  /\ worker'[t] = "new" <=> created' <= t
               /\ worker'[t] \in Past => created' = threadNum
    <3>1. worker[t] = "new" <=> created <= t
      BY <1>2, Zenon DEF Barrier
    <3>2. worker[t] \notin Past
      BY <1>1, <1>2, <1>3 DEF Barrier
    <3>3. t \in Nat /\ (created' <= t <=> created <= t /\ t # created)
      BY <1>1, <1>3
    <3> QED BY <1>6, <3>1, <3>2, <3>3, Zenon DEF Past
  <2> QED BY <1>1, <1>2, <1>8, <2>1, Zenon DEF Barrier
<1>10. \A t \in Threads : Moves(t)
  BY <1>5, <1>6, Zenon DEF Moves
<1>11. /\ main' \in {"create", "end", "returned", "aborted"} /\ master' \in {"new", "test", "wait", "exit"}
       /\ beginNum' \in 0..threadNum /\ endNum' \in 0..threadNum /\ verdict' \in {None, "OK", "FAILED"}
  BY <1>1, <1>2, Zenon DEF Types, TypeOK
<1> QED BY <1>1, <1>4, <1>7, <1>9, <1>10, <1>11, ControlStep, Zenon

LEMMA MainSteps ==
  ASSUME IInv, MainStep \/ MasterStep \/ MasterWakes
  PROVE  IInv'
<1>1. CASE CreateWorker
  BY <1>1, CreateWorkerStep, Zenon
<1>2. CASE CreateMaster \/ CreateFails \/ Abort \/ Join \/ MasterWaits \/ MasterWakes \/ MasterReports
  <2>1. UNCHANGED <<bench, queue, list, options, results>> /\ UNCHANGED <<created, worker, beginNum, endNum>>
    BY <1>2, Zenon DEF CreateMaster, CreateFails, Abort, Join, MasterWaits, MasterWakes, MasterReports
  <2>2. Types /\ Barrier
    BY Zenon DEF IInv
  <2>3. /\ main \in {"create", "end", "returned", "aborted"} /\ (main = "end" => created < threadNum)
        /\ master \in {"new", "test", "wait", "exit"} /\ (master = "exit" => endNum = threadNum)
        /\ verdict \in {None, "OK", "FAILED"} /\ (verdict # None => master = "exit")
    BY <2>2, Zenon DEF Types, TypeOK, Barrier
  <2>4. main' \in {"create", "end", "returned", "aborted"} /\ (main' = "end" => created < threadNum)
    BY <1>2, <2>3, Zenon DEF CreateMaster, CreateFails, Abort, Join, MasterWaits, MasterWakes, MasterReports
  <2>5. /\ master' \in {"new", "test", "wait", "exit"} /\ (master' = "exit" => endNum = threadNum)
        /\ verdict' \in {None, "OK", "FAILED"} /\ (verdict' # None => master' = "exit")
    BY <1>2, <2>3 DEF CreateMaster, CreateFails, Abort, Join, MasterWaits, MasterWakes, MasterReports
  <2> QED BY <2>1, <2>4, <2>5, OutsideStep, Zenon
<1> QED BY <1>1, <1>2, Zenon DEF MainStep, MasterStep

\* A step at the barrier.
LEMMA BarrierStep ==
  ASSUME IInv, worker' \in [Threads -> Places],
         UNCHANGED <<bench, queue, list, options, results>>, UNCHANGED <<main, created, master, endNum, verdict>>,
         \A u \in Threads : \/ worker'[u] = worker[u]
                            \/ worker[u] \in {"begin", "wait", "test"} /\ worker'[u] \in {"wait", "test"}
                            \/ worker[u] \in {"begin", "test"} /\ worker'[u] = "enq",
         \A u \in Threads : worker'[u] = "enq" => created = threadNum,
         beginNum' = IF threadNum = 1 THEN 0 ELSE Cardinality(Came')
  PROVE  IInv'
<1>1. Types /\ Barrier /\ UNCHANGED <<threadNum, itemNum>>
  BY Zenon DEF IInv, options
<1>2. Workers \subseteq Threads /\ Workers' = Workers /\ threadNum \in Nat
  BY <1>1, Sizes DEF Types, TypeOK, Workers
<1>3. Left' = Left
  <2>1. \A u \in Threads : worker'[u] = "exit" <=> worker[u] = "exit"
    BY Zenon
  <2> QED BY <1>2, <2>1, Zenon DEF Left
<1>4. beginNum' \in 0..threadNum
  <2>1. Came' \subseteq Workers
    BY <1>2, Zenon DEF Came
  <2>2. Cardinality(Came') \in 0..threadNum
    BY <1>1, <2>1, SlotFacts, Zenon DEF Types, TypeOK
  <2> QED BY <1>2, <2>2
<1>5. ASSUME NEW u \in Threads
      PROVE  (worker'[u] = "new" <=> created' <= u) /\ (worker'[u] \in Past => created' = threadNum')
  <2>1. (worker[u] = "new" <=> created <= u) /\ (worker[u] \in Past => created = threadNum)
    BY <1>1, Zenon DEF Barrier
  <2>2. (worker'[u] = "new" <=> worker[u] = "new") /\ (worker'[u] \in Past => worker[u] \in Past \/ worker'[u] = "enq")
    BY Zenon DEF Past
  <2> QED BY <1>1, <2>1, <2>2, Zenon
<1>6. Barrier'
  BY <1>1, <1>3, <1>5, Zenon DEF Barrier
<1>7. \A u \in Threads : Moves(u)
  BY Zenon DEF Moves
<1>8. /\ main' \in {"create", "end", "returned", "aborted"} /\ master' \in {"new", "test", "wait", "exit"}
      /\ created' \in 0..threadNum /\ endNum' \in 0..threadNum /\ verdict' \in {None, "OK", "FAILED"}
  BY <1>1, Zenon DEF Types, TypeOK
<1> QED BY <1>4, <1>6, <1>7, <1>8, ControlStep, Zenon

LEMMA WorkerBeginsStep ==
  ASSUME IInv, NEW t \in Workers, WorkerBegins(t)
  PROVE  IInv'
<1>1. /\ UNCHANGED <<bench, queue, list, options, results>> /\ UNCHANGED <<main, created, master, endNum, verdict>>
      /\ UNCHANGED <<threadNum, itemNum>> /\ worker[t] = "begin"
  BY Zenon DEF WorkerBegins, options
<1>2. Types /\ Barrier
  BY Zenon DEF IInv
<1>3. /\ threadNum \in Nat \ {0} /\ created \in 0..threadNum /\ Threads \subseteq Nat
      /\ Workers \subseteq Threads /\ Workers' = Workers /\ worker \in [Threads -> Places]
  BY <1>1, <1>2, Sizes, Zenon DEF Types, TypeOK, Places, Workers
<1>4. \A u \in Threads : worker[u] = "enq" => created = threadNum
  BY <1>2, Zenon DEF Barrier, Past
<1>5. CASE threadNum = 1
  <2>1. worker' = [worker EXCEPT ![t] = "enq"] /\ beginNum' = beginNum
    BY <1>5, Zenon DEF WorkerBegins
  <2>2. worker' \in [Threads -> Places] /\ \A u \in Threads : worker'[u] = IF u = t THEN "enq" ELSE worker[u]
    BY <1>3, <2>1, Zenon DEF Places
  <2>3. created = threadNum
    <3>1. ~ (created <= t)
      BY <1>1, <1>2, <1>3, Zenon DEF Barrier
    <3> QED BY <1>3, <1>5, <3>1 DEF Workers
  <2>4. beginNum' = 0
    BY <1>2, <1>5, <2>1, Zenon DEF Barrier
  <2> QED BY <1>1, <1>5, <2>2, <2>3, <2>4, BarrierStep, Zenon
<1>6. CASE threadNum # 1
  <2>1. /\ beginNum' = beginNum + 1 /\ beginNum = Cardinality(Came)
        /\ worker' = IF beginNum' = threadNum THEN Broadcast([worker EXCEPT ![t] = "enq"])
                                              ELSE [worker EXCEPT ![t] = "wait"]
    BY <1>2, <1>6, Zenon DEF WorkerBegins, Barrier
  <2>2. /\ worker' \in [Threads -> Places]
        /\ \A u \in Threads : \/ worker'[u] = worker[u] /\ u # t
                              \/ u # t /\ worker[u] = "wait" /\ worker'[u] = "test"
                              \/ u = t /\ beginNum' = threadNum /\ worker'[u] = "enq"
                              \/ u = t /\ beginNum' # threadNum /\ worker'[u] = "wait"
    <3>1. CASE beginNum' = threadNum
      <4> DEFINE w == [worker EXCEPT ![t] = "enq"]
      <4>1. w \in [Threads -> Places] /\ \A u \in Threads : w[u] = IF u = t THEN "enq" ELSE worker[u]
        BY <1>3, Zenon DEF Places
      <4>2. worker' = [u \in Threads |-> IF w[u] = "wait" THEN "test" ELSE w[u]]
        BY <2>1, <3>1, Zenon DEF Broadcast
      <4> HIDE DEF w
      <4> QED BY <3>1, <4>1, <4>2, Zenon DEF Places
    <3>2. CASE beginNum' # threadNum
      BY <1>3, <2>1, <3>2, Zenon DEF Places
    <3> QED BY <3>1, <3>2, Zenon
  <2>3. Came' = Came \cup {t} /\ t \notin Came
    BY <1>1, <1>3, <2>2, Zenon DEF Came
  <2>4. IsFiniteSet(Came)
    <3>1. Came \in SUBSET Workers
      BY Zenon DEF Came
    <3> QED BY <1>2, <3>1, SlotFacts, Zenon DEF Types, TypeOK
  <2>5. Cardinality(Came') = beginNum'
    BY <2>1, <2>3, <2>4, OneMore, Zenon
  <2>6. beginNum' = threadNum => created = threadNum
    <3>1. ASSUME beginNum' = threadNum PROVE Came' = Workers
      <4>1. Came' \in SUBSET Workers
        BY <1>3, Zenon DEF Came
      <4> QED BY <1>2, <2>5, <3>1, <4>1, SlotFacts, Zenon DEF Types, TypeOK
    <3>2. ASSUME Came' = Workers PROVE created = threadNum
      <4>1. \A u \in Workers : worker[u] # "new"
        BY <1>1, <2>3, <3>2, Zenon DEF Came
      <4> QED BY <1>2, <4>1, AllCame, Zenon
    <3> QED BY <3>1, <3>2, Zenon
  <2>7. \A u \in Threads : worker'[u] = "enq" => created = threadNum
    BY <1>4, <2>2, <2>6, Zenon
  <2>8. \A u \in Threads : \/ worker'[u] = worker[u]
                           \/ worker[u] \in {"begin", "wait", "test"} /\ worker'[u] \in {"wait", "test"}
                           \/ worker[u] \in {"begin", "test"} /\ worker'[u] = "enq"
    BY <1>1, <2>2, Zenon
  <2> QED BY <1>1, <1>6, <2>2, <2>5, <2>7, <2>8, BarrierStep, Zenon
<1> QED BY <1>5, <1>6, Zenon

LEMMA WorkerWaitSteps ==
  ASSUME IInv, NEW t \in Workers, WorkerWakes(t) \/ WorkerTests(t)
  PROVE  IInv'
<1>1. /\ UNCHANGED <<bench, queue, list, options, results>> /\ UNCHANGED <<main, created, master, endNum, verdict>>
      /\ UNCHANGED <<threadNum, itemNum, beginNum>>
  BY Zenon DEF WorkerWakes, WorkerTests, options
<1>2. Types /\ Barrier
  BY Zenon DEF IInv
<1>3. /\ threadNum \in Nat \ {0} /\ Workers \subseteq Threads /\ Workers' = Workers
      /\ worker \in [Threads -> Places] /\ beginNum \in 0..threadNum
  BY <1>1, <1>2, Sizes, Zenon DEF Types, TypeOK, Places, Workers
<1>4. PICK w \in {"wait", "test", "enq"} :
        /\ worker' = [worker EXCEPT ![t] = w] /\ worker[t] \in {"wait", "test"}
        /\ w = "enq" => worker[t] = "test" /\ ~ (beginNum < threadNum)
  BY Zenon DEF WorkerWakes, WorkerTests, Goto
<1>5. worker' \in [Threads -> Places] /\ \A u \in Threads : worker'[u] = IF u = t THEN w ELSE worker[u]
  BY <1>3, <1>4, Zenon DEF Places
<1>6. Came' = Came
  BY <1>3, <1>4, <1>5, Zenon DEF Came
<1>7. w = "enq" => created = threadNum
  <2>1. ASSUME w = "enq" PROVE Came = Workers
    <3>1. Cardinality(Came) = threadNum
      BY <1>2, <1>3, <1>4, <2>1 DEF Barrier
    <3>2. Came \in SUBSET Workers
      BY Zenon DEF Came
    <3> QED BY <1>2, <3>1, <3>2, SlotFacts, Zenon DEF Types, TypeOK
  <2>2. ASSUME Came = Workers PROVE \A u \in Workers : worker[u] # "new"
    BY <2>2, Zenon DEF Came
  <2> QED BY <1>2, <2>1, <2>2, AllCame, Zenon
<1>8. \A u \in Threads : worker'[u] = "enq" => created = threadNum
  BY <1>2, <1>5, <1>7, Zenon DEF Barrier, Past
<1>9. beginNum' = IF threadNum = 1 THEN 0 ELSE Cardinality(Came')
  BY <1>1, <1>2, <1>6, Zenon DEF Barrier
<1>10. \A u \in Threads : \/ worker'[u] = worker[u]
                          \/ worker[u] \in {"begin", "wait", "test"} /\ worker'[u] \in {"wait", "test"}
                          \/ worker[u] \in {"begin", "test"} /\ worker'[u] = "enq"
  <2>1. CASE w = "enq"
    BY <1>4, <1>5, <2>1, Zenon
  <2>2. CASE w \in {"wait", "test"}
    BY <1>4, <1>5, <2>2, Zenon
  <2> QED BY <2>1, <2>2, Zenon
<1> QED BY <1>1, <1>5, <1>8, <1>9, <1>10, BarrierStep, Zenon

\* The worker counts itself out: the master cannot have seen the count full.
LEMMA WorkerEndsStep ==
  ASSUME IInv, NEW t \in Workers, WorkerEnds(t)
  PROVE  IInv'
<1>1. /\ UNCHANGED <<bench, queue, list, options, results>> /\ UNCHANGED <<main, created, beginNum, verdict>>
      /\ UNCHANGED <<threadNum, itemNum>>
      /\ worker[t] = "end" /\ worker' = [worker EXCEPT ![t] = "exit"] /\ endNum' = endNum + 1
      /\ master' = IF master = "wait" THEN "test" ELSE master
  BY Zenon DEF WorkerEnds, Goto, options
<1>2. Types /\ Barrier
  BY Zenon DEF IInv
<1>3. /\ threadNum \in Nat \ {0} /\ Workers \subseteq Threads /\ Workers' = Workers
      /\ worker \in [Threads -> Places]
  BY <1>1, <1>2, Sizes, Zenon DEF Types, TypeOK, Places, Workers
<1>4. worker' \in [Threads -> Places] /\ \A u \in Threads : worker'[u] = IF u = t THEN "exit" ELSE worker[u]
  BY <1>1, <1>3, Zenon DEF Places
<1>5. Left' = Left \cup {t} /\ t \notin Left
  BY <1>1, <1>3, <1>4, Zenon DEF Left
<1>6. /\ IsFiniteSet(Left) /\ (Cardinality(Left) = threadNum => Left = Workers)
      /\ Cardinality(Left') \in 0..threadNum
  <2>1. Left \in SUBSET Workers /\ Left' \in SUBSET Workers
    BY <1>3, Zenon DEF Left
  <2> QED BY <1>2, <2>1, SlotFacts, Zenon DEF Types, TypeOK
<1>7. endNum' = Cardinality(Left') /\ endNum' \in 0..threadNum
  <2>1. Cardinality(Left') = Cardinality(Left) + 1
    BY <1>5, <1>6, OneMore, Zenon
  <2>2. endNum = Cardinality(Left)
    BY <1>2, Zenon DEF Barrier
  <2> QED BY <1>1, <1>6, <2>1, <2>2, Zenon
<1>8. master # "exit" /\ master' # "exit"
  <2>1. master # "exit"
    BY <1>2, <1>5, <1>6, Zenon DEF Barrier
  <2> QED BY <1>1, <2>1, Zenon
<1>9. Came' = Came
  BY <1>1, <1>3, <1>4, Zenon DEF Came
<1>10. ASSUME NEW u \in Threads
       PROVE  (worker'[u] = "new" <=> created' <= u) /\ (worker'[u] \in Past => created' = threadNum')
  <2>1. (worker[u] = "new" <=> created <= u) /\ (worker[u] \in Past => created = threadNum)
    BY <1>2, Zenon DEF Barrier
  <2>2. (worker'[u] = "new" <=> worker[u] = "new") /\ (worker'[u] \in Past <=> worker[u] \in Past)
    BY <1>1, <1>4, Zenon DEF Past
  <2> QED BY <1>1, <2>1, <2>2, Zenon
<1>11. Barrier'
  BY <1>1, <1>2, <1>7, <1>8, <1>9, <1>10, Zenon DEF Barrier
<1>12. \A u \in Threads : Moves(u)
  BY <1>1, <1>4, Zenon DEF Moves
<1>13. /\ main' \in {"create", "end", "returned", "aborted"} /\ master' \in {"new", "test", "wait", "exit"}
       /\ created' \in 0..threadNum /\ beginNum' \in 0..threadNum /\ verdict' \in {None, "OK", "FAILED"}
  BY <1>1, <1>2, Zenon DEF Types, TypeOK
<1> QED BY <1>1, <1>4, <1>7, <1>11, <1>12, <1>13, ControlStep, Zenon

-----------------------------------------------------------------------------
(* Slots *)

LEMMA SlotOf ==
  ASSUME IInv, NEW t \in Workers
  PROVE  /\ t \in Threads /\ <<t, i[t]>> \in Slots /\ i[t] \in 0..(itemNum - 1) /\ itemNum \in Nat \ {0}
         /\ Key(t) = KeyOf(<<t, i[t]>>) /\ Key(t) \in AllKeys
         /\ <<t, i[t]>> \in Put <=> \/ worker[t] \in {"deq", "end", "exit"}
                                    \/ worker[t] = "enq" /\ (op[t] = "enqed" \/ listOp[t] = "added")
         /\ <<t, i[t]>> \in Taken <=> \/ worker[t] \in {"end", "exit"}
                                      \/ worker[t] = "deq" /\ (op[t] = "deqed" \/ listOp[t] = "deleted")
<1>1. <<threadNum, itemNum>> \in Options /\ i \in [Threads -> 0..(itemNum - 1)]
  BY Zenon DEF IInv, Types, TypeOK
<1>2. t \in Threads /\ itemNum \in Nat \ {0}
  BY <1>1, Sizes
<1>3. i[t] \in 0..(itemNum - 1) /\ ~ (i[t] < i[t])
  BY <1>1, <1>2
<1>4. <<t, i[t]>> \in Slots /\ <<t, i[t]>>[1] = t /\ <<t, i[t]>>[2] = i[t]
  BY <1>2, <1>3 DEF Slots
<1>5. Key(t) = KeyOf(<<t, i[t]>>)
  BY <1>4, Zenon DEF Key, KeyOf
<1>6. Key(t) \in AllKeys
  BY <1>1, <1>3, KeyRange, Zenon DEF Key
<1> QED BY <1>2, <1>3, <1>4, <1>5, <1>6, Zenon DEF Put, Taken, PutAt, TakenAt

\* The other slots stay as they are.
Apart(t) ==
  /\ UNCHANGED <<threadNum, itemNum>>
  /\ \A u \in Threads : u # t => /\ worker'[u] = worker[u] /\ i'[u] = i[u]
                                 /\ op'[u] = op[u] /\ listOp'[u] = listOp[u]

\* A step within a call: at most the slot of the call is put in or taken out.
LEMMA EffectSlots ==
  ASSUME IInv, NEW t \in Workers, Apart(t), worker'[t] = worker[t], i'[t] = i[t],
         op[t] \notin {"enqed", "deqed"}, listOp[t] \notin {"added", "deleted"}
  PROVE  /\ Put' = IF worker[t] = "enq" /\ (op'[t] = "enqed" \/ listOp'[t] = "added")
                     THEN Put \cup {<<t, i[t]>>} ELSE Put
         /\ Taken' = IF worker[t] = "deq" /\ (op'[t] = "deqed" \/ listOp'[t] = "deleted")
                       THEN Taken \cup {<<t, i[t]>>} ELSE Taken
<1>1. t \in Threads /\ <<t, i[t]>> \in Slots /\ i[t] \in 0..(itemNum - 1) /\ itemNum \in Nat \ {0}
  BY SlotOf, Zenon
<1>2. Slots' = Slots
  BY Zenon DEF Slots, Apart
<1>3. ASSUME NEW s \in Slots
      PROVE  /\ s[1] \in Threads /\ (s = <<t, i[t]>> <=> s[1] = t /\ s[2] = i[t])
             /\ s[1] # t => (PutAt(s)' <=> PutAt(s)) /\ (TakenAt(s)' <=> TakenAt(s))
  <2>1. s[1] \in Threads /\ (s = <<t, i[t]>> <=> s[1] = t /\ s[2] = i[t])
    BY DEF Slots
  <2> QED BY <2>1, Zenon DEF Apart, PutAt, TakenAt
<1>4. ASSUME NEW s \in Slots
      PROVE  PutAt(s)' <=> \/ PutAt(s)
                           \/ /\ s = <<t, i[t]>>
                              /\ worker[t] = "enq" /\ (op'[t] = "enqed" \/ listOp'[t] = "added")
  <2>1. CASE s[1] # t
    BY <1>3, <2>1, Zenon
  <2>2. CASE s[1] = t
    BY <1>3, <2>2, Zenon DEF PutAt
  <2> QED BY <2>1, <2>2, Zenon
<1>5. ASSUME NEW s \in Slots
      PROVE  TakenAt(s)' <=> \/ TakenAt(s)
                             \/ /\ s = <<t, i[t]>>
                                /\ worker[t] = "deq" /\ (op'[t] = "deqed" \/ listOp'[t] = "deleted")
  <2>1. CASE s[1] # t
    BY <1>3, <2>1, Zenon
  <2>2. CASE s[1] = t
    BY <1>3, <2>2, Zenon DEF TakenAt
  <2> QED BY <2>1, <2>2, Zenon
<1>6. Put' = IF worker[t] = "enq" /\ (op'[t] = "enqed" \/ listOp'[t] = "added")
               THEN Put \cup {<<t, i[t]>>} ELSE Put
  <2>1. CASE worker[t] = "enq" /\ (op'[t] = "enqed" \/ listOp'[t] = "added")
    BY <1>1, <1>2, <1>4, <2>1, Zenon DEF Put
  <2>2. CASE ~ (worker[t] = "enq" /\ (op'[t] = "enqed" \/ listOp'[t] = "added"))
    BY <1>2, <1>4, <2>2, Zenon DEF Put
  <2> QED BY <2>1, <2>2, Zenon
<1>7. Taken' = IF worker[t] = "deq" /\ (op'[t] = "deqed" \/ listOp'[t] = "deleted")
                 THEN Taken \cup {<<t, i[t]>>} ELSE Taken
  <2>1. CASE worker[t] = "deq" /\ (op'[t] = "deqed" \/ listOp'[t] = "deleted")
    BY <1>1, <1>2, <1>5, <2>1, Zenon DEF Taken
  <2>2. CASE ~ (worker[t] = "deq" /\ (op'[t] = "deqed" \/ listOp'[t] = "deleted"))
    BY <1>2, <1>5, <2>2, Zenon DEF Taken
  <2> QED BY <2>1, <2>2, Zenon
<1> QED BY <1>6, <1>7, Zenon

LEMMA Below ==
  ASSUME NEW m \in Nat \ {0}, NEW j \in 0..(m - 1), NEW k \in 0..(m - 1)
  PROVE  /\ ~ (k < 0)
         /\ j + 1 = m => k < j \/ k = j
         /\ k < j + 1 <=> k < j \/ k = j
OBVIOUS

\* A call returns: its slot is done.
LEMMA ReturnSlots ==
  ASSUME IInv, NEW t \in Workers, NEW from, NEW to, UNCHANGED <<threadNum, itemNum>>,
         \/ from = "enq" /\ to = "deq"
         \/ from = "deq" /\ to = "end",
         NextIteration(t, from, to), op'[t] = "idle", listOp'[t] = "idle",
         \A u \in Threads : u # t => op'[u] = op[u] /\ listOp'[u] = listOp[u]
  PROVE  /\ Apart(t) /\ i' \in [Threads -> 0..(itemNum - 1)] /\ worker' \in [Threads -> Places]
         /\ worker[t] = from /\ (worker'[t] = from \/ (worker'[t] = to /\ i'[t] = 0))
         /\ from = "enq" => Put' = Put \cup {<<t, i[t]>>} /\ Taken' = Taken
         /\ from = "deq" => Put' = Put /\ Taken' = Taken \cup {<<t, i[t]>>}
<1>1. t \in Threads /\ <<t, i[t]>> \in Slots /\ i[t] \in 0..(itemNum - 1) /\ itemNum \in Nat \ {0}
  BY SlotOf, Zenon
<1>2. i \in [Threads -> 0..(itemNum - 1)] /\ worker \in [Threads -> Places]
  BY Zenon DEF IInv, Types, TypeOK, Places
<1>3. /\ worker[t] = from /\ i' = [i EXCEPT ![t] = (@ + 1) % itemNum]
      /\ worker' = [worker EXCEPT ![t] = IF i[t] + 1 = itemNum THEN to ELSE from]
  BY Zenon DEF NextIteration, Goto
<1>4. i'[t] = IF i[t] + 1 = itemNum THEN 0 ELSE i[t] + 1
  <2>1. i'[t] = (i[t] + 1) % itemNum
    BY <1>1, <1>2, <1>3, Zenon
  <2> QED BY <1>1, <2>1, Wrap, Zenon
<1>5. i'[t] \in 0..(itemNum - 1)
  BY <1>1, <1>4
<1>6. i' \in [Threads -> 0..(itemNum - 1)] /\ \A u \in Threads : u # t => i'[u] = i[u]
  BY <1>1, <1>2, <1>3, <1>5, Zenon
<1>7. /\ worker' \in [Threads -> Places] /\ \A u \in Threads : u # t => worker'[u] = worker[u]
      /\ worker'[t] = IF i[t] + 1 = itemNum THEN to ELSE from
  BY <1>1, <1>2, <1>3, Zenon DEF Places
<1>8. Apart(t)
  BY <1>6, <1>7, Zenon DEF Apart
<1>9. Slots' = Slots
  BY Zenon DEF Slots
<1>10. ASSUME NEW s \in Slots
       PROVE  /\ s[1] # t => (PutAt(s)' <=> PutAt(s)) /\ (TakenAt(s)' <=> TakenAt(s))
              /\ s = <<t, i[t]>> <=> s[1] = t /\ s[2] = i[t]
              /\ s[2] \in 0..(itemNum - 1)
  <2>1. s[1] \in Threads /\ s[2] \in 0..(itemNum - 1) /\ (s = <<t, i[t]>> <=> s[1] = t /\ s[2] = i[t])
    BY DEF Slots
  <2> QED BY <1>8, <2>1, Zenon DEF Apart, PutAt, TakenAt
<1>11. ASSUME NEW s \in Slots, s[1] = t
       PROVE  /\ ~ (s[2] < 0) /\ (i[t] + 1 = itemNum => s[2] < i[t] \/ s[2] = i[t])
              /\ s[2] < i[t] + 1 <=> s[2] < i[t] \/ s[2] = i[t]
  BY <1>1, <1>10, Below, Zenon
<1>12. CASE from = "enq" /\ to = "deq"
  <2>1. ASSUME NEW s \in Slots, s[1] = t
        PROVE  (PutAt(s)' <=> PutAt(s) \/ s = <<t, i[t]>>) /\ (TakenAt(s)' <=> TakenAt(s))
    <3>1. worker[s[1]] = "enq" /\ op'[s[1]] = "idle" /\ listOp'[s[1]] = "idle"
      BY <1>3, <1>12, <2>1, Zenon
    <3>2. s[2] = i[s[1]] <=> s = <<t, i[t]>>
      BY <1>10, <2>1, Zenon
    <3>3. ~ (s[2] < 0) /\ (i[t] + 1 = itemNum => s[2] < i[s[1]] \/ s[2] = i[s[1]])
      BY <1>11, <2>1, Zenon
    <3>4. CASE i[t] + 1 = itemNum
      <4>1. worker'[s[1]] = "deq" /\ i'[s[1]] = 0
        BY <1>4, <1>7, <1>12, <2>1, <3>4, Zenon
      <4> QED BY <3>1, <3>2, <3>3, <3>4, <4>1, Zenon DEF PutAt, TakenAt
    <3>5. CASE i[t] + 1 # itemNum
      <4>1. worker'[s[1]] = "enq" /\ (s[2] < i'[s[1]] <=> s[2] < i[s[1]] \/ s[2] = i[s[1]])
        BY <1>4, <1>7, <1>11, <1>12, <2>1, <3>5, Zenon
      <4> QED BY <3>1, <3>2, <4>1, Zenon DEF PutAt, TakenAt
    <3> QED BY <3>4, <3>5, Zenon
  <2>2. Put' = Put \cup {<<t, i[t]>>} /\ Taken' = Taken
    BY <1>1, <1>9, <1>10, <2>1, Zenon DEF Put, Taken
  <2> QED BY <1>3, <1>4, <1>6, <1>7, <1>8, <1>12, <2>2, Zenon
<1>13. CASE from = "deq" /\ to = "end"
  <2>1. ASSUME NEW s \in Slots, s[1] = t
        PROVE  (PutAt(s)' <=> PutAt(s)) /\ (TakenAt(s)' <=> TakenAt(s) \/ s = <<t, i[t]>>)
    <3>1. worker[s[1]] = "deq" /\ op'[s[1]] = "idle" /\ listOp'[s[1]] = "idle"
      BY <1>3, <1>13, <2>1, Zenon
    <3>2. s[2] = i[s[1]] <=> s = <<t, i[t]>>
      BY <1>10, <2>1, Zenon
    <3>3. ~ (s[2] < 0) /\ (i[t] + 1 = itemNum => s[2] < i[s[1]] \/ s[2] = i[s[1]])
      BY <1>11, <2>1, Zenon
    <3>4. CASE i[t] + 1 = itemNum
      <4>1. worker'[s[1]] = "end" /\ i'[s[1]] = 0
        BY <1>4, <1>7, <1>13, <2>1, <3>4, Zenon
      <4> QED BY <3>1, <3>2, <3>3, <3>4, <4>1, Zenon DEF PutAt, TakenAt
    <3>5. CASE i[t] + 1 # itemNum
      <4>1. worker'[s[1]] = "deq" /\ (s[2] < i'[s[1]] <=> s[2] < i[s[1]] \/ s[2] = i[s[1]])
        BY <1>4, <1>7, <1>11, <1>13, <2>1, <3>5, Zenon
      <4> QED BY <3>1, <3>2, <4>1, Zenon DEF PutAt, TakenAt
    <3> QED BY <3>4, <3>5, Zenon
  <2>2. Put' = Put /\ Taken' = Taken \cup {<<t, i[t]>>}
    BY <1>1, <1>9, <1>10, <2>1, Zenon DEF Put, Taken
  <2> QED BY <1>3, <1>4, <1>6, <1>7, <1>8, <1>13, <2>2, Zenon
<1> QED BY <1>12, <1>13, Zenon

-----------------------------------------------------------------------------
(* Steps of the calls *)

\* The calls of worker t leave main, the master, the counts and the verdict alone.
Inside(t) ==
  /\ UNCHANGED <<bench, options, main, created, master, beginNum, endNum, verdict>>
  /\ Apart(t)
  /\ \/ worker'[t] = worker[t]
     \/ worker[t] \in {"enq", "deq"} /\ worker'[t] \in {"enq", "deq", "end"}

LEMMA InsideBarrier ==
  ASSUME IInv, NEW t \in Workers, Inside(t)
  PROVE  Barrier'
<1>1. Types /\ Barrier /\ UNCHANGED <<main, created, master, beginNum, endNum, verdict, threadNum>>
  BY Zenon DEF IInv, Inside, Apart
<1>2. Workers \subseteq Threads /\ Workers' = Workers
  BY <1>1, Sizes, Zenon DEF Types, TypeOK, Workers
<1>3. ASSUME NEW u \in Threads
      PROVE  /\ worker'[u] = worker[u] \/ (worker[u] \in {"enq", "deq"} /\ worker'[u] \in {"enq", "deq", "end"})
             /\ worker'[u] = "new" <=> worker[u] = "new"
             /\ worker'[u] \in Past <=> worker[u] \in Past
  <2>1. worker'[u] = worker[u] \/ (worker[u] \in {"enq", "deq"} /\ worker'[u] \in {"enq", "deq", "end"})
    BY Zenon DEF Inside, Apart
  <2> QED BY <2>1, Zenon DEF Past
<1>4. Came' = Came /\ Left' = Left
  <2>1. \A u \in Threads : /\ worker'[u] \in {"new", "begin"} <=> worker[u] \in {"new", "begin"}
                           /\ worker'[u] = "exit" <=> worker[u] = "exit"
    BY <1>3, Zenon
  <2> QED BY <1>2, <2>1, Zenon DEF Came, Left
<1> QED BY <1>1, <1>3, <1>4, Zenon DEF Barrier

LEMMA OtherCalls ==
  ASSUME IInv, NEW t \in Workers, Inside(t), NEW u \in Threads, u # t,
         arg'[u] = arg[u], key'[u] = key[u], u \in sawEmpty' => op[u] = "deq",
         listOp[u] \in {"alloc", "add", "delete"} => saw'[u] = {List!Status(Key(u))}'
  PROVE  Calls(u)'
<1>1. Calls(u) /\ UNCHANGED <<bench, itemNum>> /\ worker'[u] = worker[u] /\ i'[u] = i[u]
      /\ op'[u] = op[u] /\ listOp'[u] = listOp[u]
  BY Zenon DEF IInv, Inside, Apart
<1>2. Key(u)' = Key(u)
  BY <1>1, Zenon DEF Key
<1> QED BY <1>1, <1>2, Zenon DEF Calls

\* The slots are finite sets, before the step and after it.
LEMMA Counts ==
  ASSUME IInv, UNCHANGED itemNum
  PROVE  /\ Slots' = Slots
         /\ \A S \in {Put, Taken, In, Seen, Put', Taken', In', Seen'} :
              S \subseteq Slots /\ IsFiniteSet(S) /\ Cardinality(S) \in Nat
<1>1. <<threadNum, itemNum>> \in Options
  BY Zenon DEF IInv, Types, TypeOK
<1>2. Slots' = Slots
  BY Zenon DEF Slots
<1>3. Put \subseteq Slots /\ Taken \subseteq Slots /\ In \subseteq Slots /\ Seen \subseteq Slots
  BY Zenon DEF Put, Taken, In, Seen
<1>4. Put' \subseteq Slots /\ Taken' \subseteq Slots /\ In' \subseteq Slots /\ Seen' \subseteq Slots
  BY <1>2, Zenon DEF Put, Taken, In, Seen
<1> QED BY <1>1, <1>2, <1>3, <1>4, SlotFacts, Zenon

\* What is to be shown of a step of a bench with a queue.
LEMMA QueueBalance ==
  ASSUME IInv, bench = "queue", UNCHANGED <<bench, itemNum, set>>,
         Cardinality(Put') + delErrors' = Len(items') + Cardinality(Taken') + enqErrors',
         delErrors' + Cardinality(Seen') <= enqErrors',
         Len(items') \in Nat
  PROVE  Balance'
<1>1. set' = {} /\ bench' = "queue"
  BY Zenon DEF IInv, Balance
<1>2. In' = {}
  BY <1>1, Zenon DEF In
<1>3. Cardinality(In') = 0
  BY <1>2, FS_EmptySet, Zenon
<1>4. Len(items') + Cardinality(In') = Len(items')
  BY <1>3
<1> QED BY <1>1, <1>2, <1>4, Zenon DEF Balance

\* While the queue is empty, the calls of deq that may return false are for want
\* of an item some enq failed to add.
LEMMA EmptyQueue ==
  ASSUME IInv, UNCHANGED <<bench, itemNum>>, bench = "queue", \A u \in Threads : Calls(u)', worker' \in [Threads -> Places],
         i' \in [Threads -> 0..(itemNum - 1)],
         Cardinality(Put') + delErrors' = Cardinality(Taken') + enqErrors',
         enqErrors' \in Nat, delErrors' \in Nat, sawEmpty' \subseteq Threads
  PROVE  delErrors' + Cardinality(Seen') <= enqErrors'
<1>1. /\ Slots' = Slots /\ IsFiniteSet(Put') /\ IsFiniteSet(Taken') /\ IsFiniteSet(Seen')
      /\ Cardinality(Put') \in Nat /\ Cardinality(Taken') \in Nat /\ Cardinality(Seen') \in Nat
      /\ Seen' \subseteq Slots /\ Taken' \subseteq Slots
  BY Counts, Zenon
<1>2. ASSUME NEW s \in Seen' PROVE s \in Put' /\ s \notin Taken'
  <2>1. s \in Slots /\ s[1] \in Threads /\ s[1] \in sawEmpty' /\ s[2] = i'[s[1]]
    BY <1>1, Zenon DEF Seen
  <2>2. op'[s[1]] = "deq" /\ listOp'[s[1]] = "idle" /\ worker'[s[1]] = "deq"
    BY <2>1, Zenon DEF Calls, Places
  <2>3. ~ (s[2] < i'[s[1]])
    <3>1. i'[s[1]] \in Int
      BY <2>1
    <3> QED BY <2>1, <3>1
  <2> QED BY <1>1, <2>1, <2>2, <2>3, Zenon DEF Put, Taken, PutAt, TakenAt
<1>3. Taken' \subseteq Put'
  BY <1>1, Zenon DEF Put, Taken, PutAt, TakenAt
<1>4. Cardinality(Seen' \cup Taken') = Cardinality(Seen') + Cardinality(Taken')
  <2>1. Seen' \cap Taken' = {}
    BY <1>2, Zenon
  <2>2. Cardinality(Seen' \cup Taken') = Cardinality(Seen') + Cardinality(Taken') - Cardinality(Seen' \cap Taken')
    BY <1>1, FS_Union, Zenon
  <2>3. Cardinality(Seen' \cap Taken') = 0
    BY <2>1, FS_EmptySet, Zenon
  <2> QED BY <1>1, <2>2, <2>3
<1>5. Cardinality(Seen' \cup Taken') <= Cardinality(Put')
  <2>1. Seen' \cup Taken' \subseteq Put'
    BY <1>2, <1>3, Zenon
  <2> QED BY <1>1, <2>1, FS_Subset, Zenon
<1> QED BY <1>1, <1>4, <1>5

QueueTypes ==
  /\ items \in Seq(AllKeys) /\ op \in [Threads -> Queue!OpState]
  /\ arg \in [Threads -> AllKeys \cup {None}] /\ sawEmpty \subseteq Threads

ListTypes ==
  /\ listOp \in [Threads -> List!OpState] /\ key \in [Threads -> AllKeys \cup {None}]
  /\ saw \in [Threads -> SUBSET {"in", "out"}] /\ set \subseteq AllKeys

LoopTypes ==
  /\ worker \in [Threads -> Places] /\ i \in [Threads -> 0..(itemNum - 1)]
  /\ getval \in [Threads -> CheckIndex \cup Garbage \cup {None}]
  /\ sum \in [Threads -> Nat] /\ check \in [CheckIndex -> Nat]
  /\ enqErrors \in 0..MaxEnqFailures /\ delErrors \in Nat

LEMMA TypesOf ==
  ASSUME IInv
  PROVE  QueueTypes /\ ListTypes /\ LoopTypes /\ enqErrors \in Nat /\ MaxEnqFailures \in Nat
<1>1. MaxEnqFailures \in Nat
  BY BenchAssumption
<1>2. QueueTypes /\ ListTypes /\ LoopTypes
  BY Zenon DEF IInv, Types, TypeOK, QueueTypes, ListTypes, LoopTypes, Places
<1> QED BY <1>1, <1>2 DEF LoopTypes

LEMMA InsideTypes ==
  ASSUME IInv, NEW t \in Workers, Inside(t), QueueTypes', ListTypes', LoopTypes'
  PROVE  Types'
<1>1. Types /\ UNCHANGED <<bench, threadNum, itemNum, main, created, master, beginNum, endNum, verdict>>
  BY Zenon DEF IInv, Inside, Apart
<1>2. TypeOK'
  BY <1>1, Zenon DEF Types, TypeOK, QueueTypes, LoopTypes, Places
<1> QED BY <1>1, <1>2, Zenon DEF Types, QueueTypes, ListTypes

\* No more calls of deq may return false.
LEMMA SeenKept ==
  ASSUME IInv, UNCHANGED itemNum, sawEmpty' \subseteq sawEmpty, \A u \in sawEmpty' : i'[u] = i[u]
  PROVE  Seen' \subseteq Seen /\ Cardinality(Seen') <= Cardinality(Seen)
<1>1. Seen' \subseteq Seen
  BY Zenon DEF Seen, Slots
<1>2. IsFiniteSet(Seen)
  BY Counts, Zenon
<1> QED BY <1>1, <1>2, FS_Subset, Zenon

\* A step of worker t in a call of enq or deq.
LEMMA QueueDone ==
  ASSUME IInv, NEW t \in Workers, bench = "queue", Inside(t), UNCHANGED list, QueueTypes', LoopTypes',
         \A u \in Threads : u # t => arg'[u] = arg[u], \A u \in sawEmpty' : op'[u] = "deq",
         worker'[t] = "enq" => op'[t] \in {"idle", "enq", "enqed"},
         worker'[t] = "deq" => op'[t] \in {"idle", "deq", "deqed"},
         worker'[t] \notin {"enq", "deq"} => op'[t] = "idle" /\ i'[t] = 0,
         op'[t] \in {"enq", "enqed", "deqed"} => arg'[t] \in AllKeys,
         Cardinality(Put') + delErrors' = Len(items') + Cardinality(Taken') + enqErrors',
         items' # << >> => delErrors' + Cardinality(Seen') <= enqErrors'
  PROVE  IInv'
<1>1. /\ t \in Threads /\ UNCHANGED <<bench, itemNum, set, listOp, key, saw>>
      /\ \A u \in Threads : Calls(u) /\ listOp[u] = "idle"
  BY SlotOf, Zenon DEF IInv, Inside, Apart, list, Calls
<1>2. Types'
  <2>1. ListTypes'
    BY <1>1, TypesOf, Zenon DEF ListTypes
  <2> QED BY <2>1, InsideTypes, Zenon
<1>3. Barrier'
  BY InsideBarrier, Zenon
<1>4. Calls(t)'
  BY <1>1, Zenon DEF Calls
<1>5. ASSUME NEW u \in Threads, u # t PROVE Calls(u)'
  <2>1. u \in sawEmpty' => op[u] = "deq"
    BY <1>5, Zenon DEF Inside, Apart
  <2>2. listOp[u] \notin {"alloc", "add", "delete"} /\ key'[u] = key[u] /\ arg'[u] = arg[u]
    BY <1>1, <1>5, Zenon
  <2> QED BY <1>5, <2>1, <2>2, OtherCalls, Zenon
<1>6. /\ enqErrors' \in Nat /\ delErrors' \in Nat /\ Len(items') \in Nat
      /\ (items' = << >> => Len(items') + Cardinality(Taken') = Cardinality(Taken'))
  <2>1. MaxEnqFailures \in Nat /\ Cardinality(Taken') \in Nat
    BY <1>1, TypesOf, Counts, Zenon
  <2> QED BY <2>1 DEF LoopTypes, QueueTypes
<1>7. delErrors' + Cardinality(Seen') <= enqErrors'
  <2>1. CASE items' = << >>
    <3>1. \A u \in Threads : Calls(u)'
      BY <1>4, <1>5, Zenon
    <3>2. Cardinality(Put') + delErrors' = Cardinality(Taken') + enqErrors'
      BY <1>6, <2>1, Zenon
    <3> QED BY <1>1, <1>6, <3>1, <3>2, EmptyQueue, Zenon DEF QueueTypes, LoopTypes
  <2> QED BY <2>1, Zenon
<1>8. Balance'
  BY <1>1, <1>6, <1>7, QueueBalance, Zenon
<1> QED BY <1>2, <1>3, <1>4, <1>5, <1>8, Zenon DEF IInv

LEMMA QueueCount ==
  ASSUME IInv, bench = "queue"
  PROVE  /\ Cardinality(Put) \in Nat /\ Cardinality(Taken) \in Nat /\ Cardinality(Seen) \in Nat
         /\ Len(items) \in Nat /\ enqErrors \in Nat /\ delErrors \in Nat
         /\ IsFiniteSet(Put) /\ IsFiniteSet(Taken) /\ IsFiniteSet(Seen)
         /\ Cardinality(Put) + delErrors = Len(items) + Cardinality(Taken) + enqErrors
         /\ delErrors + Cardinality(Seen) <= enqErrors
<1>1. In = {}
  BY Zenon DEF IInv, Balance, In
<1>2. Cardinality(In) = 0 /\ Len(items) \in Nat /\ enqErrors \in Nat /\ delErrors \in Nat
  BY <1>1, TypesOf, FS_EmptySet DEF QueueTypes, LoopTypes
<1>3. Len(items) + Cardinality(In) = Len(items)
  BY <1>2
<1>4. /\ IsFiniteSet(Put) /\ IsFiniteSet(Taken) /\ IsFiniteSet(Seen)
      /\ Cardinality(Put) \in Nat /\ Cardinality(Taken) \in Nat /\ Cardinality(Seen) \in Nat
  <2>1. Put \subseteq Slots /\ Taken \subseteq Slots /\ Seen \subseteq Slots
    BY Zenon DEF Put, Taken, Seen
  <2> QED BY <2>1, SlotFacts, Zenon DEF IInv, Types, TypeOK
<1> QED BY <1>2, <1>3, <1>4, Zenon DEF IInv, Balance

\* A balance, p in and d back against l there, x out and e refused, and the ways
\* its sides change together.
Balances(p, d, l, x, e) ==
  p \in Nat /\ d \in Nat /\ l \in Nat /\ x \in Nat /\ e \in Nat /\ p + d = l + x + e
Exchange(p, d, l, x, e, p1, d1, l1, x1, e1) ==
  \/ p1 = p + 1 /\ l1 = l + 1 /\ x1 = x /\ d1 = d /\ e1 = e
  \/ p1 = p /\ l1 \in Nat /\ l = l1 + 1 /\ x1 = x + 1 /\ d1 = d /\ e1 = e
  \/ l1 = l /\ x1 = x /\ d1 = d /\ ((p1 = p /\ e1 = e) \/ (p1 = p + 1 /\ e1 = e + 1))
  \/ l1 = l /\ p1 = p /\ e1 = e /\ ((x1 = x /\ d1 = d) \/ (x1 = x + 1 /\ d1 = d + 1))

\* Such a change keeps the balance.
LEMMA Sums ==
  ASSUME NEW p, NEW d, NEW l, NEW x, NEW e, NEW p1, NEW d1, NEW l1, NEW x1, NEW e1,
         Balances(p, d, l, x, e), Exchange(p, d, l, x, e, p1, d1, l1, x1, e1)
  PROVE  p1 + d1 = l1 + x1 + e1
BY SMT DEF Balances, Exchange

\* What a step does to the balance of the queue.
LEMMA QueueSums ==
  ASSUME IInv, bench = "queue",
         \/ /\ Cardinality(Put') = Cardinality(Put) + 1 /\ Len(items') = Len(items) + 1
            /\ Taken' = Taken /\ delErrors' = delErrors /\ enqErrors' = enqErrors
         \/ /\ Put' = Put /\ Len(items') \in Nat /\ Len(items) = Len(items') + 1
            /\ Cardinality(Taken') = Cardinality(Taken) + 1 /\ delErrors' = delErrors /\ enqErrors' = enqErrors
         \/ /\ Len(items') = Len(items) /\ Taken' = Taken /\ delErrors' = delErrors
            /\ \/ Cardinality(Put') = Cardinality(Put) /\ enqErrors' = enqErrors
               \/ Cardinality(Put') = Cardinality(Put) + 1 /\ enqErrors' = enqErrors + 1
         \/ /\ Len(items') = Len(items) /\ Put' = Put /\ enqErrors' = enqErrors
            /\ \/ Cardinality(Taken') = Cardinality(Taken) /\ delErrors' = delErrors
               \/ Cardinality(Taken') = Cardinality(Taken) + 1 /\ delErrors' = delErrors + 1
  PROVE  Cardinality(Put') + delErrors' = Len(items') + Cardinality(Taken') + enqErrors'
<1>1. /\ Cardinality(Put) \in Nat /\ Cardinality(Taken) \in Nat /\ Len(items) \in Nat
      /\ enqErrors \in Nat /\ delErrors \in Nat
      /\ Cardinality(Put) + delErrors = Len(items) + Cardinality(Taken) + enqErrors
  BY QueueCount, Zenon
<1>2. (Put' = Put => Cardinality(Put') = Cardinality(Put)) /\ (Taken' = Taken => Cardinality(Taken') = Cardinality(Taken))
  BY Zenon
<1>3. Balances(Cardinality(Put), delErrors, Len(items), Cardinality(Taken), enqErrors)
  BY <1>1, Zenon DEF Balances
<1>4. Exchange(Cardinality(Put), delErrors, Len(items), Cardinality(Taken), enqErrors,
               Cardinality(Put'), delErrors', Len(items'), Cardinality(Taken'), enqErrors')
  BY <1>2, Zenon DEF Exchange
<1> QED BY <1>3, <1>4, Sums, SMT

\* enq or deq is called.
LEMMA WorkerCallsStep ==
  ASSUME IInv, NEW t \in Workers, WorkerCalls(t)
  PROVE  IInv'
<1>1. /\ UNCHANGED <<bench, options, main, created, master, beginNum, endNum, verdict>> /\ UNCHANGED list
      /\ UNCHANGED <<worker, i, getval, sum, check, enqErrors, delErrors, threadNum, itemNum, listOp, items>>
      /\ bench = "queue"
  BY Zenon DEF WorkerCalls, Queue!EnqCall, Queue!DeqCall, options, results, list
<1>2. /\ t \in Threads /\ Key(t) \in AllKeys /\ Calls(t) /\ QueueTypes /\ LoopTypes
      /\ \A u \in sawEmpty : op[u] = "deq"
  BY SlotOf, TypesOf, Zenon DEF IInv, Calls, QueueTypes
<1>3. PICK o \in {"enq", "deq"}, a \in AllKeys \cup {None}, S \in SUBSET Threads :
        /\ worker[t] = o /\ op[t] = "idle" /\ (o = "enq" => a \in AllKeys)
        /\ op' = [op EXCEPT ![t] = o] /\ arg' = [arg EXCEPT ![t] = a] /\ sawEmpty' = S
        /\ S = sawEmpty \/ (items = << >> /\ o = "deq" /\ S = sawEmpty \cup {t})
  <2>1. CASE worker[t] = "enq" /\ Queue!EnqCall(t, Key(t))
    BY <1>2, <2>1, Zenon DEF Queue!EnqCall, QueueTypes
  <2>2. CASE worker[t] = "deq" /\ Queue!DeqCall(t)
    <3>1. arg' = [arg EXCEPT ![t] = arg[t]] /\ arg[t] \in AllKeys \cup {None}
      BY <1>2, <2>2 DEF Queue!DeqCall, QueueTypes
    <3> QED BY <1>2, <2>2, <3>1, Zenon DEF Queue!DeqCall, QueueTypes
  <2> QED BY <2>1, <2>2, Zenon DEF WorkerCalls
<1>4. /\ op' \in [Threads -> Queue!OpState] /\ arg' \in [Threads -> AllKeys \cup {None}]
      /\ op'[t] = o /\ arg'[t] = a /\ \A u \in Threads : u # t => op'[u] = op[u] /\ arg'[u] = arg[u]
  BY <1>2, <1>3, Zenon DEF QueueTypes, Queue!OpState
<1>5. Inside(t) /\ listOp[t] = "idle"
  BY <1>1, <1>2, <1>4, Zenon DEF Inside, Apart, Calls
<1>6. Put' = Put /\ Taken' = Taken
  BY <1>1, <1>3, <1>4, <1>5, EffectSlots, Zenon DEF Inside
<1>7. QueueTypes' /\ LoopTypes'
  BY <1>1, <1>2, <1>3, <1>4, Zenon DEF QueueTypes, LoopTypes
<1>8. \A u \in sawEmpty' : op'[u] = "deq"
  BY <1>2, <1>3, <1>4, Zenon DEF QueueTypes
<1>9. Cardinality(Put') + delErrors' = Len(items') + Cardinality(Taken') + enqErrors'
  BY <1>1, <1>6, QueueCount, Zenon
<1>10. items' # << >> => delErrors' + Cardinality(Seen') <= enqErrors'
  <2>1. ASSUME items # << >> PROVE Seen' = Seen
    BY <1>1, <1>3, <2>1, Zenon DEF Seen, Slots
  <2> QED BY <1>1, <2>1, Zenon DEF IInv, Balance
<1> QED BY <1>1, <1>3, <1>4, <1>5, <1>7, <1>8, <1>9, <1>10, QueueDone, Zenon

\* enq appends its value, or deq takes the first one.
LEMMA QueueEffectStep ==
  ASSUME IInv, NEW t \in Workers, QueueStep(t)
  PROVE  IInv'
<1>1. /\ UNCHANGED <<bench, options, main, created, master, beginNum, endNum, verdict>> /\ UNCHANGED list
      /\ UNCHANGED <<worker, i, getval, sum, check, enqErrors, delErrors, threadNum, itemNum, listOp>>
  BY Zenon DEF QueueStep, options, results, list
<1>2. /\ t \in Threads /\ Calls(t) /\ QueueTypes /\ LoopTypes
      /\ \A u \in sawEmpty : op[u] = "deq"
  BY SlotOf, TypesOf, Zenon DEF IInv, Calls, QueueTypes
<1>3. CASE Queue!EnqEffect(t)
  <2>1. /\ op[t] = "enq" /\ op' = [op EXCEPT ![t] = "enqed"] /\ items' = Append(items, arg[t])
        /\ arg' = arg /\ sawEmpty' = sawEmpty
    BY <1>3, Zenon DEF Queue!EnqEffect
  <2>2. bench = "queue" /\ worker[t] = "enq" /\ listOp[t] = "idle" /\ arg[t] \in AllKeys
    BY <1>2, <2>1, Zenon DEF Calls, LoopTypes
  <2>3. op' \in [Threads -> Queue!OpState] /\ op'[t] = "enqed" /\ \A u \in Threads : u # t => op'[u] = op[u]
    BY <1>2, <2>1, Zenon DEF QueueTypes, Queue!OpState
  <2>4. Inside(t)
    BY <1>1, <2>3, Zenon DEF Inside, Apart
  <2>5. Put' = Put \cup {<<t, i[t]>>} /\ Taken' = Taken /\ <<t, i[t]>> \notin Put
    BY <1>1, <2>1, <2>2, <2>3, <2>4, EffectSlots, SlotOf, Zenon DEF Inside
  <2>6. items' \in Seq(AllKeys) /\ Len(items') = Len(items) + 1
    BY <1>2, <2>1, <2>2 DEF QueueTypes
  <2>7. QueueTypes' /\ LoopTypes'
    BY <1>1, <1>2, <2>1, <2>3, <2>6, Zenon DEF QueueTypes, LoopTypes
  <2>8. \A u \in sawEmpty' : op'[u] = "deq"
    BY <1>2, <2>1, <2>3, Zenon DEF QueueTypes
  <2>9. Cardinality(Put') = Cardinality(Put) + 1
    <3>1. IsFiniteSet(Put)
      BY <2>2, QueueCount, Zenon
    <3> QED BY <2>5, <3>1, OneMore
  <2>10. Cardinality(Put') + delErrors' = Len(items') + Cardinality(Taken') + enqErrors'
    BY <1>1, <2>2, <2>5, <2>6, <2>9, QueueSums, Zenon
  <2>11. Seen' = Seen
    BY <1>1, <2>1, Zenon DEF Seen, Slots
  <2>12. delErrors' + Cardinality(Seen') <= enqErrors'
    BY <1>1, <2>2, <2>11, QueueCount, Zenon
  <2> QED BY <1>1, <2>1, <2>2, <2>3, <2>4, <2>7, <2>8, <2>10, <2>12, QueueDone, Zenon
<1>4. CASE Queue!DeqEffect(t)
  <2>1. /\ op[t] = "deq" /\ op' = [op EXCEPT ![t] = "deqed"] /\ items' = Tail(items) /\ items # << >>
        /\ arg' = [arg EXCEPT ![t] = Head(items)]
        /\ sawEmpty' = IF items' = << >> THEN {u \in Threads : op'[u] = "deq"} ELSE sawEmpty \ {t}
    BY <1>4, Zenon DEF Queue!DeqEffect
  <2>2. bench = "queue" /\ worker[t] = "deq" /\ listOp[t] = "idle"
    BY <1>2, <2>1, Zenon DEF Calls, LoopTypes
  <2>3. Head(items) \in AllKeys /\ items' \in Seq(AllKeys) /\ Len(items) = Len(items') + 1
    BY <1>2, <2>1 DEF QueueTypes
  <2>4. /\ op' \in [Threads -> Queue!OpState] /\ op'[t] = "deqed" /\ \A u \in Threads : u # t => op'[u] = op[u]
        /\ arg' \in [Threads -> AllKeys \cup {None}] /\ arg'[t] \in AllKeys
        /\ \A u \in Threads : u # t => arg'[u] = arg[u]
    BY <1>2, <2>1, <2>3, Zenon DEF QueueTypes, Queue!OpState
  <2>5. Inside(t)
    BY <1>1, <2>4, Zenon DEF Inside, Apart
  <2>6. Put' = Put /\ Taken' = Taken \cup {<<t, i[t]>>} /\ <<t, i[t]>> \notin Taken
    BY <1>1, <2>1, <2>2, <2>4, <2>5, EffectSlots, SlotOf, Zenon DEF Inside
  <2>7. sawEmpty' \subseteq Threads /\ \A u \in sawEmpty' : op'[u] = "deq"
    BY <1>2, <2>1, <2>4, Zenon DEF QueueTypes
  <2>8. QueueTypes' /\ LoopTypes'
    BY <1>1, <1>2, <2>3, <2>4, <2>7, Zenon DEF QueueTypes, LoopTypes
  <2>9. Cardinality(Taken') = Cardinality(Taken) + 1
    <3>1. IsFiniteSet(Taken)
      BY <2>2, QueueCount, Zenon
    <3> QED BY <2>6, <3>1, OneMore
  <2>10. Len(items') \in Nat
    BY <2>3
  <2>11. Cardinality(Put') + delErrors' = Len(items') + Cardinality(Taken') + enqErrors'
    BY <1>1, <2>2, <2>3, <2>6, <2>9, <2>10, QueueSums, Zenon
  <2>12. ASSUME items' # << >> PROVE delErrors' + Cardinality(Seen') <= enqErrors'
    <3>1. Cardinality(Seen') <= Cardinality(Seen)
      BY <1>1, <2>1, <2>12, SeenKept, Zenon
    <3>2. Cardinality(Seen') \in Nat
      BY <1>1, Counts, Zenon
    <3> QED BY <1>1, <2>2, <3>1, <3>2, QueueCount
  <2> QED BY <1>1, <2>1, <2>2, <2>4, <2>5, <2>7, <2>8, <2>11, <2>12, QueueDone, Zenon
<1> QED BY <1>3, <1>4, Zenon DEF QueueStep

LEMMA RecordTypes ==
  ASSUME IInv, NEW t \in Threads, NEW v \in CheckIndex \cup Garbage, Record(t, v)
  PROVE  /\ getval' \in [Threads -> CheckIndex \cup Garbage \cup {None}]
         /\ sum' \in [Threads -> Nat] /\ check' \in [CheckIndex -> Nat]
<1>1. LoopTypes
  BY TypesOf, Zenon
<1>2. v \in Nat
  BY BenchAssumption DEF CheckIndex
<1>3. getval' \in [Threads -> CheckIndex \cup Garbage \cup {None}]
  BY <1>1, Zenon DEF LoopTypes, Record
<1>4. sum' \in [Threads -> Nat]
  BY <1>1, <1>2 DEF LoopTypes, Record
<1>5. check' \in [CheckIndex -> Nat]
  <2>1. check' = [check EXCEPT ![v] = check[v] + 1] /\ check \in [CheckIndex -> Nat]
    BY <1>1, Zenon DEF LoopTypes, Record
  <2>2. v \in CheckIndex => check[v] + 1 \in Nat
    BY <2>1
  <2> QED BY <2>1, <2>2, Zenon
<1> QED BY <1>3, <1>4, <1>5

\* The value a failed deq or delete counts.
LEMMA Stale ==
  ASSUME IInv, NEW t \in Threads, NEW v \in IF getval[t] = None THEN Garbage ELSE {getval[t]}
  PROVE  v \in CheckIndex \cup Garbage
<1>1. getval[t] \in CheckIndex \cup Garbage \cup {None}
  BY TypesOf, Zenon DEF LoopTypes
<1> QED BY <1>1, Zenon

LEMMA KeysChecked ==
  ASSUME IInv
  PROVE  AllKeys \subseteq CheckIndex
<1>1. MaxThreads \in Nat /\ MaxItems \in Nat
  BY Sizes, Zenon DEF IInv, Types, TypeOK
<1> QED BY <1>1 DEF AllKeys, CheckIndex

LEMMA EnqReturnsStep ==
  ASSUME IInv, NEW t \in Workers, EnqReturns(t)
  PROVE  IInv'
<1>1. /\ UNCHANGED <<bench, options, main, created, master, beginNum, endNum, verdict>> /\ UNCHANGED list
      /\ UNCHANGED <<getval, sum, check, delErrors, threadNum, itemNum, listOp, items, sawEmpty>>
      /\ bench = "queue" /\ NextIteration(t, "enq", "deq")
      /\ op' = [op EXCEPT ![t] = "idle"] /\ arg' = [arg EXCEPT ![t] = None]
      /\ \/ op[t] = "enqed" /\ enqErrors' = enqErrors
         \/ op[t] = "enq" /\ enqErrors < MaxEnqFailures /\ enqErrors' = enqErrors + 1
  BY Zenon DEF EnqReturns, Queue!EnqReturn, Queue!EnqReturnFail, options, list
<1>2. /\ t \in Threads /\ Calls(t) /\ QueueTypes /\ LoopTypes /\ MaxEnqFailures \in Nat
      /\ \A u \in sawEmpty : op[u] = "deq"
  BY SlotOf, TypesOf, Zenon DEF IInv, Calls, QueueTypes
<1>3. /\ op' \in [Threads -> Queue!OpState] /\ arg' \in [Threads -> AllKeys \cup {None}] /\ op'[t] = "idle"
      /\ \A u \in Threads : u # t => op'[u] = op[u] /\ arg'[u] = arg[u]
  BY <1>1, <1>2, Zenon DEF QueueTypes, Queue!OpState
<1>4. listOp'[t] = "idle" /\ \A u \in Threads : u # t => op'[u] = op[u] /\ listOp'[u] = listOp[u]
  BY <1>1, <1>2, <1>3, Zenon DEF Calls
<1>5. /\ Apart(t) /\ i' \in [Threads -> 0..(itemNum - 1)] /\ worker' \in [Threads -> Places]
      /\ worker[t] = "enq" /\ (worker'[t] = "enq" \/ (worker'[t] = "deq" /\ i'[t] = 0))
      /\ Put' = Put \cup {<<t, i[t]>>} /\ Taken' = Taken
  BY <1>1, <1>3, <1>4, ReturnSlots, Zenon
<1>6. Inside(t)
  BY <1>1, <1>5, Zenon DEF Inside
<1>7. enqErrors' \in 0..MaxEnqFailures
  BY <1>1, <1>2 DEF LoopTypes
<1>8. QueueTypes' /\ LoopTypes'
  BY <1>1, <1>2, <1>3, <1>5, <1>7, Zenon DEF QueueTypes, LoopTypes
<1>9. t \notin sawEmpty /\ \A u \in sawEmpty' : op'[u] = "deq"
  BY <1>1, <1>2, <1>3, Zenon DEF QueueTypes
<1>10. Cardinality(Put') = IF op[t] = "enqed" THEN Cardinality(Put) ELSE Cardinality(Put) + 1
  <2>1. IsFiniteSet(Put)
    BY <1>1, QueueCount, Zenon
  <2>2. <<t, i[t]>> \in Put <=> op[t] = "enqed"
    BY <1>2, <1>4, <1>1, <1>5, SlotOf, Zenon
  <2> QED BY <1>5, <2>1, <2>2, OneMore
<1>11. Cardinality(Put') + delErrors' = Len(items') + Cardinality(Taken') + enqErrors'
  BY <1>1, <1>5, <1>10, QueueSums, Zenon
<1>12. delErrors' + Cardinality(Seen') <= enqErrors'
  <2>1. \A u \in sawEmpty' : i'[u] = i[u]
    BY <1>1, <1>2, <1>5, <1>9, Zenon DEF Apart, QueueTypes
  <2>2. Cardinality(Seen') <= Cardinality(Seen) /\ Cardinality(Seen') \in Nat
    BY <1>1, <2>1, SeenKept, Counts, Zenon
  <2> QED BY <1>1, <2>2, QueueCount
<1> QED BY <1>1, <1>3, <1>5, <1>6, <1>8, <1>9, <1>11, <1>12, QueueDone, Zenon

LEMMA DeqReturnsStep ==
  ASSUME IInv, NEW t \in Workers, DeqReturns(t)
  PROVE  IInv'
<1>1. /\ UNCHANGED <<bench, options, main, created, master, beginNum, endNum, verdict>> /\ UNCHANGED list
      /\ UNCHANGED <<enqErrors, threadNum, itemNum, listOp, items>>
      /\ bench = "queue" /\ NextIteration(t, "deq", "end")
      /\ op' = [op EXCEPT ![t] = "idle"] /\ (arg' = arg \/ arg' = [arg EXCEPT ![t] = None])
      /\ \/ op[t] = "deqed" /\ delErrors' = delErrors /\ sawEmpty' = sawEmpty
         \/ op[t] = "deq" /\ t \in sawEmpty /\ delErrors' = delErrors + 1 /\ sawEmpty' = sawEmpty \ {t}
  BY Zenon DEF DeqReturns, Queue!DeqReturn, Queue!DeqReturnEmpty, options, list
<1>2. /\ t \in Threads /\ Calls(t) /\ QueueTypes /\ LoopTypes
      /\ \A u \in sawEmpty : op[u] = "deq"
  BY SlotOf, TypesOf, Zenon DEF IInv, Calls, QueueTypes
<1>3. PICK v \in CheckIndex \cup Garbage : Record(t, v)
  <2>1. CASE Queue!DeqReturn(t) /\ Record(t, arg[t])
    <3>1. arg[t] \in AllKeys
      BY <1>2, <2>1, Zenon DEF Queue!DeqReturn, Calls
    <3> QED BY <2>1, <3>1, KeysChecked, Zenon
  <2>2. CASE \E v \in IF getval[t] = None THEN Garbage ELSE {getval[t]} : Record(t, v)
    BY <1>2, <2>2, Stale, Zenon
  <2> QED BY <2>1, <2>2, Zenon DEF DeqReturns
<1>4. /\ op' \in [Threads -> Queue!OpState] /\ arg' \in [Threads -> AllKeys \cup {None}] /\ op'[t] = "idle"
      /\ \A u \in Threads : u # t => op'[u] = op[u] /\ arg'[u] = arg[u]
  BY <1>1, <1>2, Zenon DEF QueueTypes, Queue!OpState
<1>5. listOp'[t] = "idle" /\ \A u \in Threads : u # t => op'[u] = op[u] /\ listOp'[u] = listOp[u]
  BY <1>1, <1>2, <1>4, Zenon DEF Calls
<1>6. /\ Apart(t) /\ i' \in [Threads -> 0..(itemNum - 1)] /\ worker' \in [Threads -> Places]
      /\ worker[t] = "deq" /\ (worker'[t] = "deq" \/ (worker'[t] = "end" /\ i'[t] = 0))
      /\ Put' = Put /\ Taken' = Taken \cup {<<t, i[t]>>}
  BY <1>1, <1>4, <1>5, ReturnSlots, Zenon
<1>7. Inside(t)
  BY <1>1, <1>6, Zenon DEF Inside
<1>8. delErrors' \in Nat /\ delErrors \in Nat
  BY <1>1, <1>2 DEF LoopTypes
<1>9. QueueTypes' /\ LoopTypes'
  BY <1>1, <1>2, <1>3, <1>4, <1>6, <1>8, RecordTypes, Zenon DEF QueueTypes, LoopTypes
<1>10. t \notin sawEmpty' /\ \A u \in sawEmpty' : op'[u] = "deq"
  BY <1>1, <1>2, <1>4, Zenon DEF QueueTypes
<1>11. Cardinality(Taken') = IF op[t] = "deqed" THEN Cardinality(Taken) ELSE Cardinality(Taken) + 1
  <2>1. IsFiniteSet(Taken)
    BY <1>1, QueueCount, Zenon
  <2>2. <<t, i[t]>> \in Taken <=> op[t] = "deqed"
    BY <1>1, <1>5, <1>6, SlotOf, Zenon
  <2> QED BY <1>6, <2>1, <2>2, OneMore
<1>12. Cardinality(Put') + delErrors' = Len(items') + Cardinality(Taken') + enqErrors'
  BY <1>1, <1>6, <1>11, QueueSums, Zenon
<1>13. delErrors' + Cardinality(Seen') <= enqErrors'
  <2>1. sawEmpty' \subseteq sawEmpty /\ \A u \in sawEmpty' : i'[u] = i[u]
    BY <1>1, <1>2, <1>6, <1>10, Zenon DEF Apart, QueueTypes
  <2>2. /\ Seen' \subseteq Seen /\ Cardinality(Seen') <= Cardinality(Seen)
        /\ Cardinality(Seen') \in Nat /\ IsFiniteSet(Seen')
    BY <1>1, <2>1, SeenKept, Counts, Zenon
  <2>3. CASE op[t] = "deqed"
    <3>1. /\ delErrors' = delErrors /\ enqErrors' = enqErrors /\ delErrors \in Nat /\ enqErrors \in Nat
          /\ Cardinality(Seen) \in Nat /\ delErrors + Cardinality(Seen) <= enqErrors
      BY <1>1, <2>3, QueueCount, Zenon
    <3> QED BY <2>2, <3>1, SMT
  <2>4. CASE op[t] = "deq"
    <3> DEFINE T == Seen' \cup {<<t, i[t]>>}
    <3>1. <<t, i[t]>> \in Seen /\ <<t, i[t]>> \notin Seen'
      <4>1. <<t, i[t]>> \in Slots /\ <<t, i[t]>>[1] = t /\ <<t, i[t]>>[2] = i[t]
        BY SlotOf
      <4> QED BY <1>1, <1>10, <2>4, <4>1, Zenon DEF Seen
    <3>2. T \subseteq Seen /\ Cardinality(T) = Cardinality(Seen') + 1
      BY <2>2, <3>1, OneMore
    <3> HIDE DEF T
    <3>3. Cardinality(T) <= Cardinality(Seen)
      BY <1>1, <3>2, FS_Subset, QueueCount, Zenon
    <3>4. /\ delErrors' = delErrors + 1 /\ enqErrors' = enqErrors /\ delErrors \in Nat /\ enqErrors \in Nat
          /\ Cardinality(Seen) \in Nat /\ delErrors + Cardinality(Seen) <= enqErrors
          /\ Cardinality(Seen') \in Nat /\ Cardinality(Seen') + 1 <= Cardinality(Seen)
      BY <1>1, <2>2, <2>4, <3>2, <3>3, QueueCount, Zenon
    <3> QED BY <3>4, SMT
  <2> QED BY <1>1, <2>3, <2>4, Zenon
<1> QED BY <1>1, <1>4, <1>6, <1>7, <1>9, <1>10, <1>12, <1>13, QueueDone, Zenon

-----------------------------------------------------------------------------
(* Steps of the calls of add and delete *)

\* No other iteration has the key of this one.
LEMMA OwnKey ==
  ASSUME IInv, NEW t \in Workers
  PROVE  /\ \A s \in Slots : KeyOf(s) = Key(t) => s = <<t, i[t]>>
         /\ \A u \in Threads : Key(u) = Key(t) => u = t
<1>1. /\ t \in Threads /\ i[t] \in 0..(itemNum - 1) /\ itemNum \in Nat /\ Threads \subseteq Nat
      /\ i \in [Threads -> 0..(itemNum - 1)]
  BY SlotOf, Sizes, TypesOf, Zenon DEF IInv, Types, TypeOK, LoopTypes
<1>2. ASSUME NEW u \in Threads, NEW j \in 0..(itemNum - 1), u * itemNum + j + 1 = Key(t)
      PROVE  u = t /\ j = i[t]
  <2>1. u \in Nat /\ t \in Nat /\ u * itemNum + j + 1 = t * itemNum + i[t] + 1
    BY <1>1, <1>2, Zenon DEF Key
  <2> QED BY <1>1, <2>1, KeysApart
<1>3. ASSUME NEW s \in Slots, KeyOf(s) = Key(t) PROVE s = <<t, i[t]>>
  <2>1. s[1] \in Threads /\ s[2] \in 0..(itemNum - 1) /\ s = <<s[1], s[2]>>
    BY DEF Slots
  <2> QED BY <1>2, <1>3, <2>1, Zenon DEF KeyOf
<1>4. ASSUME NEW u \in Threads, Key(u) = Key(t) PROVE u = t
  BY <1>1, <1>2, <1>4, Zenon DEF Key
<1> QED BY <1>3, <1>4, Zenon

LEMMA ListCount ==
  ASSUME IInv, bench # "queue"
  PROVE  /\ Cardinality(Put) \in Nat /\ Cardinality(Taken) \in Nat /\ Cardinality(In) \in Nat
         /\ enqErrors \in Nat /\ delErrors \in Nat
         /\ IsFiniteSet(Put) /\ IsFiniteSet(Taken) /\ IsFiniteSet(In)
         /\ Cardinality(Put) + delErrors = Cardinality(In) + Cardinality(Taken) + enqErrors
<1>1. Len(items) = 0 /\ enqErrors \in Nat /\ delErrors \in Nat
  BY TypesOf DEF LoopTypes, IInv, Balance
<1>2. /\ IsFiniteSet(Put) /\ IsFiniteSet(Taken) /\ IsFiniteSet(In)
      /\ Cardinality(Put) \in Nat /\ Cardinality(Taken) \in Nat /\ Cardinality(In) \in Nat
  <2>1. Put \subseteq Slots /\ Taken \subseteq Slots /\ In \subseteq Slots
    BY Zenon DEF Put, Taken, In
  <2> QED BY <2>1, SlotFacts, Zenon DEF IInv, Types, TypeOK
<1>3. Len(items) + Cardinality(In) = Cardinality(In)
  BY <1>1, <1>2
<1> QED BY <1>1, <1>2, <1>3, Zenon DEF IInv, Balance

\* What a step does to the balance of the list.
LEMMA ListSums ==
  ASSUME IInv, bench # "queue",
         \/ /\ Cardinality(Put') = Cardinality(Put) + 1 /\ Cardinality(In') = Cardinality(In) + 1
            /\ Taken' = Taken /\ delErrors' = delErrors /\ enqErrors' = enqErrors
         \/ /\ Put' = Put /\ Cardinality(In') \in Nat /\ Cardinality(In) = Cardinality(In') + 1
            /\ Cardinality(Taken') = Cardinality(Taken) + 1 /\ delErrors' = delErrors /\ enqErrors' = enqErrors
         \/ /\ Cardinality(In') = Cardinality(In) /\ Taken' = Taken /\ delErrors' = delErrors
            /\ \/ Cardinality(Put') = Cardinality(Put) /\ enqErrors' = enqErrors
               \/ Cardinality(Put') = Cardinality(Put) + 1 /\ enqErrors' = enqErrors + 1
         \/ /\ Cardinality(In') = Cardinality(In) /\ Put' = Put /\ enqErrors' = enqErrors
            /\ \/ Cardinality(Taken') = Cardinality(Taken) /\ delErrors' = delErrors
               \/ Cardinality(Taken') = Cardinality(Taken) + 1 /\ delErrors' = delErrors + 1
  PROVE  Cardinality(Put') + delErrors' = Cardinality(In') + Cardinality(Taken') + enqErrors'
<1>1. /\ Cardinality(Put) \in Nat /\ Cardinality(Taken) \in Nat /\ Cardinality(In) \in Nat
      /\ enqErrors \in Nat /\ delErrors \in Nat
      /\ Cardinality(Put) + delErrors = Cardinality(In) + Cardinality(Taken) + enqErrors
  BY ListCount, Zenon
<1>2. (Put' = Put => Cardinality(Put') = Cardinality(Put)) /\ (Taken' = Taken => Cardinality(Taken') = Cardinality(Taken))
  BY Zenon
<1>3. Balances(Cardinality(Put), delErrors, Cardinality(In), Cardinality(Taken), enqErrors)
  BY <1>1, Zenon DEF Balances
<1>4. Exchange(Cardinality(Put), delErrors, Cardinality(In), Cardinality(Taken), enqErrors,
               Cardinality(Put'), delErrors', Cardinality(In'), Cardinality(Taken'), enqErrors')
  BY <1>2, Zenon DEF Exchange
<1> QED BY <1>3, <1>4, Sums, SMT

\* A step of worker t in a call of add or delete.
LEMMA ListDone ==
  ASSUME IInv, NEW t \in Workers, bench # "queue", Inside(t), UNCHANGED queue, ListTypes', LoopTypes',
         \A u \in Threads : u # t => /\ key'[u] = key[u]
                                     /\ listOp[u] \in {"alloc", "add", "delete"} => saw'[u] = saw[u],
         set' \ {Key(t)} = set \ {Key(t)},
         worker'[t] = "enq" => listOp'[t] \in {"idle", "alloc", "add", "added"},
         worker'[t] = "deq" => listOp'[t] \in {"idle", "delete", "deleted"},
         worker'[t] \notin {"enq", "deq"} => listOp'[t] = "idle" /\ i'[t] = 0,
         listOp'[t] # "idle" => key'[t] = Key(t)',
         listOp'[t] \in {"alloc", "add", "delete"} => saw'[t] = {List!Status(Key(t))}',
         Cardinality(Put') + delErrors' = Cardinality(In') + Cardinality(Taken') + enqErrors',
         \A s \in In' : s \in Put' /\ s \notin Taken',
         \A k \in set' : k = Key(t) \/ k \in set
  PROVE  IInv'
<1>1. /\ t \in Threads /\ <<t, i[t]>> \in Slots /\ Key(t) = KeyOf(<<t, i[t]>>)
      /\ UNCHANGED <<bench, itemNum, items, op, arg, sawEmpty>>
      /\ \A u \in Threads : Calls(u) /\ op[u] = "idle"
  BY SlotOf, Zenon DEF IInv, Inside, Apart, queue, Calls
<1>2. Types'
  <2>1. QueueTypes'
    BY <1>1, TypesOf, Zenon DEF QueueTypes
  <2> QED BY <2>1, InsideTypes, Zenon
<1>3. Barrier'
  BY InsideBarrier, Zenon
<1>4. Calls(t)'
  <2>1. op'[t] = "idle" /\ t \notin sawEmpty'
    BY <1>1, Zenon DEF Calls
  <2> QED BY <1>1, <2>1, Zenon DEF Calls
<1>5. ASSUME NEW u \in Threads, u # t PROVE Calls(u)'
  <2>1. Key(u) # Key(t) /\ Key(u)' = Key(u)
    BY <1>1, <1>5, OwnKey, Zenon DEF Inside, Apart, Key
  <2>2. List!Status(Key(u))' = List!Status(Key(u))
    <3>1. Key(u)' \in set' <=> Key(u) \in set
      BY <2>1, Zenon
    <3> QED BY <3>1, Zenon DEF List!Status
  <2>3. listOp[u] \in {"alloc", "add", "delete"} => saw'[u] = {List!Status(Key(u))}'
    BY <1>1, <1>5, <2>2, Zenon DEF Calls
  <2>4. u \in sawEmpty' => op[u] = "deq"
    BY <1>1, Zenon DEF Calls
  <2> QED BY <1>1, <1>5, <2>3, <2>4, OtherCalls, Zenon
<1>6. Len(items') + Cardinality(In') = Cardinality(In') /\ items' = << >>
  <2>1. items' = << >> /\ Cardinality(In') \in Nat
    BY <1>1, Counts, Zenon DEF IInv, Balance
  <2> QED BY <2>1
<1>7. \A k \in set' : \E s \in Slots' : k = KeyOf(s)'
  <2>1. Slots' = Slots /\ \A s : KeyOf(s)' = KeyOf(s)
    BY <1>1, Zenon DEF Slots, KeyOf
  <2> QED BY <1>1, <2>1, Zenon DEF IInv, Balance
<1>8. Balance'
  BY <1>1, <1>6, <1>7, Zenon DEF Balance
<1> QED BY <1>2, <1>3, <1>4, <1>5, <1>8, Zenon DEF IInv

\* add or delete is called, or add has found memory for its node.
LEMMA ListCallsStep ==
  ASSUME IInv, NEW t \in Workers, ListCalls(t) \/ (ListStep(t) /\ List!Allocate(t))
  PROVE  IInv'
<1>1. /\ UNCHANGED <<bench, options, main, created, master, beginNum, endNum, verdict>> /\ UNCHANGED queue
      /\ UNCHANGED <<worker, i, getval, sum, check, enqErrors, delErrors, threadNum, itemNum, op, set>>
  BY Zenon DEF ListCalls, ListStep, List!Call, List!Allocate, options, results, queue
<1>2. /\ t \in Threads /\ Key(t) \in AllKeys /\ Calls(t) /\ ListTypes /\ LoopTypes
  BY SlotOf, TypesOf, Zenon DEF IInv
<1>3. Key(t)' = Key(t) /\ List!Status(Key(t))' = List!Status(Key(t)) /\ List!Status(Key(t)) \in {"in", "out"}
  BY <1>1, Zenon DEF Key, List!Status
<1>4. PICK o \in {"alloc", "add", "delete"} :
        /\ listOp' = [listOp EXCEPT ![t] = o]
        /\ key' = [key EXCEPT ![t] = Key(t)] /\ saw' = [saw EXCEPT ![t] = {List!Status(Key(t))}]
        /\ worker[t] = IF o = "delete" THEN "deq" ELSE "enq"
        /\ bench # "queue" /\ listOp[t] \in {"idle", "alloc"}
  <2>1. CASE ListCalls(t)
    BY <2>1, Zenon DEF ListCalls, List!Call
  <2>2. CASE List!Allocate(t)
    <3>1. listOp[t] = "alloc" /\ listOp' = [listOp EXCEPT ![t] = "add"] /\ key' = key /\ saw' = saw
      BY <2>2, Zenon DEF List!Allocate
    <3>2. bench # "queue" /\ worker[t] = "enq" /\ key[t] = Key(t) /\ saw[t] = {List!Status(Key(t))}
      BY <1>2, <3>1, Zenon DEF Calls, LoopTypes
    <3>3. key' = [key EXCEPT ![t] = key[t]] /\ saw' = [saw EXCEPT ![t] = saw[t]]
      BY <1>2, <3>1 DEF ListTypes
    <3> QED BY <3>1, <3>2, <3>3, Zenon
  <2> QED BY <2>1, <2>2, Zenon
<1>5. /\ ListTypes' /\ listOp'[t] = o /\ key'[t] = Key(t) /\ saw'[t] = {List!Status(Key(t))}
      /\ \A u \in Threads : u # t => listOp'[u] = listOp[u] /\ key'[u] = key[u] /\ saw'[u] = saw[u]
  BY <1>1, <1>2, <1>3, <1>4, Zenon DEF ListTypes, List!OpState
<1>6. Inside(t) /\ LoopTypes' /\ op[t] = "idle" /\ op'[t] = "idle"
  BY <1>1, <1>2, <1>4, <1>5, Zenon DEF Inside, Apart, Calls, LoopTypes
<1>7. Put' = Put /\ Taken' = Taken
  BY <1>1, <1>4, <1>5, <1>6, EffectSlots, Zenon DEF Inside
<1>8. In' = In
  BY <1>1, Zenon DEF In, Slots, KeyOf
<1>9. /\ Cardinality(Put') + delErrors' = Cardinality(In') + Cardinality(Taken') + enqErrors'
      /\ \A s \in In' : s \in Put' /\ s \notin Taken'
  BY <1>1, <1>4, <1>7, <1>8, ListCount, Zenon DEF IInv, Balance
<1>10. /\ worker'[t] = "enq" => listOp'[t] \in {"idle", "alloc", "add", "added"}
       /\ worker'[t] = "deq" => listOp'[t] \in {"idle", "delete", "deleted"}
       /\ worker'[t] \in {"enq", "deq"}
  BY <1>1, <1>4, <1>5
<1> QED BY <1>1, <1>3, <1>4, <1>5, <1>6, <1>9, <1>10, ListDone, Zenon

\* add inserts its key, or delete takes it out.
LEMMA ListEffectStep ==
  ASSUME IInv, NEW t \in Workers, ListStep(t), List!AddEffect(t) \/ List!DeleteEffect(t)
  PROVE  IInv'
<1> DEFINE c == <<t, i[t]>>
<1>1. /\ UNCHANGED <<bench, options, main, created, master, beginNum, endNum, verdict>> /\ UNCHANGED queue
      /\ UNCHANGED <<worker, i, getval, sum, check, enqErrors, delErrors, threadNum, itemNum, op>>
      /\ key' = key
  BY Zenon DEF ListStep, List!AddEffect, List!DeleteEffect, options, results, queue
<1>2. /\ t \in Threads /\ c \in Slots /\ Key(t) = KeyOf(c) /\ Key(t) \in AllKeys
      /\ Calls(t) /\ ListTypes /\ LoopTypes
  BY SlotOf, TypesOf, Zenon DEF IInv
<1>3. listOp[t] \in {"add", "delete"} /\ key[t] = Key(t)
  BY <1>2, Zenon DEF List!AddEffect, List!DeleteEffect, Calls
<1>4. Key(t)' = Key(t) /\ bench # "queue" /\ op[t] = "idle" /\ op'[t] = "idle"
  BY <1>1, <1>2, <1>3, Zenon DEF Key, Calls
<1>5. saw' \in [Threads -> SUBSET {"in", "out"}] /\
      \A u \in Threads : u # t /\ listOp[u] \in {"alloc", "add", "delete"} => saw'[u] = saw[u]
  <2>1. PICK x \in {"in", "out"} :
          saw' = [u \in Threads |-> IF u = t THEN {}
                                    ELSE IF listOp[u] \in List!Pending /\ key[u] = key[t] THEN saw[u] \cup {x}
                                    ELSE saw[u]]
    BY Zenon DEF List!AddEffect, List!DeleteEffect, List!Show
  <2>2. ASSUME NEW u \in Threads, u # t, listOp[u] \in {"alloc", "add", "delete"} PROVE key[u] # key[t]
    <3>1. key[u] = Key(u)
      BY <2>2, Zenon DEF IInv, Calls
    <3> QED BY <1>3, <2>2, <3>1, OwnKey, Zenon
  <2>3. \A u \in Threads : saw[u] \in SUBSET {"in", "out"}
    BY <1>2, Zenon DEF ListTypes
  <2> QED BY <2>1, <2>2, <2>3
<1>6. /\ Slots' = Slots /\ \A s \in Slots : KeyOf(s)' = KeyOf(s) /\ (KeyOf(s) = Key(t) <=> s = c)
  BY <1>1, <1>2, OwnKey, Zenon DEF Slots, KeyOf
<1>7. /\ c \in Put <=> worker[t] = "deq" \/ listOp[t] = "added"
      /\ c \in Taken <=> listOp[t] = "deleted"
      /\ worker[t] = IF listOp[t] = "add" THEN "enq" ELSE "deq"
  <2>1. worker[t] = IF listOp[t] = "add" THEN "enq" ELSE "deq"
    BY <1>2, <1>3 DEF Calls, LoopTypes
  <2> QED BY <1>3, <1>4, <2>1, SlotOf
<1>8. CASE List!AddEffect(t)
  <2>1. /\ listOp[t] = "add" /\ Key(t) \notin set /\ listOp' = [listOp EXCEPT ![t] = "added"]
        /\ set' = set \cup {Key(t)}
    BY <1>3, <1>8, Zenon DEF List!AddEffect
  <2>2. /\ ListTypes' /\ listOp'[t] = "added" /\ \A u \in Threads : u # t => listOp'[u] = listOp[u]
    BY <1>1, <1>2, <1>5, <2>1, Zenon DEF ListTypes, List!OpState
  <2>3. Inside(t) /\ LoopTypes'
    BY <1>1, <1>2, <2>2, Zenon DEF Inside, Apart, LoopTypes
  <2>4. Put' = Put \cup {c} /\ Taken' = Taken /\ c \notin Put /\ c \notin Taken /\ worker[t] = "enq"
    BY <1>1, <1>4, <1>7, <2>1, <2>2, <2>3, EffectSlots, Zenon DEF Inside
  <2>5. In' = In \cup {c} /\ c \notin In
    BY <1>2, <1>6, <2>1, Zenon DEF In
  <2>6. Cardinality(Put') = Cardinality(Put) + 1 /\ Cardinality(In') = Cardinality(In) + 1
    <3>1. IsFiniteSet(Put) /\ IsFiniteSet(In)
      BY <1>4, ListCount, Zenon
    <3> HIDE DEF c
    <3> QED BY <2>4, <2>5, <3>1, OneMore, Zenon
  <2>7. Cardinality(Put') + delErrors' = Cardinality(In') + Cardinality(Taken') + enqErrors'
    BY <1>1, <1>4, <2>4, <2>6, ListSums, Zenon
  <2>8. \A s \in In' : s \in Put' /\ s \notin Taken'
    BY <2>4, <2>5, Zenon DEF IInv, Balance
  <2>9. set' \ {Key(t)} = set \ {Key(t)} /\ \A k \in set' : k = Key(t) \/ k \in set
    BY <2>1, Zenon
  <2>10. /\ worker'[t] = "enq" /\ listOp'[t] \in {"idle", "alloc", "add", "added"}
         /\ listOp'[t] \notin {"alloc", "add", "delete"} /\ key'[t] = Key(t)'
    BY <1>1, <1>3, <1>4, <2>2, <2>4, Zenon
  <2> QED BY <1>1, <1>4, <1>5, <2>3, <2>2, <2>7, <2>8, <2>9, <2>10, ListDone, Zenon
<1>9. CASE List!DeleteEffect(t)
  <2>1. /\ listOp[t] = "delete" /\ Key(t) \in set /\ listOp' = [listOp EXCEPT ![t] = "deleted"]
        /\ set' = set \ {Key(t)}
    BY <1>3, <1>9, Zenon DEF List!DeleteEffect
  <2>2. /\ ListTypes' /\ listOp'[t] = "deleted" /\ \A u \in Threads : u # t => listOp'[u] = listOp[u]
    BY <1>1, <1>2, <1>5, <2>1, Zenon DEF ListTypes, List!OpState
  <2>3. Inside(t) /\ LoopTypes'
    BY <1>1, <1>2, <2>2, Zenon DEF Inside, Apart, LoopTypes
  <2>4. Put' = Put /\ Taken' = Taken \cup {c} /\ c \notin Taken /\ worker[t] = "deq"
    BY <1>1, <1>4, <1>7, <2>1, <2>2, <2>3, EffectSlots, Zenon DEF Inside
  <2>5. In = In' \cup {c} /\ c \notin In'
    BY <1>2, <1>6, <2>1, Zenon DEF In
  <2>6. Cardinality(Taken') = Cardinality(Taken) + 1 /\ Cardinality(In) = Cardinality(In') + 1
    <3>1. IsFiniteSet(Taken) /\ IsFiniteSet(In')
      BY <1>1, Counts, Zenon
    <3> HIDE DEF c
    <3> QED BY <2>4, <2>5, <3>1, OneMore, Zenon
  <2>7. Cardinality(Put') + delErrors' = Cardinality(In') + Cardinality(Taken') + enqErrors'
    <3>1. Cardinality(In') \in Nat
      BY <1>1, Counts, Zenon
    <3> QED BY <1>1, <1>4, <2>4, <2>6, <3>1, ListSums, Zenon
  <2>8. \A s \in In' : s \in Put' /\ s \notin Taken'
    BY <2>4, <2>5, Zenon DEF IInv, Balance
  <2>9. set' \ {Key(t)} = set \ {Key(t)} /\ \A k \in set' : k = Key(t) \/ k \in set
    BY <2>1, Zenon
  <2>10. /\ worker'[t] = "deq" /\ listOp'[t] \in {"idle", "delete", "deleted"}
         /\ listOp'[t] \notin {"alloc", "add", "delete"} /\ key'[t] = Key(t)'
    BY <1>1, <1>3, <1>4, <2>2, <2>4, Zenon
  <2> QED BY <1>1, <1>4, <1>5, <2>3, <2>2, <2>7, <2>8, <2>9, <2>10, ListDone, Zenon
<1> QED BY <1>8, <1>9, Zenon

\* What a return does to the calls of a list.
LEMMA ListReturns ==
  ASSUME IInv, NEW t \in Workers, bench # "queue", UNCHANGED queue, UNCHANGED <<bench, options>>,
         List!ReturnTrue(t) \/ List!ReturnFalse(t)
  PROVE  /\ ListTypes' /\ set' = set /\ In' = In /\ op'[t] = "idle" /\ listOp'[t] = "idle"
         /\ \A u \in Threads : u # t => /\ op'[u] = op[u] /\ listOp'[u] = listOp[u]
                                        /\ key'[u] = key[u] /\ saw'[u] = saw[u]
<1>1. /\ op' = op /\ itemNum' = itemNum /\ set' = set
      /\ listOp' = [listOp EXCEPT ![t] = "idle"] /\ key' = [key EXCEPT ![t] = None]
      /\ saw' = [saw EXCEPT ![t] = {}]
  BY Zenon DEF queue, options, List!ReturnTrue, List!ReturnFalse, List!Return
<1>2. t \in Threads /\ ListTypes /\ op[t] = "idle"
  BY SlotOf, TypesOf, Zenon DEF IInv, Calls
<1>3. In' = In
  BY <1>1, Zenon DEF In, Slots, KeyOf
<1> QED BY <1>1, <1>2, <1>3, Zenon DEF ListTypes, List!OpState

LEMMA AddReturnsStep ==
  ASSUME IInv, NEW t \in Workers, AddReturns(t)
  PROVE  IInv'
<1>1. /\ UNCHANGED <<bench, options, main, created, master, beginNum, endNum, verdict>> /\ UNCHANGED queue
      /\ UNCHANGED <<getval, sum, check, delErrors, threadNum, itemNum>> /\ UNCHANGED <<bench, options>>
      /\ bench # "queue" /\ NextIteration(t, "enq", "deq")
      /\ List!ReturnTrue(t) \/ List!ReturnFalse(t)
  BY Zenon DEF AddReturns, options
<1>2. t \in Threads /\ Calls(t) /\ LoopTypes /\ MaxEnqFailures \in Nat
  BY SlotOf, TypesOf, Zenon DEF IInv
<1>3. /\ ListTypes' /\ set' = set /\ In' = In /\ op'[t] = "idle" /\ listOp'[t] = "idle"
      /\ \A u \in Threads : u # t => /\ op'[u] = op[u] /\ listOp'[u] = listOp[u]
                                     /\ key'[u] = key[u] /\ saw'[u] = saw[u]
  BY <1>1, ListReturns, Zenon
<1>4. /\ Apart(t) /\ i' \in [Threads -> 0..(itemNum - 1)] /\ worker' \in [Threads -> Places]
      /\ worker[t] = "enq" /\ (worker'[t] = "enq" \/ (worker'[t] = "deq" /\ i'[t] = 0))
      /\ Put' = Put \cup {<<t, i[t]>>} /\ Taken' = Taken
  BY <1>1, <1>3, ReturnSlots, Zenon
<1>5. \/ listOp[t] = "added" /\ enqErrors' = enqErrors
      \/ listOp[t] # "added" /\ enqErrors < MaxEnqFailures /\ enqErrors' = enqErrors + 1
  BY <1>2, <1>4, Zenon DEF AddReturns, List!ReturnTrue, List!ReturnFalse, Calls
<1>6. Inside(t)
  BY <1>1, <1>4, Zenon DEF Inside
<1>7. enqErrors' \in 0..MaxEnqFailures
  BY <1>2, <1>5 DEF LoopTypes
<1>8. LoopTypes'
  BY <1>1, <1>2, <1>4, <1>7, Zenon DEF LoopTypes
<1>9. Cardinality(Put') = IF listOp[t] = "added" THEN Cardinality(Put) ELSE Cardinality(Put) + 1
  <2>1. IsFiniteSet(Put)
    BY <1>1, ListCount, Zenon
  <2>2. <<t, i[t]>> \in Put <=> listOp[t] = "added"
    <3>1. op[t] = "idle"
      BY <1>1, <1>2, Zenon DEF Calls
    <3> QED BY <1>4, <3>1, SlotOf
  <2> QED BY <1>4, <2>1, <2>2, OneMore
<1>10. Cardinality(Put') + delErrors' = Cardinality(In') + Cardinality(Taken') + enqErrors'
  BY <1>1, <1>3, <1>4, <1>5, <1>9, ListSums, Zenon
<1>11. \A s \in In' : s \in Put' /\ s \notin Taken'
  BY <1>3, <1>4, Zenon DEF IInv, Balance
<1> QED BY <1>1, <1>3, <1>4, <1>6, <1>8, <1>10, <1>11, ListDone, Zenon

LEMMA DeleteReturnsStep ==
  ASSUME IInv, NEW t \in Workers, DeleteReturns(t)
  PROVE  IInv'
<1>1. /\ UNCHANGED <<bench, options, main, created, master, beginNum, endNum, verdict>> /\ UNCHANGED queue
      /\ UNCHANGED <<enqErrors, threadNum, itemNum>> /\ UNCHANGED <<bench, options>>
      /\ bench # "queue" /\ NextIteration(t, "deq", "end")
      /\ List!ReturnTrue(t) \/ List!ReturnFalse(t)
  BY Zenon DEF DeleteReturns, options
<1>2. t \in Threads /\ Calls(t) /\ LoopTypes /\ Key(t) \in AllKeys /\ Key(t) = KeyOf(<<t, i[t]>>)
  BY SlotOf, TypesOf, Zenon DEF IInv
<1>3. /\ ListTypes' /\ set' = set /\ In' = In /\ op'[t] = "idle" /\ listOp'[t] = "idle"
      /\ \A u \in Threads : u # t => /\ op'[u] = op[u] /\ listOp'[u] = listOp[u]
                                     /\ key'[u] = key[u] /\ saw'[u] = saw[u]
  BY <1>1, ListReturns, Zenon
<1>4. /\ Apart(t) /\ i' \in [Threads -> 0..(itemNum - 1)] /\ worker' \in [Threads -> Places]
      /\ worker[t] = "deq" /\ (worker'[t] = "deq" \/ (worker'[t] = "end" /\ i'[t] = 0))
      /\ Put' = Put /\ Taken' = Taken \cup {<<t, i[t]>>}
  BY <1>1, <1>3, ReturnSlots, Zenon
<1>5. \/ listOp[t] = "deleted" /\ Record(t, key[t]) /\ delErrors' = delErrors
      \/ /\ listOp[t] = "delete" /\ "out" \in saw[t] /\ delErrors' = delErrors + 1
         /\ \E v \in IF getval[t] = None THEN Garbage ELSE {getval[t]} : Record(t, v)
  BY <1>2, <1>4, Zenon DEF DeleteReturns, List!ReturnTrue, List!ReturnFalse, Calls
<1>6. PICK v \in CheckIndex \cup Garbage : Record(t, v)
  <2>1. CASE listOp[t] = "deleted" /\ Record(t, key[t])
    <3>1. key[t] \in AllKeys
      BY <1>2, <2>1, Zenon DEF Calls
    <3> QED BY <2>1, <3>1, KeysChecked, Zenon
  <2>2. CASE \E v \in IF getval[t] = None THEN Garbage ELSE {getval[t]} : Record(t, v)
    BY <1>2, <2>2, Stale, Zenon
  <2> QED BY <1>5, <2>1, <2>2, Zenon
<1>7. Inside(t)
  BY <1>1, <1>4, Zenon DEF Inside
<1>8. delErrors' \in Nat
  BY <1>2, <1>5 DEF LoopTypes
<1>9. LoopTypes'
  BY <1>1, <1>2, <1>4, <1>6, <1>8, RecordTypes, Zenon DEF LoopTypes
<1>10. <<t, i[t]>> \in Taken <=> listOp[t] = "deleted"
  <2>1. op[t] = "idle"
    BY <1>1, <1>2, Zenon DEF Calls
  <2> QED BY <1>4, <2>1, SlotOf
<1>11. <<t, i[t]>> \notin In
  <2>1. CASE listOp[t] = "deleted"
    BY <1>10, <2>1, Zenon DEF IInv, Balance
  <2>2. CASE listOp[t] = "delete" /\ "out" \in saw[t]
    <3>1. List!Status(Key(t)) = "out"
      BY <1>2, <2>2, Zenon DEF Calls
    <3> QED BY <1>2, <3>1, Zenon DEF In, List!Status
  <2> QED BY <1>5, <2>1, <2>2, Zenon
<1>12. Cardinality(Taken') = IF listOp[t] = "deleted" THEN Cardinality(Taken) ELSE Cardinality(Taken) + 1
  <2>1. IsFiniteSet(Taken)
    BY <1>1, ListCount, Zenon
  <2> QED BY <1>4, <1>10, <2>1, OneMore
<1>13. Cardinality(Put') + delErrors' = Cardinality(In') + Cardinality(Taken') + enqErrors'
  BY <1>1, <1>3, <1>4, <1>5, <1>12, ListSums, Zenon
<1>14. \A s \in In' : s \in Put' /\ s \notin Taken'
  BY <1>3, <1>4, <1>11, Zenon DEF IInv, Balance
<1> QED BY <1>1, <1>3, <1>4, <1>7, <1>9, <1>13, <1>14, ListDone, Zenon

-----------------------------------------------------------------------------
(* The theorems *)

LEMMA InitInvariant ==
  ASSUME Init
  PROVE  IInv
<1>1. <<threadNum, itemNum>> \in Options
  <2>1. PICK o \in Options : threadNum = o[1] /\ itemNum = o[2]
    BY Zenon DEF Init
  <2>2. o = <<o[1], o[2]>>
    BY BenchAssumption
  <2> QED BY <2>1, <2>2, Zenon
<1>2. /\ threadNum \in Nat \ {0} /\ itemNum \in Nat \ {0} /\ Threads \subseteq Nat /\ MaxEnqFailures \in Nat
      /\ Workers \subseteq Threads
  BY <1>1, Sizes, BenchAssumption
<1>3. /\ bench \in {"queue", "list", "hash"} /\ main = "create" /\ created = 0 /\ master = "new"
      /\ worker = [t \in Threads |-> "new"] /\ beginNum = 0 /\ endNum = 0
      /\ i = [t \in Threads |-> 0] /\ getval = [t \in Threads |-> None] /\ sum = [t \in Threads |-> 0]
      /\ check = [v \in CheckIndex |-> 0] /\ enqErrors = 0 /\ delErrors = 0 /\ verdict = None
      /\ items = << >> /\ op = [t \in Threads |-> "idle"] /\ arg = [t \in Threads |-> None] /\ sawEmpty = {}
      /\ set = {} /\ listOp = [t \in Threads |-> "idle"] /\ key = [t \in Threads |-> None]
      /\ saw = [t \in Threads |-> {}]
  BY Zenon DEF Init, Queue!Init, List!Init
<1>4. /\ 0 \in 0..threadNum /\ 0 \in 0..(itemNum - 1) /\ 0 \in 0..MaxEnqFailures /\ 0 \in Nat
      /\ << >> \in Seq(AllKeys) /\ \A t \in Threads : 0 <= t
  BY <1>2
<1>5. Types
  <2>1. TypeOK
    BY <1>1, <1>3, <1>4, Zenon DEF TypeOK
  <2> QED BY <1>3, <2>1, Zenon DEF Types, Queue!OpState, List!OpState
<1>6. Barrier
  <2>1. Came = {} /\ Left = {}
    BY <1>2, <1>3, Zenon DEF Came, Left
  <2>2. Cardinality(Came) = 0 /\ Cardinality(Left) = 0
    BY <2>1, FS_EmptySet, Zenon
  <2> QED BY <1>3, <1>4, <2>2, Zenon DEF Barrier, Past
<1>7. \A t \in Threads : Calls(t)
  BY <1>3, Zenon DEF Calls
<1>8. Balance
  <2>1. \A s \in Slots : s[1] \in Threads
    BY Zenon DEF Slots
  <2>2. Put = {} /\ Taken = {} /\ In = {} /\ Seen = {}
    BY <1>3, <2>1, Zenon DEF Put, Taken, In, Seen, PutAt, TakenAt
  <2>3. Cardinality(Put) = 0 /\ Cardinality(Taken) = 0 /\ Cardinality(In) = 0 /\ Cardinality(Seen) = 0
    BY <2>2, FS_EmptySet, Zenon
  <2>4. Len(items) = 0
    BY <1>3
  <2> QED BY <1>3, <2>2, <2>3, <2>4 DEF Balance
<1> QED BY <1>5, <1>6, <1>7, <1>8, Zenon DEF IInv

LEMMA Stutter ==
  ASSUME IInv, UNCHANGED vars
  PROVE  IInv'
<1>1. /\ UNCHANGED <<bench, queue, list, options, results>> /\ UNCHANGED <<created, worker, beginNum, endNum>>
      /\ UNCHANGED <<main, master, verdict>>
  BY Zenon DEF vars
<1>2. /\ main' \in {"create", "end", "returned", "aborted"} /\ (main' = "end" => created < threadNum)
      /\ master' \in {"new", "test", "wait", "exit"} /\ (master' = "exit" => endNum = threadNum)
      /\ verdict' \in {None, "OK", "FAILED"} /\ (verdict' # None => master' = "exit")
  BY <1>1, Zenon DEF IInv, Types, TypeOK, Barrier
<1> QED BY <1>1, <1>2, OutsideStep, Zenon

LEMMA NextInvariant ==
  ASSUME IInv, [Next]_vars
  PROVE  IInv'
<1>1. CASE MainStep \/ MasterStep \/ MasterWakes
  BY <1>1, MainSteps, Zenon
<1>2. ASSUME NEW t \in Workers, WorkerStep(t) \/ WorkerWakes(t) PROVE IInv'
  <2>1. CASE WorkerBegins(t)
    BY <2>1, WorkerBeginsStep, Zenon
  <2>2. CASE WorkerTests(t) \/ WorkerWakes(t)
    BY <2>2, WorkerWaitSteps, Zenon
  <2>3. CASE WorkerCalls(t)
    BY <2>3, WorkerCallsStep, Zenon
  <2>4. CASE QueueStep(t)
    BY <2>4, QueueEffectStep, Zenon
  <2>5. CASE EnqReturns(t)
    BY <2>5, EnqReturnsStep, Zenon
  <2>6. CASE DeqReturns(t)
    BY <2>6, DeqReturnsStep, Zenon
  <2>7. CASE ListCalls(t)
    BY <2>7, ListCallsStep, Zenon
  <2>8. CASE ListStep(t)
    BY <2>8, ListCallsStep, ListEffectStep, Zenon DEF ListStep
  <2>9. CASE AddReturns(t)
    BY <2>9, AddReturnsStep, Zenon
  <2>10. CASE DeleteReturns(t)
    BY <2>10, DeleteReturnsStep, Zenon
  <2>11. CASE WorkerEnds(t)
    BY <2>11, WorkerEndsStep, Zenon
  <2> QED BY <1>2, <2>1, <2>2, <2>3, <2>4, <2>5, <2>6, <2>7, <2>8, <2>9, <2>10, <2>11, Zenon DEF WorkerStep
<1>3. CASE Ended \/ UNCHANGED vars
  BY <1>3, Stutter, Zenon DEF Ended
<1> QED BY <1>1, <1>2, <1>3, Zenon DEF Next

\* The invariant that carries the theorems below: begin_thread_num and
\* end_thread_num count the workers, a call is about the key of its iteration,
\* and what was put in and what was taken out balance.
THEOREM Invariance == Spec => []IInv
<1>1. Init => IInv
  BY InitInvariant
<1>2. IInv /\ [Next]_vars => IInv'
  BY NextInvariant
<1> QED BY <1>1, <1>2, PTL DEF Spec

\* The variables of the benches have their types: the counts stay within
\* thread_num, the loop counters below item_num and the index into check[]
\* comes from a key or from an uninitialized getval.
THEOREM TypeCorrect == Spec => []TypeOK
<1>1. IInv => TypeOK
  BY Zenon DEF IInv, Types
<1> QED BY <1>1, Invariance, PTL

LEMMA AllLeft ==
  ASSUME IInv, master = "exit"
  PROVE  \A t \in Workers : worker[t] = "exit"
<1>1. Cardinality(Left) = threadNum
  BY Zenon DEF IInv, Barrier
<1>2. Left \in SUBSET Workers
  BY Zenon DEF Left
<1>3. Left = Workers
  BY <1>1, <1>2, SlotFacts, Zenon DEF IInv, Types, TypeOK
<1> QED BY <1>3, Zenon DEF Left

LEMMA NothingFreed ==
  ASSUME IInv
  PROVE  NoUseAfterFree
<1>1. Workers \subseteq Threads /\ threadNum \in Nat \ {0} /\ created \in 0..threadNum /\ worker \in [Threads -> Places]
  BY Sizes DEF IInv, Types, TypeOK, Places
<1>2. ASSUME master = "exit", NEW t \in Workers
      PROVE  worker[t] = "exit" /\ op[t] = "idle" /\ listOp[t] = "idle"
  <2>1. worker[t] = "exit" /\ Calls(t)
    BY <1>1, <1>2, AllLeft, Zenon DEF IInv
  <2> QED BY <2>1, Zenon DEF Calls
<1>3. ASSUME main = "end"
      PROVE  /\ master \in {"new", "test", "wait"} /\ endNum = 0
             /\ \A t \in Workers : worker[t] \in {"new", "begin", "wait", "test"}
  <2>1. created < threadNum
    BY <1>3, Zenon DEF IInv, Barrier
  <2>2. \A t \in Workers : worker[t] \notin Past
    <3>1. created # threadNum
      BY <1>1, <2>1
    <3> QED BY <1>1, <3>1, Zenon DEF IInv, Barrier
  <2>3. Left = {}
    BY <2>2, Zenon DEF Left, Past
  <2>4. endNum = 0
    BY <2>3, FS_EmptySet, Zenon DEF IInv, Barrier
  <2>5. master # "exit"
    BY <1>1, <2>4 DEF IInv, Barrier
  <2> QED BY <1>1, <2>2, <2>4, <2>5, Zenon DEF IInv, Types, TypeOK, Past, Places
<1> QED BY <1>2, <1>3, Zenon DEF NoUseAfterFree

\* The master frees the queue, list or table only after every worker is out of
\* its calls, and when workbench gives up and frees stat_data no worker has
\* passed the barrier, whatever the interleaving and the spurious wakeups.
THEOREM FreeSafety == Spec => []NoUseAfterFree
BY NothingFreed, Invariance, PTL

LEMMA Balanced ==
  ASSUME IInv
  PROVE  ErrorsBalance
<1>1. /\ Put \subseteq Slots /\ Taken \subseteq Slots /\ In \subseteq Slots
      /\ IsFiniteSet(Put) /\ IsFiniteSet(Taken) /\ IsFiniteSet(In)
      /\ Cardinality(Put) \in Nat /\ Cardinality(Taken) \in Nat /\ Cardinality(In) \in Nat
  <2>1. Put \subseteq Slots /\ Taken \subseteq Slots /\ In \subseteq Slots
    BY Zenon DEF Put, Taken, In
  <2> QED BY <2>1, SlotFacts, Zenon DEF IInv, Types, TypeOK
<1>2. /\ enqErrors \in Nat /\ delErrors \in Nat /\ Len(items) \in Nat
      /\ Cardinality(Put) + delErrors = Len(items) + Cardinality(In) + Cardinality(Taken) + enqErrors
  <2>1. enqErrors \in Nat /\ delErrors \in Nat /\ Len(items) \in Nat
    BY TypesOf DEF QueueTypes, LoopTypes
  <2> QED BY <2>1, Zenon DEF IInv, Balance
<1>3. delErrors <= enqErrors
  <2>1. CASE bench = "queue"
    BY <1>2, <2>1, QueueCount
  <2>2. CASE bench # "queue"
    <3>1. In \cup Taken \subseteq Put /\ In \cap Taken = {}
      <4>1. Taken \subseteq Put
        BY Zenon DEF Put, Taken, PutAt, TakenAt
      <4> QED BY <4>1, Zenon DEF IInv, Balance
    <3>2. Cardinality(In \cup Taken) <= Cardinality(Put)
      BY <1>1, <3>1, FS_Subset, Zenon
    <3>3. Cardinality(In \cup Taken) = Cardinality(In) + Cardinality(Taken) - Cardinality(In \cap Taken)
      BY <1>1, FS_Union, Zenon
    <3>4. Cardinality(In \cap Taken) = 0
      BY <3>1, FS_EmptySet, Zenon
    <3> QED BY <1>1, <2>2, <3>2, <3>3, <3>4, ListCount
  <2> QED BY <2>1, <2>2, Zenon
<1>4. ASSUME verdict # None
      PROVE  delErrors = enqErrors /\ items = << >> /\ set = {}
  <2>1. \A t \in Workers : worker[t] = "exit"
    BY <1>4, AllLeft, Zenon DEF IInv, Barrier
  <2>2. \A t \in Threads : worker[t] \in {"new", "exit"}
    <3>1. ASSUME NEW t \in Threads, t \notin Workers PROVE created <= t
      <4>1. threadNum \in Nat /\ created \in 0..threadNum /\ t \in Nat
        BY Sizes DEF IInv, Types, TypeOK
      <4> QED BY <3>1, <4>1 DEF Workers
    <3> QED BY <2>1, <3>1, Zenon DEF IInv, Barrier
  <2>3. Put = Taken
    <3>1. \A s \in Slots : s[1] \in Threads
      BY Zenon DEF Slots
    <3> QED BY <2>2, <3>1, Zenon DEF Put, Taken, PutAt, TakenAt
  <2>4. delErrors = enqErrors /\ Len(items) = 0 /\ Cardinality(In) = 0
    BY <1>1, <1>2, <1>3, <2>3
  <2>5. items = << >>
    BY <2>4, TypesOf DEF QueueTypes
  <2>6. In = {}
    BY <1>1, <2>4, FS_EmptySet, Zenon
  <2>7. set = {}
    BY <2>6, Zenon DEF IInv, Balance, In
  <2> QED BY <2>4, <2>5, <2>7, Zenon
<1> QED BY <1>3, <1>4, Zenon DEF ErrorsBalance

\* For every number of threads and items and whichever calls of enq or add find
\* no memory: a deq or delete prints an error line only for an item that was
\* never added, and when the master gives its verdict the two kinds of error
\* lines are equally many and the queue, list or table is empty.
THEOREM ErrorLines == Spec => []ErrorsBalance
BY Balanced, Invariance, PTL

=============================================================================
