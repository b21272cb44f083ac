------------------------ MODULE LLSCLockFreeQueueSteps ------------------------
(***************************************************************************)
(* Proofs about LLSCLockFreeQueue, for any number of threads, values and   *)
(* nodes: the LL/SC variables move along the list one node per version and *)
(* no stale SC takes effect, nothing is freed, and the queue implements    *)
(* the atomic one.                                                         *)
(***************************************************************************)
EXTENDS LLSCLockFreeQueue, SequenceTheorems, TLAPS

-----------------------------------------------------------------------------
(* The inductive invariant *)

\* The lines after SC has its node, and those after LL has succeeded.
SCLines == {"SC", "SCread", "SCbump", "transfer", "release", "done"}
LLDone == {"link", "next", "unlink", "unlinkCas"} \cup SCLines
Lines == {"idle", "create", "LL", "LLptr", "LLcas"} \cup LLDone

Entries == [ver : Nat, count : Int]
Exits == [count : Int, transfersLeft : Int, nlP : {FALSE}, toBeFreed : {FALSE}]
Content == Values \cup {None}

TypeOK ==
  /\ ptr \in [Vars -> [1..2 -> Nodes]]
  /\ entry \in [Vars -> Entries]
  /\ val \in [Nodes -> Content]
  /\ next \in [Nodes -> Nodes \cup {NULL}]
  /\ pred \in [Nodes -> Nodes \cup {NULL}]
  /\ exit \in [Nodes -> Exits]
  /\ allocated \in 2..MaxNodes
  /\ freed = {}
  /\ pc \in [Threads -> Lines]
  /\ op \in [Threads -> {"idle", "enq", "deq"}]
  /\ arg \in [Threads -> Content]
  /\ newNode \in [Threads -> Nodes \cup {NULL}]
  /\ e \in [Threads -> Entries]
  /\ myver \in [Threads -> Nat]
  /\ mynode \in [Threads -> Nodes \cup {NULL}]
  /\ new \in [Threads -> Nodes \cup {NULL}]
  /\ done \in [Threads -> BOOLEAN]
  /\ chain \in Seq(Nodes)
  /\ sawEmpty \subseteq Threads

\* The node before the first is ptr1 of init_queue.
At(i) == IF i = 0 THEN 2 ELSE chain[i]

\* The nodes that have been linked are one list, in both directions.
OneList ==
  /\ Len(chain) >= 1 /\ chain[1] = 1
  /\ \A i \in 1..Len(chain) : /\ chain[i] # 2 /\ chain[i] <= allocated
                              /\ pred[chain[i]] = At(i - 1)
                              /\ next[chain[i]] = IF i = Len(chain) THEN NULL ELSE chain[i + 1]
  /\ \A i, j \in 1..Len(chain) : chain[i] = chain[j] => i = j
  /\ \A n \in Nodes : allocated < n => next[n] = NULL

\* The pointer that is not current is that of the version before, or already that
\* of the next one.
Adjacent(x) ==
  LET v == entry[x].ver
  IN  /\ v + 1 <= Len(chain)
      /\ CURRENT(x, v) = chain[v + 1]
      /\ \/ ptr[x][NONCUR(v)] = At(v)
         \/ v + 2 <= Len(chain) /\ ptr[x][NONCUR(v)] = chain[v + 2]

\* The node of an enq is its own until it is linked.
Owns(t) == op[t] = "enq" /\ ~ done[t] /\ pc[t] \notin {"idle", "create"}
Owned(t) ==
  Owns(t) =>
    /\ newNode[t] \in 3..allocated
    /\ next[newNode[t]] = NULL /\ val[newNode[t]] = arg[t]
    /\ \A i \in 1..Len(chain) : chain[i] # newNode[t]
    /\ \A u \in Threads : u # t /\ Owns(u) => newNode[u] # newNode[t]

\* What a thread has read of its variable: mynode is the node of version myver,
\* new the next one; after the cas of SC a version that has not been left has
\* new in its other pointer.
View(t) ==
  LET v == entry[Loc(t)].ver
      m == myver[t]
  IN  /\ pc[t] \in {"LLptr", "LLcas"} => e[t].ver <= v
      /\ pc[t] = "LLcas" => m = e[t].ver /\ (v = m => mynode[t] = chain[m + 1])
      /\ pc[t] \in LLDone => m <= v /\ mynode[t] = chain[m + 1]
      /\ pc[t] \in SCLines => m + 2 <= Len(chain) /\ new[t] = chain[m + 2]
      /\ pc[t] \in {"SCread", "SCbump"} /\ v = m => ptr[Loc(t)][NONCUR(m)] = chain[m + 2]
      /\ pc[t] = "SCbump" => e[t].ver = m
      /\ pc[t] = "transfer" => m < v

Control(t) ==
  /\ pc[t] = "idle" <=> op[t] = "idle"
  /\ pc[t] \in {"create", "link"} => op[t] = "enq"
  /\ pc[t] \in {"next", "unlink", "unlinkCas"} => op[t] = "deq"
  /\ done[t] => pc[t] \in SCLines /\ (op[t] = "deq" => pc[t] # "SC")
  /\ pc[t] = "done" => done[t]
  /\ op[t] = "enq" => arg[t] \in Values
  /\ op[t] # "enq" /\ ~ done[t] => arg[t] = None

\* The calls of deq under way while the queue is empty have seen it so, and one
\* that has read NULL among them.
EmptySeen ==
  /\ Empty => \A t \in Threads : op[t] = "deq" /\ ~ done[t] => t \in sawEmpty
  /\ \A t \in Threads : pc[t] \in {"unlink", "unlinkCas"} => t \in sawEmpty

IInv ==
  /\ TypeOK /\ OneList /\ EmptySeen
  /\ \A x \in Vars : Adjacent(x)
  /\ \A t \in Threads : Owned(t) /\ View(t) /\ Control(t)

-----------------------------------------------------------------------------
(* Facts about a state that satisfies the invariant *)

\* The two pointers change their parts with every version.
LEMMA Parity ==
  ASSUME NEW v \in Nat
  PROVE  /\ 1 + (v % 2) \in 1..2 /\ NONCUR(v) \in 1..2 /\ NONCUR(v) # 1 + (v % 2)
         /\ 1 + ((v + 1) % 2) = NONCUR(v) /\ NONCUR(v + 1) = 1 + (v % 2)
         /\ \A i \in 1..2 : i = 1 + (v % 2) \/ i = NONCUR(v)
BY DEF NONCUR

LEMMA Ahead ==
  ASSUME NEW v \in Nat, NEW L \in Nat, v + 2 <= L
  PROVE  /\ v + 1 \in 1..L /\ v + 2 \in 1..L /\ v + 2 \in 0..L /\ v \in 0..L /\ v + 2 # v
         /\ v + 1 # 0 /\ v + 2 # 0 /\ (v + 1) + 1 = v + 2 /\ (v + 2) - 1 = v + 1
         /\ v <= v + 1 /\ v < v + 1
OBVIOUS

LEMMA Carried ==
  ASSUME NEW m \in Nat, NEW v \in Nat, NEW w \in Nat, NEW L \in Nat, m <= v, v <= w, v + 1 <= L
  PROVE  m <= w /\ m + 1 \in 1..L
OBVIOUS

LEMMA NextNumber ==
  ASSUME NEW a \in Nat, 2 <= a, NEW S, \A k \in S : k \in Nat /\ k <= a
  PROVE  a + 1 \in 3..(a + 1) /\ a < a + 1 /\ \A k \in S : k # a + 1
OBVIOUS

LEMMA Below ==
  ASSUME NEW k \in Nat, NEW a \in Nat, NEW n \in Nat, k <= a, a < n
  PROVE  n # k
OBVIOUS

LEMMA LastTwo ==
  ASSUME NEW m \in Nat, NEW L \in Nat, m + 1 = L
  PROVE  m + 2 = L + 1 /\ m + 1 \in 1..L /\ m + 2 <= L + 1 /\ L + 1 <= L + 1
OBVIOUS

LEMMA Widen ==
  ASSUME NEW a \in Nat, NEW k \in 3..a
  PROVE  k \in 3..(a + 1) /\ k # a + 1
OBVIOUS

LEMMA NewVersion ==
  ASSUME NEW E, NEW w, E = [ver |-> w, count |-> 0]
  PROVE  E.ver = w
OBVIOUS

LEMMA UpTo ==
  ASSUME NEW L \in Nat, NEW k \in 1..L
  PROVE  k <= L
OBVIOUS

\* The list stays one when only links outside it change.
LEMMA ListKept ==
  ASSUME OneList, UNCHANGED <<chain, next>>,
         \A i \in 1..Len(chain) : pred'[chain[i]] = pred[chain[i]] /\ chain[i] <= allocated',
         \A n \in Nodes : allocated' < n => next[n] = NULL
  PROVE  OneList'
<1>1. \A i \in 1..Len(chain) : At(i - 1)' = At(i - 1)
  BY Zenon DEF At
<1> QED BY <1>1 DEF OneList

LEMMA AdjacentKept ==
  ASSUME NEW x, Adjacent(x), UNCHANGED <<ptr, entry, chain>>
  PROVE  Adjacent(x)'
BY Zenon DEF Adjacent, CURRENT, At

LEMMA NodeNumbers ==
  ASSUME TypeOK
  PROVE  Nodes \subseteq Nat /\ allocated \in Nat /\ 3..allocated \subseteq Nodes
BY LLSCAssumption DEF TypeOK, Nodes

LEMMA Numbers ==
  ASSUME TypeOK
  PROVE  /\ MaxNodes \in Nat /\ NULL \notin Nodes /\ 1 \in Nodes /\ 2 \in Nodes
         /\ Len(chain) \in Nat /\ Len(chain) <= Len(chain) /\ DOMAIN chain = 1..Len(chain)
         /\ \A i \in 1..Len(chain) : chain[i] \in Nodes /\ chain[i] # NULL
         /\ \A x \in Vars : entry[x].ver \in Nat /\ entry[x].ver <= entry[x].ver
         /\ \A t \in Threads : Loc(t) \in Vars /\ myver[t] \in Nat /\ e[t].ver \in Nat
<1>1. MaxNodes \in Nat /\ NULL \notin Nodes /\ 1 \in Nodes /\ 2 \in Nodes
  BY LLSCAssumption DEF Nodes, NULL
<1>2. chain \in Seq(Nodes)
  BY DEF TypeOK
<1>3. Len(chain) \in Nat /\ DOMAIN chain = 1..Len(chain) /\ \A i \in 1..Len(chain) : chain[i] \in Nodes
  BY <1>2, LenProperties, ElementOfSeq
<1>4. \A x \in Vars : entry[x].ver \in Nat
  BY DEF TypeOK, Entries
<1>5. Len(chain) <= Len(chain) /\ \A x \in Vars : entry[x].ver <= entry[x].ver
  BY <1>3, <1>4
<1>6. \A t \in Threads : Loc(t) \in Vars /\ myver[t] \in Nat /\ e[t].ver \in Nat
  BY DEF TypeOK, Entries, Loc, Vars
<1> QED BY <1>1, <1>3, <1>4, <1>5, <1>6, Zenon

\* Nodes at different places of the list are different, the one before it included.
LEMMA AtDistinct ==
  ASSUME IInv, NEW i \in 0..Len(chain), NEW j \in 0..Len(chain), At(i) = At(j)
  PROVE  i = j
<1>1. Len(chain) \in Nat
  BY Numbers DEF IInv
<1>2. \A k \in 1..Len(chain) : chain[k] # 2
  BY DEF IInv, OneList
<1>3. \A k, l \in 1..Len(chain) : chain[k] = chain[l] => k = l
  BY DEF IInv, OneList
<1> QED BY <1>1, <1>2, <1>3 DEF At

\* What the pointers of a variable can be: no node before its version's.
LEMMA PointersAhead ==
  ASSUME IInv, NEW x \in Vars, NEW i \in 1..2
  PROVE  \E j \in entry[x].ver..Len(chain) : ptr[x][i] = At(j)
<1>1. entry[x].ver \in Nat /\ Len(chain) \in Nat
  BY Numbers DEF IInv
<1>2. Adjacent(x)
  BY DEF IInv
<1> DEFINE v == entry[x].ver
<1>3. CASE i = 1 + (v % 2)
  <2>1. v + 1 \in v..Len(chain) /\ ptr[x][i] = At(v + 1)
    BY <1>1, <1>2, <1>3 DEF Adjacent, CURRENT, At
  <2> QED BY <2>1
<1>4. CASE i = NONCUR(v)
  <2>1. CASE ptr[x][i] = At(v)
    <3>1. v \in v..Len(chain)
      BY <1>1, <1>2 DEF Adjacent
    <3> QED BY <2>1, <3>1
  <2>2. CASE v + 2 <= Len(chain) /\ ptr[x][i] = chain[v + 2]
    <3>1. v + 2 \in v..Len(chain) /\ ptr[x][i] = At(v + 2)
      BY <1>1, <2>2 DEF At
    <3> QED BY <3>1
  <2> QED BY <1>2, <1>4, <2>1, <2>2 DEF Adjacent
<1> QED BY <1>1, <1>3, <1>4, Parity, Zenon

\* The dummy is the node of head's version, or the next one once SC has put it
\* in the other pointer.
DummyAt == IF ptr["head"][NONCUR(entry["head"].ver)] = At(entry["head"].ver)
           THEN entry["head"].ver + 1 ELSE entry["head"].ver + 2

LEMMA DummyPlace ==
  ASSUME IInv
  PROVE  /\ DummyAt \in 1..Len(chain) /\ Dummy = chain[DummyAt]
         /\ Empty <=> DummyAt = Len(chain)
<1> DEFINE v == entry["head"].ver
           n == ptr["head"][NONCUR(v)]
<1>1. v \in Nat /\ Len(chain) \in Nat /\ "head" \in Vars
  BY Numbers DEF IInv, Vars
<1>2. /\ v + 1 <= Len(chain) /\ CURRENT("head", v) = chain[v + 1]
      /\ n = At(v) \/ (v + 2 <= Len(chain) /\ n = chain[v + 2])
  BY <1>1 DEF IInv, Adjacent
<1>3. v + 1 \in 1..Len(chain) /\ (v + 1) - 1 = v
  BY <1>1, <1>2
<1>4. pred[chain[v + 1]] = At(v)
  BY <1>3 DEF IInv, OneList
<1>5. DummyAt \in 1..Len(chain) /\ Dummy = chain[DummyAt]
  <2>1. CASE n = At(v)
    <3>1. DummyAt = v + 1 /\ Dummy = CURRENT("head", v)
      BY <1>2, <1>4, <2>1 DEF DummyAt, Dummy
    <3> QED BY <1>2, <1>3, <3>1
  <2>2. CASE n # At(v)
    <3>1. DummyAt = v + 2 /\ Dummy = n
      BY <1>2, <1>4, <2>2 DEF DummyAt, Dummy
    <3>2. v + 2 \in 1..Len(chain) /\ n = chain[v + 2]
      BY <1>1, <1>2, <2>2
    <3> QED BY <3>1, <3>2
  <2> QED BY <2>1, <2>2
<1>6. next[Dummy] = IF DummyAt = Len(chain) THEN NULL ELSE chain[DummyAt + 1]
  BY <1>5 DEF IInv, OneList
<1>7. DummyAt # Len(chain) => chain[DummyAt + 1] # NULL
  <2> SUFFICES ASSUME DummyAt # Len(chain) PROVE DummyAt + 1 \in 1..Len(chain)
    BY Numbers, Zenon DEF IInv
  <2> QED BY <1>1, <1>5
<1> QED BY <1>5, <1>6, <1>7 DEF Empty

-----------------------------------------------------------------------------
(* What a step of one thread leaves to the others *)

OthersKeep(t) ==
  \A u \in Threads \ {t} :
    /\ pc'[u] = pc[u] /\ op'[u] = op[u] /\ arg'[u] = arg[u] /\ newNode'[u] = newNode[u]
    /\ e'[u] = e[u] /\ myver'[u] = myver[u] /\ mynode'[u] = mynode[u] /\ new'[u] = new[u]
    /\ done'[u] = done[u]

\* The views of the others, when the list may grow and a variable may go on to its
\* next version or have its other pointer set.
LEMMA OtherViews ==
  ASSUME IInv, NEW t \in Threads, OthersKeep(t), Len(chain') \in Nat, Len(chain) <= Len(chain'),
         \A i \in 1..Len(chain) : chain'[i] = chain[i],
         \A x \in Vars : entry'[x].ver \in Nat /\ entry[x].ver <= entry'[x].ver,
         \A x \in Vars : entry'[x].ver = entry[x].ver =>
           \/ ptr'[x] = ptr[x]
           \/ /\ ptr[x][NONCUR(entry[x].ver)] = At(entry[x].ver)
              /\ entry[x].ver + 2 <= Len(chain)
  PROVE  \A u \in Threads \ {t} : View(u)'
<1> SUFFICES ASSUME NEW u \in Threads \ {t} PROVE View(u)'
  BY Zenon
<1> DEFINE x == Loc(u)
           v == entry[x].ver
           m == myver[u]
<1>1. /\ Len(chain) \in Nat /\ x \in Vars /\ v \in Nat /\ m \in Nat /\ e[u].ver \in Nat
  BY Numbers DEF IInv
<1>2. Loc(u)' = x /\ myver'[u] = m /\ pc'[u] = pc[u] /\ e'[u] = e[u] /\ mynode'[u] = mynode[u] /\ new'[u] = new[u]
  BY Zenon DEF OthersKeep, Loc
<1>3. View(u) /\ v + 1 <= Len(chain)
  BY <1>1 DEF IInv, Adjacent
<1>4. v <= entry'[x].ver /\ entry'[x].ver \in Nat
  BY <1>1, Zenon
<1> HIDE DEF x
<1>5. pc[u] \in {"LLptr", "LLcas"} => e[u].ver <= entry'[x].ver
  BY <1>1, <1>3, <1>4 DEF View, x
<1>6. pc[u] = "LLcas" => m = e[u].ver /\ (entry'[x].ver = m => mynode[u] = chain'[m + 1])
  <2> SUFFICES ASSUME pc[u] = "LLcas" PROVE m = e[u].ver /\ (entry'[x].ver = m => mynode[u] = chain'[m + 1])
    OBVIOUS
  <2>1. m = e[u].ver /\ e[u].ver <= v /\ (v = m => mynode[u] = chain[m + 1])
    BY <1>3, Zenon DEF View, x
  <2>2. entry'[x].ver = m => v = m /\ m + 1 \in 1..Len(chain)
    BY <1>1, <1>3, <1>4, <2>1
  <2> QED BY <2>1, <2>2
<1>7. pc[u] \in LLDone => m <= entry'[x].ver /\ mynode[u] = chain'[m + 1]
  <2> SUFFICES ASSUME pc[u] \in LLDone PROVE m <= entry'[x].ver /\ mynode[u] = chain'[m + 1]
    BY Zenon
  <2>1. m <= v /\ mynode[u] = chain[m + 1]
    BY <1>3, Zenon DEF View, x
  <2>2. m <= entry'[x].ver /\ m + 1 \in 1..Len(chain)
    <3>1. m \in Nat /\ v \in Nat /\ Len(chain) \in Nat
      BY <1>1, Zenon
    <3> HIDE DEF m, v
    <3> QED BY <1>3, <1>4, <2>1, <3>1, Carried, Zenon
  <2> QED BY <1>1, <2>1, <2>2, Zenon
<1>8. pc[u] \in SCLines => m + 2 <= Len(chain) /\ m + 2 <= Len(chain') /\ new[u] = chain'[m + 2]
  <2> SUFFICES ASSUME pc[u] \in SCLines PROVE m + 2 <= Len(chain) /\ m + 2 <= Len(chain') /\ new[u] = chain'[m + 2]
    BY Zenon
  <2>1. m + 2 <= Len(chain) /\ new[u] = chain[m + 2]
    BY <1>3 DEF View
  <2>2. m + 2 \in 1..Len(chain) /\ m + 2 <= Len(chain')
    BY <1>1, <2>1
  <2> QED BY <2>1, <2>2
<1>9. pc[u] \in {"SCread", "SCbump"} /\ entry'[x].ver = m => ptr'[x][NONCUR(m)] = chain'[m + 2]
  <2> SUFFICES ASSUME pc[u] \in {"SCread", "SCbump"}, entry'[x].ver = m
               PROVE  ptr'[x][NONCUR(m)] = chain'[m + 2]
    OBVIOUS
  <2>1. pc[u] \in LLDone /\ pc[u] \in SCLines
    BY Zenon DEF LLDone, SCLines
  <2>2. m <= v
    BY <1>3, <2>1 DEF View, x
  <2>3. v = m
    BY <1>1, <1>4, <2>2
  <2>4. ptr[x][NONCUR(m)] = chain[m + 2] /\ m + 2 <= Len(chain)
    BY <1>3, <2>1, <2>3, Zenon DEF View, x
  <2>5. m + 2 \in 1..Len(chain) /\ m + 2 \in 0..Len(chain) /\ m \in 0..Len(chain) /\ m + 2 # m
    BY <1>1, <2>4
  <2>6. At(m + 2) = chain[m + 2]
    BY <1>1 DEF At
  <2>7. ptr[x][NONCUR(m)] # At(m)
    BY <2>4, <2>5, <2>6, AtDistinct
  <2>8. ptr'[x] = ptr[x]
    BY <1>1, <2>3, <2>7, Zenon
  <2> QED BY <2>4, <2>5, <2>8
<1>10. pc[u] = "SCbump" => e[u].ver = m
  BY <1>3, Zenon DEF View
<1>11. pc[u] = "transfer" => m < entry'[x].ver
  BY <1>1, <1>3, <1>4 DEF View, x
<1> QED BY <1>2, <1>5, <1>6, <1>7, <1>8, <1>9, <1>10, <1>11 DEF View

LEMMA OthersControl ==
  ASSUME IInv, NEW t \in Threads, OthersKeep(t)
  PROVE  \A u \in Threads \ {t} : Control(u)' /\ (Owns(u)' <=> Owns(u))
BY DEF IInv, Control, Owns, OthersKeep

\* A step that leaves the list, the pointers and the versions alone.
Quiet ==
  /\ UNCHANGED <<ptr, val, next, pred, allocated, chain>>
  /\ \A x \in Vars : entry'[x].ver = entry[x].ver

LEMMA QuietDummy ==
  ASSUME Quiet
  PROVE  Dummy' = Dummy /\ (Empty' <=> Empty)
<1>1. entry'["head"].ver = entry["head"].ver
  BY DEF Quiet, Vars
<1>2. Dummy' = Dummy
  BY <1>1, Zenon DEF Quiet, Dummy, CURRENT
<1> QED BY <1>2 DEF Quiet, Empty

LEMMA OwnedKept ==
  ASSUME IInv, UNCHANGED <<val, next, allocated, chain>>,
         \A u \in Threads : Owns(u)' => Owns(u) /\ newNode'[u] = newNode[u] /\ arg'[u] = arg[u]
  PROVE  \A u \in Threads : Owned(u)'
<1> SUFFICES ASSUME NEW u \in Threads, Owns(u)' PROVE Owned(u)'
  BY Zenon DEF Owned
<1>1. /\ Owns(u) /\ newNode'[u] = newNode[u] /\ arg'[u] = arg[u]
      /\ newNode[u] \in 3..allocated /\ next[newNode[u]] = NULL /\ val[newNode[u]] = arg[u]
      /\ \A i \in 1..Len(chain) : chain[i] # newNode[u]
      /\ \A w \in Threads : w # u /\ Owns(w) => newNode[w] # newNode[u]
  BY Zenon DEF IInv, Owned
<1>2. \A w \in Threads : w # u /\ Owns(w)' => newNode'[w] # newNode'[u]
  BY <1>1, Zenon
<1> QED BY <1>1, <1>2, Zenon DEF Owned

LEMMA QuietStep ==
  ASSUME IInv, NEW t \in Threads, OthersKeep(t), Quiet, TypeOK', View(t)', Control(t)',
         Owns(t)' => Owns(t) /\ newNode'[t] = newNode[t] /\ arg'[t] = arg[t],
         \A u \in Threads \ {t} : u \in sawEmpty => u \in sawEmpty',
         Empty /\ op'[t] = "deq" /\ ~ done'[t] => t \in sawEmpty',
         pc'[t] \in {"unlink", "unlinkCas"} => t \in sawEmpty'
  PROVE  IInv'
<1>1. OneList'
  <2>1. OneList /\ UNCHANGED <<next, pred, allocated, chain>>
    BY Zenon DEF IInv, Quiet
  <2>2. /\ \A i \in 1..Len(chain) : chain[i] <= allocated
        /\ \A n \in Nodes : allocated < n => next[n] = NULL
    BY <2>1, Zenon DEF OneList
  <2> QED BY <2>1, <2>2, ListKept, Zenon
<1>2. EmptySeen'
  BY QuietDummy, Zenon DEF IInv, EmptySeen, OthersKeep
<1>3. \A x \in Vars : Adjacent(x)'
  BY Zenon DEF IInv, Adjacent, CURRENT, At, Quiet
<1>4. \A u \in Threads \ {t} : View(u)'
  <2>1. \A x \in Vars : entry'[x].ver \in Nat /\ entry[x].ver <= entry'[x].ver /\ ptr'[x] = ptr[x]
    BY Numbers DEF IInv, Quiet
  <2>2. chain' = chain /\ Len(chain) \in Nat /\ Len(chain) <= Len(chain)
    BY Numbers DEF IInv, Quiet
  <2> QED BY <2>1, <2>2, OtherViews, Zenon
<1>5. \A u \in Threads \ {t} : Control(u)' /\ (Owns(u)' <=> Owns(u)) /\ newNode'[u] = newNode[u] /\ arg'[u] = arg[u]
  BY OthersControl, Zenon DEF OthersKeep
<1>6. \A u \in Threads : Owned(u)'
  <2>1. \A u \in Threads : Owns(u)' => Owns(u) /\ newNode'[u] = newNode[u] /\ arg'[u] = arg[u]
    BY <1>5, Zenon
  <2> QED BY <2>1, OwnedKept, Zenon DEF Quiet
<1> QED BY <1>1, <1>2, <1>3, <1>4, <1>5, <1>6, Zenon DEF IInv

-----------------------------------------------------------------------------
(* Steps of LL and SC that change neither list nor pointers nor versions *)

LEMMA OthersStep ==
  ASSUME TypeOK, NEW t \in Threads, Step(t) \/ DeqCall(t) \/ \E v \in Values : EnqCall(t, v)
  PROVE  OthersKeep(t)
<1> USE DEF TypeOK, OthersKeep, Goto, Forget, Return, fields, call, history
<1>1. CASE LLRead(t) \/ LLCurrent(t) \/ LLCas(t)
  BY <1>1 DEF LLRead, LLCurrent, LLCas
<1>2. CASE SC(t)
  BY <1>2 DEF SC
<1>3. CASE SCRead(t) \/ SCBump(t) \/ transfer(t)
  BY <1>3 DEF SCRead, SCBump, transfer
<1>4. CASE SCRelease(t)
  BY <1>4 DEF SCRelease
<1>5. CASE CreateNodeFails(t) \/ create_node(t)
  BY <1>5 DEF CreateNodeFails, create_node
<1>6. CASE EnqLink(t)
  BY <1>6, Zenon DEF EnqLink
<1>7. CASE EnqReturn(t) \/ DeqNext(t) \/ UnlinkRead(t)
  BY <1>7 DEF EnqReturn, DeqNext, UnlinkRead
<1>8. CASE UnlinkCas(t) \/ DeqReturn(t)
  BY <1>8 DEF UnlinkCas, DeqReturn
<1>9. CASE DeqCall(t) \/ \E v \in Values : EnqCall(t, v)
  BY <1>9 DEF DeqCall, EnqCall
<1> QED BY <1>1, <1>2, <1>3, <1>4, <1>5, <1>6, <1>7, <1>8, <1>9, Zenon DEF Step

\* The nodes a thread works on are in the list.
LEMMA Places ==
  ASSUME IInv, NEW t \in Threads, pc[t] \in LLDone
  PROVE  /\ myver[t] + 1 \in 1..Len(chain) /\ mynode[t] = chain[myver[t] + 1] /\ mynode[t] \in Nodes
         /\ pred[mynode[t]] = At(myver[t]) /\ pred[mynode[t]] \in Nodes
         /\ next[mynode[t]] = NULL <=> myver[t] + 1 = Len(chain)
         /\ next[mynode[t]] # NULL => /\ myver[t] + 2 \in 1..Len(chain)
                                      /\ next[mynode[t]] = chain[myver[t] + 2]
         /\ pc[t] \in SCLines => new[t] \in Nodes
<1> DEFINE m == myver[t]
           v == entry[Loc(t)].ver
<1>1. m \in Nat /\ v \in Nat /\ Len(chain) \in Nat /\ Loc(t) \in Vars
  BY Numbers, Zenon DEF IInv
<1>2. m <= v /\ mynode[t] = chain[m + 1]
  BY Zenon DEF IInv, View
<1>3. v + 1 <= Len(chain)
  BY <1>1, Zenon DEF IInv, Adjacent
<1>4. m + 1 \in 1..Len(chain) /\ (m + 1) - 1 = m /\ (m + 1) + 1 = m + 2
  BY <1>1, <1>2, <1>3
<1>5. mynode[t] \in Nodes
  <2>1. TypeOK
    BY Zenon DEF IInv
  <2> QED BY <1>2, <1>4, <2>1, Numbers, Zenon
<1>6. /\ pred[mynode[t]] = At(m)
      /\ next[mynode[t]] = IF m + 1 = Len(chain) THEN NULL ELSE chain[m + 2]
  BY <1>2, <1>4 DEF IInv, OneList
<1>7. At(m) \in Nodes
  <2>1. CASE m = 0
    BY <2>1, Numbers DEF At, IInv
  <2>2. CASE m # 0
    <3>1. m \in 1..Len(chain)
      BY <1>1, <1>4, <2>2
    <3> QED BY <2>2, <3>1, Numbers DEF At, IInv
  <2> QED BY <2>1, <2>2, Zenon
<1>8. m + 1 # Len(chain) => m + 2 \in 1..Len(chain)
  BY <1>1, <1>4
<1>9. m + 1 # Len(chain) => chain[m + 2] # NULL
  BY <1>8, Numbers DEF IInv
<1>10. pc[t] \in SCLines => new[t] \in Nodes
  <2> SUFFICES ASSUME pc[t] \in SCLines PROVE new[t] \in Nodes
    BY Zenon
  <2>1. m + 2 <= Len(chain) /\ new[t] = chain[m + 2]
    BY DEF IInv, View
  <2>2. m + 2 \in 1..Len(chain)
    BY <1>1, <2>1
  <2> QED BY <2>1, <2>2, Numbers DEF IInv
<1> QED BY <1>2, <1>4, <1>5, <1>6, <1>7, <1>8, <1>9, <1>10, Zenon

\* The tags keep their types.
LEMMA TagTypes ==
  /\ \A r \in Entries : r.ver \in Nat /\ r.count \in Int /\ r.count + 1 \in Int /\ r.count - 1 \in Int
  /\ \A r \in Exits : r.count \in Int /\ r.count - 1 \in Int /\ r.transfersLeft - 1 \in Int
  /\ \A r \in Exits, s \in Entries : r.count + s.count \in Int
  /\ NoEntry \in Entries
<1>1. \A r \in Entries : r.ver \in Nat /\ r.count \in Int
  BY DEF Entries
<1>2. \A r \in Exits : r.count \in Int /\ r.transfersLeft \in Int
  BY DEF Exits
<1>3. NoEntry \in Entries
  BY DEF Entries, NoEntry
<1> QED BY <1>1, <1>2, <1>3

LEMMA EntryUpdate ==
  ASSUME NEW S, NEW f \in [S -> Entries], NEW x \in S, NEW c \in Int
  PROVE  [f EXCEPT ![x].count = c] \in [S -> Entries]
<1>1. f[x] \in Entries
  OBVIOUS
<1>2. [f[x] EXCEPT !.count = c] \in Entries
  BY <1>1 DEF Entries
<1> QED BY <1>2

LEMMA ExitUpdate ==
  ASSUME NEW f \in [Nodes -> Exits], NEW n \in Nodes, NEW c \in Int
  PROVE  [f EXCEPT ![n].count = c] \in [Nodes -> Exits]
<1>1. [f[n] EXCEPT !.count = c] \in Exits
  BY Zenon DEF Exits
<1> QED BY <1>1

LEMMA ExitUpdate2 ==
  ASSUME NEW f \in [Nodes -> Exits], NEW n \in Nodes, NEW c \in Int, NEW d \in Int
  PROVE  [f EXCEPT ![n].count = c, ![n].transfersLeft = d] \in [Nodes -> Exits]
<1>1. [[f[n] EXCEPT !.count = c] EXCEPT !.transfersLeft = d] \in Exits
  BY Zenon DEF Exits
<1> QED BY <1>1

\* No cas stores the bits that would let a node go: nothing is freed.
LEMMA NothingFreeable ==
  ASSUME exit' \in [Nodes -> Exits], NEW n \in Nodes
  PROVE  setNLPred(n) = {} /\ setToBeFreed(n) = {} /\ ~ FREEABLE(exit'[n])
BY Zenon DEF Exits, setNLPred, setToBeFreed, FREEABLE

LEMMA ReleaseKeeps ==
  ASSUME IInv, NEW t \in Threads, pc[t] \in LLDone, release(t)
  PROVE  exit' \in [Nodes -> Exits] /\ freed' = {}
<1>1. mynode[t] \in Nodes /\ pred[mynode[t]] \in Nodes
  BY Places, Zenon
<1>2. exit \in [Nodes -> Exits] /\ freed = {}
  BY DEF IInv, TypeOK
<1>3. exit' = [exit EXCEPT ![mynode[t]].count = @ - 1]
  BY DEF release
<1>4. exit' \in [Nodes -> Exits]
  <2>1. exit[mynode[t]].count - 1 \in Int
    BY <1>1, <1>2, TagTypes, Zenon
  <2> QED BY <1>1, <1>2, <1>3, <2>1, ExitUpdate
<1>5. {n \in {mynode[t]} : FREEABLE(exit'[n])} = {}
  BY <1>1, <1>4, NothingFreeable
<1> QED BY <1>1, <1>2, <1>4, <1>5, NothingFreeable DEF release

LEMMA TypeStep ==
  ASSUME IInv, NEW t \in Threads, Step(t) \/ DeqCall(t) \/ \E v \in Values : EnqCall(t, v)
  PROVE  TypeOK'
<1>0. TypeOK /\ Loc(t) \in Vars
  BY Numbers, Zenon DEF IInv
<1>n. pc[t] \in LLDone => mynode[t] \in Nodes /\ pred[mynode[t]] \in Nodes
  BY Places, Zenon
<1>s. pc[t] \in SCLines => pc[t] \in LLDone /\ new[t] \in Nodes
  BY Places, Zenon DEF LLDone
<1> USE DEF Goto, fields, call, history
<1>1. CASE LLRead(t)
  BY <1>0, <1>1, Zenon DEF LLRead, TypeOK, Lines
<1>2. CASE LLCurrent(t)
  <2>1. e[t].ver \in Nat /\ 1 + (e[t].ver % 2) \in 1..2
    <3>1. e[t].ver \in Nat
      BY <1>0, Numbers, Zenon
    <3> QED BY <3>1, Parity, Zenon
  <2>2. CURRENT(Loc(t), e[t].ver) \in Nodes
    <3>1. ptr[Loc(t)] \in [1..2 -> Nodes]
      BY <1>0, Zenon DEF TypeOK
    <3> QED BY <2>1, <3>1, Zenon DEF CURRENT
  <2> QED BY <1>0, <1>2, <2>1, <2>2, Zenon DEF LLCurrent, TypeOK, Lines
<1>3. CASE LLCas(t)
  <2>1. entry \in [Vars -> Entries] /\ entry[Loc(t)].count + 1 \in Int
    BY <1>0 DEF TypeOK, Entries
  <2>2. entry' \in [Vars -> Entries]
    BY <1>0, <1>3, <2>1, EntryUpdate DEF LLCas
  <2> QED BY <1>0, <1>3, <2>2 DEF LLCas, TypeOK, Lines, LLDone
<1>4. CASE SC(t)
  <2>1. new[t] \in Nodes /\ NONCUR(myver[t]) \in 1..2
    BY <1>0, <1>4, <1>s, Parity, Numbers, Zenon DEF SC, SCLines
  <2>2. ptr' \in [Vars -> [1..2 -> Nodes]]
    BY <1>0, <1>4, <2>1 DEF SC, TypeOK
  <2>3. arg' \in [Threads -> Content] /\ done' \in [Threads -> BOOLEAN] /\ sawEmpty' \subseteq Threads
    <3>1. val[new[t]] \in Content
      BY <1>0, <2>1, Zenon DEF TypeOK
    <3>2. arg' \in [Threads -> Content] /\ done' \in [Threads -> BOOLEAN]
      BY <1>0, <1>4, <3>1, Zenon DEF SC, TypeOK
    <3>3. sawEmpty' \subseteq Threads
      BY <1>0, <1>4, Zenon DEF SC, TypeOK
    <3> QED BY <3>2, <3>3, Zenon
  <2>4. pc' \in [Threads -> Lines]
    BY <1>0, <1>4 DEF SC, TypeOK, Lines, LLDone, SCLines
  <2> QED BY <1>0, <1>4, <2>2, <2>3, <2>4, Zenon DEF SC, TypeOK
<1>5. CASE SCRead(t)
  BY <1>0, <1>5 DEF SCRead, TypeOK, Lines, LLDone, SCLines
<1>6. CASE SCBump(t)
  <2>1. entry' \in [Vars -> Entries]
    BY <1>0, <1>6 DEF SCBump, TypeOK, Entries
  <2> QED BY <1>0, <1>6, <2>1, Zenon DEF SCBump, TypeOK, Lines, LLDone, SCLines
<1>7. CASE transfer(t)
  <2>0. /\ mynode[t] \in Nodes /\ exit \in [Nodes -> Exits]
        /\ exit[mynode[t]].count + e[t].count \in Int /\ exit[mynode[t]].transfersLeft - 1 \in Int
    <3>1. mynode[t] \in Nodes /\ exit \in [Nodes -> Exits] /\ e[t] \in Entries
      BY <1>0, <1>7, <1>n, Zenon DEF transfer, LLDone, SCLines, TypeOK
    <3> QED BY <3>1, TagTypes, Zenon
  <2>1. exit' \in [Nodes -> Exits]
    BY <1>7, <2>0, ExitUpdate2, Zenon DEF transfer
  <2> QED BY <1>0, <1>7, <2>1 DEF transfer, TypeOK, Lines, LLDone, SCLines
<1>8. CASE SCRelease(t)
  <2>1. pc[t] \in LLDone /\ release(t)
    BY <1>8 DEF SCRelease, LLDone, SCLines
  <2>2. exit' \in [Nodes -> Exits] /\ freed' = {}
    BY <2>1, ReleaseKeeps
  <2>3. e' \in [Threads -> Entries] /\ myver' \in [Threads -> Nat]
    <3>1. e' = e \/ e' = [e EXCEPT ![t] = NoEntry]
      BY <1>8, Zenon DEF SCRelease, Forget
    <3>2. myver' = myver \/ myver' = [myver EXCEPT ![t] = 0]
      BY <1>8, Zenon DEF SCRelease, Forget
    <3>3. NoEntry \in Entries
      BY TagTypes, Zenon
    <3>4. e \in [Threads -> Entries] /\ myver \in [Threads -> Nat]
      BY <1>0, Zenon DEF TypeOK
    <3>5. e' \in [Threads -> Entries]
      BY <3>1, <3>3, <3>4
    <3>6. myver' \in [Threads -> Nat]
      BY <3>2, <3>4
    <3> QED BY <3>5, <3>6
  <2>4. mynode' \in [Threads -> Nodes \cup {NULL}] /\ new' \in [Threads -> Nodes \cup {NULL}]
    BY <1>0, <1>8, Zenon DEF SCRelease, Forget, TypeOK
  <2>5. pc' \in [Threads -> Lines]
    BY <1>0, <1>8, Zenon DEF SCRelease, TypeOK, Lines, LLDone, SCLines
  <2> QED BY <1>0, <1>8, <2>2, <2>3, <2>4, <2>5, Zenon DEF SCRelease, TypeOK
<1>r. ASSUME Return(t), UNCHANGED <<ptr, fields, allocated, chain>>,
             entry' \in [Vars -> Entries], exit' \in [Nodes -> Exits], freed' = {},
             sawEmpty' \subseteq Threads
      PROVE  TypeOK'
  <2>1. pc' \in [Threads -> Lines] /\ op' \in [Threads -> {"idle", "enq", "deq"}]
    BY <1>0, <1>r, Zenon DEF Return, TypeOK, Lines
  <2>2. arg' \in [Threads -> Content] /\ newNode' \in [Threads -> Nodes \cup {NULL}]
    BY <1>0, <1>r, Zenon DEF Return, TypeOK, Content
  <2>3. done' \in [Threads -> BOOLEAN]
    BY <1>0, <1>r, Zenon DEF Return, TypeOK
  <2>4. e' \in [Threads -> Entries] /\ myver' \in [Threads -> Nat]
    BY <1>0, <1>r, TagTypes, Zenon DEF Return, Forget, TypeOK
  <2>5. mynode' \in [Threads -> Nodes \cup {NULL}] /\ new' \in [Threads -> Nodes \cup {NULL}]
    BY <1>0, <1>r, Zenon DEF Return, Forget, TypeOK
  <2> QED BY <1>0, <1>r, <2>1, <2>2, <2>3, <2>4, <2>5 DEF TypeOK
<1>9. CASE CreateNodeFails(t)
  BY <1>0, <1>9, <1>r, Zenon DEF CreateNodeFails, TypeOK
<1>10. CASE create_node(t)
  <2>1. allocated + 1 \in Nodes /\ allocated' \in 2..MaxNodes
    BY <1>0, <1>10, LLSCAssumption DEF create_node, TypeOK, Nodes
  <2>2. exit' \in [Nodes -> Exits]
    <3>1. NewExit(2) \in Exits
      BY DEF NewExit, Exits
    <3> QED BY <1>0, <1>10, <2>1, <3>1, Zenon DEF create_node, TypeOK
  <2> QED BY <1>0, <1>10, <2>1, <2>2, Zenon DEF create_node, TypeOK, Lines
<1>11. CASE EnqLink(t)
  <2>1. mynode[t] \in Nodes
    BY <1>11, <1>n, Zenon DEF EnqLink, LLDone
  <2>2. newNode[t] \in Nodes
    <3>1. Owns(t)
      BY <1>11, Zenon DEF EnqLink, IInv, Owns, Control, SCLines
    <3>2. newNode[t] \in 3..allocated
      BY <3>1, Zenon DEF IInv, Owned
    <3> QED BY <1>0, <3>2, LLSCAssumption DEF TypeOK, Nodes
  <2>3. next' \in [Nodes -> Nodes \cup {NULL}]
    BY <1>0, <1>11, <2>1, <2>2 DEF EnqLink, TypeOK
  <2>4. chain' \in Seq(Nodes)
    BY <1>0, <1>11, <2>2, AppendProperties, Zenon DEF EnqLink, TypeOK
  <2>5. pred' \in [Nodes -> Nodes \cup {NULL}] /\ new' \in [Threads -> Nodes \cup {NULL}]
    BY <1>0, <1>11, <2>1, <2>2, <2>3, Zenon DEF EnqLink, TypeOK
  <2>6. done' \in [Threads -> BOOLEAN] /\ pc' \in [Threads -> Lines]
    BY <1>0, <1>11, Zenon DEF EnqLink, TypeOK, Lines, LLDone, SCLines
  <2> QED BY <1>0, <1>11, <2>3, <2>4, <2>5, <2>6, Zenon DEF EnqLink, TypeOK
<1>12. CASE EnqReturn(t)
  BY <1>0, <1>12, <1>r, Zenon DEF EnqReturn, TypeOK
<1>13. CASE DeqNext(t)
  <2>1. mynode[t] \in Nodes
    BY <1>13, <1>n, Zenon DEF DeqNext, LLDone
  <2> QED BY <1>0, <1>13, <2>1 DEF DeqNext, TypeOK, Lines, LLDone, SCLines
<1>14. CASE UnlinkRead(t)
  BY <1>0, <1>14 DEF UnlinkRead, TypeOK, Lines, LLDone, Vars
<1>15. CASE UnlinkCas(t)
  <2>1. exit' \in [Nodes -> Exits] /\ freed' = {}
    BY <1>0, <1>15, ReleaseKeeps DEF UnlinkCas, LLDone, TypeOK
  <2>2. entry' \in [Vars -> Entries]
    <3>1. "head" \in Vars /\ entry \in [Vars -> Entries] /\ entry["head"].count - 1 \in Int
      BY <1>0 DEF TypeOK, Entries, Vars
    <3> QED BY <1>15, <3>1, EntryUpdate DEF UnlinkCas
  <2> QED BY <1>0, <1>15, <1>r, <2>1, <2>2 DEF UnlinkCas, TypeOK
<1>16. CASE DeqReturn(t)
  <2>1. new[t] \in Nodes
    BY <1>16, <1>s, Zenon DEF DeqReturn, SCLines
  <2>2. exit' \in [Nodes -> Exits]
    BY <1>0, <1>16, Zenon DEF DeqReturn, TypeOK
  <2>3. freed' = {}
    BY <1>0, <1>16, <2>1, <2>2, NothingFreeable, Zenon DEF DeqReturn, TypeOK
  <2> QED BY <1>0, <1>16, <1>r, <2>2, <2>3, Zenon DEF DeqReturn, TypeOK
<1>17. CASE DeqCall(t)
  BY <1>0, <1>17, Zenon DEF DeqCall, TypeOK, Lines
<1>18. ASSUME NEW v \in Values, EnqCall(t, v) PROVE TypeOK'
  BY <1>0, <1>18 DEF EnqCall, TypeOK, Lines, Content
<1> QED BY <1>1, <1>2, <1>3, <1>4, <1>5, <1>6, <1>7, <1>8, <1>9, <1>10, <1>11, <1>12, <1>13,
           <1>14, <1>15, <1>16, <1>17, <1>18, Zenon DEF Step

\* A quiet step inside a call.
LEMMA QuietInside ==
  ASSUME IInv, NEW t \in Threads, OthersKeep(t), Quiet, TypeOK', View(t)',
         pc[t] \notin {"idle", "create"}, pc'[t] \notin {"idle", "create"}, UNCHANGED sawEmpty,
         op'[t] = op[t], arg'[t] = arg[t], newNode'[t] = newNode[t], done'[t] = done[t],
         pc'[t] = "link" => op[t] = "enq",
         pc'[t] \in {"next", "unlink", "unlinkCas"} => op[t] = "deq",
         done[t] => pc'[t] \in SCLines \ {"SC"},
         pc'[t] = "done" => done[t],
         pc'[t] \in {"unlink", "unlinkCas"} => t \in sawEmpty
  PROVE  IInv'
<1>1. Control(t) /\ EmptySeen
  BY Zenon DEF IInv
<1>2. Control(t)'
  BY <1>1, Zenon DEF Control
<1>3. Owns(t)' => Owns(t)
  BY DEF Owns
<1>4. Empty /\ op'[t] = "deq" /\ ~ done'[t] => t \in sawEmpty'
  BY <1>1, Zenon DEF EmptySeen
<1> QED BY <1>2, <1>3, <1>4, QuietStep, Zenon

\* A return of a call.
LEMMA QuietReturn ==
  ASSUME IInv, NEW t \in Threads, OthersKeep(t), Quiet, TypeOK', Return(t),
         sawEmpty' = sawEmpty \/ sawEmpty' = sawEmpty \ {t}
  PROVE  IInv'
<1>1. TypeOK
  BY Zenon DEF IInv
<1>2. pc'[t] = "idle" /\ op'[t] = "idle" /\ arg'[t] = None /\ done'[t] = FALSE
  <2>1. /\ pc' = [pc EXCEPT ![t] = "idle"] /\ op' = [op EXCEPT ![t] = "idle"]
        /\ arg' = [arg EXCEPT ![t] = None] /\ done' = [done EXCEPT ![t] = FALSE]
    BY Zenon DEF Return
  <2>2. /\ pc \in [Threads -> Lines] /\ op \in [Threads -> {"idle", "enq", "deq"}]
        /\ arg \in [Threads -> Content] /\ done \in [Threads -> BOOLEAN]
    BY <1>1, Zenon DEF TypeOK
  <2> QED BY <2>1, <2>2, Zenon
<1>3. View(t)'
  BY <1>2, Zenon DEF View, LLDone, SCLines
<1>4. Control(t)'
  BY <1>2 DEF Control
<1>5. ~ Owns(t)'
  BY <1>2 DEF Owns
<1>6. \A u \in Threads \ {t} : u \in sawEmpty => u \in sawEmpty'
  BY Zenon
<1> QED BY <1>2, <1>3, <1>4, <1>5, <1>6, QuietStep, Zenon

LEMMA LLSteps ==
  ASSUME IInv, NEW t \in Threads, LLRead(t) \/ LLCurrent(t) \/ LLCas(t)
  PROVE  IInv' /\ Quiet
<1> DEFINE x == Loc(t)
           v == entry[x].ver
<1>0. /\ TypeOK /\ x \in Vars /\ Control(t) /\ View(t) /\ Adjacent(x)
      /\ v \in Nat /\ e[t].ver \in Nat
  BY Numbers DEF IInv
<1>1. TypeOK' /\ OthersKeep(t)
  BY <1>0, TypeStep, OthersStep, Zenon DEF Step
<1> USE DEF Goto, fields, call, history
<1>2. CASE LLRead(t)
  <2>1. Quiet /\ pc[t] = "LL" /\ pc'[t] = "LLptr" /\ Loc(t)' = x /\ e'[t] = entry[x]
    <3>1. /\ pc' = [pc EXCEPT ![t] = "LLptr"] /\ e' = [e EXCEPT ![t] = entry[x]] /\ pc[t] = "LL"
          /\ UNCHANGED <<ptr, entry, val, next, pred, allocated, chain, op>>
      BY <1>2, Zenon DEF LLRead
    <3>2. pc \in [Threads -> Lines] /\ e \in [Threads -> Entries]
      BY <1>0, Zenon DEF TypeOK
    <3>3. pc'[t] = "LLptr" /\ e'[t] = entry[x]
      BY <3>1, <3>2, Zenon
    <3> QED BY <3>1, <3>3, Zenon DEF Quiet, Loc
  <2>2. View(t)'
    <3>1. e'[t].ver <= entry'[Loc(t)'].ver
      <4>1. entry'[Loc(t)'].ver = v /\ e'[t].ver = v
        BY <1>0, <2>1, Zenon DEF Quiet
      <4>2. v <= v
        <5> HIDE DEF v
        <5> QED BY <1>0
      <4> QED BY <4>1, <4>2, Zenon
    <3> QED BY <2>1, <3>1, Zenon DEF View, LLDone, SCLines
  <2>3. ~ done[t]
    BY <1>0, <2>1, Zenon DEF Control, SCLines
  <2> QED BY <1>1, <1>2, <2>1, <2>2, <2>3, QuietInside, Zenon DEF LLRead
<1>3. CASE LLCurrent(t)
  <2>1. /\ Quiet /\ pc[t] = "LLptr" /\ pc'[t] = "LLcas" /\ Loc(t)' = x
        /\ myver'[t] = e[t].ver /\ mynode'[t] = CURRENT(x, e[t].ver) /\ e'[t] = e[t]
    BY <1>0, <1>3 DEF LLCurrent, Quiet, TypeOK, Loc
  <2>2. e[t].ver <= v /\ (v = e[t].ver => mynode'[t] = chain[e[t].ver + 1])
    BY <1>0, <2>1, Zenon DEF View, Adjacent
  <2>3. View(t)'
    BY <1>0, <1>3, <2>1, <2>2, Zenon DEF LLCurrent, View, LLDone, SCLines
  <2>4. ~ done[t]
    BY <1>0, <2>1, Zenon DEF Control, SCLines
  <2> QED BY <1>1, <1>3, <2>1, <2>3, <2>4, QuietInside, Zenon DEF LLCurrent
<1>4. CASE LLCas(t)
  <2>1. /\ pc[t] = "LLcas" /\ Loc(t)' = x /\ UNCHANGED <<ptr, fields, allocated, chain>>
        /\ myver'[t] = myver[t] /\ mynode'[t] = mynode[t]
        /\ pc'[t] = IF entry[x] # e[t] THEN "LL" ELSE IF op[t] = "enq" THEN "link" ELSE "next"
    BY <1>0, <1>4 DEF LLCas, TypeOK, Loc
  <2>2. \A y \in Vars : entry'[y].ver = entry[y].ver
    BY <1>0, <1>4 DEF LLCas, TypeOK, Entries
  <2>3. Quiet
    BY <2>1, <2>2, Zenon DEF Quiet
  <2>4. entry[x] = e[t] => v = myver[t] /\ mynode[t] = chain[myver[t] + 1]
    BY <1>0, <2>1, Zenon DEF View
  <2>5. View(t)'
    BY <1>0, <2>1, <2>2, <2>4, <1>4 DEF LLCas, View, LLDone, SCLines
  <2>6. ~ done[t] /\ op[t] \in {"enq", "deq"}
    BY <1>0, <2>1, Zenon DEF Control, SCLines, TypeOK
  <2> QED BY <1>1, <1>4, <2>1, <2>3, <2>5, <2>6, QuietInside DEF LLCas
<1> QED BY <1>2, <1>3, <1>4, Zenon

LEMMA SCQuietSteps ==
  ASSUME IInv, NEW t \in Threads, SCRead(t) \/ transfer(t) \/ SCRelease(t)
  PROVE  IInv' /\ Quiet
<1> DEFINE x == Loc(t)
           v == entry[x].ver
<1>0. /\ TypeOK /\ x \in Vars /\ Control(t) /\ View(t) /\ v \in Nat /\ myver[t] \in Nat
  BY Numbers, Zenon DEF IInv
<1>1. TypeOK' /\ OthersKeep(t)
  BY <1>0, TypeStep, OthersStep, Zenon DEF Step
<1> USE DEF Goto, fields, call, history
<1>2. CASE SCRead(t)
  <2>1. /\ Quiet /\ pc[t] = "SCread" /\ pc'[t] = IF v = myver[t] THEN "SCbump" ELSE "release"
        /\ Loc(t)' = x /\ e'[t] = entry[x]
    BY <1>0, <1>2 DEF SCRead, Quiet, TypeOK, Loc
  <2>2. View(t)'
    <3>1. UNCHANGED <<ptr, entry, chain, myver, mynode, new>>
      BY <1>2, Zenon DEF SCRead
    <3>2. /\ myver[t] <= v /\ mynode[t] = chain[myver[t] + 1]
          /\ myver[t] + 2 <= Len(chain) /\ new[t] = chain[myver[t] + 2]
          /\ v = myver[t] => ptr[x][NONCUR(myver[t])] = chain[myver[t] + 2]
      BY <1>0, <2>1, Zenon DEF View, LLDone, SCLines
    <3>3. CASE v = myver[t]
      BY <2>1, <3>1, <3>2, <3>3, Zenon DEF View
    <3>4. CASE v # myver[t]
      BY <2>1, <3>1, <3>2, <3>4, Zenon DEF View
    <3> QED BY <3>3, <3>4
  <2>3. pc'[t] \in SCLines \ {"SC"}
    BY <2>1, Zenon DEF SCLines
  <2>4. UNCHANGED <<op, arg, newNode, done, sawEmpty>>
    BY <1>2, Zenon DEF SCRead
  <2>5. pc'[t] \in {"SCbump", "release"}
    BY <2>1, Zenon
  <2> QED BY <1>1, <2>1, <2>2, <2>3, <2>4, <2>5, QuietInside, Zenon
<1>3. CASE transfer(t)
  <2>1. Quiet /\ pc[t] = "transfer" /\ pc'[t] = "SCread" /\ Loc(t)' = x
    BY <1>0, <1>3, Zenon DEF transfer, Quiet, TypeOK, Loc
  <2>2. View(t)'
    <3>1. UNCHANGED <<ptr, entry, chain, myver, mynode, new>>
      BY <1>3, Zenon DEF transfer
    <3>2. /\ myver[t] < v /\ myver[t] <= v /\ mynode[t] = chain[myver[t] + 1]
          /\ myver[t] + 2 <= Len(chain) /\ new[t] = chain[myver[t] + 2]
      BY <1>0, <2>1, Zenon DEF View, LLDone, SCLines
    <3>3. v # myver[t]
      BY <1>0, <3>2
    <3> QED BY <2>1, <3>1, <3>2, <3>3, Zenon DEF View
  <2>3. pc'[t] \in SCLines \ {"SC"}
    BY <2>1 DEF SCLines
  <2> QED BY <1>1, <1>3, <2>1, <2>2, <2>3, QuietInside, Zenon DEF transfer
<1>4. CASE SCRelease(t)
  <2>1. Quiet /\ pc[t] = "release" /\ pc'[t] = (IF done[t] THEN "done" ELSE "LL") /\ Loc(t)' = x
    BY <1>0, <1>4 DEF SCRelease, Quiet, TypeOK, Loc
  <2>2. done[t] => UNCHANGED <<myver, mynode, new>>
    BY <1>4, Zenon DEF SCRelease
  <2>3. View(t)'
    <3>1. UNCHANGED <<ptr, entry, chain>>
      BY <1>4, Zenon DEF SCRelease
    <3>2. /\ myver[t] <= v /\ mynode[t] = chain[myver[t] + 1]
          /\ myver[t] + 2 <= Len(chain) /\ new[t] = chain[myver[t] + 2]
      BY <1>0, <2>1, Zenon DEF View, LLDone, SCLines
    <3>3. CASE done[t]
      BY <2>1, <2>2, <3>1, <3>2, <3>3, Zenon DEF View
    <3>4. CASE ~ done[t]
      BY <2>1, <3>4, Zenon DEF View, LLDone, SCLines
    <3> QED BY <3>3, <3>4
  <2>4. done[t] => pc'[t] \in SCLines \ {"SC"}
    BY <2>1, Zenon DEF SCLines
  <2>5. UNCHANGED <<op, arg, newNode, done, sawEmpty>>
    BY <1>4, Zenon DEF SCRelease
  <2>6. pc'[t] \in {"done", "LL"} /\ (pc'[t] = "done" => done[t])
    BY <2>1, Zenon
  <2> QED BY <1>1, <2>1, <2>3, <2>4, <2>5, <2>6, QuietInside, Zenon
<1> QED BY <1>2, <1>3, <1>4

LEMMA CallSteps ==
  ASSUME IInv, NEW t \in Threads, DeqCall(t) \/ \E v \in Values : EnqCall(t, v)
  PROVE  IInv' /\ Quiet
<1>0. TypeOK /\ Control(t) /\ sawEmpty \subseteq Threads
  BY Zenon DEF IInv, TypeOK
<1>1. TypeOK' /\ OthersKeep(t)
  BY <1>0, TypeStep, OthersStep
<1> USE DEF Goto, fields, call, history
<1>2. ASSUME NEW v \in Values, EnqCall(t, v) PROVE IInv' /\ Quiet
  <2>1. /\ Quiet /\ pc[t] = "idle" /\ pc'[t] = "create" /\ op'[t] = "enq" /\ arg'[t] = v
        /\ done'[t] = done[t] /\ sawEmpty' = sawEmpty
    BY <1>0, <1>2 DEF EnqCall, Quiet, TypeOK
  <2>2. View(t)'
    BY <2>1, Zenon DEF View, LLDone, SCLines
  <2>3. Control(t)'
    BY <1>0, <2>1, Zenon DEF Control, SCLines
  <2>4. ~ Owns(t)'
    BY <2>1 DEF Owns
  <2> QED BY <1>1, <2>1, <2>2, <2>3, <2>4, QuietStep, Zenon
<1>3. CASE DeqCall(t)
  <2>1. /\ Quiet /\ pc[t] = "idle" /\ pc'[t] = "LL" /\ op'[t] = "deq" /\ arg'[t] = arg[t]
        /\ done'[t] = done[t]
    BY <1>0, <1>3 DEF DeqCall, Quiet, TypeOK
  <2>2. sawEmpty' = IF Empty THEN sawEmpty \cup {t} ELSE sawEmpty
    BY <1>3, Zenon DEF DeqCall
  <2>3. View(t)'
    BY <2>1, Zenon DEF View, LLDone, SCLines
  <2>4. Control(t)'
    BY <1>0, <2>1, Zenon DEF Control, SCLines
  <2>5. ~ Owns(t)'
    BY <2>1 DEF Owns
  <2> QED BY <1>1, <2>1, <2>2, <2>3, <2>4, <2>5, QuietStep, Zenon
<1> QED BY <1>2, <1>3

LEMMA ReturnSteps ==
  ASSUME IInv, NEW t \in Threads,
         CreateNodeFails(t) \/ EnqReturn(t) \/ UnlinkCas(t) \/ DeqReturn(t)
  PROVE  IInv' /\ Quiet
<1>0. TypeOK
  BY Zenon DEF IInv
<1>1. TypeOK' /\ OthersKeep(t)
  BY <1>0, TypeStep, OthersStep DEF Step
<1>2. Return(t) /\ (sawEmpty' = sawEmpty \/ sawEmpty' = sawEmpty \ {t})
  BY DEF CreateNodeFails, EnqReturn, UnlinkCas, DeqReturn, history
<1>3. UNCHANGED <<ptr, val, next, pred, allocated, chain>>
  BY DEF CreateNodeFails, EnqReturn, UnlinkCas, DeqReturn, history, fields
<1>4. entry' = entry \/ entry' = [entry EXCEPT !["head"].count = @ - 1]
  BY Zenon DEF CreateNodeFails, EnqReturn, UnlinkCas, DeqReturn
<1>5. \A x \in Vars : entry'[x].ver = entry[x].ver
  <2>1. entry \in [Vars -> Entries] /\ "head" \in Vars
    BY <1>0, Zenon DEF TypeOK, Vars
  <2> QED BY <1>4, <2>1, Zenon DEF Entries
<1>6. Quiet
  BY <1>3, <1>5 DEF Quiet
<1> QED BY <1>1, <1>2, <1>6, QuietReturn

\* A deq that reads NULL does so while the queue is empty.
LEMMA DeqQuietSteps ==
  ASSUME IInv, NEW t \in Threads, DeqNext(t) \/ UnlinkRead(t)
  PROVE  IInv' /\ Quiet
<1> DEFINE v == entry["head"].ver
           m == myver[t]
<1>0. TypeOK /\ Control(t) /\ View(t) /\ EmptySeen
  BY Zenon DEF IInv
<1>1. TypeOK' /\ OthersKeep(t)
  BY <1>0, TypeStep, OthersStep, Zenon DEF Step
<1> USE DEF Goto, fields, call, history
<1>2. pc[t] \in {"next", "unlink"} /\ pc[t] \in LLDone
  BY Zenon DEF DeqNext, UnlinkRead, LLDone
<1>3. op[t] = "deq" /\ Loc(t) = "head" /\ ~ done[t]
  BY <1>0, <1>2, Zenon DEF Control, Loc, SCLines
<1>4. m \in Nat /\ v \in Nat /\ Len(chain) \in Nat /\ "head" \in Vars
  BY <1>0, Numbers, Zenon DEF Vars
<1>5. Quiet /\ Loc(t)' = "head" /\ UNCHANGED <<op, arg, newNode, done, sawEmpty>>
  BY <1>3 DEF DeqNext, UnlinkRead, Quiet, Loc
<1>6. m <= v /\ mynode[t] = chain[m + 1]
  BY <1>0, <1>2, <1>3, Zenon DEF View
<1>7. CASE DeqNext(t)
  <2>1. /\ pc'[t] = IF next[mynode[t]] = NULL THEN "unlink" ELSE "SC"
        /\ new'[t] = next[mynode[t]] /\ myver'[t] = m /\ mynode'[t] = mynode[t]
    BY <1>0, <1>7 DEF DeqNext, TypeOK
  <2>2. next[mynode[t]] # NULL => m + 2 <= Len(chain) /\ next[mynode[t]] = chain[m + 2]
    BY <1>2, <1>4, Places, UpTo, Zenon
  <2>3. View(t)'
    <3>1. UNCHANGED <<ptr, entry, chain>>
      BY <1>7, Zenon DEF DeqNext
    <3>2. CASE next[mynode[t]] = NULL
      BY <1>5, <1>6, <2>1, <3>1, <3>2, Zenon DEF View, LLDone, SCLines
    <3>3. CASE next[mynode[t]] # NULL
      BY <1>5, <1>6, <2>1, <2>2, <3>1, <3>3, Zenon DEF View
    <3> QED BY <3>2, <3>3
  <2>4. next[mynode[t]] = NULL => t \in sawEmpty
    <3> SUFFICES ASSUME next[mynode[t]] = NULL PROVE Empty
      BY <1>0, <1>3, Zenon DEF EmptySeen
    <3>1. m + 1 = Len(chain)
      BY <1>2, Places, Zenon
    <3>2. v + 1 <= Len(chain)
      BY <1>4, Zenon DEF IInv, Adjacent
    <3>3. DummyAt \in {v + 1, v + 2} /\ DummyAt \in 1..Len(chain)
      BY DummyPlace, Zenon DEF DummyAt
    <3>4. DummyAt = Len(chain)
      BY <1>4, <1>6, <3>1, <3>2, <3>3
    <3> QED BY <3>4, DummyPlace
  <2> QED BY <1>1, <1>2, <1>3, <1>5, <2>1, <2>3, <2>4, QuietInside, Zenon
<1>8. CASE UnlinkRead(t)
  <2>1. /\ pc[t] = "unlink" /\ pc'[t] \in {"unlink", "unlinkCas"}
        /\ myver'[t] = m /\ mynode'[t] = mynode[t]
    BY <1>0, <1>8 DEF UnlinkRead, TypeOK
  <2>2. View(t)'
    BY <1>5, <1>6, <1>8, <2>1, Zenon DEF UnlinkRead, View, LLDone, SCLines
  <2>3. t \in sawEmpty
    BY <1>0, <2>1, Zenon DEF EmptySeen
  <2> QED BY <1>1, <1>2, <1>3, <1>5, <2>1, <2>2, <2>3, QuietInside, Zenon
<1> QED BY <1>7, <1>8

-----------------------------------------------------------------------------
(* Steps that change the list, the pointers or the versions *)

LEMMA CreateNodeStep ==
  ASSUME IInv, NEW t \in Threads, create_node(t)
  PROVE  IInv'
<1> DEFINE n == allocated + 1
<1> USE DEF Goto, history
<1>0. TypeOK /\ Control(t) /\ OneList /\ EmptySeen
  BY Zenon DEF IInv
<1>1. TypeOK' /\ OthersKeep(t)
  BY <1>0, TypeStep, OthersStep, Zenon DEF Step
<1>2. /\ UNCHANGED <<ptr, entry, next, pred, chain, sawEmpty, op, arg, done>>
      /\ allocated' = n /\ pc[t] = "create" /\ pc'[t] = "LL" /\ newNode'[t] = n
      /\ n \in Nodes /\ val'[n] = arg[t] /\ \A k \in Nodes \ {n} : val'[k] = val[k]
  <2>1. /\ UNCHANGED <<ptr, entry, next, pred, chain, sawEmpty, op, arg, done>>
        /\ allocated' = n /\ pc[t] = "create" /\ allocated < MaxNodes
    BY Zenon DEF create_node
  <2>2. n \in Nodes
    BY <1>0, <2>1, LLSCAssumption DEF TypeOK, Nodes
  <2>3. pc'[t] = "LL" /\ newNode'[t] = n
    BY <1>0, Zenon DEF create_node, TypeOK
  <2>4. val \in [Nodes -> Content] /\ val' = [val EXCEPT ![n] = arg[t]]
    BY <1>0 DEF create_node, TypeOK
  <2>5. val'[n] = arg[t] /\ \A k \in Nodes \ {n} : val'[k] = val[k]
    BY <2>2, <2>4, Zenon
  <2> QED BY <2>1, <2>2, <2>3, <2>5
<1>3. op[t] = "enq" /\ ~ done[t]
  BY <1>0, <1>2, Zenon DEF Control, SCLines
<1>4. allocated \in Nat /\ 2 <= allocated /\ n \in Nat /\ Nodes \subseteq Nat
  BY <1>0, LLSCAssumption DEF TypeOK, Nodes
<1>5. \A i \in 1..Len(chain) : chain[i] \in Nat /\ chain[i] <= allocated
  BY <1>0, <1>4, Numbers, Zenon DEF OneList
<1>6. OneList'
  <2>1. \A i \in 1..Len(chain) : chain[i] <= n
    BY <1>4, <1>5
  <2>2. \A k \in Nodes : n < k => next[k] = NULL
    <3>1. \A k \in Nodes : allocated < k => next[k] = NULL
      BY <1>0 DEF OneList
    <3> QED BY <1>4, <3>1
  <2>3. UNCHANGED <<chain, pred, next>> /\ allocated' = n
    BY <1>2, Zenon
  <2> QED BY <1>0, <2>1, <2>2, <2>3, ListKept, Zenon
<1>7. \A x \in Vars : Adjacent(x)'
  BY <1>2, AdjacentKept, Zenon DEF IInv
<1>8. EmptySeen'
  <2>1. Empty' <=> Empty
    BY <1>2, Zenon DEF Empty, Dummy, CURRENT
  <2>2. \A u \in Threads : pc'[u] \in {"unlink", "unlinkCas"} => pc[u] = pc'[u]
    BY <1>1, <1>2, Zenon DEF OthersKeep
  <2> QED BY <1>0, <1>2, <2>1, <2>2, Zenon DEF EmptySeen
<1>9. \A u \in Threads \ {t} : View(u)'
  <2>1. \A x \in Vars : entry'[x].ver \in Nat /\ entry[x].ver <= entry'[x].ver /\ ptr'[x] = ptr[x]
    BY <1>0, <1>2, Numbers
  <2>2. chain' = chain /\ Len(chain) \in Nat /\ Len(chain) <= Len(chain)
    BY <1>0, <1>2, Numbers
  <2> QED BY <1>1, <2>1, <2>2, OtherViews, Zenon
<1>10. View(t)'
  BY <1>2 DEF View, LLDone, SCLines
<1>11. Control(t)' /\ \A u \in Threads \ {t} : Control(u)'
  BY <1>0, <1>1, <1>2, <1>3, OthersControl, Zenon DEF Control
<1>12. \A u \in Threads : Owned(u)'
  <2>1. \A u \in Threads \ {t} : /\ Owns(u)' <=> Owns(u)
                                 /\ newNode'[u] = newNode[u] /\ arg'[u] = arg[u]
    BY <1>1, OthersControl, Zenon DEF OthersKeep
  <2>2. ASSUME NEW u \in Threads \ {t}, Owns(u)
        PROVE  /\ newNode[u] \in 3..allocated /\ newNode[u] \in Nodes /\ newNode[u] # n
               /\ next[newNode[u]] = NULL /\ val[newNode[u]] = arg[u]
               /\ \A i \in 1..Len(chain) : chain[i] # newNode[u]
               /\ \A w \in Threads : w # u /\ Owns(w) => newNode[w] # newNode[u]
    <3>1. /\ newNode[u] \in 3..allocated
          /\ next[newNode[u]] = NULL /\ val[newNode[u]] = arg[u]
          /\ \A i \in 1..Len(chain) : chain[i] # newNode[u]
          /\ \A w \in Threads : w # u /\ Owns(w) => newNode[w] # newNode[u]
      BY <2>2, Zenon DEF IInv, Owned
    <3>2. newNode[u] # n /\ newNode[u] \in Nodes
      BY <1>0, <1>4, <3>1, NodeNumbers, Widen, Zenon
    <3> QED BY <3>1, <3>2, Zenon
  <2>3. Owned(t)'
    <3>1. n \in 3..n /\ allocated < n /\ \A i \in 1..Len(chain) : chain[i] # n
      <4> DEFINE S == {chain[i] : i \in 1..Len(chain)}
      <4>1. \A k \in S : k \in Nat /\ k <= allocated
        BY <1>5, Zenon
      <4>2. \A i \in 1..Len(chain) : chain[i] \in S
        BY Zenon
      <4> HIDE DEF S
      <4> QED BY <1>4, <4>1, <4>2, NextNumber, Zenon
    <3>2. next[n] = NULL
      BY <1>0, <1>2, <3>1, Zenon DEF OneList
    <3> QED BY <1>2, <2>1, <2>2, <3>1, <3>2, Zenon DEF Owned
  <2>4. ASSUME NEW u \in Threads \ {t}, Owns(u) PROVE Owned(u)'
    <3>0. /\ newNode[u] \in 3..allocated /\ newNode[u] \in Nodes /\ newNode[u] # n
          /\ next[newNode[u]] = NULL /\ val[newNode[u]] = arg[u]
          /\ \A i \in 1..Len(chain) : chain[i] # newNode[u]
          /\ \A w \in Threads : w # u /\ Owns(w) => newNode[w] # newNode[u]
      BY <2>2, <2>4, Zenon
    <3>1. newNode[u] \in 3..n /\ val'[newNode[u]] = arg[u]
      <4>1. newNode[u] \in 3..n
        BY <1>4, <3>0, Widen, Zenon
      <4> QED BY <1>2, <3>0, <4>1, Zenon
    <3>2. \A w \in Threads : w # u /\ Owns(w)' => newNode'[w] # newNode[u]
      BY <1>2, <2>1, <3>0, Zenon
    <3>3. newNode'[u] = newNode[u] /\ arg'[u] = arg[u] /\ UNCHANGED <<next, chain>> /\ allocated' = n
      BY <1>2, <2>1, Zenon
    <3> QED BY <3>0, <3>1, <3>2, <3>3, Zenon DEF Owned
  <2> QED BY <2>1, <2>3, <2>4, Zenon DEF Owned
<1> QED BY <1>1, <1>6, <1>7, <1>8, <1>9, <1>10, <1>11, <1>12 DEF IInv

\* A step of SC that changes a pointer or a version.
LEMMA SCActive ==
  ASSUME IInv, NEW t \in Threads, OthersKeep(t), TypeOK', View(t)', Control(t)', EmptySeen',
         UNCHANGED <<val, next, pred, allocated, chain>>,
         \A x \in Vars : Adjacent(x)',
         \A x \in Vars : entry[x].ver <= entry'[x].ver,
         \A x \in Vars : entry'[x].ver = entry[x].ver =>
           \/ ptr'[x] = ptr[x]
           \/ /\ ptr[x][NONCUR(entry[x].ver)] = At(entry[x].ver)
              /\ entry[x].ver + 2 <= Len(chain),
         Owns(t)' => Owns(t) /\ newNode'[t] = newNode[t] /\ arg'[t] = arg[t]
  PROVE  IInv'
<1>1. OneList'
  <2>1. OneList
    BY Zenon DEF IInv
  <2>2. /\ \A i \in 1..Len(chain) : chain[i] <= allocated
        /\ \A n \in Nodes : allocated < n => next[n] = NULL
    BY <2>1, Zenon DEF OneList
  <2> QED BY <2>1, <2>2, ListKept, Zenon
<1>2. \A u \in Threads \ {t} : View(u)'
  <2>1. \A x \in Vars : entry'[x].ver \in Nat
    BY Zenon DEF TypeOK, Entries
  <2>2. chain' = chain /\ Len(chain) \in Nat /\ Len(chain) <= Len(chain)
    BY Numbers, Zenon DEF IInv
  <2> QED BY <2>1, <2>2, OtherViews, Zenon
<1>3. \A u \in Threads \ {t} : Control(u)' /\ (Owns(u)' <=> Owns(u)) /\ newNode'[u] = newNode[u] /\ arg'[u] = arg[u]
  BY OthersControl, Zenon DEF OthersKeep
<1>4. \A u \in Threads : Owned(u)'
  <2>1. \A u \in Threads : Owns(u)' => Owns(u) /\ newNode'[u] = newNode[u] /\ arg'[u] = arg[u]
    BY <1>3, Zenon
  <2> QED BY <2>1, OwnedKept, Zenon
<1> QED BY <1>1, <1>2, <1>3, <1>4, Zenon DEF IInv

\* The next version: the pointer that becomes current is the next node.
LEMMA SCBumpStep ==
  ASSUME IInv, NEW t \in Threads, SCBump(t)
  PROVE  IInv' /\ Dummy' = Dummy
<1> DEFINE x == Loc(t)
           v == entry[x].ver
           m == myver[t]
<1> USE DEF Goto, fields, call, history
<1>0. /\ TypeOK /\ x \in Vars /\ Control(t) /\ View(t) /\ Adjacent(x) /\ EmptySeen
      /\ v \in Nat /\ m \in Nat /\ Len(chain) \in Nat
  BY Numbers DEF IInv
<1>1. TypeOK' /\ OthersKeep(t)
  BY <1>0, TypeStep, OthersStep, Zenon DEF Step
<1>2. /\ UNCHANGED <<ptr, val, next, pred, allocated, chain, sawEmpty, op, arg, done, newNode, e, myver, mynode, new>>
      /\ pc[t] = "SCbump" /\ Loc(t)' = x
      /\ pc'[t] = IF entry[x] = e[t] THEN "transfer" ELSE "SCread"
  BY <1>0 DEF SCBump, TypeOK, Loc
<1>3. CASE entry[x] # e[t]
  <2>1. entry' = entry
    BY <1>3, Zenon DEF SCBump
  <2>2. Quiet
    BY <1>2, <2>1, Zenon DEF Quiet
  <2>3. View(t)'
    BY <1>0, <1>2, <1>3, <2>1, Zenon DEF View, LLDone, SCLines
  <2>4. pc'[t] \in SCLines \ {"SC"}
    BY <1>2, <1>3, Zenon DEF SCLines
  <2> QED BY <1>1, <1>2, <1>3, <2>2, <2>3, <2>4, QuietInside, QuietDummy, Zenon
<1>4. CASE entry[x] = e[t]
  <2>1. m = v /\ m + 2 <= Len(chain) /\ ptr[x][NONCUR(v)] = chain[v + 2]
    BY <1>0, <1>2, <1>4, Zenon DEF View, SCLines
  <2>2. entry'[x].ver = v + 1 /\ \A y \in Vars \ {x} : entry'[y] = entry[y]
    <3>1. entry \in [Vars -> Entries] /\ entry' = [entry EXCEPT ![x] = [ver |-> e[t].ver + 1, count |-> 0]]
      BY <1>0, <1>4, Zenon DEF SCBump, TypeOK
    <3>2. entry'[x] = [ver |-> e[t].ver + 1, count |-> 0] /\ \A y \in Vars \ {x} : entry'[y] = entry[y]
      BY <1>0, <3>1, Zenon
    <3>3. entry'[x].ver = e[t].ver + 1
      BY <3>2, NewVersion, Zenon
    <3> QED BY <1>4, <3>2, <3>3, Zenon
  <2>3. CURRENT(x, v + 1) = chain[v + 2] /\ ptr[x][NONCUR(v + 1)] = chain[v + 1]
    BY <1>0, <2>1, Parity, Zenon DEF CURRENT, Adjacent
  <2>4. At(v + 1) = chain[v + 1] /\ v + 1 + 1 = v + 2
    BY <1>0, <2>1, Ahead, Zenon DEF At
  <2>5. Adjacent(x)'
    BY <1>0, <1>2, <2>1, <2>2, <2>3, <2>4, Zenon DEF Adjacent, CURRENT, At
  <2>6. \A y \in Vars \ {x} : Adjacent(y)'
    <3> SUFFICES ASSUME NEW y \in Vars \ {x} PROVE Adjacent(y)'
      BY Zenon
    <3>1. Adjacent(y) /\ entry'[y] = entry[y] /\ UNCHANGED <<ptr, chain>>
      BY <1>2, <2>2, Zenon DEF IInv
    <3> QED BY <3>1, Zenon DEF Adjacent, CURRENT, At
  <2>7. View(t)'
    <3>1. mynode[t] = chain[m + 1] /\ new[t] = chain[m + 2] /\ pc'[t] = "transfer"
      BY <1>0, <1>2, <1>4, Zenon DEF View, LLDone, SCLines
    <3>2. m <= entry'[x].ver /\ m < entry'[x].ver
      BY <1>0, <2>1, <2>2, Ahead, Zenon
    <3> QED BY <1>2, <2>1, <3>1, <3>2, Zenon DEF View
  <2>8. Control(t)'
    BY <1>0, <1>2, <1>4, Zenon DEF Control, SCLines
  <2>9. Dummy' = Dummy
    <3>1. CASE x = "head"
      <4>1. Dummy' = chain[v + 2]
        <5>1. v + 2 \in 1..Len(chain) /\ (v + 2) - 1 = v + 1
          BY <1>0, <2>1, Ahead, Zenon
        <5>2. pred[chain[v + 2]] = chain[v + 1]
          BY <2>4, <5>1, Zenon DEF IInv, OneList
        <5>3. CURRENT("head", entry["head"].ver)' = chain[v + 2]
          BY <1>2, <2>2, <2>3, <3>1, Zenon DEF CURRENT
        <5>4. ptr'["head"][NONCUR(entry'["head"].ver)] = chain[v + 1]
          BY <1>2, <2>2, <2>3, <3>1, Zenon
        <5> QED BY <1>2, <5>2, <5>3, <5>4, Zenon DEF Dummy
      <4>2. DummyAt = v + 2
        <5>1. At(v + 2) = chain[v + 2] /\ v + 2 \in 0..Len(chain) /\ v \in 0..Len(chain) /\ v + 2 # v
          BY <1>0, <2>1, Ahead, Zenon DEF At
        <5>2. chain[v + 2] # At(v)
          BY <5>1, AtDistinct, Zenon
        <5> QED BY <2>1, <3>1, <5>2, Zenon DEF DummyAt
      <4> QED BY <4>1, <4>2, DummyPlace, Zenon
    <3>2. CASE x # "head"
      <4>1. entry'["head"] = entry["head"]
        BY <2>2, <3>2 DEF Vars
      <4> QED BY <1>2, <4>1, Zenon DEF Dummy, CURRENT
    <3> QED BY <3>1, <3>2
  <2>10. EmptySeen'
    <3>1. Empty' <=> Empty
      BY <1>2, <2>9, Zenon DEF Empty
    <3>2. \A u \in Threads : pc'[u] \in {"unlink", "unlinkCas"} => pc[u] = pc'[u]
      BY <1>1, <1>2, <1>4, Zenon DEF OthersKeep
    <3> QED BY <1>0, <1>2, <3>1, <3>2, Zenon DEF EmptySeen
  <2>11. Owns(t)' => Owns(t)
    BY <1>2, Zenon DEF Owns
  <2>12. \A y \in Vars : /\ entry[y].ver \in Nat /\ entry[y].ver <= entry'[y].ver
                         /\ ptr'[y] = ptr[y]
    <3>1. \A y \in Vars : entry[y].ver \in Nat
      BY <1>0, Numbers, Zenon
    <3>2. entry[x].ver <= entry'[x].ver
      BY <1>0, <2>1, <2>2, Ahead, Zenon
    <3>3. \A y \in Vars \ {x} : entry[y].ver <= entry'[y].ver
      BY <1>0, <2>2, Numbers, Zenon
    <3> QED BY <1>2, <3>1, <3>2, <3>3, Zenon
  <2>13. IInv'
    BY <1>1, <1>2, <2>5, <2>6, <2>7, <2>8, <2>10, <2>11, <2>12, SCActive, Zenon
  <2> QED BY <2>9, <2>13
<1> QED BY <1>3, <1>4, Zenon

=============================================================================
