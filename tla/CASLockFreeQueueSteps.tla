----------------------- MODULE CASLockFreeQueueSteps ------------------------
(***************************************************************************)
(* The steps of CASLockFreeQueue that leave the list as it is keep the     *)
(* invariant, for any number of threads, values and nodes.                 *)
(***************************************************************************)
EXTENDS CASLockFreeQueue, SequenceTheorems, TLAPS

USE DEF Words

LEMMA NodeFacts ==
  /\ NULL \notin Nodes
  /\ NULL \in Nat
  /\ \A n \in Nodes : n \in Nat /\ n <= MaxNodes /\ n # NULL
  /\ \A n \in Nat : 1 <= n /\ n <= MaxNodes => n \in Nodes
BY ConstantsAssumption DEF NULL, Nodes

USE NodeFacts

LEMMA PointerType ==
  /\ \A p \in Pointer : p.ptr \in Nodes \cup {NULL} /\ p.count \in Nat
  /\ \A n \in Nodes \cup {NULL}, c \in Nat : [ptr |-> n, count |-> c] \in Pointer
  /\ NullPointer \in Pointer
  /\ NullPointer.ptr = NULL
BY DEF Pointer, NullPointer

LEMMA PointerOf ==
  ASSUME NEW p \in Pointer, NEW q \in Pointer
  PROVE  [ptr |-> p.ptr, count |-> q.count + 1] \in Pointer
<1>1. p.ptr \in Nodes \cup {NULL} /\ q.count + 1 \in Nat
  BY PointerType
<1> QED BY <1>1, PointerType

LEMMA LoadedType ==
  ASSUME NEW p \in Pointer, NEW q \in Pointer, NEW w \in Words
  PROVE  /\ Loaded(p, w, q) \in Pointer
         /\ Loaded(p, w, q).ptr = IF w = "ptr" THEN q.ptr ELSE p.ptr
BY DEF Loaded, Pointer

LEMMA CasType ==
  ASSUME NEW p \in Pointer, NEW q, NEW r \in Pointer
  PROVE  Cas(p, q, r) \in Pointer
BY DEF Cas

LEMMA InitIInv == Init => IInv
<1> SUFFICES ASSUME Init PROVE IInv
  OBVIOUS
<1> USE ConstantsAssumption, PointerType DEF Init
<1>1. TypeOK
  <2>1. head \in Pointer /\ tail \in Pointer
    BY ConstantsAssumption, 1 \in Nodes
  <2>2. chain \in Seq(Nodes)
    OBVIOUS
  <2> QED BY <2>1, <2>2 DEF TypeOK
<1>2. Len(chain) = 1 /\ chain[1] = 1
  OBVIOUS
<1>3. NextFollowsChain
  BY <1>2 DEF NextFollowsChain
<1>4. HeadBehindTail
  BY <1>2 DEF HeadBehindTail
<1>5. Ownership
  BY <1>2 DEF Ownership, OwnsNode
<1>6. \A t \in Threads : EnqView(t) /\ DeqView(t)
  BY Zenon DEF EnqView, DeqView, HasPtr, DeqLines
<1>7. SawEmpty /\ Copying
  BY DEF SawEmpty, InDeq, DeqLines, Copying
<1> QED BY <1>1, <1>2, <1>3, <1>4, <1>5, <1>6, <1>7 DEF IInv

-----------------------------------------------------------------------------
(* What every step leaves true of the list, and of the other threads *)

\* A step of thread t leaves the local state of the other threads alone.
Frame(t) ==
  \A u \in Threads \ {t} :
    /\ pc'[u] = pc[u] /\ got'[u] = got[u] /\ arg'[u] = arg[u]
    /\ newNode'[u] = newNode[u]
    /\ lhead'[u] = lhead[u] /\ ltail'[u] = ltail[u] /\ lnext'[u] = lnext[u]
    /\ u \in sawEmpty => u \in sawEmpty'

\* The list grows at its end, links are final, and q->head and q->tail move
\* towards the end.
Grows ==
  /\ \A n \in Nodes : Linked(n) => Linked(n)' /\ val'[n] = val[n]
  /\ \A m, n \in Nodes : NotAfter(m, n) => NotAfter(m, n)'
  /\ \A m \in Nodes : NotAfter(m, head.ptr) => NotAfter(m, head.ptr)'
  /\ \A m \in Nodes : NotAfter(m, tail.ptr) => NotAfter(m, tail.ptr)'
  /\ \A n \in Nodes : Linked(n) /\ next[n].ptr # NULL => next'[n].ptr = next[n].ptr

LEMMA ChainElement ==
  ASSUME TypeOK, NEW i \in 1..Len(chain)
  PROVE  chain[i] \in Nodes
<1>1. chain \in Seq(Nodes)
  BY DEF TypeOK
<1> QED BY <1>1, ElementOfSeq

LEMMA ChainLength ==
  ASSUME TypeOK
  PROVE  Len(chain) \in Nat
BY LenProperties DEF TypeOK

LEMMA IndexArithmetic ==
  ASSUME NEW n \in Nat
  PROVE  /\ n # n + 1
         /\ 1..n \subseteq 1..(n + 1)
         /\ \A i \in 1..(n + 1) : i \in 1..n \/ i = n + 1
         /\ \A i \in 1..(n + 1) : i \in 1..(n - 1) \/ i = n \/ i = n + 1
         /\ \A h, l \in 1..n : h < l => h + 1 \in 1..n /\ h + 1 <= l /\ h # n
OBVIOUS

LEMMA ChainDistinct ==
  ASSUME NextFollowsChain,
         NEW i \in 1..Len(chain), NEW j \in 1..Len(chain), chain[i] = chain[j]
  PROVE  i = j
BY DEF NextFollowsChain

LEMMA AllocatedType ==
  ASSUME TypeOK
  PROVE  allocated \in Nat /\ allocated <= MaxNodes /\ MaxNodes \in Nat
BY ConstantsAssumption DEF TypeOK

LEMMA LinkedNode ==
  ASSUME TypeOK, NEW n, Linked(n)
  PROVE  n \in Nodes
BY ChainElement DEF Linked

LEMMA NotAfterLinked ==
  ASSUME TypeOK, NEW m, NEW n, NotAfter(m, n)
  PROVE  /\ Linked(m) /\ Linked(n)
         /\ m \in Nodes /\ n \in Nodes
BY ChainElement DEF NotAfter, Linked

\* The successor of a linked node is linked, and is linked after it.
LEMMA NextLinked ==
  ASSUME TypeOK, NextFollowsChain, NEW n, Linked(n), next[n].ptr # NULL
  PROVE  /\ Linked(next[n].ptr)
         /\ NotAfter(n, next[n].ptr)
         /\ next[n].ptr \in Nodes
<1>1. PICK i \in 1..Len(chain) : chain[i] = n
  BY DEF Linked
<1>2. i # Len(chain) /\ next[n].ptr = chain[i + 1]
  BY <1>1 DEF NextFollowsChain
<1>3. i + 1 \in 1..Len(chain) /\ i <= i + 1
  BY <1>2, ChainLength
<1>4. NotAfter(n, next[n].ptr)
  BY <1>1, <1>2, <1>3 DEF NotAfter
<1> QED BY <1>4, NotAfterLinked

\* What a thread knows of the list survives the steps of the others.
LEMMA OthersKeepViews ==
  ASSUME IInv, NEW t \in Threads, NEW u \in Threads \ {t}, Frame(t), Grows
  PROVE  EnqView(u)' /\ DeqView(u)'
<1> USE DEF IInv
<1>1. /\ pc'[u] = pc[u] /\ got'[u] = got[u] /\ arg'[u] = arg[u]
      /\ newNode'[u] = newNode[u]
      /\ lhead'[u] = lhead[u] /\ ltail'[u] = ltail[u] /\ lnext'[u] = lnext[u]
      /\ u \in sawEmpty => u \in sawEmpty'
  BY DEF Frame
<1>2. EnqView(u) /\ DeqView(u)
  BY Zenon
<1>3. EnqView(u)'
  <2>1. ASSUME NotAfter(ltail[u].ptr, tail.ptr)
        PROVE  /\ NotAfter(ltail[u].ptr, tail.ptr)'
               /\ next[ltail[u].ptr].ptr # NULL => next'[ltail[u].ptr].ptr = next[ltail[u].ptr].ptr
    BY <2>1, <1>1, NotAfterLinked DEF Grows
  <2> QED BY <1>1, <1>2, <2>1, Zenon DEF EnqView, HasPtr
<1>4. DeqView(u)'
  <2>1. ASSUME NotAfter(lhead[u].ptr, head.ptr)
        PROVE  /\ NotAfter(lhead[u].ptr, head.ptr)'
               /\ next[lhead[u].ptr].ptr # NULL =>
                    /\ next'[lhead[u].ptr].ptr = next[lhead[u].ptr].ptr
                    /\ val'[next[lhead[u].ptr].ptr] = val[next[lhead[u].ptr].ptr]
    <3>1. Linked(lhead[u].ptr) /\ lhead[u].ptr \in Nodes
      BY <2>1, NotAfterLinked, Zenon
    <3>2. NotAfter(lhead[u].ptr, head.ptr)'
      BY <2>1, <3>1, <1>1, Zenon DEF Grows
    <3>3. ASSUME next[lhead[u].ptr].ptr # NULL
          PROVE  /\ next'[lhead[u].ptr].ptr = next[lhead[u].ptr].ptr
                 /\ val'[next[lhead[u].ptr].ptr] = val[next[lhead[u].ptr].ptr]
      BY <3>3, <3>1, NextLinked DEF Grows
    <3> QED BY <3>2, <3>3
  <2>2. ASSUME NotAfter(lhead[u].ptr, ltail[u].ptr), NotAfter(ltail[u].ptr, tail.ptr)
        PROVE  NotAfter(lhead[u].ptr, ltail[u].ptr)' /\ NotAfter(ltail[u].ptr, tail.ptr)'
    BY <2>2, <1>1, NotAfterLinked, Zenon DEF Grows
  <2> QED BY <1>1, <1>2, <2>1, <2>2 DEF DeqView, HasPtr, DeqLines
<1> QED BY <1>3, <1>4

\* A step that leaves the list, q->head and the nodes alone: what is left to prove.
LEMMA QuietStep ==
  ASSUME IInv, NEW t \in Threads, Frame(t),
         UNCHANGED <<head, next, memory, chain>>,
         \A m \in Nodes : NotAfter(m, tail.ptr) => NotAfter(m, tail.ptr)',
         TypeOK', HeadBehindTail', SawEmpty', EnqView(t)', DeqView(t)',
         got'[t] # {} => pc'[t] \in {"109", "110", "139", "140", "141"},
         OwnsNode(t)' => OwnsNode(t) /\ arg'[t] = arg[t] /\ newNode'[t] = newNode[t]
  PROVE  IInv'
<1> USE DEF IInv, memory
<1>1. Grows
  BY DEF Grows, Linked, NotAfter
<1>2. \A u \in Threads : EnqView(u)' /\ DeqView(u)'
  BY <1>1, OthersKeepViews, Zenon
<1>3. (Len(chain) > 0)' /\ NextFollowsChain'
  BY Zenon DEF NextFollowsChain
<1>4. Ownership'
  <2>1. \A u \in Threads : OwnsNode(u)' => /\ OwnsNode(u)
                                           /\ arg'[u] = arg[u] /\ newNode'[u] = newNode[u]
    BY Zenon DEF Frame, OwnsNode
  <2> QED BY <2>1 DEF Ownership, Linked
<1>5. Copying'
  BY Zenon DEF Copying, Frame
<1> QED BY <1>2, <1>3, <1>4, <1>5

\* A step that touches no shared memory at all.
LEMMA LocalStep ==
  ASSUME IInv, NEW t \in Threads, Frame(t),
         UNCHANGED <<shared, memory, chain>>,
         TypeOK', SawEmpty', EnqView(t)', DeqView(t)',
         got'[t] # {} => pc'[t] \in {"109", "110", "139", "140", "141"},
         OwnsNode(t)' => OwnsNode(t) /\ arg'[t] = arg[t] /\ newNode'[t] = newNode[t]
  PROVE  IInv'
<1>1. HeadBehindTail'
  BY Zenon DEF HeadBehindTail, IInv, shared
<1>2. /\ UNCHANGED <<head, next, memory, chain>>
      /\ \A m \in Nodes : NotAfter(m, tail.ptr) => NotAfter(m, tail.ptr)'
  BY DEF shared, NotAfter
<1> QED BY <1>1, <1>2, QuietStep, Zenon

LEMMA ChainAllocated ==
  ASSUME Ownership, NEW i \in 1..Len(chain)
  PROVE  chain[i] <= allocated
BY DEF Ownership

\* What Ownership says of a thread that has a node.
LEMMA OwnNode ==
  ASSUME TypeOK, Ownership, NEW u \in Threads, OwnsNode(u)
  PROVE  /\ newNode[u] \in 1..allocated /\ newNode[u] \in Nodes
         /\ ~ Linked(newNode[u])
         /\ next[newNode[u]].ptr = NULL
         /\ val[newNode[u]] = arg[u]
         /\ \A v \in Threads : v # u /\ OwnsNode(v) => newNode[v] # newNode[u]
<1>1. /\ newNode[u] \in 1..allocated
      /\ ~ Linked(newNode[u])
      /\ next[newNode[u]].ptr = NULL
      /\ val[newNode[u]] = arg[u]
      /\ \A v \in Threads : v # u /\ OwnsNode(v) => newNode[v] # newNode[u]
  BY DEF Ownership
<1>2. newNode[u] \in Nodes
  BY <1>1, AllocatedType
<1> QED BY <1>1, <1>2

-----------------------------------------------------------------------------
(* Steps that touch no shared memory *)

\* A load of one word of a copy: the first one, or the one that completes it.
LoadEffect(t, w, from, to) ==
  /\ pc[t] = from
  /\ \/ pc'[t] = from /\ got'[t] = {w}
     \/ pc'[t] = to /\ got'[t] = {} /\ (w = "count" => "ptr" \in got[t])
  /\ \A u \in Threads \ {t} : pc'[u] = pc[u] /\ got'[u] = got[u]
  /\ got' \in [Threads -> {{}, {"ptr"}, {"count"}}]
  /\ pc' \in [Threads -> {"idle"} \cup EnqLines \cup DeqLines]

IsLine(line) == line \in EnqLines \cup DeqLines

LEMMA LoadStep ==
  ASSUME TypeOK, NEW t \in Threads, NEW w \in Words, NEW from, NEW to, IsLine(to),
         LoadWord(t, w, from, to)
  PROVE  LoadEffect(t, w, from, to)
<1>0. /\ got \in [Threads -> {{}, {"ptr"}, {"count"}}]
      /\ pc \in [Threads -> {"idle"} \cup EnqLines \cup DeqLines]
      /\ to \in EnqLines \cup DeqLines
  BY Zenon DEF TypeOK, IsLine
<1>1. CASE got[t] = {}
  <2>1. pc[t] = from /\ got' = [got EXCEPT ![t] = {w}] /\ pc' = pc
    BY <1>1 DEF LoadWord
  <2> QED BY <1>0, <2>1 DEF LoadEffect
<1>2. CASE got[t] # {}
  <2>1. w = "count" => "ptr" \in got[t]
    <3>1. got[t] = {"ptr"} \/ got[t] = {"count"}
      BY <1>0, <1>2
    <3> QED BY <3>1 DEF LoadWord
  <2>2. /\ pc[t] = from
        /\ got' = [got EXCEPT ![t] = {}]
        /\ pc' = [pc EXCEPT ![t] = to]
    BY <1>2 DEF LoadWord
  <2> QED BY <1>0, <2>1, <2>2 DEF LoadEffect
<1> QED BY <1>1, <1>2

LEMMA LineType ==
  /\ IsLine("110") /\ IsLine("112count") /\ IsLine("140") /\ IsLine("141")
  /\ IsLine("143count")
BY DEF IsLine, EnqLines, DeqLines

LEMMA SameList ==
  ASSUME UNCHANGED chain
  PROVE  /\ \A n : Linked(n)' <=> Linked(n)
         /\ \A m, n : NotAfter(m, n)' <=> NotAfter(m, n)
BY DEF Linked, NotAfter

\* q->head and q->tail point into the list, in order.
LEMMA EndsLinked ==
  ASSUME TypeOK, HeadBehindTail
  PROVE  /\ NotAfter(head.ptr, tail.ptr) /\ NotAfter(head.ptr, head.ptr)
         /\ NotAfter(tail.ptr, tail.ptr)
         /\ Linked(head.ptr) /\ Linked(tail.ptr)
         /\ head.ptr \in Nodes /\ tail.ptr \in Nodes
<1>1. NotAfter(head.ptr, tail.ptr)
  BY DEF HeadBehindTail, NotAfter
<1>2. NotAfter(head.ptr, head.ptr) /\ NotAfter(tail.ptr, tail.ptr)
  BY <1>1 DEF NotAfter
<1> QED BY <1>1, <1>2, NotAfterLinked

\* A linked node without a successor is the last one.
LEMMA LastNode ==
  ASSUME TypeOK, NextFollowsChain, NEW m, NEW n, NotAfter(m, n), next[m].ptr = NULL
  PROVE  m = n
<1>1. PICK i, j \in 1..Len(chain) : chain[i] = m /\ chain[j] = n /\ i <= j
  BY DEF NotAfter
<1>2. i = Len(chain)
  <2>1. SUFFICES ASSUME i # Len(chain) PROVE FALSE
    OBVIOUS
  <2>2. i + 1 \in 1..Len(chain)
    BY <2>1, ChainLength
  <2>3. chain[i + 1] \in Nodes
    BY <2>2, ChainElement
  <2> QED BY <1>1, <2>1, <2>3 DEF NextFollowsChain
<1> QED BY <1>1, <1>2, ChainLength

LEMMA NotAfterTrans ==
  ASSUME TypeOK, NextFollowsChain, NEW l, NEW m, NEW n, NotAfter(l, m), NotAfter(m, n)
  PROVE  NotAfter(l, n)
<1>1. PICK i, j \in 1..Len(chain) : chain[i] = l /\ chain[j] = m /\ i <= j
  BY DEF NotAfter
<1>2. PICK p, q \in 1..Len(chain) : chain[p] = m /\ chain[q] = n /\ p <= q
  BY Zenon DEF NotAfter
<1>3. j = p
  BY <1>1, <1>2 DEF NextFollowsChain
<1>4. i <= q
  BY <1>1, <1>2, <1>3, ChainLength
<1> QED BY <1>1, <1>2, <1>4 DEF NotAfter

LEMMA EnqLocalSteps ==
  ASSUME IInv, NEW t \in Threads,
         \/ \E v \in Values : EnqCall(t, v)
         \/ CreateNodeFails(t)
         \/ \E w \in Words : EnqLoadTail(t, w) \/ EnqLoadNext(t, w)
         \/ EnqCheckCount(t) \/ EnqCheckPtr(t) \/ EnqRetry(t)
  PROVE  IInv'
<1> USE DEF Goto, Forget, shared, memory, locals, history
<1>0. /\ TypeOK /\ NextFollowsChain /\ HeadBehindTail /\ Copying /\ SawEmpty
      /\ EnqView(t) /\ DeqView(t)
  BY Zenon DEF IInv
<1>1. ASSUME NEW v \in Values, EnqCall(t, v) PROVE IInv'
  <2>1. pc[t] = "idle" /\ pc'[t] = "105" /\ got'[t] = {}
    BY <1>0, <1>1, Zenon DEF EnqCall, TypeOK, Copying
  <2>2. TypeOK'
    BY <1>0, <1>1, ConstantsAssumption, PointerType, Zenon DEF EnqCall, TypeOK, EnqLines, DeqLines
  <2>3. Frame(t) /\ UNCHANGED <<shared, memory, chain>>
    BY <1>0, <1>1 DEF EnqCall, Frame, TypeOK
  <2>4. EnqView(t)'
    BY <1>0, <1>1, <2>1, <2>3, SameList, Zenon DEF EnqCall, EnqView, HasPtr
  <2>5. DeqView(t)'
    BY <1>0, <1>1, <2>1, <2>3, SameList, Zenon DEF EnqCall, DeqView, HasPtr, DeqLines
  <2>6. SawEmpty'
    BY <1>0, <1>1, <2>1, <2>3, Zenon DEF EnqCall, SawEmpty, Frame, InDeq, Empty, TypeOK, DeqLines
  <2>7. OwnsNode(t)' => OwnsNode(t) /\ arg'[t] = arg[t] /\ newNode'[t] = newNode[t]
    BY <1>0, <1>1, <2>1 DEF EnqCall, OwnsNode, TypeOK
  <2> QED BY <2>1, <2>2, <2>3, <2>4, <2>5, <2>6, <2>7, LocalStep
<1>2. ASSUME CreateNodeFails(t) PROVE IInv'
  <2>1. pc[t] = "105" /\ pc'[t] = "idle" /\ got'[t] = {}
    BY <1>0, <1>2, Zenon DEF CreateNodeFails, TypeOK, Copying
  <2>2. TypeOK'
    BY <1>0, <1>2, ConstantsAssumption, PointerType, Zenon DEF CreateNodeFails, TypeOK, EnqLines, DeqLines
  <2>3. Frame(t) /\ UNCHANGED <<shared, memory, chain>>
    BY <1>0, <1>2, Zenon DEF CreateNodeFails, Frame, TypeOK
  <2>4. EnqView(t)'
    BY <1>0, <1>2, <2>1, <2>3, SameList DEF CreateNodeFails, EnqView, HasPtr
  <2>5. DeqView(t)'
    BY <1>0, <1>2, <2>1, <2>3, SameList, Zenon DEF CreateNodeFails, DeqView, HasPtr, DeqLines
  <2>6. SawEmpty'
    BY <1>0, <1>2, <2>1, <2>3, Zenon DEF CreateNodeFails, SawEmpty, Frame, InDeq, Empty, TypeOK, DeqLines
  <2>7. OwnsNode(t)' => OwnsNode(t) /\ arg'[t] = arg[t] /\ newNode'[t] = newNode[t]
    BY <1>0, <1>2, <2>1 DEF CreateNodeFails, OwnsNode, TypeOK
  <2> QED BY <2>1, <2>2, <2>3, <2>4, <2>5, <2>6, <2>7, LocalStep, Zenon
<1>3. ASSUME NEW w \in Words, EnqLoadTail(t, w) PROVE IInv'
  <2>0. /\ Loaded(ltail[t], w, tail) \in Pointer
        /\ Loaded(ltail[t], w, tail).ptr = IF w = "ptr" THEN tail.ptr ELSE ltail[t].ptr
    BY <1>0, LoadedType DEF TypeOK
  <2>c. LoadWord(t, w, "109", "110")
    BY <1>3 DEF EnqLoadTail
  <2>d. LoadEffect(t, w, "109", "110")
    BY <1>0, <2>c, LineType, LoadStep, Zenon
  <2>b. /\ \/ pc'[t] = "109" /\ got'[t] = {w}
           \/ pc'[t] = "110" /\ got'[t] = {} /\ (w = "count" => "ptr" \in got[t])
        /\ pc[t] = "109"
        /\ \A u \in Threads \ {t} : pc'[u] = pc[u] /\ got'[u] = got[u]
        /\ got' \in [Threads -> {{}, {"ptr"}, {"count"}}]
        /\ pc' \in [Threads -> {"idle"} \cup EnqLines \cup DeqLines]
    BY <2>d, Zenon DEF LoadEffect
  <2>1. ltail'[t] = Loaded(ltail[t], w, tail) /\ (got'[t] # {} => pc'[t] = "109") /\ pc'[t] \in {"109", "110"}
    BY <1>0, <1>3, <2>b, Zenon DEF EnqLoadTail, TypeOK
  <2>2. TypeOK'
    BY <1>0, <1>3, <2>0, <2>b, Zenon DEF EnqLoadTail, TypeOK
  <2>3. Frame(t) /\ UNCHANGED <<shared, memory, chain>>
    BY <1>0, <1>3, <2>b, Zenon DEF EnqLoadTail, Frame, TypeOK
  <2>4. EnqView(t)'
    BY <1>0, <1>3, <2>1, <2>b, <2>3, SameList, <2>0, EndsLinked, Zenon DEF EnqLoadTail, EnqView, HasPtr
  <2>5. DeqView(t)'
    BY <1>0, <1>3, <2>1, <2>b, <2>3, SameList, Zenon DEF EnqLoadTail, DeqView, HasPtr, DeqLines
  <2>6. SawEmpty'
    BY <1>0, <1>3, <2>1, <2>b, <2>3, Zenon DEF EnqLoadTail, SawEmpty, Frame, InDeq, Empty, TypeOK, DeqLines
  <2>7. OwnsNode(t)' => OwnsNode(t) /\ arg'[t] = arg[t] /\ newNode'[t] = newNode[t]
    BY <1>0, <1>3, <2>1, <2>b, Zenon DEF EnqLoadTail, OwnsNode, TypeOK
  <2> QED BY <2>1, <2>2, <2>3, <2>4, <2>5, <2>6, <2>7, LocalStep, Zenon
<1>4. ASSUME NEW w \in Words, EnqLoadNext(t, w) PROVE IInv'
  <2>0. /\ Loaded(lnext[t], w, next[ltail[t].ptr]) \in Pointer
        /\ Loaded(lnext[t], w, next[ltail[t].ptr]).ptr =
             IF w = "ptr" THEN next[ltail[t].ptr].ptr ELSE lnext[t].ptr
    <3>1. NotAfter(ltail[t].ptr, tail.ptr)
      BY <1>0, <1>4, Zenon DEF EnqLoadNext, LoadWord, EnqView
    <3> QED BY <1>0, <3>1, NotAfterLinked, LoadedType, Zenon DEF TypeOK
  <2>c. LoadWord(t, w, "110", "112count")
    BY <1>4, Zenon DEF EnqLoadNext
  <2>d. LoadEffect(t, w, "110", "112count")
    BY <1>0, <2>c, LineType, LoadStep, Zenon
  <2>b. /\ \/ pc'[t] = "110" /\ got'[t] = {w}
           \/ pc'[t] = "112count" /\ got'[t] = {} /\ (w = "count" => "ptr" \in got[t])
        /\ pc[t] = "110"
        /\ \A u \in Threads \ {t} : pc'[u] = pc[u] /\ got'[u] = got[u]
        /\ got' \in [Threads -> {{}, {"ptr"}, {"count"}}]
        /\ pc' \in [Threads -> {"idle"} \cup EnqLines \cup DeqLines]
    BY <2>d, Zenon DEF LoadEffect
  <2>1. ltail'[t] = ltail[t] /\ lnext'[t] = Loaded(lnext[t], w, next[ltail[t].ptr]) /\ (got'[t] # {} => pc'[t] = "110") /\ pc'[t] \in {"110", "112count"}
    BY <1>0, <1>4, <2>b, Zenon DEF EnqLoadNext, TypeOK
  <2>2. TypeOK'
    BY <1>0, <1>4, <2>0, <2>b, Zenon DEF EnqLoadNext, TypeOK
  <2>3. Frame(t) /\ UNCHANGED <<shared, memory, chain>>
    BY <1>0, <1>4, <2>b, Zenon DEF EnqLoadNext, Frame, TypeOK
  <2>4. EnqView(t)'
    BY <1>0, <1>4, <2>1, <2>b, <2>3, SameList, <2>0, Zenon DEF EnqLoadNext, EnqView, HasPtr
  <2>5. DeqView(t)'
    BY <1>0, <1>4, <2>1, <2>b, <2>3, SameList, Zenon DEF EnqLoadNext, DeqView, HasPtr, DeqLines
  <2>6. SawEmpty'
    BY <1>0, <1>4, <2>1, <2>b, <2>3, Zenon DEF EnqLoadNext, SawEmpty, Frame, InDeq, Empty, TypeOK, DeqLines
  <2>7. OwnsNode(t)' => OwnsNode(t) /\ arg'[t] = arg[t] /\ newNode'[t] = newNode[t]
    BY <1>0, <1>4, <2>1, <2>b DEF EnqLoadNext, OwnsNode, TypeOK
  <2> QED BY <2>1, <2>2, <2>3, <2>4, <2>5, <2>6, <2>7, LocalStep, Zenon
<1>5. ASSUME EnqCheckCount(t) PROVE IInv'
  <2>1. pc[t] = "112count" /\ pc'[t] = "112ptr" /\ got'[t] = {}
    BY <1>0, <1>5, Zenon DEF EnqCheckCount, TypeOK, Copying
  <2>2. TypeOK'
    BY <1>0, <1>5, ConstantsAssumption, PointerType, Zenon DEF EnqCheckCount, TypeOK, EnqLines, DeqLines
  <2>3. Frame(t) /\ UNCHANGED <<shared, memory, chain>>
    BY <1>0, <1>5 DEF EnqCheckCount, Frame, TypeOK
  <2>4. EnqView(t)'
    BY <1>0, <1>5, <2>1, <2>3, SameList, Zenon DEF EnqCheckCount, EnqView, HasPtr
  <2>5. DeqView(t)'
    BY <1>0, <1>5, <2>1, <2>3, SameList, Zenon DEF EnqCheckCount, DeqView, HasPtr, DeqLines
  <2>6. SawEmpty'
    BY <1>0, <1>5, <2>1, <2>3, Zenon DEF EnqCheckCount, SawEmpty, Frame, InDeq, Empty, TypeOK, DeqLines
  <2>7. OwnsNode(t)' => OwnsNode(t) /\ arg'[t] = arg[t] /\ newNode'[t] = newNode[t]
    BY <1>0, <1>5, <2>1 DEF EnqCheckCount, OwnsNode, TypeOK
  <2> QED BY <2>1, <2>2, <2>3, <2>4, <2>5, <2>6, <2>7, LocalStep, Zenon
<1>6. ASSUME EnqCheckPtr(t) PROVE IInv'
  <2>1. /\ pc[t] = "112ptr" /\ got'[t] = {}
        /\ pc'[t] = IF lnext[t].ptr = NULL THEN "116" ELSE "123"
    BY <1>0, <1>6, Zenon DEF EnqCheckPtr, TypeOK, Copying
  <2>2. TypeOK'
    BY <1>0, <1>6, ConstantsAssumption, PointerType, Zenon DEF EnqCheckPtr, TypeOK, EnqLines, DeqLines
  <2>3. Frame(t) /\ UNCHANGED <<shared, memory, chain>>
    BY <1>0, <1>6, Zenon DEF EnqCheckPtr, Frame, TypeOK
  <2>a. UNCHANGED <<ltail, lnext>>
    BY <1>6, Zenon DEF EnqCheckPtr
  <2>4. EnqView(t)'
    <3>1. /\ NotAfter(ltail[t].ptr, tail.ptr)'
          /\ lnext[t].ptr \in {NULL, next[ltail[t].ptr].ptr}
      BY <1>0, <2>1, <2>3, SameList, <2>a DEF EnqView
    <3>2. CASE pc'[t] = "116" /\ lnext[t].ptr = NULL
      BY <2>1, <2>3, <2>a, <3>1, <3>2, Zenon DEF EnqView, HasPtr
    <3>3. CASE pc'[t] = "123" /\ lnext[t].ptr # NULL
      BY <2>1, <2>3, <2>a, <3>1, <3>3, Zenon DEF EnqView, HasPtr
    <3> QED BY <2>1, <3>2, <3>3, Zenon
  <2>5. DeqView(t)'
    <3>1. pc'[t] = "116" \/ pc'[t] = "123"
      BY <2>1, Zenon
    <3> QED BY <2>1, <3>1, Zenon DEF DeqView, HasPtr, DeqLines
  <2>6. SawEmpty'
    BY <1>0, <1>6, <2>1, <2>3 DEF EnqCheckPtr, SawEmpty, Frame, InDeq, Empty, TypeOK, DeqLines
  <2>7. OwnsNode(t)' => OwnsNode(t) /\ arg'[t] = arg[t] /\ newNode'[t] = newNode[t]
    BY <1>0, <1>6, <2>1, Zenon DEF EnqCheckPtr, OwnsNode, TypeOK
  <2> QED BY <2>1, <2>2, <2>3, <2>4, <2>5, <2>6, <2>7, LocalStep, Zenon
<1>7. ASSUME EnqRetry(t) PROVE IInv'
  <2>1. pc[t] \in {"112count", "112ptr", "116"} /\ pc'[t] = "109" /\ got'[t] = {}
    BY <1>0, <1>7, Zenon DEF EnqRetry, TypeOK, Copying
  <2>2. TypeOK'
    BY <1>0, <1>7, ConstantsAssumption, PointerType, Zenon DEF EnqRetry, TypeOK, EnqLines, DeqLines
  <2>3. Frame(t) /\ UNCHANGED <<shared, memory, chain>>
    BY <1>0, <1>7 DEF EnqRetry, Frame, TypeOK
  <2>4. EnqView(t)'
    BY <1>0, <1>7, <2>1, <2>3, SameList, Zenon DEF EnqRetry, EnqView, HasPtr
  <2>5. DeqView(t)'
    BY <1>0, <1>7, <2>1, <2>3, SameList, Zenon DEF EnqRetry, DeqView, HasPtr, DeqLines
  <2>6. SawEmpty'
    BY <1>0, <1>7, <2>1, <2>3, Zenon DEF EnqRetry, SawEmpty, Frame, InDeq, Empty, TypeOK, DeqLines
  <2>7. OwnsNode(t)' => OwnsNode(t) /\ arg'[t] = arg[t] /\ newNode'[t] = newNode[t]
    BY <1>0, <1>7, <2>1, Zenon DEF EnqRetry, OwnsNode, TypeOK
  <2> QED BY <2>1, <2>2, <2>3, <2>4, <2>5, <2>6, <2>7, LocalStep, Zenon
<1> QED BY <1>1, <1>2, <1>3, <1>4, <1>5, <1>6, <1>7

LEMMA DeqLocalSteps ==
  ASSUME IInv, NEW t \in Threads,
         \/ DeqCall(t)
         \/ \E w \in Words : DeqLoadHead(t, w) \/ DeqLoadTail(t, w) \/ DeqLoadNext(t, w)
         \/ DeqCheckCount(t) \/ DeqCheckPtr(t) \/ DeqRetry(t) \/ DeqReturnEmpty(t)
         \/ DeqLoadVal(t) \/ DeqReturn(t)
  PROVE  IInv'
<1> USE DEF Goto, Forget, shared, memory, locals, history
<1>0. /\ TypeOK /\ NextFollowsChain /\ HeadBehindTail /\ Copying /\ SawEmpty
      /\ EnqView(t) /\ DeqView(t)
  BY DEF IInv
<1>1. ASSUME DeqCall(t) PROVE IInv'
  <2>1. pc[t] = "idle" /\ pc'[t] = "139" /\ got'[t] = {}
    BY <1>0, <1>1, Zenon DEF DeqCall, TypeOK, Copying
  <2>2. TypeOK'
    BY <1>0, <1>1, ConstantsAssumption, PointerType, Zenon DEF DeqCall, TypeOK, EnqLines, DeqLines
  <2>3. Frame(t) /\ UNCHANGED <<shared, memory, chain>>
    BY <1>0, <1>1 DEF DeqCall, Frame, TypeOK
  <2>4. EnqView(t)'
    BY <1>0, <1>1, <2>1, <2>3, SameList, Zenon DEF DeqCall, EnqView, HasPtr
  <2>5. DeqView(t)'
    BY <1>0, <1>1, <2>1, <2>3, SameList, Zenon DEF DeqCall, DeqView, HasPtr, DeqLines
  <2>6. SawEmpty'
    BY <1>0, <1>1, <2>1, <2>3, Zenon DEF DeqCall, SawEmpty, Frame, InDeq, Empty, TypeOK, DeqLines
  <2>7. OwnsNode(t)' => OwnsNode(t) /\ arg'[t] = arg[t] /\ newNode'[t] = newNode[t]
    BY <1>0, <1>1, <2>1, Zenon DEF DeqCall, OwnsNode, TypeOK
  <2> QED BY <2>1, <2>2, <2>3, <2>4, <2>5, <2>6, <2>7, LocalStep, Zenon
<1>2. ASSUME NEW w \in Words, DeqLoadHead(t, w) PROVE IInv'
  <2>0. /\ Loaded(lhead[t], w, head) \in Pointer
        /\ Loaded(lhead[t], w, head).ptr =
             IF w = "ptr" THEN head.ptr ELSE lhead[t].ptr
    BY <1>0, LoadedType DEF TypeOK
  <2>c. LoadWord(t, w, "139", "140")
    BY <1>2 DEF DeqLoadHead
  <2>d. LoadEffect(t, w, "139", "140")
    BY <1>0, <2>c, LineType, LoadStep, Zenon
  <2>b. /\ \/ pc'[t] = "139" /\ got'[t] = {w}
           \/ pc'[t] = "140" /\ got'[t] = {} /\ (w = "count" => "ptr" \in got[t])
        /\ pc[t] = "139"
        /\ \A u \in Threads \ {t} : pc'[u] = pc[u] /\ got'[u] = got[u]
        /\ got' \in [Threads -> {{}, {"ptr"}, {"count"}}]
        /\ pc' \in [Threads -> {"idle"} \cup EnqLines \cup DeqLines]
    BY <2>d, Zenon DEF LoadEffect
  <2>1. lhead'[t] = Loaded(lhead[t], w, head) /\ (got'[t] # {} => pc'[t] = "139") /\ pc'[t] \in {"139", "140"}
    BY <1>0, <1>2, <2>b, Zenon DEF DeqLoadHead, TypeOK
  <2>2. TypeOK'
    BY <1>0, <1>2, <2>0, <2>b, Zenon DEF DeqLoadHead, TypeOK
  <2>3. Frame(t) /\ UNCHANGED <<shared, memory, chain>>
    BY <1>0, <1>2, <2>b DEF DeqLoadHead, Frame, TypeOK
  <2>4. EnqView(t)'
    BY <1>0, <1>2, <2>1, <2>b, <2>3, SameList, Zenon DEF DeqLoadHead, EnqView, HasPtr
  <2>5. DeqView(t)'
    BY <1>0, <1>2, <2>1, <2>b, <2>3, SameList, <2>0, EndsLinked, Zenon DEF DeqLoadHead, DeqView, HasPtr, DeqLines
  <2>6. SawEmpty'
    BY <1>0, <1>2, <2>1, <2>b, <2>3, Zenon DEF DeqLoadHead, SawEmpty, Frame, InDeq, Empty, TypeOK, DeqLines
  <2>7. OwnsNode(t)' => OwnsNode(t) /\ arg'[t] = arg[t] /\ newNode'[t] = newNode[t]
    BY <1>0, <1>2, <2>1, <2>b, Zenon DEF DeqLoadHead, OwnsNode, TypeOK
  <2> QED BY <2>1, <2>2, <2>3, <2>4, <2>5, <2>6, <2>7, LocalStep, Zenon
<1>3. ASSUME NEW w \in Words, DeqLoadTail(t, w) PROVE IInv'
  <2>0. /\ Loaded(ltail[t], w, tail) \in Pointer
        /\ Loaded(ltail[t], w, tail).ptr =
             IF w = "ptr" THEN tail.ptr ELSE ltail[t].ptr
    BY <1>0, LoadedType DEF TypeOK
  <2>c. LoadWord(t, w, "140", "141")
    BY <1>3 DEF DeqLoadTail
  <2>d. LoadEffect(t, w, "140", "141")
    BY <1>0, <2>c, LineType, LoadStep, Zenon
  <2>b. /\ \/ pc'[t] = "140" /\ got'[t] = {w}
           \/ pc'[t] = "141" /\ got'[t] = {} /\ (w = "count" => "ptr" \in got[t])
        /\ pc[t] = "140"
        /\ \A u \in Threads \ {t} : pc'[u] = pc[u] /\ got'[u] = got[u]
        /\ got' \in [Threads -> {{}, {"ptr"}, {"count"}}]
        /\ pc' \in [Threads -> {"idle"} \cup EnqLines \cup DeqLines]
    BY <2>d, Zenon DEF LoadEffect
  <2>1. lhead'[t] = lhead[t] /\ ltail'[t] = Loaded(ltail[t], w, tail) /\ (got'[t] # {} => pc'[t] = "140") /\ pc'[t] \in {"140", "141"}
    BY <1>0, <1>3, <2>b, Zenon DEF DeqLoadTail, TypeOK
  <2>2. TypeOK'
    BY <1>0, <1>3, <2>0, <2>b, Zenon DEF DeqLoadTail, TypeOK
  <2>3. Frame(t) /\ UNCHANGED <<shared, memory, chain>>
    BY <1>0, <1>3, <2>b DEF DeqLoadTail, Frame, TypeOK
  <2>4. EnqView(t)'
    BY <1>0, <1>3, <2>1, <2>b, <2>3, SameList, Zenon DEF DeqLoadTail, EnqView, HasPtr
  <2>5. DeqView(t)'
    BY <1>0, <1>3, <2>1, <2>b, <2>3, SameList, <2>0, EndsLinked, NotAfterTrans, Zenon DEF DeqLoadTail, DeqView, HasPtr, DeqLines
  <2>6. SawEmpty'
    BY <1>0, <1>3, <2>1, <2>b, <2>3, Zenon DEF DeqLoadTail, SawEmpty, Frame, InDeq, Empty, TypeOK, DeqLines
  <2>7. OwnsNode(t)' => OwnsNode(t) /\ arg'[t] = arg[t] /\ newNode'[t] = newNode[t]
    BY <1>0, <1>3, <2>1, <2>b DEF DeqLoadTail, OwnsNode, TypeOK
  <2> QED BY <2>1, <2>2, <2>3, <2>4, <2>5, <2>6, <2>7, LocalStep, Zenon
<1>4. ASSUME NEW w \in Words, DeqLoadNext(t, w) PROVE IInv'
  <2>0. /\ Loaded(lnext[t], w, next[lhead[t].ptr]) \in Pointer
        /\ Loaded(lnext[t], w, next[lhead[t].ptr]).ptr =
             IF w = "ptr" THEN next[lhead[t].ptr].ptr ELSE lnext[t].ptr
    <3>1. NotAfter(lhead[t].ptr, head.ptr)
      BY <1>0, <1>4, Zenon DEF DeqLoadNext, LoadWord, DeqView, DeqLines
    <3> QED BY <1>0, <3>1, NotAfterLinked, LoadedType, Zenon DEF TypeOK
  <2>a. next[lhead[t].ptr].ptr = NULL => lhead[t].ptr = ltail[t].ptr /\ t \in sawEmpty
    BY <1>0, <1>4, LastNode, Zenon DEF DeqLoadNext, LoadWord, DeqView, DeqLines, SawEmpty, InDeq, Empty
  <2>c. LoadWord(t, w, "141", "143count")
    BY <1>4, Zenon DEF DeqLoadNext
  <2>d. LoadEffect(t, w, "141", "143count")
    BY <1>0, <2>c, LineType, LoadStep
  <2>b. /\ \/ pc'[t] = "141" /\ got'[t] = {w}
           \/ pc'[t] = "143count" /\ got'[t] = {} /\ (w = "count" => "ptr" \in got[t])
        /\ pc[t] = "141"
        /\ \A u \in Threads \ {t} : pc'[u] = pc[u] /\ got'[u] = got[u]
        /\ got' \in [Threads -> {{}, {"ptr"}, {"count"}}]
        /\ pc' \in [Threads -> {"idle"} \cup EnqLines \cup DeqLines]
    BY <2>d, Zenon DEF LoadEffect
  <2>1. lhead'[t] = lhead[t] /\ ltail'[t] = ltail[t] /\ lnext'[t] = Loaded(lnext[t], w, next[lhead[t].ptr]) /\ (got'[t] # {} => pc'[t] = "141") /\ pc'[t] \in {"141", "143count"}
    BY <1>0, <1>4, <2>b, Zenon DEF DeqLoadNext, TypeOK
  <2>2. TypeOK'
    BY <1>0, <1>4, <2>0, <2>b, Zenon DEF DeqLoadNext, TypeOK
  <2>3. Frame(t) /\ UNCHANGED <<shared, memory, chain>>
    BY <1>0, <1>4, <2>b, Zenon DEF DeqLoadNext, Frame, TypeOK
  <2>4. EnqView(t)'
    BY <1>0, <1>4, <2>1, <2>b, <2>3, SameList, Zenon DEF DeqLoadNext, EnqView, HasPtr
  <2>5. DeqView(t)'
    <3>1. CASE w = "ptr"
      BY <1>0, <3>1, <1>4, <2>1, <2>b, <2>3, SameList, <2>0, <2>a, Zenon DEF DeqLoadNext, DeqView, HasPtr, DeqLines
    <3>2. CASE w = "count"
      BY <1>0, <3>2, <1>4, <2>1, <2>b, <2>3, SameList, <2>0, <2>a, Zenon DEF DeqLoadNext, DeqView, HasPtr, DeqLines
    <3> QED BY <1>0, <3>1, <3>2
  <2>6. SawEmpty'
    BY <1>0, <1>4, <2>1, <2>b, <2>3, Zenon DEF DeqLoadNext, SawEmpty, Frame, InDeq, Empty, TypeOK, DeqLines
  <2>7. OwnsNode(t)' => OwnsNode(t) /\ arg'[t] = arg[t] /\ newNode'[t] = newNode[t]
    BY <1>0, <1>4, <2>1, <2>b DEF DeqLoadNext, OwnsNode, TypeOK
  <2> QED BY <2>1, <2>2, <2>3, <2>4, <2>5, <2>6, <2>7, LocalStep, Zenon
<1>5. ASSUME DeqCheckCount(t) PROVE IInv'
  <2>1. pc[t] = "143count" /\ pc'[t] = "143ptr" /\ got'[t] = {}
    BY <1>0, <1>5, Zenon DEF DeqCheckCount, TypeOK, Copying
  <2>2. TypeOK'
    BY <1>0, <1>5, ConstantsAssumption, PointerType, Zenon DEF DeqCheckCount, TypeOK, EnqLines, DeqLines
  <2>3. Frame(t) /\ UNCHANGED <<shared, memory, chain>>
    BY <1>0, <1>5 DEF DeqCheckCount, Frame, TypeOK
  <2>4. EnqView(t)'
    BY <1>0, <1>5, <2>1, <2>3, SameList, Zenon DEF DeqCheckCount, EnqView, HasPtr
  <2>5. DeqView(t)'
    BY <1>0, <1>5, <2>1, <2>3, SameList, Zenon DEF DeqCheckCount, DeqView, HasPtr, DeqLines
  <2>6. SawEmpty'
    BY <1>0, <1>5, <2>1, <2>3, Zenon DEF DeqCheckCount, SawEmpty, Frame, InDeq, Empty, TypeOK, DeqLines
  <2>7. OwnsNode(t)' => OwnsNode(t) /\ arg'[t] = arg[t] /\ newNode'[t] = newNode[t]
    BY <1>0, <1>5, <2>1, Zenon DEF DeqCheckCount, OwnsNode, TypeOK
  <2> QED BY <2>1, <2>2, <2>3, <2>4, <2>5, <2>6, <2>7, LocalStep, Zenon
<1>6. ASSUME DeqCheckPtr(t) PROVE IInv'
  <2>1. /\ pc[t] = "143ptr" /\ got'[t] = {}
        /\ \/ pc'[t] = "150" /\ lhead[t].ptr = ltail[t].ptr
           \/ pc'[t] = "153" /\ lhead[t].ptr # ltail[t].ptr
        /\ lnext[t].ptr # NULL
    BY <1>0, <1>6, PointerType, Zenon DEF DeqCheckPtr, TypeOK, Copying, DeqView, DeqLines
  <2>2. TypeOK'
    BY <1>0, <1>6, ConstantsAssumption, PointerType, Zenon DEF DeqCheckPtr, TypeOK, EnqLines, DeqLines
  <2>3. Frame(t) /\ UNCHANGED <<shared, memory, chain>>
    BY <1>0, <1>6 DEF DeqCheckPtr, Frame, TypeOK
  <2>4. EnqView(t)'
    BY <1>0, <1>6, <2>1, <2>3, SameList, Zenon DEF DeqCheckPtr, EnqView, HasPtr
  <2>5. DeqView(t)'
    BY <1>0, <1>6, <2>1, <2>3, SameList, Zenon DEF DeqCheckPtr, DeqView, HasPtr, DeqLines
  <2>6. SawEmpty'
    BY <1>0, <1>6, <2>1, <2>3, Zenon DEF DeqCheckPtr, SawEmpty, Frame, InDeq, Empty, TypeOK, DeqLines
  <2>7. OwnsNode(t)' => OwnsNode(t) /\ arg'[t] = arg[t] /\ newNode'[t] = newNode[t]
    BY <1>0, <1>6, <2>1, Zenon DEF DeqCheckPtr, OwnsNode, TypeOK
  <2> QED BY <2>1, <2>2, <2>3, <2>4, <2>5, <2>6, <2>7, LocalStep, Zenon
<1>7. ASSUME DeqRetry(t) PROVE IInv'
  <2>1. pc[t] \in {"143count", "143ptr", "156"} /\ pc'[t] = "139" /\ got'[t] = {}
    BY <1>0, <1>7, Zenon DEF DeqRetry, TypeOK, Copying
  <2>2. TypeOK'
    BY <1>0, <1>7, ConstantsAssumption, PointerType, Zenon DEF DeqRetry, TypeOK, EnqLines, DeqLines
  <2>3. Frame(t) /\ UNCHANGED <<shared, memory, chain>>
    BY <1>0, <1>7 DEF DeqRetry, Frame, TypeOK
  <2>4. EnqView(t)'
    BY <1>0, <1>7, <2>1, <2>3, SameList, Zenon DEF DeqRetry, EnqView, HasPtr
  <2>5. DeqView(t)'
    BY <1>0, <1>7, <2>1, <2>3, SameList, Zenon DEF DeqRetry, DeqView, HasPtr, DeqLines
  <2>6. SawEmpty'
    BY <1>0, <1>7, <2>1, <2>3, Zenon DEF DeqRetry, SawEmpty, Frame, InDeq, Empty, TypeOK, DeqLines
  <2>7. OwnsNode(t)' => OwnsNode(t) /\ arg'[t] = arg[t] /\ newNode'[t] = newNode[t]
    BY <1>0, <1>7, <2>1 DEF DeqRetry, OwnsNode, TypeOK
  <2> QED BY <2>1, <2>2, <2>3, <2>4, <2>5, <2>6, <2>7, LocalStep, Zenon
<1>8. ASSUME DeqReturnEmpty(t) PROVE IInv'
  <2>1. pc[t] = "143ptr" /\ pc'[t] = "idle" /\ got'[t] = {}
    BY <1>0, <1>8, Zenon DEF DeqReturnEmpty, TypeOK, Copying
  <2>2. TypeOK'
    BY <1>0, <1>8, ConstantsAssumption, PointerType, Zenon DEF DeqReturnEmpty, TypeOK, EnqLines, DeqLines
  <2>3. Frame(t) /\ UNCHANGED <<shared, memory, chain>>
    BY <1>0, <1>8 DEF DeqReturnEmpty, Frame, TypeOK
  <2>4. EnqView(t)'
    BY <1>0, <1>8, <2>1, <2>3, SameList, Zenon DEF DeqReturnEmpty, EnqView, HasPtr
  <2>5. DeqView(t)'
    BY <1>0, <1>8, <2>1, <2>3, SameList, Zenon DEF DeqReturnEmpty, DeqView, HasPtr, DeqLines
  <2>6. SawEmpty'
    BY <1>0, <1>8, <2>1, <2>3, Zenon DEF DeqReturnEmpty, SawEmpty, Frame, InDeq, Empty, TypeOK, DeqLines
  <2>7. OwnsNode(t)' => OwnsNode(t) /\ arg'[t] = arg[t] /\ newNode'[t] = newNode[t]
    BY <1>0, <1>8, <2>1 DEF DeqReturnEmpty, OwnsNode, TypeOK
  <2> QED BY <2>1, <2>2, <2>3, <2>4, <2>5, <2>6, <2>7, LocalStep, Zenon
<1>9. ASSUME DeqLoadVal(t) PROVE IInv'
  <2>1. pc[t] = "153" /\ pc'[t] = "156" /\ got'[t] = {} /\ arg'[t] = val[lnext[t].ptr] /\ lnext[t].ptr \in Nodes /\ arg' \in [Threads -> Values \cup {None}]
    BY <1>0, <1>9, PointerType, Zenon DEF DeqLoadVal, TypeOK, Copying, DeqView, DeqLines
  <2>2. TypeOK'
    BY <1>0, <1>9, <2>1, Zenon DEF DeqLoadVal, TypeOK, EnqLines, DeqLines
  <2>3. Frame(t) /\ UNCHANGED <<shared, memory, chain>>
    BY <1>0, <1>9 DEF DeqLoadVal, Frame, TypeOK
  <2>4. EnqView(t)'
    BY <1>0, <1>9, <2>1, <2>3, SameList, Zenon DEF DeqLoadVal, EnqView, HasPtr
  <2>5. DeqView(t)'
    BY <1>0, <1>9, <2>1, <2>3, SameList, Zenon DEF DeqLoadVal, DeqView, HasPtr, DeqLines
  <2>6. SawEmpty'
    BY <1>0, <1>9, <2>1, <2>3, Zenon DEF DeqLoadVal, SawEmpty, Frame, InDeq, Empty, TypeOK, DeqLines
  <2>7. OwnsNode(t)' => OwnsNode(t) /\ arg'[t] = arg[t] /\ newNode'[t] = newNode[t]
    BY <1>0, <1>9, <2>1, Zenon DEF DeqLoadVal, OwnsNode, TypeOK
  <2> QED BY <2>1, <2>2, <2>3, <2>4, <2>5, <2>6, <2>7, LocalStep, Zenon
<1>10. ASSUME DeqReturn(t) PROVE IInv'
  <2>1. pc[t] = "163" /\ pc'[t] = "idle" /\ got'[t] = {}
    BY <1>0, <1>10, Zenon DEF DeqReturn, TypeOK, Copying
  <2>2. TypeOK'
    BY <1>0, <1>10, ConstantsAssumption, PointerType, Zenon DEF DeqReturn, TypeOK, EnqLines, DeqLines
  <2>3. Frame(t) /\ UNCHANGED <<shared, memory, chain>>
    BY <1>0, <1>10 DEF DeqReturn, Frame, TypeOK
  <2>4. EnqView(t)'
    BY <1>0, <1>10, <2>1, <2>3, SameList, Zenon DEF DeqReturn, EnqView, HasPtr
  <2>5. DeqView(t)'
    BY <1>0, <1>10, <2>1, <2>3, SameList, Zenon DEF DeqReturn, DeqView, HasPtr, DeqLines
  <2>6. SawEmpty'
    BY <1>0, <1>10, <2>1, <2>3, Zenon DEF DeqReturn, SawEmpty, Frame, InDeq, Empty, TypeOK, DeqLines
  <2>7. OwnsNode(t)' => OwnsNode(t) /\ arg'[t] = arg[t] /\ newNode'[t] = newNode[t]
    BY <1>0, <1>10, <2>1, Zenon DEF DeqReturn, OwnsNode, TypeOK
  <2> QED BY <2>1, <2>2, <2>3, <2>4, <2>5, <2>6, <2>7, LocalStep, Zenon
<1> QED BY <1>1, <1>2, <1>3, <1>4, <1>5, <1>6, <1>7, <1>8, <1>9, <1>10

-----------------------------------------------------------------------------
(* Steps that move q->tail *)

\* A successful cas of q->tail moves it to the next node.
LEMMA TailAdvances ==
  ASSUME TypeOK, NextFollowsChain, HeadBehindTail, UNCHANGED <<head, chain>>,
         \/ tail' = tail
         \/ next[tail.ptr].ptr # NULL /\ tail'.ptr = next[tail.ptr].ptr
  PROVE  /\ HeadBehindTail'
         /\ \A m \in Nodes : NotAfter(m, tail.ptr) => NotAfter(m, tail.ptr)'
<1>1. CASE tail' = tail
  BY <1>1 DEF HeadBehindTail, NotAfter
<1>2. CASE next[tail.ptr].ptr # NULL /\ tail'.ptr = next[tail.ptr].ptr
  <2>1. PICK h, l \in 1..Len(chain) :
          chain[h] = head.ptr /\ chain[l] = tail.ptr /\ h <= l /\ Len(chain) <= l + 1
    BY DEF HeadBehindTail
  <2>2. l # Len(chain) /\ tail'.ptr = chain[l + 1]
    BY <1>2, <2>1 DEF NextFollowsChain
  <2>3. l + 1 \in 1..Len(chain) /\ h <= l + 1 /\ Len(chain) <= (l + 1) + 1
    BY <2>1, <2>2, ChainLength
  <2>4. HeadBehindTail'
    BY <2>1, <2>2, <2>3 DEF HeadBehindTail
  <2>5. ASSUME NEW m \in Nodes, NotAfter(m, tail.ptr) PROVE NotAfter(m, tail.ptr)'
    <3>1. NotAfter(m, next[tail.ptr].ptr)
      BY <1>2, <2>5, NotAfterLinked, NextLinked, NotAfterTrans, Zenon
    <3> QED BY <1>2, <3>1, Zenon DEF NotAfter
  <2> QED BY <2>4, <2>5
<1> QED BY <1>1, <1>2, Zenon

\* The node a thread puts into q->tail is the next of the node it expects there.
LEMMA TailCas ==
  ASSUME NEW t \in Threads, NEW n, NEW c,
         n # NULL, n = next[ltail[t].ptr].ptr,
         tail' = Cas(tail, ltail[t], [ptr |-> n, count |-> c])
  PROVE  \/ tail' = tail
         \/ next[tail.ptr].ptr # NULL /\ tail'.ptr = next[tail.ptr].ptr
BY DEF Cas

LEMMA TailSteps ==
  ASSUME IInv, NEW t \in Threads, EnqHelp(t) \/ EnqSwingTail(t) \/ DeqHelp(t)
  PROVE  IInv'
<1> USE DEF Goto, Forget, memory, locals, history
<1>0. /\ TypeOK /\ NextFollowsChain /\ HeadBehindTail /\ Copying /\ SawEmpty
      /\ EnqView(t) /\ DeqView(t)
  BY Zenon DEF IInv
<1>1. ASSUME EnqHelp(t) PROVE IInv'
  <2>1. pc[t] = "123" /\ pc'[t] = "109" /\ got'[t] = {}
    BY <1>0, <1>1, Zenon DEF EnqHelp, TypeOK, Copying
  <2>2. TypeOK'
    <3>0. lnext[t] \in Pointer /\ ltail[t] \in Pointer
      BY <1>0 DEF TypeOK
    <3>1. [ptr |-> lnext[t].ptr, count |-> ltail[t].count + 1] \in Pointer
      BY <3>0, PointerOf
    <3>2. tail' \in Pointer
      BY <1>0, <1>1, <3>1, CasType, Zenon DEF EnqHelp, TypeOK
    <3> QED BY <1>0, <1>1, <3>2, PointerType, ConstantsAssumption, Zenon DEF EnqHelp, TypeOK, EnqLines, DeqLines
  <2>3. Frame(t) /\ UNCHANGED <<head, next, memory, chain, sawEmpty>>
    BY <1>0, <1>1 DEF EnqHelp, Frame, TypeOK
  <2>4. EnqView(t)' /\ DeqView(t)'
    BY <1>0, <2>1, Zenon DEF EnqView, DeqView, HasPtr, DeqLines
  <2>5. SawEmpty'
    BY <1>0, <2>1, <2>3, Zenon DEF SawEmpty, Frame, InDeq, Empty, TypeOK, DeqLines
  <2>6. HeadBehindTail' /\ \A m \in Nodes : NotAfter(m, tail.ptr) => NotAfter(m, tail.ptr)'
    <3>1. lnext[t].ptr # NULL /\ lnext[t].ptr = next[ltail[t].ptr].ptr
      BY <1>0, <2>1, Zenon DEF EnqView
    <3> QED BY <1>0, <1>1, <2>3, <3>1, TailCas, TailAdvances, Zenon DEF EnqHelp
  <2>7. OwnsNode(t) /\ arg'[t] = arg[t] /\ newNode'[t] = newNode[t]
    BY <1>0, <1>1, <2>1, Zenon DEF EnqHelp, OwnsNode
  <2> QED BY <2>1, <2>2, <2>3, <2>4, <2>5, <2>6, <2>7, QuietStep, Zenon
<1>2. ASSUME EnqSwingTail(t) PROVE IInv'
  <2>1. pc[t] = "128" /\ pc'[t] = "idle" /\ got'[t] = {}
    BY <1>0, <1>2, Zenon DEF EnqSwingTail, TypeOK, Copying
  <2>2. TypeOK'
    <3>1. [ptr |-> newNode[t], count |-> ltail[t].count + 1] \in Pointer
      BY <1>0, PointerType DEF TypeOK
    <3>2. tail' \in Pointer
      BY <1>0, <1>2, <3>1, CasType DEF EnqSwingTail, TypeOK
    <3> QED BY <1>0, <1>2, <3>2, PointerType, ConstantsAssumption, Zenon DEF EnqSwingTail, TypeOK, EnqLines, DeqLines
  <2>3. Frame(t) /\ UNCHANGED <<head, next, memory, chain, sawEmpty>>
    BY <1>0, <1>2, Zenon DEF EnqSwingTail, Frame, TypeOK
  <2>4. EnqView(t)' /\ DeqView(t)'
    BY <1>0, <2>1, Zenon DEF EnqView, DeqView, HasPtr, DeqLines
  <2>5. SawEmpty'
    BY <1>0, <2>1, <2>3, Zenon DEF SawEmpty, Frame, InDeq, Empty, TypeOK, DeqLines
  <2>6. HeadBehindTail' /\ \A m \in Nodes : NotAfter(m, tail.ptr) => NotAfter(m, tail.ptr)'
    <3>1. newNode[t] # NULL /\ newNode[t] = next[ltail[t].ptr].ptr
      BY <1>0, <2>1, Zenon DEF EnqView
    <3> QED BY <1>0, <1>2, <2>3, <3>1, TailCas, TailAdvances, Zenon DEF EnqSwingTail
  <2>7. ~ OwnsNode(t)'
    BY <1>0, <2>1, Zenon DEF OwnsNode
  <2> QED BY <2>1, <2>2, <2>3, <2>4, <2>5, <2>6, <2>7, QuietStep, Zenon
<1>3. ASSUME DeqHelp(t) PROVE IInv'
  <2>1. pc[t] = "150" /\ pc'[t] = "139" /\ got'[t] = {}
    BY <1>0, <1>3, Zenon DEF DeqHelp, TypeOK, Copying
  <2>2. TypeOK'
    <3>0. lnext[t] \in Pointer /\ lhead[t] \in Pointer
      BY <1>0, Zenon DEF TypeOK
    <3>1. [ptr |-> lnext[t].ptr, count |-> lhead[t].count + 1] \in Pointer
      BY <3>0, PointerOf
    <3>2. tail' \in Pointer
      BY <1>0, <1>3, <3>1, CasType, Zenon DEF DeqHelp, TypeOK
    <3> QED BY <1>0, <1>3, <3>2, PointerType, ConstantsAssumption, Zenon DEF DeqHelp, TypeOK, EnqLines, DeqLines
  <2>3. Frame(t) /\ UNCHANGED <<head, next, memory, chain, sawEmpty>>
    BY <1>0, <1>3 DEF DeqHelp, Frame, TypeOK
  <2>4. EnqView(t)' /\ DeqView(t)'
    BY <1>0, <2>1, Zenon DEF EnqView, DeqView, HasPtr, DeqLines
  <2>5. SawEmpty'
    BY <1>0, <2>1, <2>3, Zenon DEF SawEmpty, Frame, InDeq, Empty, TypeOK, DeqLines
  <2>6. HeadBehindTail' /\ \A m \in Nodes : NotAfter(m, tail.ptr) => NotAfter(m, tail.ptr)'
    <3>1. lnext[t].ptr # NULL /\ lnext[t].ptr = next[ltail[t].ptr].ptr
      BY <1>0, <2>1, Zenon DEF DeqView, DeqLines
    <3> QED BY <1>0, <1>3, <2>3, <3>1, TailCas, TailAdvances, Zenon DEF DeqHelp
  <2>7. ~ OwnsNode(t)'
    BY <1>0, <2>1, Zenon DEF OwnsNode
  <2> QED BY <2>1, <2>2, <2>3, <2>4, <2>5, <2>6, <2>7, QuietStep, Zenon
<1> QED BY <1>1, <1>2, <1>3
=============================================================================
