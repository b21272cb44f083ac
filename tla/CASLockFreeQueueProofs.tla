----------------------- MODULE CASLockFreeQueueProofs -----------------------
(***************************************************************************)
(* Proofs about CASLockFreeQueue, for any number of threads, values and    *)
(* nodes: the inductive invariant, what follows from it, and that enq and  *)
(* deq are linearizable (CASLockFreeQueue implements FIFOQueue).           *)
(***************************************************************************)
EXTENDS CASLockFreeQueueSteps

USE NodeFacts DEF Words

-----------------------------------------------------------------------------
(* Steps that change the list *)

\* create_node writes a node that no other thread can reach.
LEMMA CreateNodeStep ==
  ASSUME IInv, NEW t \in Threads, CreateNode(t)
  PROVE  IInv'
<1>0. /\ TypeOK /\ NextFollowsChain /\ HeadBehindTail /\ Ownership /\ Copying
      /\ SawEmpty /\ Len(chain) > 0 /\ EnqView(t) /\ DeqView(t)
  BY Zenon DEF IInv
<1> DEFINE n == allocated + 1
<1>1. /\ pc[t] = "105" /\ pc'[t] = "109" /\ got'[t] = {}
      /\ n \in Nodes /\ allocated' = n
      /\ newNode'[t] = n /\ arg'[t] = arg[t]
      /\ next'[n].ptr = NULL /\ val'[n] = arg[t]
      /\ UNCHANGED <<head, tail, chain, sawEmpty>>
  <2>1. n \in Nodes /\ n \in Nat
    BY <1>0, ConstantsAssumption DEF TypeOK, CreateNode, Goto, history
  <2>2. pc[t] = "105" /\ pc'[t] = "109" /\ got'[t] = {}
    BY <1>0, Zenon DEF TypeOK, Copying, CreateNode, Goto, history
  <2>3. next'[n].ptr = NULL /\ val'[n] = arg[t]
    BY <1>0, <2>1, PointerType, Zenon DEF TypeOK, CreateNode, Goto, history
  <2> QED BY <1>0, <2>1, <2>2, <2>3, Zenon DEF TypeOK, CreateNode, Goto, history
<1>2. TypeOK'
  BY <1>0, <1>1, PointerType, Zenon DEF TypeOK, EnqLines, DeqLines, CreateNode, Goto, history
<1>3. Frame(t)
  BY <1>0, Zenon DEF Frame, TypeOK, CreateNode, Goto, history
<1>4. \A i \in 1..Len(chain) : chain[i] \in Nodes /\ chain[i] # n
  <2> TAKE i \in 1..Len(chain)
  <2>1. chain[i] \in Nodes /\ chain[i] <= allocated
    BY <1>0, ChainElement, ChainAllocated
  <2>2. chain[i] # n
    BY <1>0, <2>1, AllocatedType
  <2> QED BY <2>1, <2>2
<1>5. \A m \in Nodes : m # n => next'[m] = next[m] /\ val'[m] = val[m]
  BY <1>0, <1>1 DEF TypeOK, CreateNode, Goto, history
<1>6. NextFollowsChain' /\ HeadBehindTail' /\ (Len(chain) > 0)'
  <2>1. \A i \in 1..Len(chain) : next'[chain[i]] = next[chain[i]]
    BY <1>4, <1>5, Zenon
  <2>2. NextFollowsChain'
    BY <1>0, <1>1, <2>1, Zenon DEF NextFollowsChain
  <2>3. HeadBehindTail' /\ (Len(chain) > 0)'
    BY <1>0, <1>1, Zenon DEF HeadBehindTail
  <2> QED BY <2>2, <2>3, Zenon
<1>7. Grows
  <2>1. \A m \in Nodes : Linked(m) => m # n
    BY <1>4 DEF Linked
  <2> QED BY <1>1, <1>5, <2>1, SameList DEF Grows
<1>8. \A u \in Threads : EnqView(u)' /\ DeqView(u)'
  <2>1. EnqView(t)' /\ DeqView(t)'
    BY <1>0, <1>1, Zenon DEF EnqView, DeqView, HasPtr, DeqLines
  <2> QED BY <2>1, <1>3, <1>7, OthersKeepViews
<1>9. Ownership'
  <2>1. \A i \in 1..Len(chain') : chain'[i] <= allocated'
    <3> SUFFICES ASSUME NEW i \in 1..Len(chain) PROVE chain[i] <= n
      BY <1>1, Zenon
    <3>1. chain[i] \in Nodes /\ chain[i] <= allocated
      BY <1>0, ChainElement, ChainAllocated
    <3> QED BY <1>0, <3>1, AllocatedType
  <2>2. ~ Linked(newNode[t])'
    BY <1>1, <1>4, Zenon DEF Linked
  <2>3. ASSUME NEW u \in Threads \ {t}, OwnsNode(u)'
        PROVE  /\ newNode'[u] \in 1..allocated' /\ newNode'[u] # n
               /\ ~ Linked(newNode[u])' /\ newNode'[u] = newNode[u]
               /\ next'[newNode'[u]].ptr = NULL
               /\ val'[newNode'[u]] = arg'[u]
               /\ OwnsNode(u)
    <3>1. OwnsNode(u) /\ newNode'[u] = newNode[u] /\ arg'[u] = arg[u]
      BY <1>3, <2>3 DEF Frame, OwnsNode
    <3>2. /\ newNode[u] \in 1..allocated /\ newNode[u] \in Nodes
          /\ ~ Linked(newNode[u])
          /\ next[newNode[u]].ptr = NULL /\ val[newNode[u]] = arg[u]
      BY <1>0, <3>1, OwnNode, Zenon
    <3>3. newNode[u] # n /\ newNode[u] \in 1..n
      <4>1. allocated \in Nat
        BY <1>0, AllocatedType
      <4>2. \A i \in 1..allocated : i # n /\ i \in 1..n
        BY <4>1
      <4> QED BY <3>2, <4>2, Zenon
    <3>4. ~ Linked(newNode[u])'
      BY <1>1, <3>1, <3>2, Zenon DEF Linked
    <3> QED BY <1>1, <1>5, <3>1, <3>2, <3>3, <3>4, Zenon
  <2>4. newNode'[t] \in 1..allocated'
    <3>1. n \in 1..n
      BY <1>0, AllocatedType
    <3> QED BY <1>1, <3>1
  <2>5. ASSUME NEW u \in Threads, NEW v \in Threads, v # u, OwnsNode(u)', OwnsNode(v)'
        PROVE  newNode'[v] # newNode'[u]
    <3>1. CASE u = t
      BY <1>1, <2>3, <2>5, <3>1, Zenon
    <3>2. CASE v = t
      BY <1>1, <2>3, <2>5, <3>2, Zenon
    <3>3. CASE u # t /\ v # t
      BY <1>0, <2>3, <2>5, <3>3, OwnNode, Zenon
    <3> QED BY <3>1, <3>2, <3>3, Zenon
  <2>6. ASSUME NEW u \in Threads, OwnsNode(u)'
        PROVE  /\ newNode'[u] \in 1..allocated'
               /\ ~ Linked(newNode[u])'
               /\ next'[newNode'[u]].ptr = NULL
               /\ val'[newNode'[u]] = arg'[u]
    <3>1. CASE u = t
      BY <1>1, <2>2, <2>4, <3>1, Zenon
    <3>2. CASE u # t
      BY <2>3, <2>6, <3>2
    <3> QED BY <3>1, <3>2, Zenon
  <2> QED BY <2>1, <2>5, <2>6, Zenon DEF Ownership
<1>10. SawEmpty'
  <2>1. head.ptr \in Nodes /\ head.ptr # n
    BY <1>0, <1>4, EndsLinked DEF Linked
  <2> QED BY <1>0, <1>1, <1>3, <1>5, <2>1, Zenon DEF SawEmpty, InDeq, Empty, Frame, DeqLines, TypeOK
<1>11. Copying'
  BY <1>0, <1>1, <1>3, Zenon DEF Copying, Frame
<1> QED BY <1>2, <1>6, <1>8, <1>9, <1>10, <1>11 DEF IInv

\* The cas of line 116 succeeds on the last node only, and then q->tail is there.
LEMMA LinkPoint ==
  ASSUME IInv, NEW t \in Threads, EnqLink(t)
  PROVE  /\ ltail[t].ptr = chain[Len(chain)] /\ ltail[t].ptr = tail.ptr
         /\ Len(chain) \in 1..Len(chain)
         /\ next[ltail[t].ptr].ptr = NULL
<1>0. /\ TypeOK /\ NextFollowsChain /\ HeadBehindTail /\ Ownership /\ Copying
      /\ SawEmpty /\ Len(chain) > 0 /\ EnqView(t) /\ DeqView(t)
  BY DEF IInv
<1>1. pc[t] = "116" /\ next[ltail[t].ptr] = lnext[t]
  BY Zenon DEF EnqLink, Goto
<1>2. next[ltail[t].ptr].ptr = NULL /\ NotAfter(ltail[t].ptr, tail.ptr)
  BY <1>0, <1>1, Zenon DEF EnqView
<1>3. ltail[t].ptr = tail.ptr
  BY <1>0, <1>2, LastNode
<1>4. Len(chain) \in Nat /\ Len(chain) \in 1..Len(chain)
  BY <1>0, ChainLength
<1>5. NotAfter(tail.ptr, chain[Len(chain)])
  BY <1>0, <1>4 DEF HeadBehindTail, NotAfter
<1> QED BY <1>0, <1>2, <1>3, <1>4, <1>5, LastNode, Zenon

LEMMA EnqLinkStep ==
  ASSUME IInv, NEW t \in Threads, EnqLink(t)
  PROVE  IInv'
<1>0. /\ TypeOK /\ NextFollowsChain /\ HeadBehindTail /\ Ownership /\ Copying
      /\ SawEmpty /\ Len(chain) > 0 /\ EnqView(t) /\ DeqView(t)
  BY DEF IInv
<1> DEFINE L == Len(chain)
           m == ltail[t].ptr
           k == newNode[t]
<1>1. /\ m = chain[L] /\ m = tail.ptr /\ L \in 1..L /\ next[m].ptr = NULL
      /\ m \in Nodes /\ L \in Nat
  BY <1>0, LinkPoint, EndsLinked, ChainLength, Zenon
<1>2. /\ pc[t] = "116" /\ pc'[t] = "128" /\ got'[t] = {}
      /\ UNCHANGED <<head, tail, val, allocated, arg, newNode, ltail, lnext, lhead, sawEmpty>>
  BY <1>0, Zenon DEF TypeOK, Copying, EnqLink, Goto, memory, locals
<1>3. OwnsNode(t) /\ k \in Nodes /\ k # NULL /\ ~ Linked(k) /\ k # m /\ k \in 1..allocated
      /\ next[k].ptr = NULL
  <2>1. OwnsNode(t)
    BY <1>2 DEF OwnsNode
  <2>2. k \in 1..allocated /\ ~ Linked(k) /\ next[k].ptr = NULL
    BY <1>0, <2>1, OwnNode, Zenon
  <2>3. k \in Nodes /\ k # NULL
    BY <1>0, <2>1, OwnNode, Zenon
  <2> QED BY <1>0, <1>1, <2>1, <2>2, <2>3, EndsLinked, Zenon
<1>4. /\ next' \in [Nodes -> Pointer]
      /\ next'[m].ptr = k
      /\ \A n \in Nodes : n # m => next'[n] = next[n]
  <2>1. [ptr |-> k, count |-> lnext[t].count + 1] \in Pointer
    <3>1. lnext[t] \in Pointer
      BY <1>0 DEF TypeOK
    <3>2. \A c \in Nat : c + 1 \in Nat
      OBVIOUS
    <3>3. lnext[t].count + 1 \in Nat
      BY <3>1, <3>2, PointerType, Zenon
    <3> QED BY <1>3, <3>3, PointerType, Zenon
  <2> QED BY <1>0, <1>1, <2>1, Zenon DEF TypeOK, EnqLink
<1>5. /\ chain' \in Seq(Nodes)
      /\ Len(chain') = L + 1
      /\ \A i \in 1..L : chain'[i] = chain[i]
      /\ chain'[L + 1] = k
  <2>1. chain \in Seq(Nodes) /\ chain' = Append(chain, k) /\ k \in Nodes
    BY <1>0, <1>3 DEF TypeOK, EnqLink
  <2>2. /\ Append(chain, k) \in Seq(Nodes)
        /\ Len(Append(chain, k)) = L + 1
        /\ \A i \in 1..L : Append(chain, k)[i] = chain[i]
        /\ Append(chain, k)[L + 1] = k
    <3> HIDE DEF k
    <3> QED BY <2>1, AppendProperties
  <2> QED BY <2>1, <2>2, Zenon
<1>6. TypeOK'
  <2>1. /\ pc' \in [Threads -> {"idle"} \cup EnqLines \cup DeqLines]
        /\ got' \in [Threads -> {{}, {"ptr"}, {"count"}}]
    BY <1>0, Zenon DEF TypeOK, EnqLines, EnqLink, Goto
  <2> HIDE DEF L, k, m
  <2> QED BY <1>0, <1>2, <1>4, <1>5, <2>1, Zenon DEF TypeOK
<1>7. Frame(t)
  BY <1>0, <1>2, Zenon DEF Frame, TypeOK, EnqLink, Goto, memory, locals
<1>8. \A i \in 1..L : chain[i] \in Nodes /\ chain[i] # k
  BY <1>0, <1>3, ChainElement, Zenon DEF Linked
<1>9. NextFollowsChain' /\ (Len(chain) > 0)'
  <2>1. ASSUME NEW i \in 1..Len(chain'), NEW j \in 1..Len(chain'), i # j
        PROVE  chain'[i] # chain'[j]
    <3>1. CASE i \in 1..L /\ j \in 1..L
      BY <1>0, <1>5, <2>1, <3>1, Zenon DEF NextFollowsChain
    <3>2. CASE i = L + 1 \/ j = L + 1
      <4>1. i \in 1..L \/ j \in 1..L
        BY <1>1, <1>5, <2>1, <3>2
      <4> QED BY <1>5, <1>8, <3>2, <4>1, Zenon
    <3>3. (i \in 1..L \/ i = L + 1) /\ (j \in 1..L \/ j = L + 1)
      BY <1>1, <1>5, IndexArithmetic, Zenon
    <3> QED BY <3>1, <3>2, <3>3, Zenon
  <2>2. ASSUME NEW i \in 1..Len(chain')
        PROVE  next'[chain'[i]].ptr = IF i = Len(chain') THEN NULL ELSE chain'[i + 1]
    <3>1. CASE i = L + 1
      BY <1>3, <1>4, <1>5, <3>1, Zenon
    <3>2. CASE i = L
      <4>1. chain'[L] = m /\ L # Len(chain')
        <5>1. chain'[L] = chain[L]
          BY <1>1, <1>5, Zenon
        <5>2. L # L + 1
          BY <1>1, IndexArithmetic, Zenon
        <5> QED BY <1>1, <1>5, <5>1, <5>2, Zenon
      <4>2. next'[chain'[i]].ptr = k /\ chain'[i + 1] = k
        BY <1>4, <1>5, <3>2, <4>1
      <4> QED BY <3>2, <4>1, <4>2, Zenon
    <3>3. CASE i \in 1..L /\ i # L
      <4>1. i + 1 \in 1..L /\ i # Len(chain')
        BY <1>1, <1>5, <3>3
      <4>2. chain[i] # chain[L]
        BY <1>0, <1>1, <3>3, Zenon DEF NextFollowsChain
      <4>3. next'[chain'[i]].ptr = next[chain[i]].ptr
        BY <1>1, <1>4, <1>5, <1>8, <3>3, <4>2, Zenon
      <4>4. next[chain[i]].ptr = chain[i + 1]
        BY <1>0, <3>3, Zenon DEF NextFollowsChain
      <4> QED BY <1>5, <4>1, <4>3, <4>4, Zenon
    <3> QED BY <1>1, <1>5, <3>1, <3>2, <3>3, IndexArithmetic, Zenon
  <2>3. NextFollowsChain'
    BY <2>1, <2>2, Zenon DEF NextFollowsChain
  <2>4. (Len(chain) > 0)'
    BY <1>1, <1>5
  <2> QED BY <2>3, <2>4
<1>10. HeadBehindTail'
  <2>1. PICK h, l \in 1..L :
          chain[h] = head.ptr /\ chain[l] = tail.ptr /\ h <= l /\ L <= l + 1
    BY <1>0, Zenon DEF HeadBehindTail
  <2>2. l = L
    BY <1>0, <1>1, <2>1, Zenon DEF NextFollowsChain
  <2>3. h \in 1..(L + 1) /\ L \in 1..(L + 1) /\ h <= L /\ L + 1 <= L + 1
    BY <1>1, <2>1, <2>2
  <2>4. chain'[h] = head'.ptr /\ chain'[L] = tail'.ptr
    BY <1>1, <1>2, <1>5, <2>1, Zenon
  <2> QED BY <1>5, <2>3, <2>4, Zenon DEF HeadBehindTail
<1>11. Grows
  <2>1. \A i \in 1..L : i \in 1..Len(chain') /\ chain'[i] = chain[i]
    BY <1>1, <1>5, IndexArithmetic, Zenon
  <2>2. \A n \in Nodes : Linked(n) => Linked(n)' /\ val'[n] = val[n]
    BY <1>2, <2>1 DEF Linked
  <2>3. \A a, b \in Nodes : NotAfter(a, b) => NotAfter(a, b)'
    BY <2>1, Zenon DEF NotAfter
  <2>4. /\ \A a \in Nodes : NotAfter(a, head.ptr) => NotAfter(a, head.ptr)'
        /\ \A a \in Nodes : NotAfter(a, tail.ptr) => NotAfter(a, tail.ptr)'
    BY <1>2, <2>1, Zenon DEF NotAfter
  <2>5. \A n \in Nodes : Linked(n) /\ next[n].ptr # NULL => next'[n].ptr = next[n].ptr
    BY <1>1, <1>4
  <2> QED BY <2>2, <2>3, <2>4, <2>5, Zenon DEF Grows
<1>12. \A u \in Threads : EnqView(u)' /\ DeqView(u)'
  <2>1. EnqView(t)'
    <3>1. NotAfter(ltail[t].ptr, tail.ptr)'
      BY <1>0, <1>1, <1>2, <1>11, EndsLinked, Zenon DEF Grows
    <3> QED BY <1>0, <1>2, <1>3, <1>4, <3>1, Zenon DEF EnqView, HasPtr
  <2>2. DeqView(t)'
    BY <1>0, <1>2, Zenon DEF DeqView, HasPtr, DeqLines
  <2> QED BY <2>1, <2>2, <1>7, <1>11, OthersKeepViews
<1>13. Ownership'
  <2>1. \A i \in 1..Len(chain') : chain'[i] <= allocated'
    <3>1. \A i \in 1..L : chain'[i] <= allocated'
      BY <1>0, <1>2, <1>5, ChainAllocated, Zenon
    <3>2. chain'[L + 1] <= allocated'
      BY <1>2, <1>3, <1>5
    <3>3. \A i \in 1..Len(chain') : i \in 1..L \/ i = L + 1
      BY <1>1, <1>5, IndexArithmetic, Zenon
    <3> QED BY <3>1, <3>2, <3>3, Zenon
  <2>2. ~ OwnsNode(t)'
    BY <1>2, Zenon DEF OwnsNode
  <2>3. ASSUME NEW u \in Threads \ {t}, OwnsNode(u)'
        PROVE  /\ OwnsNode(u)
               /\ ~ Linked(newNode[u])'
               /\ next'[newNode[u]].ptr = NULL
    <3>1. OwnsNode(u)
      BY <1>7, <2>3, Zenon DEF Frame, OwnsNode
    <3>2. /\ newNode[u] \in Nodes /\ ~ Linked(newNode[u]) /\ newNode[u] # k
          /\ next[newNode[u]].ptr = NULL
      BY <1>0, <1>3, <3>1, OwnNode
    <3>3. newNode[u] # m
      BY <1>0, <1>1, <3>2, EndsLinked, Zenon
    <3>4. ~ Linked(newNode[u])'
      <4>1. ASSUME NEW i \in 1..Len(chain') PROVE chain'[i] # newNode[u]
        <5>1. i \in 1..L \/ i = L + 1
          BY <1>1, <1>5
        <5> QED BY <1>5, <3>2, <5>1, Zenon DEF Linked
      <4> QED BY <1>2, <4>1, Zenon DEF Linked
    <3> QED BY <1>4, <3>1, <3>2, <3>3, <3>4, Zenon
  <2>4. ASSUME NEW u \in Threads, OwnsNode(u)'
        PROVE  /\ newNode'[u] \in 1..allocated'
               /\ val'[newNode'[u]] = arg'[u]
               /\ \A v \in Threads : v # u /\ OwnsNode(v)' => newNode'[v] # newNode'[u]
    BY <1>0, <1>2, <2>2, <2>3, <2>4, OwnNode, Zenon
  <2> QED BY <1>2, <2>1, <2>2, <2>3, <2>4, Zenon DEF Ownership
<1>14. SawEmpty'
  <2>1. next'[head.ptr].ptr = NULL => next[head.ptr].ptr = NULL
    BY <1>0, <1>3, <1>4, EndsLinked, Zenon
  <2> QED BY <1>0, <1>2, <1>7, <2>1, Zenon DEF SawEmpty, InDeq, Empty, Frame, DeqLines, TypeOK
<1>15. Copying'
  BY <1>0, <1>2, <1>7 DEF Copying, Frame
<1> QED BY <1>6, <1>9, <1>10, <1>12, <1>13, <1>14, <1>15, Zenon DEF IInv

\* The cas of line 156 moves q->head to the next node, and not past q->tail.
LEMMA DeqUnlinkStep ==
  ASSUME IInv, NEW t \in Threads, DeqUnlink(t)
  PROVE  IInv'
<1>0. /\ TypeOK /\ NextFollowsChain /\ HeadBehindTail /\ Ownership /\ Copying
      /\ SawEmpty /\ Len(chain) > 0 /\ EnqView(t) /\ DeqView(t)
  BY DEF IInv
<1>1. /\ pc[t] = "156" /\ pc'[t] = "163" /\ got'[t] = {} /\ head = lhead[t]
      /\ UNCHANGED <<tail, next, val, allocated, arg, newNode, ltail, lnext, lhead, chain>>
  BY <1>0, Zenon DEF TypeOK, Copying, DeqUnlink, Goto, memory, locals
<1>2. /\ head'.ptr = next[head.ptr].ptr /\ next[head.ptr].ptr # NULL
      /\ head' \in Pointer
  <2>1. lnext[t].ptr # NULL /\ lnext[t].ptr = next[lhead[t].ptr].ptr
    BY <1>0, <1>1 DEF DeqView, DeqLines
  <2>2. head'.ptr = lnext[t].ptr
    BY Zenon DEF DeqUnlink
  <2>3. lnext[t] \in Pointer /\ lhead[t] \in Pointer
    BY <1>0, Zenon DEF TypeOK
  <2>4. head' \in Pointer
    BY <2>3, PointerOf DEF DeqUnlink
  <2> QED BY <1>1, <2>1, <2>2, <2>4, Zenon
<1>3. TypeOK'
  <2>1. sawEmpty' \in SUBSET Threads
    BY <1>0, Zenon DEF TypeOK, DeqUnlink
  <2> QED BY <1>0, <1>1, <1>2, <2>1, Zenon DEF TypeOK, EnqLines, DeqLines, DeqUnlink, Goto, memory, locals
<1>4. Frame(t)
  <2>1. \A u \in Threads \ {t} : pc'[u] = pc[u] /\ got'[u] = got[u]
    BY <1>0, Zenon DEF TypeOK, DeqUnlink, Goto, memory, locals
  <2>2. \A u \in Threads \ {t} : u \in sawEmpty => u \in sawEmpty'
    BY <1>0, <2>1, Zenon DEF SawEmpty, InDeq, DeqUnlink
  <2> QED BY <1>1, <2>1, <2>2, Zenon DEF Frame
<1>5. NextFollowsChain' /\ (Len(chain) > 0)'
  BY <1>0, <1>1, Zenon DEF NextFollowsChain
<1>6. PICK h, l \in 1..Len(chain) :
        chain[h] = head.ptr /\ chain[l] = tail.ptr /\ h <= l /\ Len(chain) <= l + 1
  BY <1>0, Zenon DEF HeadBehindTail
<1>7. h < l
  <2>1. PICK a, b \in 1..Len(chain) :
          chain[a] = lhead[t].ptr /\ chain[b] = ltail[t].ptr /\ a <= b
    BY <1>0, <1>1, Zenon DEF DeqView, DeqLines, NotAfter
  <2>2. PICK c, d \in 1..Len(chain) :
          chain[c] = ltail[t].ptr /\ chain[d] = tail.ptr /\ c <= d
    BY <1>0, <1>1, Zenon DEF DeqView, DeqLines, NotAfter
  <2>3. a # b
    BY <1>0, <1>1, <2>1, Zenon DEF DeqView
  <2>4. a = h /\ b = c /\ d = l
    BY <1>0, <1>1, <1>6, <2>1, <2>2, ChainDistinct
  <2> QED BY <1>0, <2>1, <2>2, <2>3, <2>4, ChainLength
<1>8. HeadBehindTail'
  <2>1. h + 1 \in 1..Len(chain) /\ h + 1 <= l /\ h # Len(chain)
    BY <1>0, <1>6, <1>7, ChainLength, IndexArithmetic, Zenon
  <2>2. chain[h + 1] = next[head.ptr].ptr
    BY <1>0, <1>6, <2>1 DEF NextFollowsChain
  <2> QED BY <1>0, <1>1, <1>2, <1>6, <2>1, <2>2, Zenon DEF HeadBehindTail
<1>9. Grows
  <2>1. ASSUME NEW m \in Nodes, NotAfter(m, head.ptr) PROVE NotAfter(m, head.ptr)'
    <3>1. NotAfter(m, next[head.ptr].ptr)
      BY <1>0, <1>2, <2>1, EndsLinked, NextLinked, NotAfterTrans, Zenon
    <3> QED BY <1>1, <1>2, <3>1, Zenon DEF NotAfter
  <2>2. \A m \in Nodes : NotAfter(m, tail.ptr) => NotAfter(m, tail.ptr)'
    BY <1>1 DEF NotAfter
  <2> QED BY <1>1, <2>1, <2>2, SameList, Zenon DEF Grows
<1>10. \A u \in Threads : EnqView(u)' /\ DeqView(u)'
  <2>1. EnqView(t)' /\ DeqView(t)'
    BY <1>0, <1>1, Zenon DEF EnqView, DeqView, HasPtr, DeqLines
  <2> QED BY <2>1, <1>4, <1>9, OthersKeepViews
<1>11. Ownership'
  <2>1. \A u \in Threads : OwnsNode(u)' => OwnsNode(u)
    BY <1>1, <1>4, Zenon DEF Frame, OwnsNode
  <2> QED BY <1>0, <1>1, <2>1, SameList, Zenon DEF Ownership
<1>12. SawEmpty'
  <2>1. CASE Empty(head')
    BY <1>0, <1>1, <1>4, <2>1, Zenon DEF SawEmpty, InDeq, Empty, Frame, DeqUnlink, TypeOK
  <2>2. CASE ~ Empty(head')
    <3>1. ~ Empty(head)'
      BY <1>1, <2>2, Zenon DEF Empty
    <3> QED BY <1>0, <1>1, <1>4, <2>2, <3>1, Zenon DEF SawEmpty, InDeq, Frame, TypeOK, DeqUnlink
  <2> QED BY <2>1, <2>2
<1>13. Copying'
  BY <1>0, <1>1, <1>4, Zenon DEF Copying, Frame
<1> QED BY <1>3, <1>5, <1>8, <1>10, <1>11, <1>12, <1>13 DEF IInv

-----------------------------------------------------------------------------
(* The inductive invariant *)

LEMMA StutterIInv ==
  ASSUME IInv, UNCHANGED vars
  PROVE  IInv'
<1> USE DEF vars, shared, memory, locals, history
<1>1. TypeOK' /\ NextFollowsChain' /\ HeadBehindTail' /\ (Len(chain) > 0)'
  BY Zenon DEF IInv, TypeOK, NextFollowsChain, HeadBehindTail
<1>2. Ownership' /\ Copying' /\ SawEmpty'
  BY Zenon DEF IInv, Ownership, OwnsNode, Linked, Copying, SawEmpty, InDeq, Empty
<1>3. \A t \in Threads : EnqView(t)' /\ DeqView(t)'
  <2> TAKE t \in Threads
  <2>1. EnqView(t) /\ DeqView(t)
    BY DEF IInv
  <2>2. EnqView(t)'
    BY <2>1, SameList, Zenon DEF EnqView, HasPtr
  <2>3. DeqView(t)'
    BY <2>1, SameList, Zenon DEF DeqView, HasPtr
  <2> QED BY <2>2, <2>3
<1> QED BY <1>1, <1>2, <1>3, Zenon DEF IInv

LEMMA InductiveStep == IInv /\ [Next]_vars => IInv'
<1> SUFFICES ASSUME IInv, [Next]_vars PROVE IInv'
  OBVIOUS
<1>1. CASE UNCHANGED vars
  BY <1>1, StutterIInv, Zenon
<1>2. ASSUME NEW t \in Threads, Call(t) PROVE IInv'
  BY <1>2, EnqLocalSteps, DeqLocalSteps, Zenon DEF Call
<1>3. ASSUME NEW t \in Threads, Step(t) PROVE IInv'
  BY <1>3, EnqLocalSteps, DeqLocalSteps, TailSteps, CreateNodeStep, EnqLinkStep,
     DeqUnlinkStep DEF Step
<1> QED BY <1>1, <1>2, <1>3 DEF Next

\* Every reachable state satisfies the inductive invariant, for any number of
\* threads, values and nodes.
THEOREM Invariance == Spec => []IInv
<1>1. Init => IInv
  BY InitIInv
<1>2. IInv /\ [Next]_vars => IInv'
  BY InductiveStep
<1> QED BY <1>1, <1>2, PTL DEF Spec

\* enq and deq dereference no NULL, whatever the interleaving of their loads:
\* lines 110, 116, 141 and 153 find the node they read.
THEOREM NullSafety == Spec => []NoNullDereference
<1>1. IInv => NoNullDereference
  <2> SUFFICES ASSUME IInv, NEW t \in Threads
               PROVE  /\ pc[t] \in {"110", "116"} => ltail[t].ptr # NULL
                      /\ pc[t] = "141" => lhead[t].ptr # NULL
                      /\ pc[t] = "153" => lnext[t].ptr # NULL
    BY Zenon DEF NoNullDereference
  <2>1. TypeOK /\ EnqView(t) /\ DeqView(t)
    BY DEF IInv
  <2>2. pc[t] \in {"110", "116"} => ltail[t].ptr # NULL
    BY <2>1, NotAfterLinked, Zenon DEF EnqView
  <2>3. ASSUME pc[t] = "141" PROVE lhead[t].ptr # NULL
    <3>1. NotAfter(lhead[t].ptr, head.ptr)
      BY <2>1, <2>3 DEF DeqView, DeqLines
    <3> QED BY <2>1, <3>1, NotAfterLinked, Zenon
  <2>4. pc[t] = "153" => lnext[t].ptr # NULL
    BY <2>1, Zenon DEF DeqView
  <2> QED BY <2>2, <2>3, <2>4
<1> QED BY <1>1, Invariance, PTL

\* The list is one chain of distinct nodes, q->head is never past q->tail and
\* q->tail never more than one node from the end.
THEOREM ListIntegrity == Spec => [](TypeOK /\ NextFollowsChain /\ HeadBehindTail)
<1>1. IInv => TypeOK /\ NextFollowsChain /\ HeadBehindTail
  BY DEF IInv
<1> QED BY <1>1, Invariance, PTL

\* q->head and q->tail only ever move to the next node: no cas with a stale or
\* torn copy takes them back, or past a node, though line 149 installs the count
\* of head in tail.
THEOREM EndsMoveForward == Spec => EndsFollowLinks
<1> DEFINE A == /\ head' # head => head'.ptr = next[head.ptr].ptr
                /\ tail' # tail => tail'.ptr = next[tail.ptr].ptr
<1>1. IInv /\ [Next]_vars => [A]_vars
  <2> SUFFICES ASSUME IInv, Next PROVE A
    BY Zenon
  <2>1. ASSUME NEW t \in Threads, Call(t) PROVE A
    BY <2>1 DEF Call, EnqCall, DeqCall, shared
  <2>2. ASSUME NEW t \in Threads, Step(t) PROVE A
    <3>1. CASE EnqHelp(t)
      BY <3>1, Zenon DEF EnqHelp, Cas, Goto, IInv, EnqView
    <3>2. CASE EnqSwingTail(t)
      BY <3>2, Zenon DEF EnqSwingTail, Cas, Goto, IInv, EnqView
    <3>3. CASE DeqHelp(t)
      BY <3>3, Zenon DEF DeqHelp, Cas, Goto, IInv, DeqView, DeqLines
    <3>4. CASE DeqUnlink(t)
      BY <3>4, Zenon DEF DeqUnlink, Goto, IInv, DeqView, DeqLines
    <3>5. CASE ~ (EnqHelp(t) \/ EnqSwingTail(t) \/ DeqHelp(t) \/ DeqUnlink(t))
      BY <2>2, <3>5, Zenon DEF Step, CreateNodeFails, CreateNode, EnqLoadTail, EnqLoadNext,
         EnqCheckCount, EnqCheckPtr, EnqRetry, EnqLink, DeqLoadHead, DeqLoadTail,
         DeqLoadNext, DeqCheckCount, DeqCheckPtr, DeqRetry, DeqReturnEmpty,
         DeqLoadVal, DeqReturn, shared
    <3> QED BY <3>1, <3>2, <3>3, <3>4, <3>5, Zenon
  <2> QED BY <2>1, <2>2, Zenon DEF Next
<1> QED BY <1>1, Invariance, PTL DEF Spec, EndsFollowLinks

HIDE NodeFacts DEF Words

-----------------------------------------------------------------------------
(* The abstract queue *)

\* The values behind position h of the list c.
ItemsOf(c, h, v) == [i \in 1..(Len(c) - h) |-> v[c[h + i]]]

AbsOp == [t \in Threads |-> AbstractOp(pc[t])]
AbsArg == [t \in Threads |-> IF pc[t] \in DeqLines \ {"163"} THEN None ELSE arg[t]]
Content == Values \cup {None}

LEMMA ItemsOfProperties ==
  ASSUME NEW c \in Seq(Nodes), NEW h \in 1..Len(c), NEW v \in [Nodes -> Content]
  PROVE  /\ ItemsOf(c, h, v) \in Seq(Content)
         /\ Len(ItemsOf(c, h, v)) = Len(c) - h
         /\ \A i \in 1..(Len(c) - h) : ItemsOf(c, h, v)[i] = v[c[h + i]]
<1> HIDE DEF Nodes
<1>1. Len(c) \in Nat /\ h \in Nat /\ Len(c) - h \in Nat
  BY LenProperties
<1>2. \A i \in 1..(Len(c) - h) : h + i \in 1..Len(c)
  BY <1>1
<1>3. \A i \in 1..(Len(c) - h) : v[c[h + i]] \in Content
  BY <1>2, ElementOfSeq
<1> QED BY <1>1, <1>3 DEF ItemsOf

LEMMA PositionUnique ==
  ASSUME NEW c, NEW h \in 1..Len(c),
         \A i, j \in 1..Len(c) : i # j => c[i] # c[j]
  PROVE  (CHOOSE i \in 1..Len(c) : c[i] = c[h]) = h
OBVIOUS

LEMMA ItemsAt ==
  ASSUME NextFollowsChain, NEW h \in 1..Len(chain), chain[h] = head.ptr
  PROVE  Items = ItemsOf(chain, h, val)
<1>1. \A i, j \in 1..Len(chain) : i # j => chain[i] # chain[j]
  BY DEF NextFollowsChain
<1>2. Pos(chain[h]) = h
  BY <1>1, PositionUnique DEF Pos
<1> QED BY <1>2 DEF Items, ItemsOf

LEMMA ItemsAtPrimed ==
  ASSUME NextFollowsChain', NEW h \in 1..Len(chain'), chain'[h] = head'.ptr
  PROVE  Items' = ItemsOf(chain', h, val')
<1>1. \A i, j \in 1..Len(chain') : i # j => chain'[i] # chain'[j]
  BY DEF NextFollowsChain
<1>2. (CHOOSE i \in 1..Len(chain') : chain'[i] = chain'[h]) = h
  BY <1>1, PositionUnique
<1>3. Pos(head.ptr)' = h
  BY <1>2 DEF Pos
<1> QED BY <1>3 DEF Items, ItemsOf

\* The position of q->head in the list, and what follows it.
LEMMA HeadPosition ==
  ASSUME IInv
  PROVE  \E h \in 1..Len(chain) :
           /\ chain[h] = head.ptr
           /\ Items = ItemsOf(chain, h, val)
           /\ Items \in Seq(Content)
           /\ Len(Items) = Len(chain) - h
           /\ \A i \in 1..Len(Items) : Items[i] = val[chain[h + i]]
           /\ Empty(head) <=> h = Len(chain)
<1> USE DEF IInv
<1>1. PICK h \in 1..Len(chain) : chain[h] = head.ptr
  BY DEF HeadBehindTail
<1>2. Items = ItemsOf(chain, h, val)
  BY <1>1, ItemsAt
<1>3. chain \in Seq(Nodes) /\ val \in [Nodes -> Content]
  BY DEF TypeOK, Content
<1>4. Empty(head) <=> h = Len(chain)
  <2>1. CASE h = Len(chain)
    BY <1>1, <2>1 DEF Empty, NextFollowsChain
  <2>2. CASE h # Len(chain)
    <3>1. h + 1 \in 1..Len(chain)
      BY <2>2, LenProperties DEF TypeOK
    <3>2. chain[h + 1] \in Nodes
      BY <3>1, ChainElement
    <3>3. next[chain[h]].ptr = chain[h + 1]
      BY <2>2 DEF NextFollowsChain
    <3>4. chain[h + 1] # NULL
      BY <3>2 DEF NULL, Nodes
    <3>5. next[head.ptr].ptr # NULL
      BY <1>1, <3>3, <3>4
    <3> QED BY <2>2, <3>5 DEF Empty
  <2> QED BY <2>1, <2>2
<1>5. /\ Items \in Seq(Content) /\ Len(Items) = Len(chain) - h
      /\ \A i \in 1..(Len(chain) - h) : Items[i] = val[chain[h + i]]
  <2> HIDE DEF IInv, Nodes
  <2> QED BY <1>2, <1>3, ItemsOfProperties, Zenon
<1> QED
  <2> HIDE DEF IInv, Nodes
  <2> QED BY <1>1, <1>2, <1>4, <1>5, Zenon

\* The queue is empty when q->head's node has no successor.
LEMMA EmptyItems ==
  ASSUME IInv
  PROVE  Empty(head) <=> Items = << >>
<1>1. PICK h \in 1..Len(chain) :
        /\ Items \in Seq(Content)
        /\ Len(Items) = Len(chain) - h
        /\ Empty(head) <=> h = Len(chain)
  BY HeadPosition
<1>2. Len(chain) \in Nat /\ h \in Nat
  BY LenProperties DEF IInv, TypeOK
<1>3. Items = << >> <=> Len(Items) = 0
  BY <1>1, EmptySeq
<1> QED BY <1>1, <1>2, <1>3

LEMMA AbstractOps ==
  /\ AbstractOp("idle") = "idle"
  /\ AbstractOp("128") = "enqed"
  /\ AbstractOp("163") = "deqed"
  /\ AbstractOp("105") = "enq" /\ AbstractOp("116") = "enq"
  /\ AbstractOp("139") = "deq" /\ AbstractOp("143ptr") = "deq" /\ AbstractOp("156") = "deq"
  /\ \A l \in EnqLines \ {"128"} : AbstractOp(l) = "enq"
  /\ \A l \in DeqLines \ {"163"} : AbstractOp(l) = "deq"
BY DEF AbstractOp, EnqLines, DeqLines

LEMMA OpUpdate ==
  ASSUME IInv, NEW t \in Threads, NEW from, NEW to, Goto(t, from, to)
  PROVE  /\ AbsOp[t] = AbstractOp(from)
         /\ AbsOp' = [AbsOp EXCEPT ![t] = AbstractOp(to)]
BY Zenon DEF IInv, TypeOK, AbsOp, Goto

\* Threads other than t keep their abstract argument.
LEMMA ArgUpdate ==
  ASSUME IInv, NEW t \in Threads, NEW v,
         \A u \in Threads \ {t} : pc'[u] = pc[u] /\ arg'[u] = arg[u],
         v = IF pc'[t] \in DeqLines \ {"163"} THEN None ELSE arg'[t]
  PROVE  AbsArg' = [AbsArg EXCEPT ![t] = v]
BY Zenon DEF AbsArg

\* An idle thread has no value in hand.
IdleArg == \A t \in Threads : pc[t] = "idle" => arg[t] = None

LEMMA IdleArgStep == TypeOK /\ IdleArg /\ [Next]_vars => IdleArg'
<1> SUFFICES ASSUME TypeOK, IdleArg, [Next]_vars PROVE IdleArg'
  OBVIOUS
<1> USE DEF IdleArg, TypeOK, Goto
<1>1. CASE UNCHANGED vars
  BY <1>1 DEF vars
<1>2. ASSUME NEW t \in Threads, Call(t) PROVE IdleArg'
  BY <1>2, Zenon DEF Call, EnqCall, DeqCall
<1>3. ASSUME NEW t \in Threads, Step(t) PROVE IdleArg'
  <2>1. CASE CreateNodeFails(t) \/ CreateNode(t)
    BY <2>1, Zenon DEF CreateNodeFails, CreateNode
  <2>2. ASSUME NEW w \in Words,
               EnqLoadTail(t, w) \/ EnqLoadNext(t, w) \/ DeqLoadHead(t, w)
                 \/ DeqLoadTail(t, w) \/ DeqLoadNext(t, w)
        PROVE  IdleArg'
    BY <2>2 DEF EnqLoadTail, EnqLoadNext, DeqLoadHead, DeqLoadTail, DeqLoadNext, LoadWord
  <2>3. CASE EnqCheckCount(t) \/ EnqCheckPtr(t) \/ DeqCheckCount(t) \/ DeqCheckPtr(t)
    BY <2>3, Zenon DEF EnqCheckCount, EnqCheckPtr, DeqCheckCount, DeqCheckPtr
  <2>4. CASE EnqRetry(t) \/ EnqLink(t) \/ EnqHelp(t) \/ EnqSwingTail(t)
    BY <2>4, Zenon DEF EnqRetry, EnqLink, EnqHelp, EnqSwingTail
  <2>5. CASE DeqRetry(t) \/ DeqReturnEmpty(t) \/ DeqHelp(t) \/ DeqLoadVal(t)
    BY <2>5 DEF DeqRetry, DeqReturnEmpty, DeqHelp, DeqLoadVal
  <2>6. CASE DeqUnlink(t) \/ DeqReturn(t)
    BY <2>6 DEF DeqUnlink, DeqReturn
  <2> QED BY <1>3, <2>1, <2>2, <2>3, <2>4, <2>5, <2>6, Zenon DEF Step
<1> QED BY <1>1, <1>2, <1>3 DEF Next

-----------------------------------------------------------------------------
(* Steps *)

Refines == [Abstract!Next]_Abstract!vars

LEMMA SameItems ==
  ASSUME IInv, IInv', UNCHANGED chain, head'.ptr = head.ptr,
         \A i \in 1..Len(chain) : val'[chain[i]] = val[chain[i]]
  PROVE  Items' = Items
<1>1. PICK h \in 1..Len(chain) : chain[h] = head.ptr
  BY Zenon DEF IInv, HeadBehindTail
<1>2. Items = ItemsOf(chain, h, val) /\ Items' = ItemsOf(chain, h, val')
  BY <1>1, ItemsAt, ItemsAtPrimed, Zenon DEF IInv
<1>3. \A i \in 1..(Len(chain) - h) : h + i \in 1..Len(chain)
  BY LenProperties DEF IInv, TypeOK
<1> QED BY <1>2, <1>3, Zenon DEF ItemsOf

\* A step inside a call, before or after its effect, is a stutter.
LEMMA Stutters ==
  ASSUME IInv, NEW t \in Threads, NEW l,
         pc' = [pc EXCEPT ![t] = l], AbstractOp(l) = AbstractOp(pc[t]),
         \A u \in Threads \ {t} : arg'[u] = arg[u],
         arg'[t] = arg[t] \/ (pc[t] \in DeqLines \ {"163"} /\ l \in DeqLines \ {"163"}),
         pc[t] \in DeqLines \ {"163"} <=> l \in DeqLines \ {"163"},
         Items' = Items, UNCHANGED sawEmpty
  PROVE  Refines
<1>1. AbsOp' = AbsOp
  BY DEF AbsOp, IInv, TypeOK
<1>2. AbsArg' = AbsArg
  BY DEF AbsArg, IInv, TypeOK
<1> QED BY <1>1, <1>2 DEF Refines, Abstract!vars, AbsOp, AbsArg

LEMMA EnqCallRefines ==
  ASSUME IInv, IInv', NEW t \in Threads, NEW v \in Values, EnqCall(t, v)
  PROVE  Refines
<1> USE DEF EnqCall, Goto
<1>1. Items' = Items
  BY SameItems DEF shared, memory, history
<1>2. AbsOp[t] = "idle" /\ AbsOp' = [AbsOp EXCEPT ![t] = "enq"]
  <2>1. Goto(t, "idle", "105")
    BY Zenon
  <2> HIDE DEF Goto, EnqCall
  <2> QED BY <2>1, OpUpdate, AbstractOps
<1>3. AbsArg' = [AbsArg EXCEPT ![t] = v]
  BY ArgUpdate, Zenon DEF IInv, TypeOK, DeqLines
<1>4. Abstract!EnqCall(t, v)
  BY <1>1, <1>2, <1>3 DEF Abstract!EnqCall, AbsOp, AbsArg, history
<1> QED BY <1>4 DEF Refines, Abstract!Next

LEMMA EnqReturnRefines ==
  ASSUME IInv, IInv', NEW t \in Threads, EnqSwingTail(t) \/ CreateNodeFails(t)
  PROVE  Refines
<1> USE DEF EnqSwingTail, CreateNodeFails, Goto
<1>1. Items' = Items
  BY SameItems DEF shared, memory, history
<1>2. AbsArg' = [AbsArg EXCEPT ![t] = None]
  BY ArgUpdate, Zenon DEF IInv, TypeOK, DeqLines
<1>3. CASE EnqSwingTail(t)
  <2>1. AbsOp[t] = "enqed" /\ AbsOp' = [AbsOp EXCEPT ![t] = "idle"]
    <3>1. Goto(t, "128", "idle")
      BY <1>3
    <3> HIDE DEF Goto, EnqSwingTail
    <3> QED BY <3>1, OpUpdate, AbstractOps
  <2>2. Abstract!EnqReturn(t)
    BY <1>1, <1>2, <1>3, <2>1, Zenon DEF Abstract!EnqReturn, AbsOp, AbsArg, history
  <2> QED BY <2>2 DEF Refines, Abstract!Next
<1>4. CASE CreateNodeFails(t)
  <2>1. AbsOp[t] = "enq" /\ AbsOp' = [AbsOp EXCEPT ![t] = "idle"]
    <3>1. Goto(t, "105", "idle")
      BY <1>4, Zenon
    <3> HIDE DEF Goto, CreateNodeFails
    <3> QED BY <3>1, OpUpdate, AbstractOps
  <2>2. Abstract!EnqReturnFail(t)
    BY <1>1, <1>2, <1>4, <2>1, Zenon DEF Abstract!EnqReturnFail, AbsOp, AbsArg, history
  <2> QED BY <2>2, Zenon DEF Refines, Abstract!Next
<1> QED BY <1>3, <1>4, Zenon

\* The cas of line 116 appends the argument to the queue.
LEMMA EnqLinkRefines ==
  ASSUME IInv, IInv', NEW t \in Threads, EnqLink(t)
  PROVE  Refines
<1> USE DEF EnqLink, Goto
<1>1. PICK h \in 1..Len(chain) :
           /\ chain[h] = head.ptr
           /\ Items \in Seq(Content)
           /\ Len(Items) = Len(chain) - h
           /\ \A i \in 1..Len(Items) : Items[i] = val[chain[h + i]]
  BY HeadPosition, Zenon
<1> DEFINE k == newNode[t]
<1>2. k \in Nodes /\ val[k] = arg[t]
  BY DEF IInv, Ownership, OwnsNode, TypeOK
<1>3. /\ chain' = Append(chain, k) /\ Len(chain) \in Nat
      /\ Len(chain') = Len(chain) + 1
      /\ \A i \in 1..Len(chain) : chain'[i] = chain[i]
      /\ chain'[Len(chain) + 1] = k
  <2> HIDE DEF Nodes
  <2>1. chain \in Seq(Nodes)
    BY DEF IInv, TypeOK
  <2>2. /\ Len(chain) \in Nat
        /\ Len(Append(chain, k)) = Len(chain) + 1
        /\ \A i \in 1..Len(chain) : Append(chain, k)[i] = chain[i]
        /\ Append(chain, k)[Len(chain) + 1] = k
    <3> HIDE DEF k
    <3> QED BY <1>2, <2>1, AppendProperties, LenProperties
  <2>3. chain' = Append(chain, k)
    BY DEF EnqLink
  <2> QED BY <2>2, <2>3, Zenon
<1>4. UNCHANGED <<head, val, arg, sawEmpty>>
  BY DEF memory
<1>5. h \in 1..Len(chain') /\ chain'[h] = head'.ptr
  BY <1>1, <1>3, <1>4
<1>6. Items' = ItemsOf(chain', h, val)
  BY <1>4, <1>5, ItemsAtPrimed, Zenon DEF IInv
<1>7. Items' = Append(Items, arg[t])
  <2>1. chain' \in Seq(Nodes) /\ val \in [Nodes -> Content] /\ arg[t] \in Content
    BY Zenon DEF IInv, TypeOK, Content
  <2>2. /\ Items' \in Seq(Content)
        /\ Len(Items') = Len(Items) + 1
        /\ \A i \in 1..(Len(Items) + 1) : Items'[i] = val[chain'[h + i]]
    <3>1. /\ Items' \in Seq(Content)
          /\ Len(Items') = Len(chain') - h
          /\ \A i \in 1..(Len(chain') - h) : Items'[i] = val[chain'[h + i]]
      BY <1>5, <1>6, <2>1, ItemsOfProperties, Zenon
    <3>2. Len(chain') - h = Len(Items) + 1
      BY <1>1, <1>3
    <3> QED BY <3>1, <3>2, Zenon
  <2>3. /\ Append(Items, arg[t]) \in Seq(Content)
        /\ Len(Append(Items, arg[t])) = Len(Items) + 1
        /\ \A i \in 1..Len(Items) : Append(Items, arg[t])[i] = Items[i]
        /\ Append(Items, arg[t])[Len(Items) + 1] = arg[t]
    <3>1. Items \in Seq(Content) /\ arg[t] \in Content
      BY <1>1, <2>1
    <3> QED BY <3>1, AppendProperties
  <2>4. ASSUME NEW i \in 1..(Len(Items) + 1)
        PROVE  Items'[i] = Append(Items, arg[t])[i]
    <3>1. CASE i \in 1..Len(Items)
      <4>1. h + i \in 1..Len(chain)
        BY <1>1, <1>3, <3>1
      <4> QED BY <1>1, <1>3, <2>2, <2>3, <3>1, <4>1, Zenon
    <3>2. CASE i = Len(Items) + 1
      <4>1. h + i = Len(chain) + 1
        BY <1>1, <1>3, <3>2
      <4> QED BY <1>2, <1>3, <2>2, <2>3, <3>2, <4>1, Zenon
    <3>3. Len(Items) \in Nat
      BY <1>1, LenProperties
    <3> QED BY <3>1, <3>2, <3>3
  <2> QED BY <2>2, <2>3, <2>4, SeqEqual, Zenon
<1>8. AbsOp[t] = "enq" /\ AbsOp' = [AbsOp EXCEPT ![t] = "enqed"]
  <2>1. Goto(t, "116", "128")
    BY Zenon
  <2> HIDE DEF Goto, EnqLink
  <2> QED BY <2>1, OpUpdate, AbstractOps
<1>9. AbsArg' = AbsArg /\ AbsArg[t] = arg[t]
  BY <1>4, Zenon DEF AbsArg, IInv, TypeOK, DeqLines
<1>10. Abstract!EnqEffect(t)
  BY <1>4, <1>7, <1>8, <1>9 DEF Abstract!EnqEffect, AbsOp, AbsArg
<1> QED BY <1>10, Zenon DEF Refines, Abstract!Next

LEMMA DeqCallRefines ==
  ASSUME IInv, IInv', IdleArg, NEW t \in Threads, DeqCall(t)
  PROVE  Refines
<1>1. UNCHANGED <<shared, memory, chain, arg>>
  BY DEF DeqCall
<1>2. Items' = Items
  BY <1>1, SameItems DEF shared, memory
<1>3. Goto(t, "idle", "139")
  BY DEF DeqCall
<1>4. AbsOp[t] = "idle" /\ AbsOp' = [AbsOp EXCEPT ![t] = "deq"]
  BY <1>3, OpUpdate, AbstractOps
<1>5. AbsArg' = AbsArg
  BY <1>1, <1>3 DEF AbsArg, Goto, IdleArg, IInv, TypeOK, DeqLines
<1>6. sawEmpty' = IF Items = << >> THEN sawEmpty \cup {t} ELSE sawEmpty
  BY EmptyItems, Zenon DEF DeqCall
<1>7. Abstract!DeqCall(t)
  BY <1>2, <1>4, <1>5, <1>6 DEF Abstract!DeqCall, AbsOp, AbsArg
<1> QED BY <1>7 DEF Refines, Abstract!Next

\* A deq returns false only if it has seen the queue empty.
LEMMA DeqReturnEmptyRefines ==
  ASSUME IInv, IInv', NEW t \in Threads, DeqReturnEmpty(t)
  PROVE  Refines
<1>1. UNCHANGED <<shared, memory, chain>> /\ sawEmpty' = sawEmpty \ {t}
  BY Zenon DEF DeqReturnEmpty
<1>2. Items' = Items
  BY <1>1, SameItems, Zenon DEF shared, memory
<1>3. Goto(t, "143ptr", "idle")
  BY DEF DeqReturnEmpty
<1>4. AbsOp[t] = "deq" /\ AbsOp' = [AbsOp EXCEPT ![t] = "idle"]
  BY <1>3, OpUpdate, AbstractOps
<1>5. AbsArg' = AbsArg
  <2>1. /\ pc[t] = "143ptr" /\ pc' = [pc EXCEPT ![t] = "idle"]
        /\ arg' = [arg EXCEPT ![t] = None]
    BY DEF DeqReturnEmpty, Goto
  <2> QED BY <2>1, Zenon DEF AbsArg, IInv, TypeOK, DeqLines
<1>6. t \in sawEmpty
  BY Zenon DEF DeqReturnEmpty, Goto, IInv, DeqView, DeqLines
<1>7. Abstract!DeqReturnEmpty(t)
  BY <1>1, <1>2, <1>4, <1>5, <1>6 DEF Abstract!DeqReturnEmpty, AbsOp, AbsArg
<1> QED BY <1>7 DEF Refines, Abstract!Next

LEMMA DeqReturnRefines ==
  ASSUME IInv, IInv', NEW t \in Threads, DeqReturn(t)
  PROVE  Refines
<1>1. UNCHANGED <<shared, memory, history>>
  BY DEF DeqReturn
<1>2. Items' = Items
  BY <1>1, SameItems DEF shared, memory, history
<1>3. Goto(t, "163", "idle")
  BY DEF DeqReturn
<1>4. AbsOp[t] = "deqed" /\ AbsOp' = [AbsOp EXCEPT ![t] = "idle"]
  BY <1>3, OpUpdate, AbstractOps
<1>5. AbsArg' = [AbsArg EXCEPT ![t] = None]
  BY ArgUpdate, Zenon DEF DeqReturn, Goto, IInv, TypeOK, DeqLines
<1>6. Abstract!DeqReturn(t)
  BY <1>1, <1>2, <1>4, <1>5 DEF Abstract!DeqReturn, AbsOp, AbsArg, history
<1> QED BY <1>6 DEF Refines, Abstract!Next

\* The cas of line 156 removes the oldest value, which line 153 has put in *val.
LEMMA DeqUnlinkRefines ==
  ASSUME IInv, IInv', NEW t \in Threads, DeqUnlink(t)
  PROVE  Refines
<1>1. PICK h \in 1..Len(chain) :
           /\ chain[h] = head.ptr
           /\ Items \in Seq(Content)
           /\ Len(Items) = Len(chain) - h
           /\ \A i \in 1..Len(Items) : Items[i] = val[chain[h + i]]
           /\ Empty(head) <=> h = Len(chain)
  BY HeadPosition, Zenon
<1>2. Len(chain) \in Nat /\ h \in Nat
  BY LenProperties DEF IInv, TypeOK
<1>3. /\ UNCHANGED <<next, val, chain, arg>>
      /\ head'.ptr = lnext[t].ptr /\ head.ptr = lhead[t].ptr /\ pc[t] = "156"
      /\ pc' = [pc EXCEPT ![t] = "163"]
  BY Zenon DEF DeqUnlink, Goto, memory
<1>4. lnext[t].ptr # NULL /\ lnext[t].ptr = next[head.ptr].ptr /\ arg[t] = val[lnext[t].ptr]
  BY <1>3, Zenon DEF IInv, DeqView, DeqLines
<1>5. h # Len(chain) /\ h + 1 \in 1..Len(chain)
  <2>1. h # Len(chain)
    BY <1>1, <1>4, Zenon DEF Empty
  <2> QED BY <1>2, <2>1
<1>6. head'.ptr = chain[h + 1]
  <2>1. NextFollowsChain
    BY Zenon DEF IInv
  <2> QED BY <1>1, <1>3, <1>4, <1>5, <2>1, Zenon DEF NextFollowsChain
<1>7. Items' = ItemsOf(chain, h + 1, val)
  BY <1>3, <1>5, <1>6, ItemsAtPrimed DEF IInv
<1>8. Items # << >> /\ Head(Items) = arg[t]
  <2>1. Items # << >>
    BY <1>1, <1>5, EmptyItems
  <2>2. 1 \in 1..Len(Items)
    BY <1>1, <1>2, <1>5
  <2>3. Items[1] = arg[t]
    BY <1>1, <1>3, <1>4, <1>6, <2>2, Zenon
  <2> QED BY <1>1, <2>1, <2>3
<1>9. Items' = Tail(Items)
  <2>1. chain \in Seq(Nodes) /\ val \in [Nodes -> Content]
    BY DEF IInv, TypeOK, Content
  <2>2. /\ Items' \in Seq(Content)
        /\ Len(Items') = Len(chain) - (h + 1)
        /\ \A i \in 1..(Len(chain) - (h + 1)) : Items'[i] = val[chain[h + 1 + i]]
    BY <1>5, <1>7, <2>1, ItemsOfProperties, Zenon
  <2>3. /\ Tail(Items) \in Seq(Content)
        /\ Len(Tail(Items)) = Len(Items) - 1
        /\ \A i \in 1..Len(Tail(Items)) : Tail(Items)[i] = Items[i + 1]
    BY <1>1, <1>8, HeadTailProperties
  <2>4. Len(Items') = Len(Tail(Items))
    BY <1>1, <1>2, <2>2, <2>3
  <2>5. ASSUME NEW i \in 1..Len(Items') PROVE Items'[i] = Tail(Items)[i]
    <3>1. i + 1 \in 1..Len(Items) /\ h + (i + 1) = h + 1 + i
      BY <1>1, <1>2, <1>5, <2>2
    <3>2. Items'[i] = val[chain[h + (i + 1)]] /\ Tail(Items)[i] = Items[i + 1]
      BY <2>2, <2>3, <2>4, <3>1, Zenon
    <3> QED BY <1>1, <3>1, <3>2, Zenon
  <2> QED BY <2>2, <2>3, <2>4, <2>5, SeqEqual, Zenon
<1>10. Goto(t, "156", "163")
  BY Zenon DEF DeqUnlink
<1>11. AbsOp[t] = "deq" /\ AbsOp' = [AbsOp EXCEPT ![t] = "deqed"]
  BY <1>10, OpUpdate, AbstractOps
<1>12. AbsArg' = [AbsArg EXCEPT ![t] = Head(Items)]
  BY <1>3, <1>8, Zenon DEF AbsArg, IInv, TypeOK, DeqLines
<1>13. sawEmpty' = IF Tail(Items) = << >> THEN {u \in Threads : AbsOp'[u] = "deq"}
                                         ELSE sawEmpty \ {t}
  <2>1. Empty(head)' <=> Items' = << >>
    <3>1. PICK g \in 1..Len(chain') :
            chain'[g] = head'.ptr /\ (next'[head'.ptr].ptr = NULL <=> g = Len(chain'))
      <4>1. CASE h + 1 = Len(chain)
        BY <1>3, <1>5, <1>6, <4>1 DEF IInv, NextFollowsChain
      <4>2. CASE h + 1 # Len(chain)
        <5>1. h + 1 + 1 \in 1..Len(chain)
          BY <1>2, <1>5, <4>2
        <5>2. chain[h + 1 + 1] \in Nodes
          BY <5>1, ChainElement, Zenon DEF IInv
        <5>3. next[chain[h + 1]].ptr = chain[h + 1 + 1]
          BY <1>5, <4>2 DEF IInv, NextFollowsChain
        <5>4. chain[h + 1 + 1] # NULL
          BY <5>2 DEF NULL, Nodes
        <5> QED BY <1>3, <1>5, <1>6, <4>2, <5>3, <5>4
      <4> QED BY <4>1, <4>2, Zenon
    <3>2. g = h + 1
      BY <1>3, <1>5, <1>6, <3>1 DEF IInv, NextFollowsChain
    <3>3. Items' = << >> <=> Len(Items') = 0
      <4>1. Items' \in Seq(Content)
        BY <1>1, <1>8, <1>9, HeadTailProperties
      <4> QED BY <4>1, EmptySeq
    <3>4. Len(Items') = Len(chain) - (h + 1)
      BY <1>1, <1>2, <1>8, <1>9, HeadTailProperties
    <3> QED BY <1>2, <1>3, <3>1, <3>2, <3>3, <3>4 DEF Empty
  <2>2. Empty(head') <=> Tail(Items) = << >>
    BY <1>3, <1>9, <2>1 DEF Empty
  <2>3. ASSUME NEW u \in Threads
        PROVE  pc'[u] \in DeqLines \ {"163"} <=> AbsOp'[u] = "deq"
    <3>1. pc'[u] \in {"idle"} \cup EnqLines \cup DeqLines
      BY Zenon DEF IInv, TypeOK
    <3> QED BY <3>1, Zenon DEF AbsOp, AbstractOp, EnqLines, DeqLines
  <2> QED BY <2>2, <2>3, Zenon DEF DeqUnlink
<1>14. Abstract!DeqEffect(t)
  BY <1>8, <1>9, <1>11, <1>12, <1>13, Zenon DEF Abstract!DeqEffect, AbsOp, AbsArg
<1> QED BY <1>14 DEF Refines, Abstract!Next

\* The steps of a call that are not its invocation, its effect or its return.
Internal(t) ==
  \/ CreateNode(t)
  \/ \E w \in Words : EnqLoadTail(t, w) \/ EnqLoadNext(t, w)
  \/ EnqCheckCount(t) \/ EnqCheckPtr(t) \/ EnqRetry(t) \/ EnqHelp(t)
  \/ \E w \in Words : DeqLoadHead(t, w) \/ DeqLoadTail(t, w) \/ DeqLoadNext(t, w)
  \/ DeqCheckCount(t) \/ DeqCheckPtr(t) \/ DeqRetry(t) \/ DeqHelp(t) \/ DeqLoadVal(t)

LEMMA InternalItems ==
  ASSUME IInv, IInv', NEW t \in Threads, Internal(t)
  PROVE  Items' = Items
<1>1. UNCHANGED <<head, chain>>
  BY Zenon DEF Internal, CreateNode, EnqLoadTail, EnqLoadNext, EnqCheckCount, EnqCheckPtr,
         EnqRetry, EnqHelp, DeqLoadHead, DeqLoadTail, DeqLoadNext, DeqCheckCount,
         DeqCheckPtr, DeqRetry, DeqHelp, DeqLoadVal, shared, history
<1>2. \A i \in 1..Len(chain) : val'[chain[i]] = val[chain[i]]
  <2>1. CASE CreateNode(t)
    <3>1. ASSUME NEW i \in 1..Len(chain) PROVE chain[i] # allocated + 1
      <4>1. chain[i] \in Nodes
        BY ChainElement, Zenon DEF IInv
      <4>2. chain[i] <= allocated
        BY Zenon DEF IInv, Ownership
      <4> QED BY <4>1, <4>2 DEF IInv, TypeOK, Nodes
    <3> QED BY <2>1, <3>1 DEF CreateNode, IInv, TypeOK
  <2>2. CASE ~ CreateNode(t)
    BY <2>2, Zenon DEF Internal, EnqLoadTail, EnqLoadNext, EnqCheckCount, EnqCheckPtr,
         EnqRetry, EnqHelp, DeqLoadHead, DeqLoadTail, DeqLoadNext, DeqCheckCount,
         DeqCheckPtr, DeqRetry, DeqHelp, DeqLoadVal, memory
  <2> QED BY <2>1, <2>2, Zenon
<1> QED BY <1>1, <1>2, SameItems

LEMMA InternalRefines ==
  ASSUME IInv, IInv', NEW t \in Threads, Internal(t)
  PROVE  Refines
<1>1. Items' = Items
  BY InternalItems
<1>2. UNCHANGED sawEmpty
  BY Zenon DEF Internal, CreateNode, EnqLoadTail, EnqLoadNext, EnqCheckCount, EnqCheckPtr,
         EnqRetry, EnqHelp, DeqLoadHead, DeqLoadTail, DeqLoadNext, DeqCheckCount,
         DeqCheckPtr, DeqRetry, DeqHelp, DeqLoadVal, history
<1>3. PICK l : /\ pc' = [pc EXCEPT ![t] = l]
               /\ \/ pc[t] \in EnqLines \ {"128"} /\ l \in EnqLines \ {"128"} /\ arg' = arg
                  \/ /\ pc[t] \in DeqLines \ {"163"} /\ l \in DeqLines \ {"163"}
                     /\ \A u \in Threads \ {t} : arg'[u] = arg[u]
  <2>1. pc = [pc EXCEPT ![t] = pc[t]]
    BY DEF IInv, TypeOK
  <2>2. CASE CreateNode(t) \/ EnqCheckCount(t) \/ EnqCheckPtr(t)
    BY <2>2, Zenon DEF CreateNode, EnqCheckCount, EnqCheckPtr, Goto, EnqLines
  <2>3. CASE EnqRetry(t) \/ EnqHelp(t)
    BY <2>3, Zenon DEF EnqRetry, EnqHelp, Goto, EnqLines
  <2>4. CASE \E w \in Words : EnqLoadTail(t, w) \/ EnqLoadNext(t, w)
    BY <2>1, <2>4, Zenon DEF EnqLoadTail, EnqLoadNext, LoadWord, EnqLines
  <2>5. CASE \E w \in Words : DeqLoadHead(t, w) \/ DeqLoadTail(t, w) \/ DeqLoadNext(t, w)
    BY <2>1, <2>5, Zenon DEF DeqLoadHead, DeqLoadTail, DeqLoadNext, LoadWord, DeqLines
  <2>6. CASE DeqCheckCount(t) \/ DeqCheckPtr(t)
    BY <2>6, Zenon DEF DeqCheckCount, DeqCheckPtr, Goto, DeqLines
  <2>7. CASE DeqRetry(t) \/ DeqHelp(t)
    BY <2>7, Zenon DEF DeqRetry, DeqHelp, Goto, DeqLines
  <2>8. CASE DeqLoadVal(t)
    <3>1. arg \in [Threads -> Content]
      BY DEF IInv, TypeOK, Content
    <3>2. \A u \in Threads \ {t} : arg'[u] = arg[u]
      BY <2>8, <3>1, Zenon DEF DeqLoadVal
    <3>3. pc[t] = "153" /\ pc' = [pc EXCEPT ![t] = "156"]
      BY <2>8 DEF DeqLoadVal, Goto
    <3>4. "153" \in DeqLines \ {"163"} /\ "156" \in DeqLines \ {"163"}
      BY Zenon DEF DeqLines
    <3> QED BY <3>2, <3>3, <3>4, Zenon
  <2> QED BY <2>2, <2>3, <2>4, <2>5, <2>6, <2>7, <2>8, Zenon DEF Internal
<1>4. CASE pc[t] \in EnqLines \ {"128"} /\ l \in EnqLines \ {"128"} /\ arg' = arg
  <2>1. AbstractOp(l) = AbstractOp(pc[t])
    BY <1>4, AbstractOps
  <2>2. pc[t] \notin DeqLines /\ l \notin DeqLines
    BY <1>4 DEF EnqLines, DeqLines
  <2> QED BY <1>1, <1>2, <1>3, <1>4, <2>1, <2>2, Stutters, Zenon
<1>5. CASE /\ pc[t] \in DeqLines \ {"163"} /\ l \in DeqLines \ {"163"}
           /\ \A u \in Threads \ {t} : arg'[u] = arg[u]
  <2>1. AbstractOp(l) = AbstractOp(pc[t])
    BY <1>5, AbstractOps
  <2> QED BY <1>1, <1>2, <1>3, <1>5, <2>1, Stutters, Zenon
<1> QED BY <1>3, <1>4, <1>5

LEMMA InitRefines == Init => Abstract!Init
<1> SUFFICES ASSUME Init PROVE Abstract!Init
  OBVIOUS
<1>1. IInv
  BY InitIInv, Zenon
<1>2. Items = << >>
  BY <1>1, EmptyItems, ConstantsAssumption DEF Init, Empty, NullPointer, Nodes, NULL
<1> QED BY <1>2, AbstractOps, Zenon DEF Init, Abstract!Init

LEMMA StepRefines == IInv /\ IInv' /\ IdleArg /\ [Next]_vars => Refines
<1> SUFFICES ASSUME IInv, IInv', IdleArg, [Next]_vars PROVE Refines
  BY Zenon
<1>1. CASE UNCHANGED vars
  <2>1. Items' = Items
    BY <1>1, SameItems DEF vars, shared, memory, history
  <2> QED BY <1>1, <2>1 DEF vars, history, Refines, Abstract!vars
<1>2. ASSUME NEW t \in Threads, Call(t) PROVE Refines
  BY <1>2, EnqCallRefines, DeqCallRefines DEF Call
<1>3. ASSUME NEW t \in Threads, Step(t) PROVE Refines
  <2>1. \/ Internal(t) \/ EnqSwingTail(t) \/ CreateNodeFails(t) \/ EnqLink(t)
        \/ DeqReturnEmpty(t) \/ DeqReturn(t) \/ DeqUnlink(t)
    BY <1>3 DEF Step, Internal
  <2> QED BY <2>1, InternalRefines, EnqReturnRefines, EnqLinkRefines,
             DeqReturnEmptyRefines, DeqReturnRefines, DeqUnlinkRefines, Zenon
<1> QED BY <1>1, <1>2, <1>3 DEF Next

\* enq and deq of the lock-free queue are linearizable, for any number of
\* threads, values and nodes and in spite of the torn copies: every behaviour
\* maps to one of the atomic first-in first-out queue.
THEOREM Linearizability == Spec => Linearizable
<1>1. Init => Abstract!Init /\ IdleArg
  BY InitRefines DEF Init, IdleArg
<1>2. IInv /\ IdleArg /\ [Next]_vars => IdleArg'
  BY IdleArgStep DEF IInv
<1>3. IInv /\ IInv' /\ IdleArg /\ [Next]_vars => [Abstract!Next]_Abstract!vars
  BY StepRefines DEF Refines
<1> QED BY <1>1, <1>2, <1>3, Invariance, PTL DEF Spec, Linearizable, Abstract!Spec
=============================================================================
