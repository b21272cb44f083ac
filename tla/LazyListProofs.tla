--------------------------- MODULE LazyListProofs ---------------------------
(***************************************************************************)
(* Proofs about LazyList, for any number of threads and nodes and for keys *)
(* between those of the sentinels: the inductive invariant, the assertion  *)
(* of line 100, and linearizability.                                       *)
(***************************************************************************)
EXTENDS LazyList, TLAPS

-----------------------------------------------------------------------------
(* Facts about a state that satisfies the invariant *)

\* The constants, as the provers use them.
LEMMA NodeFacts ==
  /\ Nodes \subseteq Int /\ NULL \in Int /\ NULL \notin Nodes
  /\ Head \in Nodes /\ Tail \in Nodes /\ Head # Tail
  /\ 1..MaxNodes \subseteq Nodes \ {Head, Tail}
BY ListAssumption DEF Nodes, Head, Tail, NULL

\* A key is none of the sentinels'.
LEMMA KeyRange ==
  ASSUME InRange
  PROVE  /\ IntMin \in Int /\ IntMax \in Int
         /\ \A k \in Keys : k \in Int /\ k # None /\ IntMin < k /\ k < IntMax
BY ListAssumption DEF InRange

\* The nodes of a thread's place, and of an unlink under way.
LEMMA ThreadNodes ==
  ASSUME IInv, NEW t \in Threads
  PROVE  /\ pc[t] \in {"walk", "lockPred", "lockCurr", "locked", "unlink", "unlock"} =>
              /\ pred[t] \in Nodes /\ pred[t] # Tail /\ next[pred[t]] # NULL
              /\ curr[t] \in Nodes /\ Linked(curr[t])
         /\ pc[t] = "unlink" =>
              /\ ~ marked[pred[t]] /\ next[pred[t]] = curr[t] /\ marked[curr[t]]
              /\ Linked(pred[t])
         /\ pc[t] # "idle" => key[t] \in Keys
<1>1. View(t)
  BY DEF IInv
<1>2. pred[t] \in Nodes \cup {NULL} /\ curr[t] \in Nodes \cup {NULL} /\ key[t] \in Keys \cup {None}
  BY DEF IInv, TypeOK
<1> QED BY <1>1, <1>2 DEF View, Linked

\* What a thread in find can run into.
LEMMA FindNodes ==
  ASSUME IInv, NEW t \in Threads, op[t] = "find"
  PROVE  /\ Pending(t) /\ key[t] \in Keys /\ Status(key[t]) \in saw[t]
         /\ InList \cup Dying \subseteq met[t]
         /\ \A n \in met[t] : n \in Nodes /\ Linked(n) /\ (marked[n] => next[n] \in met[t])
<1>1. View(t) /\ Seen(t) /\ Path(t)
  BY DEF IInv
<1>2. met[t] \subseteq Nodes
  BY DEF IInv, TypeOK
<1>3. pc[t] \in {"findHead", "find", "found"}
  BY <1>1 DEF View
<1>4. key[t] \in Keys
  BY <1>3, ThreadNodes
<1>5. Pending(t) /\ Status(key[t]) \in saw[t]
  BY <1>1, <1>3 DEF Pending, Seen
<1>6. InList \cup Dying \subseteq met[t] /\ \A n \in met[t] : Linked(n) /\ (marked[n] => next[n] \in met[t])
  BY <1>1 DEF Path
<1> QED BY <1>2, <1>4, <1>5, <1>6

\* A linked node other than the tail has a next field, with a greater key; the
\* nodes of the list are linked, and so are those still to be unlinked.
LEMMA LinkedNodes ==
  ASSUME InRange, IInv
  PROVE  /\ \A n \in Nodes : nkey[n] \in Int
         /\ \A n \in Nodes : Linked(n) /\ n # Tail =>
              /\ next[n] \in Nodes /\ next[n] # NULL /\ Linked(next[n])
              /\ nkey[n] < nkey[next[n]] /\ next[n] # n /\ next[n] # Head
         /\ \A n \in Nodes : Linked(n) /\ n # Tail /\ n # Head => nkey[n] \in Keys
         /\ Head \in InList /\ Tail \in InList
         /\ Dying \subseteq Nodes /\ \A n \in Dying : Linked(n) /\ marked[n]
         /\ Dying \cap InList = {} /\ Head \notin Dying /\ Tail \notin Dying
<1>1. TypeOK /\ SortedLinks
  BY DEF IInv
<1>2. \A n \in Nodes : nkey[n] \in Int
  BY <1>1 DEF TypeOK
<1>3. \A n \in Nodes : Linked(n) /\ n # Tail => next[n] \in Nodes /\ next[n] # NULL /\ Linked(next[n])
                                               /\ nkey[n] < nkey[next[n]]
  BY <1>1 DEF TypeOK, SortedLinks, Linked
<1>4. \A n \in Nodes : Linked(n) /\ n # Tail /\ n # Head => nkey[n] \in Keys
  BY <1>1 DEF SortedLinks, Linked
<1>5. IntMin \in Int /\ \A k \in Keys : k \in Int /\ IntMin < k /\ k < IntMax
  BY KeyRange
<1>6. \A n \in Nodes : Linked(n) /\ n # Tail => next[n] # n /\ next[n] # Head
  <2> SUFFICES ASSUME NEW n \in Nodes, Linked(n), n # Tail
               PROVE  next[n] # n /\ next[n] # Head
    OBVIOUS
  <2>1. nkey[n] \in Int /\ nkey[next[n]] \in Int /\ nkey[n] < nkey[next[n]]
    BY <1>2, <1>3
  <2>2. IntMin <= nkey[n]
    BY <1>1, <1>4, <1>5, <2>1 DEF SortedLinks
  <2> QED BY <1>1, <1>5, <2>1, <2>2 DEF SortedLinks
<1>7. Head \in InList /\ Tail \in InList
  BY <1>1, NodeFacts DEF SortedLinks, InList, Linked
<1>8. \A n \in Dying : n \in Nodes /\ Linked(n) /\ marked[n]
  <2> SUFFICES ASSUME NEW u \in Threads, pc[u] = "unlink"
               PROVE  curr[u] \in Nodes /\ Linked(curr[u]) /\ marked[curr[u]]
    BY DEF Dying
  <2> QED BY ThreadNodes
<1>9. Dying \cap InList = {} /\ Head \notin Dying /\ Tail \notin Dying
  BY <1>1, <1>8 DEF InList, SortedLinks
<1> QED BY <1>2, <1>3, <1>4, <1>6, <1>7, <1>8, <1>9

\* A key is out of the list if a node and its successor are around it.
LEMMA OutBetween ==
  ASSUME InRange, IInv, NEW p \in (InList \cup Dying) \ {Tail}, NEW k \in Int,
         nkey[p] < k, k < nkey[next[p]]
  PROVE  k \notin Contents /\ Status(k) = "out"
<1>1. p \in Nodes /\ Linked(p)
  BY LinkedNodes DEF InList
<1>2. nkey[p] \in Int /\ nkey[next[p]] \in Int
  BY <1>1, LinkedNodes
<1>3. ASSUME NEW n \in InList, nkey[n] = k PROVE FALSE
  BY <1>2, <1>3 DEF IInv, Gaps
<1> QED BY <1>3 DEF Contents, Status

\* A key is in the list if a node of the list has it.
LEMMA InAt ==
  ASSUME InRange, IInv, NEW n \in InList, nkey[n] \in Keys
  PROVE  nkey[n] \in Contents /\ Status(nkey[n]) = "in"
<1>1. n # Head /\ n # Tail
  BY KeyRange DEF IInv, SortedLinks
<1> QED BY <1>1 DEF Contents, Status

\* What lies between two neighbours lies between no others, unless the second
\* pair begins with the node that is being unlinked after the first.
LEMMA Disjoint ==
  ASSUME InRange, IInv, NEW p \in InList \ {Tail}, NEW q \in (InList \cup Dying) \ {Tail}, q # p,
         \A u \in Threads : pc[u] = "unlink" /\ curr[u] = q => pred[u] # p
  PROVE  nkey[next[p]] <= nkey[q] \/ nkey[next[q]] <= nkey[p]
<1>0. /\ p \in Nodes /\ Linked(p) /\ q \in Nodes /\ Linked(q)
      /\ nkey[p] \in Int /\ nkey[q] \in Int /\ nkey[next[p]] \in Int /\ nkey[next[q]] \in Int
  BY LinkedNodes DEF InList
<1>1. CASE q \in InList
  <2>1. nkey[q] <= nkey[p] \/ nkey[next[p]] <= nkey[q]
    BY <1>1 DEF IInv, Gaps
  <2>2. nkey[p] <= nkey[q] \/ nkey[next[q]] <= nkey[p]
    BY <1>1 DEF IInv, Gaps
  <2>3. nkey[p] # nkey[q]
    BY <1>1 DEF IInv, Gaps
  <2> QED BY <1>0, <2>1, <2>2, <2>3
<1>2. CASE q \in Dying
  <2>1. PICK u \in Threads : pc[u] = "unlink" /\ curr[u] = q
    BY <1>2 DEF Dying
  <2>2. PICK r \in InList \ {Tail} : r = pred[u] /\ next[r] = q /\ nkey[r] \in Int /\ nkey[r] < nkey[q]
    <3>1. /\ pred[u] \in Nodes /\ pred[u] # Tail /\ next[pred[u]] # NULL /\ ~ marked[pred[u]]
          /\ next[pred[u]] = q
      BY <2>1, ThreadNodes
    <3>2. pred[u] \in InList /\ Linked(pred[u])
      BY <3>1 DEF InList, Linked
    <3> QED BY <3>1, <3>2, LinkedNodes
  <2>3. r # p
    BY <2>1, <2>2
  <2>4. nkey[r] # nkey[p]
    BY <2>3 DEF IInv, Gaps
  <2>5. nkey[r] <= nkey[p] \/ nkey[next[p]] <= nkey[r]
    BY DEF IInv, Gaps
  <2>6. nkey[p] <= nkey[r] \/ nkey[q] <= nkey[p]
    BY <2>2 DEF IInv, Gaps
  <2>7. nkey[p] <= nkey[q] \/ nkey[next[q]] <= nkey[p]
    BY <1>2 DEF IInv, Gaps
  <2>8. nkey[p] # nkey[q]
    BY <1>2 DEF IInv, Gaps
  <2> QED BY <1>0, <2>2, <2>4, <2>5, <2>6, <2>7, <2>8
<1> QED BY <1>1, <1>2

\* No two threads hold the lock of the same node.
LEMMA HeldByOne ==
  ASSUME IInv, NEW t \in Threads, NEW u \in Threads, t # u,
         pc[t] \in {"locked", "unlink", "unlock"}
  PROVE  /\ pc[u] = "lockCurr" => pred[u] # pred[t] /\ pred[u] # curr[t]
         /\ pc[u] \in {"locked", "unlink", "unlock"} =>
              {pred[u], curr[u]} \cap {pred[t], curr[t]} = {}
BY DEF IInv, Held

\* The node of an add that has not linked it yet.
LEMMA OwnNode ==
  ASSUME IInv, NEW u \in Threads, OwnsNode(u)
  PROVE  /\ newNode[u] \in Nodes \ {Head, Tail} /\ newNode[u] \in 1..allocated
         /\ newNode[u] <= allocated
         /\ next[newNode[u]] = NULL /\ ~ marked[newNode[u]] /\ nkey[newNode[u]] = key[u]
         /\ ~ Linked(newNode[u])
<1>1. /\ newNode[u] \in 1..allocated /\ allocated \in 0..MaxNodes
      /\ next[newNode[u]] = NULL /\ ~ marked[newNode[u]] /\ nkey[newNode[u]] = key[u]
  BY DEF IInv, Owned, TypeOK
<1>2. newNode[u] \in 1..MaxNodes /\ newNode[u] <= allocated
  BY <1>1, ListAssumption
<1>3. newNode[u] \in Nodes \ {Head, Tail}
  BY <1>2, NodeFacts
<1> QED BY <1>1, <1>2, <1>3 DEF Linked

-----------------------------------------------------------------------------
(* Steps that leave the nodes alone *)

\* The list is what it was if no field changes and no thread comes to "unlink" or
\* leaves it.
LEMMA SameList ==
  ASSUME IInv, NEW t \in Threads, UNCHANGED nodes,
         \A u \in Threads \ {t} : pc'[u] = pc[u] /\ curr'[u] = curr[u],
         pc[t] # "unlink", pc'[t] # "unlink"
  PROVE  /\ InList' = InList /\ Dying' = Dying /\ Contents' = Contents
         /\ \A k : Status(k)' = Status(k)
         /\ \A n : Linked(n)' = Linked(n)
         /\ SortedLinks' /\ Gaps' /\ Closed'
<1>1. \A n : Linked(n)' = Linked(n)
  BY DEF Linked, nodes
<1>2. InList' = InList
  BY <1>1 DEF InList, nodes
<1>3. Dying' = Dying
  BY DEF Dying
<1>4. Contents' = Contents
  BY <1>2 DEF Contents, nodes
<1>5. SortedLinks'
  BY <1>1 DEF IInv, SortedLinks, nodes
<1>6. Gaps' /\ Closed'
  BY <1>2, <1>3 DEF IInv, Gaps, Closed, nodes
<1> QED BY <1>1, <1>2, <1>3, <1>4, <1>5, <1>6 DEF Status

\* It is then enough to look at the thread that moves.
LEMMA QuietStep ==
  ASSUME IInv, NEW t \in Threads, UNCHANGED nodes, TypeOK',
         \A u \in Threads \ {t} :
           /\ pc'[u] = pc[u] /\ op'[u] = op[u] /\ key'[u] = key[u] /\ pred'[u] = pred[u]
           /\ curr'[u] = curr[u] /\ newNode'[u] = newNode[u]
           /\ saw'[u] = saw[u] /\ met'[u] = met[u],
         pc[t] # "unlink", pc'[t] # "unlink",
         \A u \in Threads : Held(u)',
         View(t)', Seen(t)', Path(t)',
         OwnsNode(t)' => OwnsNode(t) /\ newNode'[t] = newNode[t] /\ key'[t] = key[t]
  PROVE  IInv' /\ Contents' = Contents
<1>1. /\ InList' = InList /\ Dying' = Dying /\ Contents' = Contents
      /\ \A k : Status(k)' = Status(k)
      /\ \A n : Linked(n)' = Linked(n)
      /\ SortedLinks' /\ Gaps' /\ Closed'
  BY SameList, Zenon
<1>2. ASSUME NEW u \in Threads \ {t} PROVE View(u)' /\ Seen(u)' /\ Path(u)'
  <2>1. View(u)'
    <3>1. View(u) /\ UNCHANGED <<nkey, next, marked>>
      BY Zenon DEF IInv, nodes
    <3> QED BY <1>1, <1>2, <3>1, Zenon DEF View
  <2>2. Seen(u)'
    BY <1>1, <1>2, Zenon DEF IInv, Seen, Pending
  <2>3. Path(u)'
    <3>1. Path(u) /\ UNCHANGED <<nkey, next, marked>>
      BY Zenon DEF IInv, nodes
    <3> QED BY <1>1, <1>2, <3>1, Zenon DEF Path
  <2> QED BY <2>1, <2>2, <2>3
<1>3. \A u \in Threads : OwnsNode(u)' => OwnsNode(u) /\ newNode'[u] = newNode[u] /\ key'[u] = key[u]
  BY Zenon DEF OwnsNode
<1>4. \A u \in Threads : Owned(u)'
  BY <1>3 DEF IInv, Owned, nodes
<1> QED BY <1>1, <1>2, <1>4, Zenon DEF IInv

\* A step of one thread keeps the types.
LEMMA TypeStep ==
  ASSUME InRange, IInv, NEW t \in Threads, Invoke(t) \/ Step(t)
  PROVE  TypeOK'
<1>1. /\ TypeOK /\ View(t)
      /\ \A n \in Nodes : Linked(n) /\ n # Tail => next[n] \in Nodes
      /\ Head \in Nodes /\ next[Head] \in Nodes
      /\ InList \cup Dying \subseteq Nodes
      /\ pc[t] \in {"walk", "lockPred", "lockCurr", "locked", "unlink", "unlock"} =>
           pred[t] \in Nodes /\ curr[t] \in Nodes
      /\ pc[t] = "walk" => next[curr[t]] \in Nodes
      /\ pc[t] \in {"find", "found"} => curr[t] \in Nodes
      /\ \A k : Status(k) \in {"in", "out"}
      /\ {"idle", "create", "start", "walk", "lockPred", "lockCurr", "locked",
          "unlink", "unlock", "findHead", "find", "found"} \subseteq Lines
  <2>1. TypeOK /\ View(t) /\ Path(t)
    BY DEF IInv
  <2>2. pc[t] \in {"walk", "lockPred", "lockCurr", "locked", "unlink", "unlock"} =>
          pred[t] \in Nodes /\ curr[t] \in Nodes
    BY ThreadNodes
  <2>3. pc[t] = "walk" => Linked(curr[t]) /\ curr[t] # Tail
    <3>1. nkey[Tail] = IntMax
      BY DEF IInv, SortedLinks
    <3>2. pc[t] = "walk" => Linked(curr[t]) /\ nkey[curr[t]] < key[t] /\ key[t] \in Keys
      BY <2>1, ThreadNodes DEF View
    <3> QED BY <3>1, <3>2, KeyRange
  <2>4. pc[t] \in {"find", "found"} => curr[t] \in Nodes
    BY <2>1, FindNodes, Zenon DEF View, Path
  <2>5. Head \in Nodes /\ next[Head] \in Nodes /\ InList \cup Dying \subseteq Nodes
    BY LinkedNodes, NodeFacts DEF InList
  <2> QED BY <2>1, <2>2, <2>3, <2>4, <2>5, LinkedNodes, Zenon DEF Status, Lines
<1>2. ASSUME Invoke(t) PROVE TypeOK'
  <2>1. PICK o \in {"add", "delete", "find"}, first \in {"create", "start", "findHead"},
             k \in Keys : Call(t, o, first, k)
    BY <1>2 DEF Invoke, AddCall, DeleteCall, FindCall
  <2>2. (IF o = "find" THEN InList \cup Dying ELSE {}) \in SUBSET Nodes
    BY <1>1
  <2> QED BY <1>1, <2>1, <2>2, Zenon DEF Call, Goto, TypeOK, nodes
<1>3. ASSUME CreateNodeFails(t) PROVE TypeOK'
  BY <1>1, <1>3, Zenon DEF CreateNodeFails, Return, TypeOK, nodes
<1>4. ASSUME CreateNode(t) PROVE TypeOK'
  <2>1. key[t] \in Int
    BY <1>4, ThreadNodes, ListAssumption, Zenon DEF CreateNode, Goto
  <2>2. allocated + 1 \in 1..MaxNodes /\ allocated' \in 0..MaxNodes
    BY <1>1, <1>4, ListAssumption DEF CreateNode, TypeOK
  <2>3. PICK m \in 1..MaxNodes : m = allocated + 1
    BY <2>2
  <2> QED BY <1>1, <1>4, <2>1, <2>2, <2>3, Zenon DEF CreateNode, Goto, TypeOK, history
<1>5. ASSUME Start(t) PROVE TypeOK'
  BY <1>1, <1>5, Zenon DEF Start, Move, Goto, TypeOK, nodes, history
<1>6. ASSUME Walk(t) PROVE TypeOK'
  <2>1. curr[t] \in Nodes /\ next[curr[t]] \in Nodes
    BY <1>1, <1>6 DEF Walk, Move, Goto
  <2> QED BY <1>1, <1>6, <2>1, Zenon DEF Walk, Move, Goto, TypeOK, nodes, history
<1>7. ASSUME LockPred(t) PROVE TypeOK'
  BY <1>1, <1>7, Zenon DEF LockPred, Goto, TypeOK, nodes, locals, history
<1>8. ASSUME LockCurr(t) PROVE TypeOK'
  BY <1>1, <1>8, Zenon DEF LockCurr, Goto, TypeOK, nodes, locals, history
<1>9. ASSUME Retry(t) PROVE TypeOK'
  BY <1>1, <1>9, Zenon DEF Retry, Goto, Unlock, TypeOK, nodes, history
<1>10. ASSUME AddLink(t) PROVE TypeOK'
  <2>1. OwnsNode(t)
    BY <1>10 DEF AddLink, Goto, OwnsNode
  <2>2. newNode[t] \in Nodes
    BY <2>1, OwnNode, Zenon
  <2> QED BY <1>1, <1>10, <2>2, Zenon DEF AddLink, Goto, Show, TypeOK, locals
<1>11. ASSUME DeleteMark(t) PROVE TypeOK'
  BY <1>1, <1>11, Zenon DEF DeleteMark, Goto, Show, TypeOK, locals
<1>12. ASSUME DeleteUnlink(t) PROVE TypeOK'
  <2>1. next[curr[t]] \in Nodes \cup {NULL}
    BY <1>1, <1>12 DEF DeleteUnlink, Goto, TypeOK
  <2> QED BY <1>1, <1>12, <2>1, Zenon DEF DeleteUnlink, Goto, TypeOK, locals, history
<1>13. ASSUME NEW r \in BOOLEAN, Unlock(t), Return(t, r), UNCHANGED nodes PROVE TypeOK'
  BY <1>1, <1>13, Zenon DEF Unlock, Return, TypeOK, nodes
<1>14. ASSUME NEW r \in BOOLEAN, Return(t, r), UNCHANGED <<nodes, mtx>> PROVE TypeOK'
  BY <1>1, <1>14, Zenon DEF Return, TypeOK, nodes
<1>15. ASSUME AddExists(t) \/ DeleteAbsent(t) \/ UnlockReturn(t) PROVE TypeOK'
  BY <1>13, <1>15, Zenon DEF AddExists, DeleteAbsent, UnlockReturn
<1>16. ASSUME DeleteEmpty(t) \/ FindReturn(t) PROVE TypeOK'
  <2>1. PICK r \in BOOLEAN : Return(t, r)
    BY <1>16, Zenon DEF DeleteEmpty, FindReturn
  <2> QED BY <1>14, <1>16, <2>1, Zenon DEF DeleteEmpty, FindReturn
<1>17. ASSUME NEW c \in Nodes \cup {NULL}, NEW from, FindMove(t, from, c) PROVE TypeOK'
  BY <1>1, <1>17, Zenon DEF FindMove, Goto, TypeOK, nodes, history
<1>18. ASSUME FindHead(t) \/ FindWalk(t) PROVE TypeOK'
  <2>1. PICK from, c : c \in Nodes \cup {NULL} /\ FindMove(t, from, c)
    <3>1. CASE FindHead(t)
      BY <1>1, <3>1 DEF FindHead
    <3>2. CASE FindWalk(t)
      <4>1. next[curr[t]] \in Nodes \cup {NULL}
        BY <1>1, <3>2, Zenon DEF FindWalk, FindMove, Goto, TypeOK
      <4> QED BY <3>2, <4>1 DEF FindWalk
    <3> QED BY <1>18, <3>1, <3>2, Zenon
  <2> QED BY <1>17, <2>1
<1> QED BY <1>2, <1>3, <1>4, <1>5, <1>6, <1>7, <1>8, <1>9, <1>10, <1>11, <1>12, <1>15, <1>16, <1>18
        DEF Step

\* Locks taken or released by a thread leave the others their locks.
LEMMA HeldByOthers ==
  ASSUME IInv, NEW t \in Threads,
         \A n \in Nodes : mtx'[n] = mtx[n] \/ mtx[n] \in {None, t},
         \A u \in Threads \ {t} : pc'[u] = pc[u] /\ pred'[u] = pred[u] /\ curr'[u] = curr[u]
  PROVE  \A u \in Threads \ {t} : Held(u)'
<1> SUFFICES ASSUME NEW u \in Threads \ {t} PROVE Held(u)'
  BY Zenon
<1>1. Held(u)
  BY DEF IInv
<1>2. pc[u] \in {"lockCurr", "locked", "unlink", "unlock"} => pred[u] \in Nodes /\ curr[u] \in Nodes
  BY ThreadNodes
<1>3. u # None
  BY ListAssumption
<1> QED BY <1>1, <1>2, <1>3 DEF Held

\* unlock(pred); unlock(curr).
LEMMA UnlockHeld ==
  ASSUME IInv, NEW t \in Threads, Unlock(t), pc[t] \in {"locked", "unlock"},
         \A u \in Threads \ {t} : pc'[u] = pc[u] /\ pred'[u] = pred[u] /\ curr'[u] = curr[u],
         pc'[t] \in {"idle", "start"}
  PROVE  \A u \in Threads : Held(u)'
<1>1. TypeOK /\ Held(t)
  BY DEF IInv
<1>2. \A n \in Nodes : mtx'[n] = mtx[n] \/ mtx[n] \in {None, t}
  BY <1>1 DEF Unlock, TypeOK, Held
<1>3. Held(t)'
  BY Zenon DEF Held
<1> QED BY <1>2, <1>3, HeldByOthers

\* A return leaves nothing to be said of the thread.
LEMMA QuietReturn ==
  ASSUME IInv, NEW t \in Threads, NEW r, Return(t, r), UNCHANGED nodes, TypeOK',
         pc[t] # "unlink", \A u \in Threads : Held(u)'
  PROVE  IInv' /\ Contents' = Contents
<1>1. /\ pc'[t] = "idle" /\ op'[t] = None /\ key'[t] = None /\ saw'[t] = {}
      /\ \A u \in Threads \ {t} :
           /\ pc'[u] = pc[u] /\ op'[u] = op[u] /\ key'[u] = key[u] /\ pred'[u] = pred[u]
           /\ curr'[u] = curr[u] /\ newNode'[u] = newNode[u]
           /\ saw'[u] = saw[u] /\ met'[u] = met[u]
  BY DEF Return, IInv, TypeOK
<1>2. View(t)' /\ Seen(t)' /\ Path(t)' /\ ~ OwnsNode(t)'
  BY <1>1, ListAssumption DEF View, Seen, Pending, Path, OwnsNode
<1> QED BY <1>1, <1>2, QuietStep, Zenon

\* The calls that return without a store.
LEMMA ReturnSteps ==
  ASSUME InRange, IInv, NEW t \in Threads,
         \/ CreateNodeFails(t) \/ AddExists(t) \/ DeleteEmpty(t) \/ DeleteAbsent(t)
         \/ UnlockReturn(t) \/ FindReturn(t)
  PROVE  IInv' /\ Contents' = Contents
<1>1. TypeOK /\ TypeOK'
  BY TypeStep, Zenon DEF IInv, Step
<1>2. ASSUME NEW r, Return(t, r)
      PROVE  /\ pc'[t] = "idle"
             /\ \A u \in Threads \ {t} : pc'[u] = pc[u] /\ pred'[u] = pred[u] /\ curr'[u] = curr[u]
  BY <1>1, <1>2 DEF Return, TypeOK
<1>3. CASE AddExists(t) \/ DeleteAbsent(t) \/ UnlockReturn(t)
  <2>1. PICK r : Return(t, r)
    BY <1>3, Zenon DEF AddExists, DeleteAbsent, UnlockReturn
  <2>2. Unlock(t) /\ pc[t] \in {"locked", "unlock"} /\ UNCHANGED nodes
    BY <1>3, Zenon DEF AddExists, DeleteAbsent, UnlockReturn
  <2>3. \A u \in Threads : Held(u)'
    BY <1>2, <2>1, <2>2, UnlockHeld
  <2> QED BY <1>1, <2>1, <2>2, <2>3, QuietReturn
<1>4. CASE CreateNodeFails(t) \/ DeleteEmpty(t) \/ FindReturn(t)
  <2>1. PICK r : Return(t, r)
    BY <1>4, Zenon DEF CreateNodeFails, DeleteEmpty, FindReturn
  <2>2. mtx' = mtx /\ pc[t] # "unlink" /\ UNCHANGED nodes
    BY <1>4, Zenon DEF CreateNodeFails, DeleteEmpty, FindReturn
  <2>3. Held(t)'
    BY <1>2, <2>1 DEF Held
  <2>4. \A u \in Threads : Held(u)'
    BY <1>2, <2>1, <2>2, <2>3, HeldByOthers, Zenon
  <2> QED BY <1>1, <2>1, <2>2, <2>4, QuietReturn, Zenon
<1> QED BY <1>3, <1>4

-----------------------------------------------------------------------------
(* Calls and traversals *)

\* add, delete and find are called.
LEMMA InvokeStep ==
  ASSUME InRange, IInv, NEW t \in Threads, Invoke(t)
  PROVE  IInv' /\ Contents' = Contents
<1>1. TypeOK /\ View(t) /\ TypeOK'
  BY TypeStep DEF IInv
<1>2. PICK o, first, k : /\ Call(t, o, first, k) /\ k \in Keys
                         /\ \/ o = "add" /\ first = "create"
                            \/ o = "delete" /\ first = "start"
                            \/ o = "find" /\ first = "findHead"
  BY Zenon DEF Invoke, AddCall, DeleteCall, FindCall
<1>3. /\ pc[t] = "idle" /\ pc'[t] = first /\ op'[t] = o /\ key'[t] = k
      /\ saw'[t] = {Status(k)}
      /\ o = "find" => met'[t] = InList \cup Dying
      /\ UNCHANGED <<nodes, mtx>>
      /\ \A u \in Threads \ {t} :
           /\ pc'[u] = pc[u] /\ op'[u] = op[u] /\ key'[u] = key[u] /\ pred'[u] = pred[u]
           /\ curr'[u] = curr[u] /\ newNode'[u] = newNode[u]
           /\ saw'[u] = saw[u] /\ met'[u] = met[u]
  BY <1>1, <1>2 DEF Call, Goto, TypeOK
<1>4. k \in Int /\ k # None
  BY <1>2, KeyRange
<1>5. /\ InList' = InList /\ Dying' = Dying
      /\ \A c : Status(c)' = Status(c)
      /\ \A n : Linked(n)' = Linked(n)
  BY <1>2, <1>3, <1>4, SameList, Zenon
<1>6. \A u \in Threads : Held(u)'
  <2>1. Held(t)'
    BY <1>2, <1>3, <1>4, Zenon DEF Held
  <2> QED BY <1>3, <2>1, HeldByOthers
<1>7. View(t)' /\ Seen(t)' /\ ~ OwnsNode(t)'
  <2>1. Seen(t)'
    BY <1>2, <1>3, <1>4, <1>5, Zenon DEF Seen, Pending
  <2> QED BY <1>2, <1>3, <1>4, <2>1, Zenon DEF View, OwnsNode
<1>8. Path(t)'
  <2>1. CASE o = "find"
    <3>1. ASSUME NEW n \in InList \cup Dying
          PROVE  /\ Linked(n)
                 /\ marked[n] => /\ next[n] \in InList \cup Dying
                                 /\ nkey[n] = k => "out" = Status(k)
                                 /\ nkey[n] < k /\ k < nkey[next[n]] => "out" = Status(k)
      <4>1. n \in Nodes /\ Linked(n)
        BY LinkedNodes, Zenon DEF InList
      <4>2. marked[n] => n \in Dying /\ n \in (InList \cup Dying) \ {Tail}
        BY LinkedNodes, Zenon DEF InList
      <4>3. marked[n] => next[n] \in InList \cup Dying
        BY <4>2, Zenon DEF IInv, Closed
      <4>4. marked[n] /\ nkey[n] = k => "out" = Status(k)
        BY <4>2 DEF IInv, Gaps, Contents, Status
      <4>5. marked[n] /\ nkey[n] < k /\ k < nkey[next[n]] => "out" = Status(k)
        BY <1>4, <4>2, OutBetween, Zenon
      <4> QED BY <4>1, <4>3, <4>4, <4>5
    <3> QED BY <1>2, <1>3, <1>4, <1>5, <2>1, <3>1, Zenon DEF Path, nodes
  <2>2. CASE o # "find"
    BY <1>3, <2>2 DEF Path
  <2> QED BY <2>1, <2>2
<1> QED BY <1>1, <1>2, <1>3, <1>6, <1>7, <1>8, QuietStep

\* pred = l->head; curr = pred->next, and pred = curr; curr = pred->next.
LEMMA MoveStep ==
  ASSUME InRange, IInv, NEW t \in Threads, Start(t) \/ Walk(t)
  PROVE  IInv' /\ Contents' = Contents
<1>1. TypeOK /\ SortedLinks /\ View(t) /\ Seen(t) /\ TypeOK'
  BY TypeStep, Zenon DEF IInv, Step
<1>2. PICK p, c : /\ p = IF pc[t] = "start" THEN Head ELSE curr[t]
                  /\ c = next[p]
  BY Zenon
<1>3. /\ pc[t] \in {"start", "walk"}
      /\ pc'[t] = (IF nkey[c] < key[t] /\ c # Tail THEN "walk" ELSE "lockPred")
      /\ pred'[t] = p /\ curr'[t] = c
      /\ UNCHANGED <<nodes, mtx, op, key, newNode, saw, met>>
      /\ \A u \in Threads \ {t} : pc'[u] = pc[u] /\ pred'[u] = pred[u] /\ curr'[u] = curr[u]
  BY <1>1, <1>2 DEF Start, Walk, Move, Goto, TypeOK, history
<1>4. key[t] \in Keys /\ key[t] \in Int /\ IntMin < key[t] /\ key[t] < IntMax
  BY <1>3, ThreadNodes, KeyRange, Zenon
<1>5. p \in Nodes /\ Linked(p) /\ p # Tail /\ nkey[p] < key[t]
  <2>1. CASE pc[t] = "start"
    BY <1>1, <1>2, <1>4, <2>1, NodeFacts, Zenon DEF SortedLinks, Linked
  <2>2. CASE pc[t] = "walk"
    <3>1. p = curr[t] /\ p \in Nodes /\ Linked(p) /\ nkey[p] < key[t]
      BY <1>1, <1>2, <2>2, ThreadNodes, Zenon DEF View
    <3> QED BY <1>1, <1>4, <3>1, KeyRange DEF SortedLinks
  <2> QED BY <1>3, <2>1, <2>2, Zenon
<1>6. c \in Nodes /\ c # NULL /\ next[p] # NULL /\ p # NULL /\ Linked(c) /\ nkey[c] \in Int
  BY <1>2, <1>5, LinkedNodes, NodeFacts, Zenon
<1>7. pc'[t] = "lockPred" => key[t] <= nkey[c]
  BY <1>1, <1>3, <1>4, <1>6 DEF SortedLinks
<1>8. \A n : Linked(n)' = Linked(n)
  BY <1>3, Zenon DEF Linked, nodes
<1>9. View(t)'
  BY <1>1, <1>3, <1>5, <1>6, <1>7, <1>8, Zenon DEF View, nodes
<1>10. Seen(t)'
  <2>1. \A k : Status(k)' = Status(k)
    BY <1>3, SameList, Zenon
  <2> QED BY <1>1, <1>3, <2>1, Zenon DEF Seen, Pending
<1>11. Path(t)'
  BY <1>1, <1>3, Zenon DEF View, Path
<1>12. OwnsNode(t)' => OwnsNode(t)
  BY <1>3 DEF OwnsNode
<1>13. \A u \in Threads : Held(u)'
  <2>1. Held(t)'
    BY <1>3, Zenon DEF Held
  <2> QED BY <1>3, <2>1, HeldByOthers, Zenon
<1> QED BY <1>1, <1>3, <1>9, <1>10, <1>11, <1>12, <1>13, QuietStep, Zenon

\* lock(pred) and lock(curr).
LEMMA LockStep ==
  ASSUME InRange, IInv, NEW t \in Threads, LockPred(t) \/ LockCurr(t)
  PROVE  IInv' /\ Contents' = Contents
<1>1. TypeOK /\ View(t) /\ Seen(t) /\ Held(t) /\ TypeOK'
  BY TypeStep, Zenon DEF IInv, Step
<1>2. /\ UNCHANGED <<nodes, op, key, pred, curr, newNode, saw, met>>
      /\ pc[t] \in {"lockPred", "lockCurr"}
      /\ pc'[t] = IF pc[t] = "lockPred" THEN "lockCurr" ELSE "locked"
      /\ \A u \in Threads \ {t} : pc'[u] = pc[u]
  BY <1>1, Zenon DEF LockPred, LockCurr, Goto, locals, history, TypeOK
<1>3. PICK n : /\ n = (IF pc[t] = "lockPred" THEN pred[t] ELSE curr[t])
               /\ mtx[n] = None /\ mtx' = [mtx EXCEPT ![n] = t]
  BY <1>2, Zenon DEF LockPred, LockCurr, Goto
<1>4. n \in Nodes /\ pred[t] \in Nodes /\ curr[t] \in Nodes /\ mtx'[n] = t
      /\ \A m \in Nodes \ {n} : mtx'[m] = mtx[m]
  <2>1. pred[t] \in Nodes /\ curr[t] \in Nodes
    BY <1>2, ThreadNodes
  <2> QED BY <1>1, <1>2, <1>3, <2>1, Zenon DEF TypeOK
<1>5. t # None
  BY ListAssumption, Zenon
<1>6. Held(t)'
  BY <1>1, <1>2, <1>3, <1>4, <1>5, Zenon DEF Held
<1>7. \A u \in Threads : Held(u)'
  <2>1. \A m \in Nodes : mtx'[m] = mtx[m] \/ mtx[m] \in {None, t}
    BY <1>3, <1>4
  <2> QED BY <1>2, <1>6, <2>1, HeldByOthers
<1>8. \A n2 : Linked(n2)' = Linked(n2)
  BY <1>2, Zenon DEF Linked, nodes
<1>9. View(t)'
  BY <1>1, <1>2, <1>8, Zenon DEF View, nodes
<1>10. Seen(t)'
  <2>1. \A k : Status(k)' = Status(k)
    BY <1>2, SameList, Zenon
  <2> QED BY <1>1, <1>2, <2>1, Zenon DEF Seen, Pending
<1>11. Path(t)' /\ (OwnsNode(t)' => OwnsNode(t))
  BY <1>1, <1>2, Zenon DEF View, Path, OwnsNode
<1> QED BY <1>1, <1>2, <1>7, <1>9, <1>10, <1>11, QuietStep

\* The two nodes are unlocked to start over.
LEMMA RetryStep ==
  ASSUME InRange, IInv, NEW t \in Threads, Retry(t)
  PROVE  IInv' /\ Contents' = Contents
<1>1. TypeOK /\ View(t) /\ Seen(t) /\ TypeOK'
  BY TypeStep, Zenon DEF IInv, Step
<1>2. /\ UNCHANGED <<nodes, op, key, newNode, saw, met>>
      /\ pc[t] = "locked" /\ pc'[t] = "start" /\ Unlock(t)
      /\ \A u \in Threads \ {t} : pc'[u] = pc[u] /\ pred'[u] = pred[u] /\ curr'[u] = curr[u]
  BY <1>1, Zenon DEF Retry, Goto, history, TypeOK
<1>3. \A u \in Threads : Held(u)'
  BY <1>2, UnlockHeld
<1>4. View(t)' /\ Path(t)' /\ (OwnsNode(t)' => OwnsNode(t))
  BY <1>1, <1>2, Zenon DEF View, Path, OwnsNode
<1>5. Seen(t)'
  <2>1. \A k : Status(k)' = Status(k)
    BY <1>2, SameList, Zenon
  <2> QED BY <1>1, <1>2, <2>1 DEF Seen, Pending
<1> QED BY <1>1, <1>2, <1>3, <1>4, <1>5, QuietStep

\* What find comes to: the head, or the successor of a node it has met.
LEMMA FindPlace ==
  ASSUME InRange, IInv, NEW t \in Threads, pc[t] = "find"
  PROVE  /\ next[curr[t]] \in met[t]
         /\ key[t] < nkey[next[curr[t]]] => "out" \in saw[t]
<1>1. TypeOK /\ SortedLinks /\ View(t) /\ Seen(t) /\ Path(t) /\ Closed
  BY Zenon DEF IInv
<1>2. op[t] = "find" /\ key[t] \in Keys /\ Pending(t)
  BY <1>1, FindNodes, Zenon DEF View
<1>3. PICK c : c = curr[t] /\ c \in met[t] /\ c \in Nodes /\ Linked(c) /\ nkey[c] < key[t]
  BY <1>1, <1>2, FindNodes, Zenon DEF Path
<1>4. key[t] \in Int /\ c # Tail
  BY <1>1, <1>2, <1>3, KeyRange DEF SortedLinks
<1>5. CASE marked[c]
  BY <1>1, <1>2, <1>3, <1>5, Zenon DEF Path
<1>6. CASE ~ marked[c]
  <2>1. c \in (InList \cup Dying) \ {Tail}
    BY <1>3, <1>4, <1>6, Zenon DEF InList
  <2>2. next[c] \in met[t]
    BY <1>1, <1>2, <2>1 DEF Closed, Path
  <2>3. key[t] < nkey[next[c]] => Status(key[t]) = "out"
    BY <1>3, <1>4, <2>1, OutBetween, Zenon
  <2> QED BY <1>1, <1>2, <1>3, <2>2, <2>3, Zenon DEF Seen
<1> QED BY <1>5, <1>6

\* curr = list->head, and curr = curr->next.
LEMMA FindStepInv ==
  ASSUME InRange, IInv, NEW t \in Threads, FindHead(t) \/ FindWalk(t)
  PROVE  IInv' /\ Contents' = Contents
<1>1. TypeOK /\ SortedLinks /\ View(t) /\ Seen(t) /\ Path(t) /\ TypeOK'
  BY TypeStep DEF IInv, Step
<1>2. PICK c : c = IF pc[t] = "findHead" THEN Head ELSE next[curr[t]]
  BY Zenon
<1>3. /\ UNCHANGED <<nodes, mtx, op, key, pred, newNode, saw, met>>
      /\ pc[t] \in {"findHead", "find"}
      /\ pc'[t] = (IF nkey[c] < key[t] THEN "find" ELSE "found") /\ curr'[t] = c
      /\ \A u \in Threads \ {t} : pc'[u] = pc[u] /\ curr'[u] = curr[u]
  BY <1>1, <1>2 DEF FindHead, FindWalk, FindMove, Goto, history, TypeOK
<1>4. op[t] = "find" /\ key[t] \in Keys /\ key[t] \in Int /\ IntMin < key[t]
  BY <1>1, <1>3, FindNodes, KeyRange, Zenon DEF View
<1>5. c \in met[t] /\ (key[t] < nkey[c] => "out" \in saw[t])
  <2>1. CASE pc[t] = "findHead"
    <3>1. c \in met[t]
      BY <1>1, <1>2, <1>4, <2>1, LinkedNodes, Zenon DEF Path
    <3>2. nkey[c] = IntMin
      BY <1>1, <1>2, <2>1, Zenon DEF SortedLinks
    <3> QED BY <3>1, <3>2, <1>4, KeyRange
  <2>2. CASE pc[t] = "find"
    BY <1>2, <2>2, FindPlace, Zenon
  <2> QED BY <1>3, <2>1, <2>2, Zenon
<1>6. nkey[c] \in Int
  BY <1>1, <1>5, Zenon DEF TypeOK
<1>7. /\ InList' = InList /\ Dying' = Dying
      /\ \A k : Status(k)' = Status(k)
      /\ \A n : Linked(n)' = Linked(n)
  BY <1>3, SameList, Zenon
<1>8. Path(t)'
  <2>1. pc'[t] = "found" => key[t] <= nkey[c]
    BY <1>3, <1>4, <1>6
  <2> QED BY <1>1, <1>3, <1>4, <1>5, <1>7, <2>1, Zenon DEF Path, nodes
<1>9. View(t)' /\ ~ OwnsNode(t)'
  BY <1>1, <1>3, <1>4, Zenon DEF View, OwnsNode
<1>10. Seen(t)'
  BY <1>1, <1>3, <1>7, Zenon DEF Seen, Pending
<1>11. \A u \in Threads : Held(u)'
  <2>1. Held(t)'
    BY <1>3, Zenon DEF Held
  <2> QED BY <1>3, <2>1, HeldByOthers, Zenon
<1> QED BY <1>1, <1>3, <1>8, <1>9, <1>10, <1>11, QuietStep, Zenon

-----------------------------------------------------------------------------
(* Steps that store into nodes *)

\* A thread's view outlasts the stores of the others.
LEMMA ViewKept ==
  ASSUME IInv, NEW u \in Threads,
         pc'[u] = pc[u], op'[u] = op[u], key'[u] = key[u], pred'[u] = pred[u], curr'[u] = curr[u],
         \A n \in Nodes : Linked(n) => Linked(n)' /\ nkey'[n] = nkey[n],
         \A n \in Nodes : next[n] # NULL => next'[n] # NULL,
         pc[u] = "unlink" => /\ ~ marked'[pred[u]] /\ next'[pred[u]] = next[pred[u]]
                             /\ marked'[curr[u]]
  PROVE  View(u)'
<1>1. View(u)
  BY Zenon DEF IInv
<1>2. pc[u] \in {"walk", "lockPred", "lockCurr", "locked", "unlink", "unlock"} =>
        /\ pred[u] \in Nodes /\ curr[u] \in Nodes
        /\ next'[pred[u]] # NULL /\ nkey'[pred[u]] = nkey[pred[u]]
        /\ Linked(curr[u])' /\ nkey'[curr[u]] = nkey[curr[u]]
  <2>1. pc[u] \in {"walk", "lockPred", "lockCurr", "locked", "unlink", "unlock"} =>
          pred[u] \in Nodes /\ curr[u] \in Nodes /\ next[pred[u]] # NULL /\ Linked(curr[u])
    BY ThreadNodes, Zenon
  <2>2. PICK p, c : p = pred[u] /\ c = curr[u]
    BY Zenon
  <2>3. /\ p \in Nodes /\ next[p] # NULL => next'[p] # NULL /\ nkey'[p] = nkey[p]
        /\ c \in Nodes /\ Linked(c) => Linked(c)' /\ nkey'[c] = nkey[c]
    <3>1. next[p] # NULL => Linked(p)
      BY Zenon DEF Linked
    <3> QED BY <3>1, Zenon
  <2>4. Linked(c)' => Linked(curr[u])'
    BY <2>2, Zenon DEF Linked
  <2> QED BY <2>1, <2>2, <2>3, <2>4, Zenon
<1>3. /\ pc'[u] = pc[u] /\ op'[u] = op[u] /\ key'[u] = key[u] /\ pred'[u] = pred[u] /\ curr'[u] = curr[u]
      /\ pc[u] = "unlink" => /\ ~ marked'[pred[u]] /\ next'[pred[u]] = next[pred[u]]
                             /\ marked'[curr[u]]
  BY Zenon
<1> QED BY <1>1, <1>2, <1>3, Zenon DEF View

\* A node is its creator's own while nothing is stored into it.
LEMMA OwnedKept ==
  ASSUME IInv, UNCHANGED <<op, key, newNode, nkey, allocated>>,
         \A u \in Threads : OwnsNode(u)' =>
           OwnsNode(u) /\ next'[newNode[u]] = NULL /\ ~ marked'[newNode[u]]
  PROVE  \A u \in Threads : Owned(u)'
BY Zenon DEF IInv, Owned

\* A change of the status of t's key is seen by the others.
LEMMA ShowSeen ==
  ASSUME IInv, NEW t \in Threads, NEW u \in Threads \ {t}, NEW s, NEW k, Show(t, s),
         key[t] = k, Status(k)' = s, \A c : c # k => Status(c)' = Status(c),
         pc'[u] = pc[u], key'[u] = key[u]
  PROVE  Seen(u)'
<1>1. saw'[u] = IF Pending(u) /\ key[u] = k THEN saw[u] \cup {s} ELSE saw[u]
  BY Zenon DEF Show
<1>2. Seen(u) /\ (Pending(u)' <=> Pending(u))
  BY Zenon DEF IInv, Pending
<1>3. PICK c : c = key[u] /\ c = key'[u]
  OBVIOUS
<1>4. Status(c)' = IF c = k THEN s ELSE Status(c)
  OBVIOUS
<1> QED BY <1>1, <1>2, <1>3, <1>4, Zenon DEF Seen, Status

\* create_node returns a node that nothing leads to.
LEMMA CreateNodeStep ==
  ASSUME InRange, IInv, NEW t \in Threads, CreateNode(t)
  PROVE  IInv' /\ Contents' = Contents
<1>1. TypeOK /\ SortedLinks /\ Gaps /\ Closed /\ View(t) /\ Seen(t) /\ TypeOK'
  BY TypeStep, Zenon DEF IInv, Step
<1>2. PICK m : m = allocated + 1 /\ m \in 1..MaxNodes
  BY <1>1, ListAssumption DEF CreateNode, TypeOK
<1>3. m \in Nodes /\ m # Head /\ m # Tail /\ m # NULL
  BY <1>2, NodeFacts, Zenon
<1>4. /\ pc[t] = "create" /\ pc'[t] = "start"
      /\ allocated' = m /\ newNode'[t] = m /\ nkey'[m] = key[t] /\ ~ marked'[m]
      /\ \A n \in Nodes \ {m} : nkey'[n] = nkey[n] /\ marked'[n] = marked[n]
      /\ \A u \in Threads \ {t} : pc'[u] = pc[u] /\ newNode'[u] = newNode[u]
      /\ UNCHANGED <<next, mtx, op, key, pred, curr, saw, met>>
  BY <1>1, <1>2, <1>3, Zenon DEF CreateNode, Goto, history, TypeOK
<1>5. next[m] = NULL /\ ~ Linked(m)
  BY <1>1, <1>2, <1>3 DEF SortedLinks, Linked, TypeOK
<1>6. \A n : Linked(n)' = Linked(n)
  BY <1>4, Zenon DEF Linked
<1>7. \A n \in Nodes : Linked(n) => nkey'[n] = nkey[n] /\ marked'[n] = marked[n]
  BY <1>4, <1>5
<1>8. InList' = InList /\ Dying' = Dying
  <2>1. InList' = InList
    BY <1>5, <1>6, <1>7, Zenon DEF InList
  <2>2. Dying' = Dying
    BY <1>4 DEF Dying
  <2> QED BY <2>1, <2>2
<1>9. \A n \in InList \cup Dying : n \in Nodes /\ Linked(n)
  BY LinkedNodes DEF InList
<1>10. Contents' = Contents /\ \A k : Status(k)' = Status(k)
  <2>1. Contents' = Contents
    BY <1>7, <1>8, <1>9, Zenon DEF Contents
  <2> QED BY <2>1 DEF Status
<1>11. SortedLinks'
  <2>1. \A n \in Nodes : next[n] # NULL => Linked(n) /\ next[n] \in Nodes /\ Linked(next[n])
    BY <1>1, Zenon DEF SortedLinks, Linked, TypeOK
  <2>2. \A n \in Nodes : next[n] # NULL /\ n # Head => n <= m
    BY <1>1, <1>2, NodeFacts DEF SortedLinks, TypeOK
  <2>3. \A n \in Nodes : next[n] # NULL =>
          /\ nkey'[n] < nkey'[next[n]]
          /\ n # Head => nkey'[n] \in Keys
    BY <1>1, <1>7, <2>1 DEF SortedLinks
  <2> QED BY <1>1, <1>3, <1>4, <1>6, <2>1, <2>2, <2>3, NodeFacts, Zenon DEF SortedLinks
<1>12. Gaps' /\ Closed'
  <2>1. \A n \in InList \cup Dying : nkey'[n] = nkey[n]
    BY <1>7, <1>9
  <2>2. \A n \in (InList \cup Dying) \ {Tail} : next[n] \in InList \cup Dying
    BY <1>1, Zenon DEF Closed
  <2>3. Gaps'
    BY <1>1, <1>4, <1>8, <2>1, <2>2 DEF Gaps
  <2>4. Closed'
    BY <1>4, <1>8, <2>2, Zenon DEF Closed
  <2> QED BY <2>3, <2>4
<1>13. \A u \in Threads : Held(u)'
  BY <1>4 DEF IInv, Held
<1>14. \A u \in Threads : Owned(u)'
  <2>1. \A u \in Threads \ {t} : OwnsNode(u)' => OwnsNode(u)
    BY <1>4 DEF OwnsNode
  <2>2. \A u \in Threads : OwnsNode(u) => newNode[u] \in Nodes \ {m} /\ newNode[u] \in 1..m /\ newNode[u] # m
    <3> SUFFICES ASSUME NEW u \in Threads, OwnsNode(u)
                 PROVE  newNode[u] \in Nodes \ {m} /\ newNode[u] \in 1..m /\ newNode[u] # m
      OBVIOUS
    <3>1. newNode[u] \in Nodes /\ newNode[u] \in 1..allocated
      BY OwnNode, Zenon
    <3>2. allocated \in Int
      BY <1>1 DEF TypeOK
    <3> QED BY <1>2, <3>1, <3>2
  <2>3. ASSUME NEW u \in Threads \ {t} PROVE Owned(u)'
    <3>1. OwnsNode(u)' => /\ newNode[u] \in 1..m /\ next[newNode[u]] = NULL
                          /\ ~ marked'[newNode[u]] /\ nkey'[newNode[u]] = key[u]
      BY <1>4, <2>1, <2>2, Zenon DEF IInv, Owned
    <3>2. OwnsNode(u)' => \A v \in Threads : v # u /\ OwnsNode(v)' => newNode'[v] # newNode'[u]
      BY <1>4, <2>1, <2>2 DEF IInv, Owned
    <3> QED BY <1>4, <3>1, <3>2, Zenon DEF Owned
  <2>4. Owned(t)'
    BY <1>2, <1>4, <1>5, <2>1, <2>2 DEF Owned
  <2> QED BY <2>3, <2>4, Zenon
<1>15. ASSUME NEW u \in Threads \ {t} PROVE View(u)' /\ Seen(u)' /\ Path(u)'
  <2>1. View(u)'
    <3>1. pc[u] = "unlink" => /\ ~ marked'[pred[u]] /\ marked'[curr[u]]
      <4>1. pc[u] = "unlink" =>
              /\ pred[u] \in Nodes /\ Linked(pred[u]) /\ curr[u] \in Nodes /\ Linked(curr[u])
              /\ ~ marked[pred[u]] /\ marked[curr[u]]
        BY ThreadNodes, Zenon
      <4> QED BY <1>7, <4>1, Zenon
    <3> QED BY <1>4, <1>6, <1>7, <3>1, ViewKept, Zenon
  <2>2. Seen(u)'
    BY <1>4, <1>10, Zenon DEF IInv, Seen, Pending
  <2>3. Path(u)'
    <3>1. op[u] = "find" => \A n \in met[u] : n \in Nodes /\ Linked(n) /\ (marked[n] => Linked(next[n]) /\ next[n] \in Nodes)
      BY FindNodes
    <3>2. op[u] = "find" => \A n \in met[u] : nkey'[n] = nkey[n] /\ marked'[n] = marked[n]
      BY <1>7, <3>1, Zenon
    <3>3. op[u] = "find" =>
            \A n \in met[u] : Linked(n)' /\ (marked'[n] =>
              /\ next[n] \in met[u]
              /\ nkey'[n] = key[u] => "out" \in saw[u]
              /\ nkey'[n] < key[u] /\ key[u] < nkey'[next[n]] => "out" \in saw[u])
      BY <1>6, <3>1, <3>2, Zenon DEF IInv, Path
    <3>4. op[u] = "find" =>
            /\ InList' \cup Dying' \subseteq met[u]
            /\ pc[u] \in {"find", "found"} => curr[u] \in met[u]
            /\ pc[u] = "find" => nkey'[curr[u]] < key[u]
            /\ pc[u] = "found" => key[u] <= nkey'[curr[u]]
            /\ pc[u] = "found" /\ key[u] < nkey'[curr[u]] => "out" \in saw[u]
      BY <1>8, <3>2, Zenon DEF IInv, Path
    <3> QED BY <1>4, <3>3, <3>4, Zenon DEF Path
  <2> QED BY <2>1, <2>2, <2>3, Zenon
<1>16. View(t)' /\ Seen(t)' /\ Path(t)'
  BY <1>1, <1>4, <1>10 DEF View, Seen, Pending, Path
<1> QED BY <1>1, <1>10, <1>11, <1>12, <1>13, <1>14, <1>15, <1>16 DEF IInv


-----------------------------------------------------------------------------
(* What the stores leave alone *)

\* What find can run into stays so if what is stored into marked nodes, and the
\* nodes that become marked, are as Path says.
LEMMA PathKept ==
  ASSUME IInv, NEW u \in Threads,
         pc'[u] = pc[u], op'[u] = op[u], key'[u] = key[u], curr'[u] = curr[u], nkey' = nkey,
         op[u] = "find" =>
           /\ met[u] \subseteq met'[u] /\ saw[u] \subseteq saw'[u]
           /\ InList' \cup Dying' \subseteq met'[u]
           /\ \A n \in met'[u] : Linked(n)'
           /\ \A n \in met'[u] : marked'[n] =>
                \/ n \in met[u] /\ marked[n] /\ next'[n] = next[n]
                \/ /\ next'[n] \in met'[u]
                   /\ nkey[n] = key[u] => "out" \in saw'[u]
                   /\ nkey[n] < key[u] /\ key[u] < nkey[next'[n]] => "out" \in saw'[u]
  PROVE  Path(u)'
<1> SUFFICES ASSUME op[u] = "find" PROVE Path(u)'
  BY Zenon DEF Path
<1>1. Path(u)
  BY Zenon DEF IInv
<1>2. ASSUME NEW n \in met'[u], marked'[n]
      PROVE  /\ next'[n] \in met'[u]
             /\ nkey[n] = key[u] => "out" \in saw'[u]
             /\ nkey[n] < key[u] /\ key[u] < nkey[next'[n]] => "out" \in saw'[u]
  BY <1>1, <1>2, Zenon DEF Path
<1>3. /\ pc[u] \in {"find", "found"} => curr[u] \in met'[u]
      /\ pc[u] = "find" => nkey[curr[u]] < key[u]
      /\ pc[u] = "found" => key[u] <= nkey[curr[u]]
      /\ pc[u] = "found" /\ key[u] < nkey[curr[u]] => "out" \in saw'[u]
  BY <1>1, Zenon DEF Path
<1> QED BY <1>2, <1>3, Zenon DEF Path

\* What add and delete have before them when validate() succeeds: two neighbours
\* of the list, that no unlink is about to part.
LEMMA ValidPlace ==
  ASSUME InRange, IInv, NEW t \in Threads, pc[t] = "locked", Between(t),
         validate(pred[t], curr[t])
  PROVE  /\ pred[t] \in InList \ {Tail} /\ curr[t] \in InList /\ next[pred[t]] = curr[t]
         /\ nkey[pred[t]] < key[t] /\ key[t] <= nkey[curr[t]]
         /\ key[t] \in Keys /\ key[t] \in Int
         /\ \A u \in Threads : pc[u] = "unlink" => pred[u] # pred[t] /\ curr[u] # pred[t]
<1>2. /\ pred[t] \in Nodes /\ pred[t] # Tail /\ next[pred[t]] # NULL
      /\ curr[t] \in Nodes /\ Linked(curr[t]) /\ key[t] \in Keys
  BY ThreadNodes, Zenon
<1>3. pred[t] \in InList \ {Tail} /\ curr[t] \in InList /\ next[pred[t]] = curr[t]
  BY <1>2 DEF validate, InList, Linked
<1>4. \A u \in Threads : pc[u] = "unlink" => pred[u] # pred[t] /\ curr[u] # pred[t]
  BY HeldByOne, Zenon
<1> QED BY <1>2, <1>3, <1>4, KeyRange, Zenon DEF Between

\* A step links the new node m between p and c.
Inserts(p, m, c) ==
  /\ p \in InList \ {Tail} /\ m \in Nodes \ {Head, Tail} /\ c = next[p] /\ c \in InList
  /\ next[m] = NULL /\ ~ marked[m] /\ m <= allocated /\ nkey[m] \in Keys
  /\ nkey[p] < nkey[m] /\ nkey[m] < nkey[c]
  /\ \A u \in Threads : pc[u] = "unlink" => pred[u] # p
  /\ \A n \in Nodes : next'[n] = IF n = p THEN m ELSE IF n = m THEN c ELSE next[n]
  /\ nkey' = nkey /\ marked' = marked /\ allocated' = allocated /\ Dying' = Dying

\* A node put between two neighbours of the list leaves it sorted.
LEMMA LinkSorted ==
  ASSUME InRange, IInv, NEW p, NEW m, NEW c, Inserts(p, m, c)
  PROVE  /\ \A n \in Nodes : Linked(n)' <=> Linked(n) \/ n = m
         /\ m \notin InList \cup Dying /\ InList' = InList \cup {m}
         /\ SortedLinks' /\ Gaps' /\ Closed'
         /\ \A n \in InList : nkey[n] # nkey[m]
<1>0. TypeOK /\ SortedLinks /\ Gaps /\ Closed
  BY Zenon DEF IInv
<1>1. /\ \A n \in InList \cup Dying : n \in Nodes /\ Linked(n) /\ nkey[n] \in Int
      /\ \A n \in (InList \cup Dying) \ {Tail} :
           next[n] \in Nodes /\ nkey[n] < nkey[next[n]] /\ nkey[next[n]] \in Int
      /\ nkey[m] \in Int /\ c \in Nodes /\ p \in Nodes
  BY <1>0, LinkedNodes, Zenon DEF InList, TypeOK, Inserts
<1>2. ~ Linked(m) /\ m \notin InList \cup Dying /\ p # m /\ m # NULL /\ c # NULL
  BY <1>1, NodeFacts, Zenon DEF Linked, Inserts
<1>3. \A n \in Nodes : Linked(n)' <=> Linked(n) \/ n = m
  BY <1>1, <1>2, Zenon DEF Linked, Inserts
<1>4. InList' = InList \cup {m}
  BY <1>2, <1>3, Zenon DEF InList, Inserts
<1>5. SortedLinks'
  <2>1. next'[Head] # NULL /\ next'[Tail] = NULL
    BY <1>0, <1>2, NodeFacts, Zenon DEF SortedLinks, Inserts
  <2>2. ASSUME NEW n \in Nodes, NEW x, x = next'[n], x # NULL
        PROVE  /\ Linked(x)' /\ nkey[n] < nkey[x]
               /\ n # Head => nkey[n] \in Keys /\ n <= allocated
    <3>1. CASE n = p
      <4>1. x = m /\ Linked(m)' /\ nkey[n] < nkey[m] /\ next[n] # NULL
        BY <1>1, <1>2, <1>3, <2>2, <3>1, NodeFacts, Zenon DEF Inserts
      <4> QED BY <1>0, <4>1, Zenon DEF SortedLinks, Inserts
    <3>2. CASE n = m
      <4>1. x = c /\ Linked(c)
        BY <1>1, <1>2, <2>2, <3>2, Zenon DEF Inserts
      <4> QED BY <1>1, <1>3, <3>2, <4>1, Zenon DEF Inserts
    <3>3. CASE n # p /\ n # m
      <4>1. x = next[n] /\ next[n] # NULL
        BY <2>2, <3>3, Zenon DEF Inserts
      <4>2. x \in Nodes
        BY <1>0, <2>2, <4>1, Zenon DEF TypeOK
      <4> QED BY <1>0, <1>3, <4>1, <4>2, Zenon DEF SortedLinks
    <3> QED BY <3>1, <3>2, <3>3, Zenon
  <2>3. \A n \in Nodes : next'[n] # NULL => Linked(next[n])'
    BY <2>2, Zenon DEF Linked
  <2> QED BY <1>0, <2>1, <2>2, <2>3, Zenon DEF SortedLinks, Inserts
<1>6. \A n \in InList : nkey[n] <= nkey[p] \/ nkey[c] <= nkey[n]
  BY <1>0, Zenon DEF Gaps, Inserts
<1>7. \A q \in (InList \cup Dying) \ {Tail} : q # p => nkey[c] <= nkey[q] \/ nkey[next[q]] <= nkey[p]
  BY Disjoint, Zenon DEF Inserts
<1>8. /\ nkey[p] \in Int /\ nkey[m] \in Int /\ nkey[c] \in Int
      /\ nkey[p] < nkey[m] /\ nkey[m] < nkey[c]
  BY <1>1, Zenon DEF Inserts
<1>9. \A n \in InList \cup Dying : nkey[n] # nkey[m]
  <2>1. ASSUME NEW n \in InList PROVE nkey[n] # nkey[m]
    <3>1. nkey[n] \in Int /\ (nkey[n] <= nkey[p] \/ nkey[c] <= nkey[n])
      BY <1>1, <1>6, <2>1, Zenon
    <3> QED BY <1>8, <3>1
  <2>2. ASSUME NEW n \in Dying PROVE nkey[n] # nkey[m]
    <3>1. n # p /\ n # Tail
      BY <2>2, LinkedNodes, Zenon DEF Inserts
    <3>2. nkey[c] <= nkey[n] \/ nkey[next[n]] <= nkey[p]
      BY <1>7, <2>2, <3>1, Zenon
    <3>3. nkey[n] < nkey[next[n]] /\ nkey[next[n]] \in Int /\ nkey[n] \in Int
      BY <1>1, <2>2, <3>1, Zenon
    <3> QED BY <1>8, <3>2, <3>3
  <2> QED BY <2>1, <2>2, Zenon
<1>10. ASSUME NEW q \in (InList \cup {m} \cup Dying) \ {Tail}, NEW n \in InList \cup {m}
       PROVE  nkey[n] <= nkey[q] \/ nkey[next'[q]] <= nkey[n]
  <2>1. nkey[n] \in Int /\ (n = m \/ nkey[n] <= nkey[p] \/ nkey[c] <= nkey[n])
    BY <1>1, <1>6, <1>10, Zenon
  <2>2. CASE q = p
    <3>1. next'[q] = m
      BY <1>1, <2>2, Zenon DEF Inserts
    <3> QED BY <1>8, <2>1, <2>2, <3>1
  <2>3. CASE q = m
    <3>1. next'[q] = c
      BY <1>2, <2>3, Zenon DEF Inserts
    <3> QED BY <1>8, <2>1, <2>3, <3>1
  <2>4. CASE q # p /\ q # m
    <3>1. next'[q] = next[q] /\ nkey[q] \in Int /\ nkey[next[q]] \in Int
      BY <1>1, <1>10, <2>4, Zenon DEF Inserts
    <3>2. CASE n = m
      <4>1. nkey[c] <= nkey[q] \/ nkey[next[q]] <= nkey[p]
        BY <1>7, <1>10, <2>4, Zenon
      <4> QED BY <1>8, <3>1, <3>2, <4>1
    <3>3. CASE n \in InList
      BY <1>0, <1>10, <2>4, <3>1, <3>3, Zenon DEF Gaps
    <3> QED BY <1>10, <3>2, <3>3, Zenon
  <2> QED BY <2>2, <2>3, <2>4, Zenon
<1>11. Gaps'
  <2>1. \A a, b \in InList \cup {m} : a # b => nkey[a] # nkey[b]
    BY <1>0, <1>9, Zenon DEF Gaps
  <2>2. \A a \in InList \cup {m}, b \in Dying : nkey[a] # nkey[b]
    BY <1>0, <1>9, Zenon DEF Gaps
  <2> QED BY <1>4, <1>10, <2>1, <2>2, Zenon DEF Gaps, Inserts
<1>12. Closed'
  <2>1. ASSUME NEW q \in (InList \cup {m} \cup Dying) \ {Tail} PROVE next'[q] \in InList \cup {m} \cup Dying
    BY <1>0, <1>1, <2>1, Zenon DEF Closed, Inserts
  <2> QED BY <1>4, <2>1, Zenon DEF Closed, Inserts
<1> QED BY <1>2, <1>3, <1>4, <1>5, <1>9, <1>11, <1>12, Zenon

\* newNode->next = curr; pred->next = newNode.
LEMMA AddLinkStep ==
  ASSUME InRange, IInv, NEW t \in Threads, AddLink(t)
  PROVE  IInv' /\ Contents' = Contents \cup {key[t]} /\ key[t] \notin Contents
<1>0. PICK p, m, c, k : p = pred[t] /\ m = newNode[t] /\ c = curr[t] /\ k = key[t]
  OBVIOUS
<1>1. TypeOK /\ View(t) /\ Owned(t) /\ TypeOK'
  BY TypeStep, Zenon DEF IInv, Step
<1>2. /\ pc[t] = "locked" /\ op[t] = "add" /\ OwnsNode(t) /\ pc'[t] = "unlock"
      /\ Between(t) /\ validate(pred[t], curr[t]) /\ k # nkey[c] /\ Show(t, "in")
      /\ UNCHANGED <<nkey, marked, allocated, mtx, op, key, pred, curr, newNode>>
      /\ \A u \in Threads \ {t} : pc'[u] = pc[u]
      /\ \A u \in Threads : met'[u] = IF op[u] = "find" THEN met[u] \cup {m} ELSE met[u]
  BY <1>0, <1>1, Zenon DEF AddLink, Goto, OwnsNode, locals, TypeOK
<1>3. /\ p \in InList \ {Tail} /\ c \in InList /\ next[p] = c
      /\ nkey[p] < k /\ k <= nkey[c] /\ k \in Keys /\ k \in Int
      /\ \A u \in Threads : pc[u] = "unlink" => pred[u] # p
  BY <1>0, <1>2, ValidPlace, Zenon
<1>4. /\ next[m] = NULL /\ ~ marked[m] /\ nkey[m] = k
      /\ \A u \in Threads : u # t /\ OwnsNode(u) => newNode[u] # m
  BY <1>0, <1>1, <1>2, Zenon DEF Owned
<1>5. m \in Nodes \ {Head, Tail} /\ m <= allocated
  BY <1>0, <1>2, OwnNode, Zenon
<1>6. p \in Nodes /\ c \in Nodes /\ Linked(p) /\ Linked(c) /\ nkey[c] \in Int /\ next[p] # NULL
  BY <1>3, LinkedNodes, NodeFacts, Zenon DEF InList
<1>7. \A n \in Nodes : next'[n] = IF n = p THEN m ELSE IF n = m THEN c ELSE next[n]
  BY <1>0, <1>1, <1>5, <1>6, Zenon DEF AddLink, TypeOK
<1>8. Dying' = Dying
  BY <1>2, Zenon DEF Dying
<1>9. nkey[p] < nkey[m] /\ nkey[m] < nkey[c] /\ nkey[m] \in Keys
  <2>1. k \in Int /\ nkey[c] \in Int /\ k <= nkey[c] /\ k # nkey[c]
    BY <1>2, <1>3, <1>6, Zenon
  <2>2. k < nkey[c]
    BY <2>1
  <2> QED BY <1>3, <1>4, <2>2, Zenon
<1>10. /\ \A n \in Nodes : Linked(n)' <=> Linked(n) \/ n = m
       /\ m \notin InList \cup Dying /\ InList' = InList \cup {m}
       /\ SortedLinks' /\ Gaps' /\ Closed'
       /\ \A n \in InList : nkey[n] # nkey[m]
  <2>1. nkey' = nkey /\ marked' = marked /\ allocated' = allocated
    BY <1>2, Zenon
  <2>2. Inserts(p, m, c)
    BY <1>3, <1>4, <1>5, <1>7, <1>8, <1>9, <2>1, Zenon DEF Inserts
  <2> QED BY <2>2, LinkSorted, Zenon
<1>11. Contents' = Contents \cup {k} /\ k \notin Contents
  BY <1>2, <1>4, <1>5, <1>10, Zenon DEF Contents
<1>12. Status(k)' = "in" /\ \A d : d # k => Status(d)' = Status(d)
  BY <1>11, Zenon DEF Status
<1>13. \A n \in Nodes : next[n] # NULL => next'[n] # NULL
  BY <1>5, <1>6, <1>7, NodeFacts
<1>14. ASSUME NEW u \in Threads \ {t} PROVE View(u)' /\ Seen(u)' /\ Path(u)'
  <2>1. View(u)'
    <3>1. pc[u] = "unlink" =>
            /\ pred[u] \in Nodes /\ next[pred[u]] # NULL /\ ~ marked[pred[u]]
            /\ marked[curr[u]]
      BY ThreadNodes, Zenon
    <3>2. pc[u] = "unlink" => next'[pred[u]] = next[pred[u]]
      BY <1>3, <1>4, <1>7, <3>1
    <3> QED BY <1>2, <1>10, <1>13, <3>1, <3>2, ViewKept, Zenon
  <2>2. Seen(u)'
    BY <1>0, <1>2, <1>12, ShowSeen, Zenon
  <2>3. Path(u)'
    <3>1. saw[u] \subseteq saw'[u]
      BY <1>2, Zenon DEF Show
    <3>2. op[u] = "find" =>
            /\ InList \cup Dying \subseteq met[u]
            /\ \A n \in met[u] : n \in Nodes /\ Linked(n)
      BY FindNodes
    <3>3. op[u] = "find" =>
            /\ met[u] \subseteq met'[u]
            /\ InList' \cup Dying' \subseteq met'[u]
            /\ \A n \in met'[u] : n \in Nodes /\ Linked(n)'
      BY <1>2, <1>5, <1>8, <1>10, <3>2, Zenon
    <3>4. op[u] = "find" => \A n \in met'[u] : marked'[n] =>
            n \in met[u] /\ marked[n] /\ next'[n] = next[n]
      <4>1. ~ marked[p] /\ ~ marked[m] /\ marked' = marked
        BY <1>2, <1>3, <1>4, Zenon DEF InList
      <4>2. op[u] = "find" => met'[u] = met[u] \cup {m}
        BY <1>2, Zenon
      <4>3. ASSUME op[u] = "find", NEW n \in met'[u], marked[n] PROVE n \in met[u] /\ next'[n] = next[n]
        <5>1. n \in met[u] /\ n # m /\ n # p
          BY <4>1, <4>2, <4>3
        <5> QED BY <1>7, <3>2, <4>3, <5>1
      <4> QED BY <4>1, <4>3, Zenon
    <3> QED BY <1>2, <3>1, <3>3, <3>4, PathKept, Zenon
  <2> QED BY <2>1, <2>2, <2>3, Zenon
<1>15. View(t)' /\ Seen(t)' /\ Path(t)' /\ ~ OwnsNode(t)'
  <2>1. Linked(curr[t])' /\ next'[pred[t]] # NULL
    <3>1. Linked(c)' /\ next'[p] # NULL
      BY <1>6, <1>10, <1>13, Zenon
    <3> QED BY <1>0, <1>2, <3>1 DEF Linked
  <2>2. View(t)'
    BY <1>1, <1>2, <2>1, Zenon DEF View
  <2> QED BY <1>2, <2>2, Zenon DEF Seen, Pending, Show, Path, OwnsNode
<1>16. \A u \in Threads : Owned(u)'
  <2>1. ASSUME NEW u \in Threads, OwnsNode(u)'
        PROVE  OwnsNode(u) /\ next'[newNode[u]] = NULL /\ ~ marked'[newNode[u]]
    <3>1. u # t /\ OwnsNode(u)
      BY <1>2, <1>15, <2>1, Zenon DEF OwnsNode
    <3>2. /\ newNode[u] \in Nodes /\ next[newNode[u]] = NULL /\ ~ marked[newNode[u]]
          /\ newNode[u] # m /\ newNode[u] # p
      BY <1>4, <1>6, <3>1, OwnNode
    <3> QED BY <1>2, <1>7, <3>1, <3>2, Zenon
  <2> QED BY <1>2, <2>1, OwnedKept, Zenon
<1>17. \A u \in Threads : Held(u)'
  BY <1>2, Zenon DEF IInv, Held
<1> QED BY <1>0, <1>1, <1>10, <1>11, <1>14, <1>15, <1>16, <1>17, Zenon DEF IInv

\* curr->marked = true.
LEMMA DeleteMarkStep ==
  ASSUME InRange, IInv, NEW t \in Threads, DeleteMark(t)
  PROVE  IInv' /\ Contents' = Contents \ {key[t]} /\ key[t] \in Contents
<1>0. PICK p, c, k : p = pred[t] /\ c = curr[t] /\ k = key[t]
  OBVIOUS
<1>1. TypeOK /\ SortedLinks /\ Gaps /\ Closed /\ View(t) /\ Held(t) /\ TypeOK'
  BY TypeStep, Zenon DEF IInv, Step
<1>2. /\ pc[t] = "locked" /\ op[t] = "delete" /\ pc'[t] = "unlink"
      /\ Between(t) /\ validate(pred[t], curr[t]) /\ k = nkey[c] /\ Show(t, "out")
      /\ UNCHANGED <<nkey, next, allocated, mtx, op, key, pred, curr, newNode, met>>
      /\ \A u \in Threads \ {t} : pc'[u] = pc[u]
  BY <1>0, <1>1, Zenon DEF DeleteMark, Goto, locals, TypeOK
<1>3. /\ p \in InList \ {Tail} /\ c \in InList /\ next[p] = c
      /\ nkey[p] < k /\ k \in Keys /\ k \in Int
  BY <1>0, <1>2, ValidPlace, Zenon
<1>4. /\ c \in Nodes /\ p \in Nodes /\ Linked(c) /\ p # c /\ c # Head /\ c # Tail
      /\ ~ marked[p]
  <2>1. c \in Nodes /\ p \in Nodes /\ Linked(c) /\ ~ marked[p]
    BY <1>3 DEF InList
  <2>2. nkey[Head] = IntMin /\ nkey[Tail] = IntMax
    BY <1>1 DEF SortedLinks
  <2> QED BY <1>2, <1>3, <2>1, <2>2, KeyRange
<1>5. marked'[c] /\ \A n \in Nodes \ {c} : marked'[n] = marked[n]
  BY <1>0, <1>1, <1>4, Zenon DEF DeleteMark, TypeOK
<1>6. \A n : Linked(n)' = Linked(n)
  BY <1>2 DEF Linked
<1>7. InList' = InList \ {c} /\ Dying' = Dying \cup {c}
  <2>1. InList' = InList \ {c}
    BY <1>5, <1>6, Zenon DEF InList
  <2>2. Dying' = Dying \cup {c}
    BY <1>0, <1>2 DEF Dying
  <2> QED BY <2>1, <2>2, Zenon
<1>8. InList' \cup Dying' = InList \cup Dying
  BY <1>3, <1>7, Zenon
<1>9. Contents' = Contents \ {k} /\ k \in Contents
  <2>1. nkey' = nkey /\ k = nkey[c] /\ c \in InList \ {Head, Tail}
    BY <1>2, <1>3, <1>4, Zenon
  <2>2. \A n \in InList : n # c => nkey[n] # k
    BY <1>1, <2>1, Zenon DEF Gaps
  <2> QED BY <1>7, <2>1, <2>2, Zenon DEF Contents
<1>10. Status(k)' = "out" /\ \A d : d # k => Status(d)' = Status(d)
  BY <1>9 DEF Status
<1>11. SortedLinks' /\ Gaps' /\ Closed'
  <2>1. SortedLinks'
    BY <1>1, <1>2, <1>4, <1>5, <1>6, NodeFacts, Zenon DEF SortedLinks
  <2>2. \A n \in InList', d \in Dying' : nkey[n] # nkey[d]
    BY <1>1, <1>3, <1>7 DEF Gaps
  <2>3. Gaps'
    <3>1. nkey' = nkey /\ next' = next /\ InList' \subseteq InList
      BY <1>2, <1>7, Zenon
    <3> QED BY <1>1, <1>8, <2>2, <3>1, Zenon DEF Gaps
  <2>4. Closed'
    BY <1>1, <1>2, <1>8, Zenon DEF Closed
  <2> QED BY <2>1, <2>3, <2>4, Zenon
<1>12. ASSUME NEW u \in Threads \ {t} PROVE View(u)' /\ Seen(u)' /\ Path(u)'
  <2>1. View(u)'
    <3>1. pc[u] = "unlink" =>
            /\ pred[u] \in Nodes /\ ~ marked[pred[u]] /\ marked[curr[u]] /\ curr[u] \in Nodes
      BY ThreadNodes, Zenon
    <3>2. pc[u] = "unlink" => pred[u] # c
      BY <1>0, <1>2, HeldByOne, Zenon
    <3> QED BY <1>2, <1>5, <1>6, <3>1, <3>2, ViewKept, Zenon
  <2>2. Seen(u)'
    BY <1>0, <1>2, <1>10, ShowSeen, Zenon
  <2>3. Path(u)'
    <3>1. saw[u] \subseteq saw'[u] /\ (Pending(u) /\ key[u] = k => "out" \in saw'[u])
      BY <1>0, <1>2, Zenon DEF Show
    <3>2. op[u] = "find" =>
            /\ InList \cup Dying \subseteq met[u]
            /\ \A n \in met[u] : n \in Nodes /\ Linked(n)
            /\ Pending(u) /\ Status(key[u]) \in saw[u] /\ key[u] \in Int
      BY FindNodes, KeyRange
    <3>3. c \in (InList \cup Dying) \ {Tail} /\ next[c] \in InList \cup Dying
      BY <1>1, <1>3, <1>4, Zenon DEF Closed
    <3>4. op[u] = "find" /\ nkey[c] < key[u] /\ key[u] < nkey[next[c]] => "out" \in saw'[u]
      BY <3>1, <3>2, <3>3, OutBetween, Zenon
    <3>5. op[u] = "find" => \A n \in met'[u] : marked'[n] =>
            \/ n \in met[u] /\ marked[n] /\ next'[n] = next[n]
            \/ /\ next'[n] \in met'[u]
               /\ nkey[n] = key[u] => "out" \in saw'[u]
               /\ nkey[n] < key[u] /\ key[u] < nkey[next'[n]] => "out" \in saw'[u]
      BY <1>2, <1>5, <3>1, <3>2, <3>3, <3>4, Zenon
    <3> QED BY <1>2, <1>6, <1>8, <3>1, <3>2, <3>5, PathKept, Zenon
  <2> QED BY <2>1, <2>2, <2>3
<1>13. View(t)' /\ Seen(t)' /\ Path(t)' /\ ~ OwnsNode(t)'
  <2>1. View(t)'
    BY <1>0, <1>1, <1>2, <1>3, <1>4, <1>5, <1>6, Zenon DEF View
  <2> QED BY <1>2, <2>1, Zenon DEF Seen, Pending, Show, Path, OwnsNode
<1>14. \A u \in Threads : Owned(u)'
  <2>1. ASSUME NEW u \in Threads, OwnsNode(u)'
        PROVE  OwnsNode(u) /\ next'[newNode[u]] = NULL /\ ~ marked'[newNode[u]]
    <3>1. u # t /\ OwnsNode(u)
      BY <1>2, <1>13, <2>1, Zenon DEF OwnsNode
    <3>2. /\ newNode[u] \in Nodes /\ next[newNode[u]] = NULL /\ ~ marked[newNode[u]]
          /\ newNode[u] # c
      BY <1>4, <3>1, OwnNode, Zenon
    <3> QED BY <1>2, <1>5, <3>1, <3>2, Zenon
  <2> QED BY <1>2, <2>1, OwnedKept, Zenon
<1>15. \A u \in Threads : Held(u)'
  BY <1>2, Zenon DEF IInv, Held
<1> QED BY <1>0, <1>1, <1>9, <1>11, <1>12, <1>13, <1>14, <1>15 DEF IInv

\* pred->next = curr->next.
LEMMA DeleteUnlinkStep ==
  ASSUME InRange, IInv, NEW t \in Threads, DeleteUnlink(t)
  PROVE  IInv' /\ Contents' = Contents
<1>0. PICK p, c : p = pred[t] /\ c = curr[t]
  OBVIOUS
<1>1. TypeOK /\ SortedLinks /\ Gaps /\ Closed /\ View(t) /\ TypeOK'
  BY TypeStep, Zenon DEF IInv, Step
<1>2. /\ pc[t] = "unlink" /\ pc'[t] = "unlock"
      /\ UNCHANGED <<nkey, marked, allocated, mtx, op, key, pred, curr, newNode, saw, met>>
      /\ \A u \in Threads \ {t} : pc'[u] = pc[u]
  BY <1>1, Zenon DEF DeleteUnlink, Goto, locals, history, TypeOK
<1>3. /\ p \in Nodes /\ p # Tail /\ next[p] # NULL /\ ~ marked[p] /\ next[p] = c
      /\ c \in Nodes /\ Linked(c) /\ marked[c]
  BY <1>0, <1>2, ThreadNodes, Zenon
<1>4. p \in InList \ {Tail} /\ c \in Dying /\ c # Tail /\ p # c
  BY <1>0, <1>1, <1>2, <1>3, Zenon DEF InList, Linked, Dying, SortedLinks
<1>5. /\ next[c] \in Nodes /\ next[c] # NULL /\ Linked(next[c]) /\ next[c] # c
      /\ nkey[p] < nkey[c] /\ nkey[c] < nkey[next[c]]
      /\ \A n \in Nodes : nkey[n] \in Int
  BY <1>3, <1>4, LinkedNodes, Zenon DEF InList
<1>6. \A n \in Nodes : next'[n] = IF n = p THEN next[c] ELSE next[n]
  BY <1>0, <1>1, <1>3 DEF DeleteUnlink, TypeOK
<1>7. /\ \A n \in Nodes : next[n] # NULL <=> next'[n] # NULL
      /\ \A n \in Nodes : Linked(n)' = Linked(n)
  <2>1. \A n \in Nodes : next[n] # NULL <=> next'[n] # NULL
    BY <1>3, <1>5, <1>6
  <2> QED BY <2>1, Zenon DEF Linked
<1>8. \A u \in Threads \ {t} : pc[u] = "unlink" => pred[u] # p /\ curr[u] # p /\ curr[u] # c
  BY <1>0, <1>2, HeldByOne, Zenon
<1>9. InList' = InList /\ Dying' = Dying \ {c}
  <2>1. InList' = InList
    BY <1>2, <1>7, Zenon DEF InList
  <2>2. Dying' = {curr[u] : u \in {v \in Threads \ {t} : pc[v] = "unlink"}}
    BY <1>2 DEF Dying
  <2>3. Dying' = Dying \ {c}
    BY <1>0, <1>2, <1>8, <2>2, Zenon DEF Dying
  <2> QED BY <2>1, <2>3
<1>10. Contents' = Contents /\ \A k : Status(k)' = Status(k)
  BY <1>2, <1>9, Zenon DEF Contents, Status
<1>11. SortedLinks'
  <2>1. next'[Head] # NULL /\ next'[Tail] = NULL
    BY <1>1, <1>3, <1>6, <1>7, NodeFacts DEF SortedLinks
  <2>2. ASSUME NEW n \in Nodes, NEW x, x = next'[n], x # NULL
        PROVE  /\ Linked(x)' /\ nkey[n] < nkey[x]
               /\ n # Head => nkey[n] \in Keys /\ n <= allocated
    <3>1. x \in Nodes /\ next[n] # NULL
      BY <1>1, <1>7, <2>2 DEF TypeOK
    <3>2. CASE n = p
      <4>1. x = next[c]
        BY <1>6, <2>2, <3>2, Zenon
      <4>2. nkey[n] < nkey[x]
        BY <1>5, <3>1, <3>2, <4>1, <1>3
      <4> QED BY <1>1, <1>5, <1>7, <3>1, <4>1, <4>2, Zenon DEF SortedLinks
    <3>3. CASE n # p
      BY <1>1, <1>6, <1>7, <2>2, <3>1, <3>3 DEF SortedLinks
    <3> QED BY <3>2, <3>3, Zenon
  <2>3. \A n \in Nodes : next'[n] # NULL => Linked(next[n])'
    BY <2>2, Zenon DEF Linked
  <2> QED BY <1>1, <1>2, <2>1, <2>2, <2>3, Zenon DEF SortedLinks
<1>12. \A q \in InList \cup Dying : q \in Nodes
  BY LinkedNodes DEF InList
<1>13. Gaps'
  <2>1. ASSUME NEW q \in (InList \cup Dying) \ {Tail}, NEW n \in InList
        PROVE  nkey[n] <= nkey[q] \/ nkey[next'[q]] <= nkey[n]
    <3>1. CASE q = p
      <4>1. nkey[n] <= nkey[p] \/ nkey[c] <= nkey[n]
        BY <1>1, <1>3, <1>4, Zenon DEF Gaps
      <4>2. nkey[n] <= nkey[c] \/ nkey[next[c]] <= nkey[n]
        BY <1>1, <1>4, Zenon DEF Gaps
      <4>3. nkey[n] # nkey[c]
        BY <1>1, <1>4 DEF Gaps
      <4>4. next'[q] = next[c] /\ nkey[n] \in Int /\ nkey[p] \in Int /\ nkey[c] \in Int /\ nkey[next[c]] \in Int
        BY <1>3, <1>5, <1>6, <1>12, <3>1, Zenon
      <4> QED BY <3>1, <4>1, <4>2, <4>3, <4>4
    <3>2. CASE q # p
      BY <1>1, <1>6, <1>12, <3>2, Zenon DEF Gaps
    <3> QED BY <3>1, <3>2, Zenon
  <2> QED BY <1>1, <1>2, <1>9, <2>1, Zenon DEF Gaps
<1>14. Closed'
  <2>1. ASSUME NEW q \in (InList \cup (Dying \ {c})) \ {Tail}
        PROVE  next'[q] \in InList \cup (Dying \ {c})
    <3>1. CASE q = p
      BY <1>1, <1>3, <1>4, <1>5, <1>6, <3>1 DEF Closed
    <3>2. CASE q # p
      <4>1. next'[q] = next[q] /\ next[q] \in InList \cup Dying
        BY <1>1, <1>6, <1>12, <3>2, Zenon DEF Closed
      <4>2. q # c
        BY <1>4, LinkedNodes, Zenon
      <4>3. \A u \in Threads : pc[u] = "unlink" /\ curr[u] = q => pred[u] # p
        BY <1>0, <1>8, <4>2
      <4>4. nkey[c] <= nkey[q] \/ nkey[next[q]] <= nkey[p]
        BY <1>3, <1>4, <3>2, <4>3, Disjoint, Zenon
      <4>5. nkey[q] < nkey[next[q]] /\ nkey[q] \in Int /\ nkey[next[q]] \in Int
        BY <1>12, LinkedNodes, Zenon DEF InList
      <4>6. next[q] # c
        BY <1>3, <1>5, <4>4, <4>5
      <4> QED BY <4>1, <4>6, Zenon
    <3> QED BY <3>1, <3>2, Zenon
  <2> QED BY <1>9, <2>1, Zenon DEF Closed
<1>15. ASSUME NEW u \in Threads \ {t} PROVE View(u)' /\ Seen(u)' /\ Path(u)'
  <2>1. View(u)'
    <3>1. pc[u] = "unlink" =>
            /\ pred[u] \in Nodes /\ ~ marked[pred[u]] /\ marked[curr[u]]
      BY ThreadNodes
    <3>2. pc[u] = "unlink" => next'[pred[u]] = next[pred[u]]
      BY <1>6, <1>8, <3>1, Zenon
    <3> QED BY <1>2, <1>7, <3>1, <3>2, ViewKept, Zenon
  <2>2. Seen(u)'
    BY <1>2, <1>10, Zenon DEF IInv, Seen, Pending
  <2>3. Path(u)'
    <3>1. op[u] = "find" =>
            /\ InList \cup Dying \subseteq met[u]
            /\ \A n \in met[u] : n \in Nodes /\ Linked(n)
      BY FindNodes
    <3>2. op[u] = "find" =>
            /\ InList' \cup Dying' \subseteq met'[u]
            /\ \A n \in met'[u] : Linked(n)'
            /\ \A n \in met'[u] : marked'[n] =>
                 n \in met[u] /\ marked[n] /\ next'[n] = next[n]
      BY <1>2, <1>3, <1>6, <1>7, <1>9, <3>1
    <3> QED BY <1>2, <3>2, PathKept, Zenon
  <2> QED BY <2>1, <2>2, <2>3
<1>16. View(t)' /\ Seen(t)' /\ Path(t)' /\ ~ OwnsNode(t)'
  <2>1. Linked(curr[t])' /\ next'[pred[t]] # NULL
    <3>1. Linked(c)' /\ next'[p] # NULL
      BY <1>3, <1>7, Zenon
    <3> QED BY <1>0, <1>2, <3>1, Zenon DEF Linked
  <2>2. View(t)'
    BY <1>1, <1>2, <2>1, Zenon DEF View
  <2>3. Seen(t)'
    BY <1>2, Zenon DEF IInv, Seen, Pending
  <2>4. Path(t)' /\ ~ OwnsNode(t)'
    BY <1>1, <1>2, Zenon DEF View, Path, OwnsNode
  <2> QED BY <2>2, <2>3, <2>4, Zenon
<1>17. \A u \in Threads : Owned(u)'
  <2>1. ASSUME NEW u \in Threads, OwnsNode(u)'
        PROVE  OwnsNode(u) /\ next'[newNode[u]] = NULL /\ ~ marked'[newNode[u]]
    <3>1. OwnsNode(u)
      BY <1>2, <1>16, <2>1, Zenon DEF OwnsNode
    <3>2. /\ newNode[u] \in Nodes /\ next[newNode[u]] = NULL /\ ~ marked[newNode[u]]
          /\ newNode[u] # p
      BY <1>3, <3>1, OwnNode, Zenon
    <3> QED BY <1>2, <1>6, <3>1, <3>2, Zenon
  <2> QED BY <1>2, <2>1, OwnedKept, Zenon
<1>18. \A u \in Threads : Held(u)'
  BY <1>2, Zenon DEF IInv, Held
<1> QED BY <1>1, <1>10, <1>11, <1>13, <1>14, <1>15, <1>16, <1>17, <1>18 DEF IInv

-----------------------------------------------------------------------------
(* The invariant *)

\* init_list makes a list of the two sentinels.
LEMMA InitInvariant ==
  ASSUME Init
  PROVE  IInv
<1>1. TypeOK
  BY ListAssumption, NodeFacts DEF Init, TypeOK, Lines
<1>2. Dying = {} /\ InList = {Head, Tail} /\ \A n \in Nodes : Linked(n) <=> n \in {Head, Tail}
  <2>1. \A n \in Nodes : Linked(n) <=> n \in {Head, Tail}
    BY NodeFacts DEF Init, Linked
  <2>2. Dying = {}
    BY Zenon DEF Init, Dying
  <2> QED BY <2>1, <2>2, NodeFacts, Zenon DEF Init, InList
<1>3. /\ next[Head] = Tail /\ nkey[Head] = IntMin /\ nkey[Tail] = IntMax
      /\ \A n \in Nodes : next[n] # NULL => n = Head
      /\ \A n \in Nodes : ~ marked[n]
  BY NodeFacts, Zenon DEF Init
<1>4. SortedLinks
  <2>1. next[Tail] = NULL /\ Tail # NULL /\ Linked(Tail)
    BY NodeFacts, Zenon DEF Init, Linked
  <2> QED BY <1>2, <1>3, <2>1, NodeFacts, ListAssumption, Zenon DEF SortedLinks
<1>5. Gaps /\ Closed
  BY <1>2, <1>3, NodeFacts, ListAssumption DEF Gaps, Closed
<1>6. ASSUME NEW t \in Threads
      PROVE  Held(t) /\ Owned(t) /\ View(t) /\ Seen(t) /\ Path(t)
  <2>1. pc[t] = "idle" /\ op[t] = None /\ key[t] = None /\ saw[t] = {}
    BY DEF Init
  <2> QED BY <2>1, ListAssumption, Zenon DEF Held, Owned, OwnsNode, View, Seen, Pending, Path
<1> QED BY <1>1, <1>4, <1>5, <1>6, Zenon DEF IInv

\* Every step keeps the invariant.
LEMMA NextInvariant ==
  ASSUME InRange, IInv, [Next]_vars
  PROVE  IInv'
<1>1. CASE UNCHANGED vars
  <2>1. /\ UNCHANGED <<nkey, next, marked, allocated, mtx, pc, op, key, pred, curr, newNode, res>>
        /\ UNCHANGED <<saw, met>>
    BY <1>1, Zenon DEF vars, nodes, locals, history
  <2>2. InList' = InList /\ Dying' = Dying /\ \A n : Linked(n)' = Linked(n)
    BY <2>1, Zenon DEF InList, Dying, Linked
  <2>3. \A k : Status(k)' = Status(k)
    BY <2>1, <2>2 DEF Status, Contents
  <2>4. TypeOK' /\ SortedLinks' /\ Gaps' /\ Closed'
    <3>1. TypeOK /\ SortedLinks /\ Gaps /\ Closed
      BY Zenon DEF IInv
    <3>2. TypeOK'
      BY <2>1, <3>1, Zenon DEF TypeOK
    <3>3. SortedLinks' /\ Gaps'
      BY <2>1, <2>2, <3>1, Zenon DEF SortedLinks, Gaps
    <3>4. Closed'
      BY <2>1, <2>2, <3>1, Zenon DEF Closed
    <3> QED BY <3>2, <3>3, <3>4, Zenon
  <2>5. \A t \in Threads : Held(t)' /\ Owned(t)' /\ View(t)'
    <3>1. \A t \in Threads : Held(t)' /\ Owned(t)'
      BY <2>1, <2>2, Zenon DEF IInv, Held, Owned, OwnsNode
    <3>2. \A t \in Threads : View(t)'
      BY <2>1, <2>2, Zenon DEF IInv, View
    <3> QED BY <3>1, <3>2, Zenon
  <2>6. \A t \in Threads : Seen(t)' /\ Path(t)'
    BY <2>1, <2>2, <2>3, Zenon DEF IInv, Seen, Pending, Path
  <2> QED BY <2>4, <2>5, <2>6 DEF IInv
<1>2. CASE Next
  <2>1. PICK t \in Threads : Invoke(t) \/ Step(t)
    BY <1>2 DEF Next
  <2> QED BY <2>1, InvokeStep, MoveStep, LockStep, RetryStep, FindStepInv, ReturnSteps,
             CreateNodeStep, AddLinkStep, DeleteMarkStep, DeleteUnlinkStep
          DEF Step
<1> QED BY <1>1, <1>2

\* At every step, for any number of threads and nodes and any keys between those
\* of the sentinels: the unmarked nodes are one sorted list, every link leads to a
\* greater key, and a traversal without locks is at a node that was in the list
\* during the call (add, delete and find of LazySynchroList.c).
THEOREM Invariance ==
  ASSUME InRange
  PROVE  Spec => []IInv
<1>1. Init => IInv
  BY InitInvariant
<1>2. IInv /\ [Next]_vars => IInv'
  BY NextInvariant
<1> QED BY <1>1, <1>2, PTL DEF Spec

\* The assertion of line 100 holds: the two nodes add has locked are around its
\* key, though it has chosen them without a lock.
THEOREM AssertionHolds ==
  ASSUME InRange
  PROVE  Spec => []AssertHolds
<1>1. IInv => AssertHolds
  BY Zenon DEF IInv, View, AssertHolds, Between
<1> QED BY <1>1, Invariance, PTL

-----------------------------------------------------------------------------
(* Refinement of the atomic set *)

AbsOp == [t \in Threads |-> AbstractOp(t)]
Refines == [Abstract!Next]_Abstract!vars

\* What a thread is doing for its caller.
LEMMA AbstractOps ==
  ASSUME IInv, NEW t \in Threads
  PROVE  /\ pc[t] = "idle" => AbstractOp(t) = "idle"
         /\ pc[t] = "create" => AbstractOp(t) = "alloc"
         /\ pc[t] \in {"unlink", "unlock"} => AbstractOp(t) \in {"added", "deleted"}
         /\ Pending(t) /\ pc[t] # "create" =>
              AbstractOp(t) = op[t] /\ op[t] \in {"add", "delete", "find"}
         /\ Pending(t) <=> AbstractOp(t) \in {"alloc", "add", "delete", "find"}
<1>1. /\ pc[t] \in Lines
      /\ Pending(t) /\ pc[t] # "create" => op[t] \in {"add", "delete", "find"}
  BY Zenon DEF IInv, TypeOK, View, Lines, Pending
<1>2. /\ pc[t] = "idle" => AbstractOp(t) = "idle"
      /\ pc[t] = "create" => AbstractOp(t) = "alloc"
      /\ pc[t] \in {"unlink", "unlock"} => AbstractOp(t) \in {"added", "deleted"}
      /\ Pending(t) /\ pc[t] # "create" => AbstractOp(t) = op[t]
  BY DEF AbstractOp, Pending
<1>3. Pending(t) <=> pc[t] \notin {"idle", "unlink", "unlock"}
  BY DEF Pending
<1> QED BY <1>1, <1>2, <1>3, Zenon

\* A step of thread t changes what t is doing, and nothing of the others.
LEMMA AbsOpStep ==
  ASSUME NEW t \in Threads, NEW o, AbstractOp(t)' = o,
         \A u \in Threads \ {t} : pc'[u] = pc[u] /\ op'[u] = op[u]
  PROVE  AbsOp' = [AbsOp EXCEPT ![t] = o]
<1>1. \A u \in Threads \ {t} : AbstractOp(u)' = AbstractOp(u)
  BY DEF AbstractOp
<1> QED BY <1>1, Zenon DEF AbsOp

\* A call begins.
LEMMA InvokeRefines ==
  ASSUME InRange, IInv, NEW t \in Threads, Invoke(t)
  PROVE  Refines
<1>1. TypeOK /\ Contents' = Contents
  BY InvokeStep DEF IInv
<1>2. PICK o, first, k, a : /\ Call(t, o, first, k) /\ k \in Keys
                            /\ \/ o = "add" /\ first = "create" /\ a = "alloc"
                               \/ o = "delete" /\ first = "start" /\ a = "delete"
                               \/ o = "find" /\ first = "findHead" /\ a = "find"
  BY Zenon DEF Invoke, AddCall, DeleteCall, FindCall
<1>3. /\ pc[t] = "idle" /\ pc'[t] = first /\ op'[t] = o
      /\ \A u \in Threads \ {t} : pc'[u] = pc[u] /\ op'[u] = op[u]
  BY <1>1, <1>2 DEF Call, Goto, TypeOK
<1>4. AbstractOp(t) = "idle" /\ AbstractOp(t)' = a
  BY <1>2, <1>3, Zenon DEF AbstractOp
<1>5. AbsOp[t] = "idle" /\ AbsOp' = [AbsOp EXCEPT ![t] = a]
  BY <1>3, <1>4, AbsOpStep, Zenon DEF AbsOp
<1>6. Abstract!Call(t, a, k)
  BY <1>1, <1>2, <1>5 DEF Call, Abstract!Call, Abstract!Status, Status, AbsOp
<1> QED BY <1>2, <1>6, Zenon DEF Refines, Abstract!Next

\* The steps that are nothing to the caller.
LEMMA SilentRefines ==
  ASSUME InRange, IInv, NEW t \in Threads,
         \/ Start(t) \/ Walk(t) \/ LockPred(t) \/ LockCurr(t) \/ Retry(t)
         \/ DeleteUnlink(t) \/ FindHead(t) \/ FindWalk(t)
  PROVE  Refines
<1>1. TypeOK /\ Contents' = Contents
  BY MoveStep, LockStep, RetryStep, DeleteUnlinkStep, FindStepInv DEF IInv
<1>2. CASE Start(t) \/ Walk(t) \/ LockPred(t) \/ LockCurr(t) \/ Retry(t)
  <2>1. /\ {pc[t], pc'[t]} \subseteq {"start", "walk", "lockPred", "lockCurr", "locked"}
        /\ \A u \in Threads \ {t} : pc'[u] = pc[u]
        /\ UNCHANGED <<op, key, res, saw>>
    BY <1>1, <1>2, Zenon DEF Start, Walk, Move, LockPred, LockCurr, Retry, Goto, locals, history, TypeOK
  <2>2. \A u \in Threads : AbstractOp(u)' = AbstractOp(u)
    BY <2>1, Zenon DEF AbstractOp
  <2> QED BY <1>1, <2>1, <2>2, Zenon DEF Refines, Abstract!vars
<1>3. CASE DeleteUnlink(t)
  <2>1. /\ pc[t] = "unlink" /\ pc'[t] = "unlock"
        /\ \A u \in Threads \ {t} : pc'[u] = pc[u]
        /\ UNCHANGED <<op, key, res, saw>>
    BY <1>1, <1>3, Zenon DEF DeleteUnlink, Goto, locals, history, TypeOK
  <2>2. \A u \in Threads : AbstractOp(u)' = AbstractOp(u)
    BY <2>1, Zenon DEF AbstractOp
  <2> QED BY <1>1, <2>1, <2>2, Zenon DEF Refines, Abstract!vars
<1>4. CASE FindHead(t) \/ FindWalk(t)
  <2>1. /\ {pc[t], pc'[t]} \subseteq {"findHead", "find", "found"}
        /\ \A u \in Threads \ {t} : pc'[u] = pc[u]
        /\ UNCHANGED <<op, key, res, saw>>
    BY <1>1, <1>4, Zenon DEF FindHead, FindWalk, FindMove, Goto, history, TypeOK
  <2>2. \A u \in Threads : AbstractOp(u)' = AbstractOp(u)
    BY <2>1 DEF AbstractOp
  <2> QED BY <1>1, <2>1, <2>2, Zenon DEF Refines, Abstract!vars
<1> QED BY <1>2, <1>3, <1>4, Zenon

\* A return, for each of the answers the abstract set allows.
LEMMA ReturnRefines ==
  ASSUME IInv, NEW t \in Threads, NEW r \in BOOLEAN, Return(t, r), Contents' = Contents,
         \/ r = TRUE /\ \/ AbstractOp(t) \in {"added", "deleted"}
                        \/ AbstractOp(t) = "find" /\ "in" \in saw[t]
         \/ r = FALSE /\ \/ AbstractOp(t) = "alloc"
                         \/ AbstractOp(t) = "add" /\ "in" \in saw[t]
                         \/ AbstractOp(t) \in {"delete", "find"} /\ "out" \in saw[t]
  PROVE  Refines
<1>1. TypeOK
  BY Zenon DEF IInv
<1>2. /\ pc'[t] = "idle"
      /\ \A u \in Threads \ {t} : pc'[u] = pc[u] /\ op'[u] = op[u]
  BY <1>1 DEF Return, TypeOK
<1>3. AbstractOp(t)' = "idle" /\ AbsOp[t] = AbstractOp(t)
  BY <1>2, Zenon DEF AbstractOp, AbsOp
<1>4. AbsOp' = [AbsOp EXCEPT ![t] = "idle"]
  BY <1>2, <1>3, AbsOpStep, Zenon
<1>5. Abstract!Return(t, r)
  BY <1>4 DEF Return, Abstract!Return, AbsOp
<1>6. CASE r = TRUE
  <2>1. Abstract!ReturnTrue(t)
    BY <1>3, <1>5, <1>6, Zenon DEF Abstract!ReturnTrue, AbsOp
  <2> QED BY <2>1, Zenon DEF Refines, Abstract!Next
<1>7. CASE r = FALSE
  <2>1. Abstract!ReturnFalse(t)
    BY <1>3, <1>5, <1>7, Zenon DEF Abstract!ReturnFalse, AbsOp
  <2> QED BY <2>1 DEF Refines, Abstract!Next
<1> QED BY <1>6, <1>7, Zenon

\* The answers of add and delete under the locks, and of delete on an empty list.
LEMMA LockedAnswers ==
  ASSUME InRange, IInv, NEW t \in Threads
  PROVE  /\ AddExists(t) => AbstractOp(t) = "add" /\ "in" \in saw[t]
         /\ DeleteAbsent(t) => AbstractOp(t) = "delete" /\ "out" \in saw[t]
         /\ DeleteEmpty(t) => AbstractOp(t) = "delete" /\ "out" \in saw[t]
<1>1. TypeOK /\ SortedLinks /\ View(t) /\ Seen(t)
  BY DEF IInv
<1>2. pc[t] \in {"start", "locked"} =>
        Pending(t) /\ AbstractOp(t) = op[t] /\ Status(key[t]) \in saw[t]
  BY <1>1, AbstractOps, Zenon DEF Pending, Seen
<1>3. ASSUME AddExists(t) PROVE AbstractOp(t) = "add" /\ "in" \in saw[t]
  <2>1. curr[t] \in InList /\ nkey[curr[t]] = key[t] /\ key[t] \in Keys
    BY <1>3, ValidPlace DEF AddExists
  <2>2. Status(key[t]) = "in"
    BY <2>1, InAt, Zenon
  <2> QED BY <1>2, <1>3, <2>2, Zenon DEF AddExists
<1>4. ASSUME DeleteAbsent(t) PROVE AbstractOp(t) = "delete" /\ "out" \in saw[t]
  <2>1. /\ pred[t] \in InList \ {Tail} /\ curr[t] \in InList /\ next[pred[t]] = curr[t]
        /\ nkey[pred[t]] < key[t] /\ key[t] <= nkey[curr[t]] /\ key[t] # nkey[curr[t]]
        /\ key[t] \in Int
    BY <1>4, ValidPlace, Zenon DEF DeleteAbsent
  <2>2. nkey[curr[t]] \in Int
    BY <2>1, LinkedNodes, Zenon DEF InList
  <2>3. Status(key[t]) = "out"
    BY <2>1, <2>2, OutBetween
  <2> QED BY <1>2, <1>4, <2>3, Zenon DEF DeleteAbsent
<1>5. ASSUME DeleteEmpty(t) PROVE AbstractOp(t) = "delete" /\ "out" \in saw[t]
  <2>1. key[t] \in Int /\ IntMin < key[t] /\ key[t] < IntMax
    BY <1>5, ThreadNodes, KeyRange, Zenon DEF DeleteEmpty
  <2>2. Head \in (InList \cup Dying) \ {Tail} /\ nkey[Head] < key[t] /\ key[t] < nkey[next[Head]]
    BY <1>1, <1>5, <2>1, LinkedNodes, NodeFacts, Zenon DEF DeleteEmpty, SortedLinks
  <2>3. Status(key[t]) = "out"
    BY <2>1, <2>2, OutBetween, Zenon
  <2> QED BY <1>2, <1>5, <2>3, Zenon DEF DeleteEmpty
<1> QED BY <1>3, <1>4, <1>5

\* The answer of find, that has looked at one node and its mark.
LEMMA FindAnswer ==
  ASSUME InRange, IInv, NEW t \in Threads, pc[t] = "found", NEW r \in BOOLEAN,
         r = (nkey[curr[t]] = key[t] /\ ~ marked[curr[t]])
  PROVE  AbstractOp(t) = "find" /\ (IF r THEN "in" ELSE "out") \in saw[t]
<1>1. TypeOK /\ View(t) /\ Seen(t) /\ Path(t)
  BY Zenon DEF IInv
<1>2. op[t] = "find" /\ key[t] \in Keys /\ Pending(t) /\ AbstractOp(t) = "find"
  BY <1>1, AbstractOps, FindNodes, Zenon DEF View
<1>3. PICK c : /\ c = curr[t] /\ c \in met[t] /\ c \in Nodes /\ Linked(c)
               /\ key[t] <= nkey[c] /\ nkey[c] \in Int /\ key[t] \in Int
  BY <1>1, <1>2, FindNodes, KeyRange, Zenon DEF Path, TypeOK
<1>4. CASE r
  <2>1. c \in InList /\ nkey[c] = key[t]
    BY <1>3, <1>4, Zenon DEF InList
  <2>2. Status(key[t]) = "in"
    BY <1>2, <2>1, InAt
  <2> QED BY <1>1, <1>2, <1>4, <2>2, Zenon DEF Seen
<1>5. CASE ~ r
  <2>1. nkey[c] # key[t] \/ marked[c]
    BY <1>3, <1>5, Zenon
  <2>2. nkey[c] # key[t] => key[t] < nkey[c]
    BY <1>3
  <2> QED BY <1>1, <1>2, <1>3, <1>5, <2>1, <2>2, Zenon DEF Path
<1> QED BY <1>4, <1>5

\* The answers of add, delete and find.
LEMMA ReturnsRefine ==
  ASSUME InRange, IInv, NEW t \in Threads,
         \/ CreateNodeFails(t) \/ AddExists(t) \/ DeleteEmpty(t) \/ DeleteAbsent(t)
         \/ UnlockReturn(t) \/ FindReturn(t)
  PROVE  Refines
<1>1. Contents' = Contents
  BY ReturnSteps
<1>2. CASE CreateNodeFails(t)
  BY <1>1, <1>2, AbstractOps, ReturnRefines, Zenon DEF CreateNodeFails
<1>3. CASE AddExists(t)
  BY <1>1, <1>3, LockedAnswers, ReturnRefines, Zenon DEF AddExists
<1>4. CASE DeleteEmpty(t)
  BY <1>1, <1>4, LockedAnswers, ReturnRefines, Zenon DEF DeleteEmpty
<1>5. CASE DeleteAbsent(t)
  BY <1>1, <1>5, LockedAnswers, ReturnRefines, Zenon DEF DeleteAbsent
<1>6. CASE UnlockReturn(t)
  BY <1>1, <1>6, AbstractOps, ReturnRefines, Zenon DEF UnlockReturn
<1>7. CASE FindReturn(t)
  <2>1. PICK r \in BOOLEAN : r = (nkey[curr[t]] = key[t] /\ ~ marked[curr[t]])
    BY Zenon
  <2>2. Return(t, r) /\ pc[t] = "found"
    BY <1>7, <2>1, Zenon DEF FindReturn
  <2>3. AbstractOp(t) = "find" /\ (IF r THEN "in" ELSE "out") \in saw[t]
    BY <2>1, <2>2, FindAnswer, Zenon
  <2> QED BY <1>1, <2>2, <2>3, ReturnRefines, Zenon
<1> QED BY <1>2, <1>3, <1>4, <1>5, <1>6, <1>7

\* create_node, and the two steps at which a call has its effect.
LEMMA EffectsRefine ==
  ASSUME InRange, IInv, NEW t \in Threads, CreateNode(t) \/ AddLink(t) \/ DeleteMark(t)
  PROVE  Refines
<1>1. TypeOK /\ \A u \in Threads : Pending(u) <=> AbsOp[u] \in Abstract!Pending
  BY AbstractOps, Zenon DEF IInv, AbsOp, Abstract!Pending
<1>2. ASSUME NEW s, Show(t, s) PROVE Abstract!Show(t, s)
  BY <1>1, <1>2 DEF Show, Abstract!Show, AbsOp
<1>3. CASE CreateNode(t)
  <2>1. /\ pc[t] = "create" /\ pc'[t] = "start" /\ UNCHANGED <<op, key, saw, res>>
        /\ \A u \in Threads \ {t} : pc'[u] = pc[u]
    BY <1>1, <1>3, Zenon DEF CreateNode, Goto, history, TypeOK
  <2>2. AbstractOp(t) = "alloc" /\ op[t] = "add"
    BY <2>1, AbstractOps, Zenon DEF IInv, View
  <2>3. AbstractOp(t)' = "add"
    BY <2>1, <2>2, Zenon DEF AbstractOp
  <2>4. AbsOp[t] = "alloc" /\ AbsOp' = [AbsOp EXCEPT ![t] = "add"]
    BY <2>1, <2>2, <2>3, AbsOpStep, Zenon DEF AbsOp
  <2>5. Abstract!Allocate(t)
    BY <1>3, <2>1, <2>4, CreateNodeStep DEF Abstract!Allocate, AbsOp
  <2> QED BY <2>5, Zenon DEF Refines, Abstract!Next
<1>4. CASE AddLink(t)
  <2>1. /\ pc[t] = "locked" /\ pc'[t] = "unlock" /\ op[t] = "add" /\ UNCHANGED <<op, key, res>>
        /\ \A u \in Threads \ {t} : pc'[u] = pc[u]
    BY <1>1, <1>4, Zenon DEF AddLink, Goto, locals, TypeOK
  <2>2. AbstractOp(t) = "add" /\ AbstractOp(t)' = "added"
    BY <2>1, Zenon DEF AbstractOp
  <2>3. AbsOp[t] = "add" /\ AbsOp' = [AbsOp EXCEPT ![t] = "added"]
    BY <2>1, <2>2, AbsOpStep, Zenon DEF AbsOp
  <2>4. Abstract!Show(t, "in")
    BY <1>2, <1>4, Zenon DEF AddLink
  <2>5. Abstract!AddEffect(t)
    BY <1>4, <2>1, <2>3, <2>4, AddLinkStep, Zenon DEF Abstract!AddEffect, AbsOp
  <2> QED BY <2>5, Zenon DEF Refines, Abstract!Next
<1>5. CASE DeleteMark(t)
  <2>1. /\ pc[t] = "locked" /\ pc'[t] = "unlink" /\ op[t] = "delete" /\ UNCHANGED <<op, key, res>>
        /\ \A u \in Threads \ {t} : pc'[u] = pc[u]
    BY <1>1, <1>5, Zenon DEF DeleteMark, Goto, locals, TypeOK
  <2>2. AbstractOp(t) = "delete" /\ AbstractOp(t)' = "deleted"
    BY <2>1, Zenon DEF AbstractOp
  <2>3. AbsOp[t] = "delete" /\ AbsOp' = [AbsOp EXCEPT ![t] = "deleted"]
    BY <2>1, <2>2, AbsOpStep, Zenon DEF AbsOp
  <2>4. Abstract!Show(t, "out")
    BY <1>2, <1>5, Zenon DEF DeleteMark
  <2>5. Abstract!DeleteEffect(t)
    BY <1>5, <2>1, <2>3, <2>4, DeleteMarkStep, Zenon DEF Abstract!DeleteEffect, AbsOp
  <2> QED BY <2>5, Zenon DEF Refines, Abstract!Next
<1> QED BY <1>3, <1>4, <1>5, Zenon

\* add, delete and find of the lazy list are linearizable, for any number of
\* threads and nodes and any keys between those of the sentinels: an add takes
\* effect where it links its node, a delete where it marks one, and any other
\* answer was right at some moment of the call.
THEOREM Linearizability ==
  ASSUME InRange
  PROVE  Spec => Linearizable
<1>1. Init => Abstract!Init
  <2> SUFFICES ASSUME Init PROVE Abstract!Init
    OBVIOUS
  <2>1. Contents = {}
    <3>1. InList \subseteq {Head, Tail}
      BY DEF Init, InList, Linked
    <3> QED BY <3>1, Zenon DEF Contents
  <2>2. AbsOp = [t \in Threads |-> "idle"]
    BY DEF AbsOp, AbstractOp, Init
  <2> QED BY <2>1, <2>2 DEF Init, Abstract!Init, AbsOp
<1>2. IInv /\ [Next]_vars => [Abstract!Next]_Abstract!vars
  <2> SUFFICES ASSUME IInv, [Next]_vars PROVE Refines
    BY DEF Refines
  <2>1. CASE UNCHANGED vars
    <3>1. UNCHANGED <<nkey, next, marked, pc, op, key, res, saw>>
      BY <2>1, Zenon DEF vars, nodes, locals, history
    <3>2. Contents' = Contents
      BY <3>1 DEF Contents, InList, Linked
    <3>3. \A u \in Threads : AbstractOp(u)' = AbstractOp(u)
      BY <3>1, Zenon DEF AbstractOp
    <3> QED BY <3>1, <3>2, <3>3 DEF Refines, Abstract!vars
  <2>2. CASE Next
    <3>1. PICK t \in Threads : Invoke(t) \/ Step(t)
      BY <2>2 DEF Next
    <3> QED BY <3>1, InvokeRefines, SilentRefines, ReturnsRefine, EffectsRefine DEF Step
  <2> QED BY <2>1, <2>2
<1> QED BY <1>1, <1>2, Invariance, PTL DEF Spec, Linearizable, Abstract!Spec
=============================================================================
