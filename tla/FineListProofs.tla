--------------------------- MODULE FineListProofs ---------------------------
(***************************************************************************)
(* Proofs about FineList, for any number of threads, keys and nodes: the   *)
(* inductive invariant, that a node is freed only when no other thread can *)
(* get to it, and that the list implements the atomic set.                 *)
(***************************************************************************)
EXTENDS FineList, TLAPS

-----------------------------------------------------------------------------
(* Facts about a state that satisfies the invariant *)

\* A node of the chain is the tail or has a next field, and is a node.
LEMMA ChainNodes ==
  ASSUME IInv
  PROVE  /\ Head \in Chain /\ Tail \in Chain /\ Head # Tail
         /\ Chain \subseteq Nodes /\ NULL \notin Nodes /\ Head \notin Heap /\ Tail \notin Heap
         /\ \A n \in Chain \ {Tail} : next[n] # NULL /\ next[n] \in Chain /\ Less(n, next[n])
         /\ InList \subseteq Heap /\ InList \subseteq allocated
         /\ \A n \in InList : nkey[n] \in Int
BY FineListAssumption, Zenon DEF IInv, Sorted, Chain, InList, Nodes

\* The order is strict.
LEMMA LessStrict ==
  ASSUME IInv, NEW m \in Chain, NEW n \in Chain
  PROVE  /\ ~ Less(m, m)
         /\ Less(m, n) => ~ Less(n, m) /\ m # n
         /\ \A o \in Chain : Less(m, n) /\ Less(n, o) => Less(m, o)
<1>1. /\ Head \notin Heap /\ Tail \notin Heap /\ Head # Tail
      /\ \A o \in Chain \cap Heap : nkey[o] \in Int
  BY ChainNodes, FineListAssumption DEF Chain
<1> HIDE DEF Chain
<1>2. \A o \in Chain : o = Head \/ o = Tail \/ o \in Heap
  BY DEF Chain, InList
<1> QED BY <1>1, <1>2 DEF Less

\* Only one node comes before another.
LEMMA OnePredecessor ==
  ASSUME IInv, NEW m \in Chain \ {Tail}, NEW n \in Chain \ {Tail}, next[m] = next[n]
  PROVE  m = n
<1>1. next[m] \in Chain /\ Less(m, next[m]) /\ Less(n, next[m])
  BY ChainNodes
<1>2. ASSUME NEW a \in Chain \ {Tail}, NEW b \in Chain \ {Tail}, next[a] = next[b], Less(a, b)
      PROVE  FALSE
  <2>1. next[a] = b \/ Less(next[a], b)
    BY <1>2 DEF IInv, Sorted
  <2>2. Less(b, next[a]) /\ next[a] \in Chain
    BY <1>2, ChainNodes
  <2> QED BY <2>1, <2>2, LessStrict
<1>3. m = n \/ Less(m, n) \/ Less(n, m)
  BY DEF IInv, Sorted
<1> QED BY <1>2, <1>3

\* No two threads hold a lock of the same node.
LEMMA HeldByOne ==
  ASSUME IInv, NEW t \in Threads, NEW u \in Threads, t # u
  PROVE  /\ Traversing(t) /\ Traversing(u) => pred[t] # pred[u]
         /\ Traversing(t) /\ pc[u] \in {"at", "unlock", "free"} => pred[t] # curr[u]
         /\ pc[t] \in {"at", "unlock", "free"} /\ pc[u] \in {"at", "unlock", "free"}
              => curr[t] # curr[u]
<1>1. \A v \in Threads : Traversing(v) => mtx[pred[v]] = v
  BY ChainNodes DEF IInv, Locks, Traversing, Window
<1>2. \A v \in Threads : pc[v] \in {"at", "unlock", "free"} => curr[v] \in Nodes
  BY ChainNodes DEF IInv, Window, Traversing, Nodes
<1>3. \A v \in Threads : pc[v] \in {"at", "unlock", "free"} => mtx[curr[v]] = v
  BY <1>2 DEF IInv, Locks
<1>4. pc[u] \in {"at", "unlock", "free"} => Traversing(u)
  BY DEF Traversing
<1> QED BY <1>1, <1>3, <1>4

-----------------------------------------------------------------------------
(* Steps that leave the nodes alone *)

\* The list is what it was if no field changes and no thread is at "free" or
\* leaves it.
LEMMA SameList ==
  ASSUME IInv, NEW t \in Threads, UNCHANGED nodes, TypeOK',
         \A u \in Threads \ {t} : pc'[u] = pc[u] /\ curr'[u] = curr[u],
         pc[t] # "free", pc'[t] # "free"
  PROVE  /\ InList' = InList /\ Chain' = Chain /\ Contents' = Contents
         /\ \A k : Status(k)' = Status(k)
         /\ Sorted'
<1>1. Unlinked' = Unlinked
  BY DEF Unlinked
<1>2. InList' = InList /\ Contents' = Contents
  BY <1>1 DEF InList, Contents, nodes
<1>3. Chain' = Chain
  BY <1>2 DEF Chain
<1>4. \A m, n : Less(m, n)' = Less(m, n)
  BY DEF Less, nodes
<1>5. Sorted'
  BY <1>1, <1>2, <1>3, <1>4 DEF IInv, Sorted, nodes
<1> QED BY <1>1, <1>2, <1>3, <1>5 DEF Status

\* It is then enough to look at the thread that moves.
LEMMA QuietStep ==
  ASSUME IInv, NEW t \in Threads, UNCHANGED nodes, TypeOK', Locks',
         \A u \in Threads \ {t} :
           /\ pc'[u] = pc[u] /\ op'[u] = op[u] /\ key'[u] = key[u] /\ pred'[u] = pred[u]
           /\ curr'[u] = curr[u] /\ newNode'[u] = newNode[u] /\ saw'[u] = saw[u],
         pc[t] # "free", pc'[t] # "free",
         Window(t)', Control(t)', Seen(t)',
         OwnsNode(t)' => OwnsNode(t) /\ newNode'[t] = newNode[t] /\ key'[t] = key[t]
  PROVE  IInv' /\ Contents' = Contents
<1>1. /\ InList' = InList /\ Chain' = Chain /\ Sorted' /\ Contents' = Contents
      /\ \A k : Status(k)' = Status(k)
  BY SameList
<1>2. ASSUME NEW u \in Threads \ {t} PROVE Window(u)' /\ Control(u)' /\ Seen(u)'
  <2>1. Window(u)'
    BY <1>1, <1>2 DEF IInv, Window, Traversing, nodes
  <2>2. Control(u)'
    BY <1>2 DEF IInv, Control
  <2>3. Seen(u)'
    BY <1>1, <1>2 DEF IInv, Seen, Pending
  <2> QED BY <2>1, <2>2, <2>3
<1>3. \A u \in Threads : OwnsNode(u)' => OwnsNode(u) /\ newNode'[u] = newNode[u] /\ key'[u] = key[u]
  BY Zenon DEF OwnsNode
<1>4. \A u \in Threads : Owned(u)'
  BY <1>3 DEF IInv, Owned, nodes
<1>5. /\ \A n \in Heap \ allocated' : next'[n] = NULL
      /\ \A n \in InList' : nkey'[n] \in Keys
  BY <1>1 DEF IInv, nodes
<1> QED BY <1>1, <1>2, <1>4, <1>5 DEF IInv

\* A step of one thread keeps the types.
LEMMA TypeStep ==
  ASSUME IInv, NEW t \in Threads, Invoke(t) \/ Step(t)
  PROVE  TypeOK'
<1>1. /\ TypeOK /\ Control(t)
      /\ next[Head] \in Nodes
      /\ pc[t] \in {"at", "unlock", "free"} =>
           pred[t] \in Nodes /\ curr[t] \in Nodes
      /\ pc[t] = "at" /\ curr[t] # Tail => next[curr[t]] \in Nodes
      /\ pc[t] = "at" /\ op[t] = "add" => newNode[t] \in Heap
      /\ pc[t] = "free" => curr[t] \in Heap
      /\ \A k : Status(k) \in {"in", "out"}
  BY ChainNodes DEF IInv, Window, Owned, OwnsNode, Traversing, Nodes, Status, TypeOK
<1>2. ASSUME Invoke(t) PROVE TypeOK'
  BY <1>1, <1>2 DEF Invoke, Call, TypeOK, nodes
<1>3. ASSUME CreateNodeFails(t) PROVE TypeOK'
  BY <1>1, <1>3 DEF CreateNodeFails, Return, TypeOK, nodes
<1>4. ASSUME create_node(t) PROVE TypeOK'
  <2>1. key[t] \in Int
    BY <1>1, <1>4, FineListAssumption, Zenon DEF create_node, Control, TypeOK
  <2> QED BY <1>1, <1>4, <2>1 DEF create_node, TypeOK
<1>5. ASSUME LockHead(t) PROVE TypeOK'
  BY <1>1, <1>5 DEF LockHead, TypeOK, Nodes, nodes
<1>6. ASSUME LockCurr(t) PROVE TypeOK'
  BY <1>1, <1>6, Zenon DEF LockCurr, TypeOK, nodes, locals
<1>7. ASSUME Walk(t) PROVE TypeOK'
  BY <1>1, <1>7 DEF Walk, Below, TypeOK, nodes
<1>8. ASSUME AddLink(t) PROVE TypeOK'
  BY <1>1, <1>8 DEF AddLink, Arrived, Show, TypeOK, Nodes, locals
<1>9. ASSUME AddUnlock(t) PROVE TypeOK'
  BY <1>1, <1>9 DEF AddUnlock, Unlock, Return, TypeOK, nodes
<1>10. ASSUME AddExists(t) PROVE TypeOK'
  BY <1>1, <1>10 DEF AddExists, Arrived, free_node, Unlock, Return, TypeOK, Nodes
<1>11. ASSUME DeleteUnlink(t) PROVE TypeOK'
  BY <1>1, <1>11 DEF DeleteUnlink, Arrived, Found, Show, TypeOK, locals
<1>12. ASSUME DeleteFree(t) PROVE TypeOK'
  BY <1>1, <1>12 DEF DeleteFree, free_node, Unlock, Return, TypeOK, Nodes
<1>13. ASSUME DeleteAbsent(t) PROVE TypeOK'
  BY <1>1, <1>13 DEF DeleteAbsent, Arrived, Unlock, Return, TypeOK, nodes
<1>14. ASSUME FindReturn(t) PROVE TypeOK'
  BY <1>1, <1>14 DEF FindReturn, Arrived, Unlock, Return, TypeOK, nodes
<1> QED BY <1>2, <1>3, <1>4, <1>5, <1>6, <1>7, <1>8, <1>9, <1>10, <1>11, <1>12, <1>13, <1>14, Zenon
        DEF Step

\* A thread that goes on with its window keeps both locks of it.
LEMMA LocksKept ==
  ASSUME Locks, NEW t \in Threads, UNCHANGED <<mtx, pred, curr>>,
         \/ pc[t] = "at" /\ pc'[t] \in {"unlock", "free"}
         \/ pc[t] = "create" /\ pc'[t] = "lockHead",
         \A u \in Threads \ {t} : pc'[u] = pc[u]
  PROVE  Locks'
BY DEF Locks

\* A thread that returns lets go of both locks of its window, and of no other.
LEMMA LocksReleased ==
  ASSUME IInv, NEW t \in Threads, pc[t] \in {"at", "unlock", "free"},
         NEW r, Unlock(t), Return(t, r)
  PROVE  Locks'
<1>1. TypeOK /\ Locks
  BY Zenon DEF IInv
<1>2. pred[t] \in Nodes /\ curr[t] \in Nodes
  BY ChainNodes DEF IInv, Window, Traversing, Nodes
<1>3. \A n \in Nodes : mtx'[n] = IF n \in {pred[t], curr[t]} THEN None ELSE mtx[n]
  BY <1>1, <1>2 DEF Unlock, TypeOK
<1>4. /\ pc'[t] = "idle"
      /\ \A u \in Threads \ {t} : pc'[u] = pc[u] /\ pred'[u] = pred[u] /\ curr'[u] = curr[u]
  BY <1>1 DEF Return, TypeOK
<1>5. \A n \in {pred[t], curr[t]} : mtx[n] = t
  BY <1>1, <1>2 DEF Locks
<1> QED BY <1>1, <1>3, <1>4, <1>5, FineListAssumption DEF Locks

\* A return leaves nothing to be said of the thread.
LEMMA QuietReturn ==
  ASSUME IInv, NEW t \in Threads, NEW r, Return(t, r), UNCHANGED nodes, TypeOK', Locks',
         pc[t] # "free"
  PROVE  IInv' /\ Contents' = Contents
<1>1. TypeOK
  BY DEF IInv
<1>2. /\ pc'[t] = "idle" /\ op'[t] = None /\ key'[t] = None /\ saw'[t] = {}
      /\ \A u \in Threads \ {t} :
           /\ pc'[u] = pc[u] /\ op'[u] = op[u] /\ key'[u] = key[u] /\ pred'[u] = pred[u]
           /\ curr'[u] = curr[u] /\ newNode'[u] = newNode[u] /\ saw'[u] = saw[u]
  BY <1>1 DEF Return, TypeOK
<1>3. Window(t)' /\ Control(t)' /\ Seen(t)' /\ ~ OwnsNode(t)'
  BY <1>2, Zenon DEF Window, Traversing, Control, Seen, Pending, OwnsNode
<1> QED BY <1>2, <1>3, QuietStep

\* A call begins.
LEMMA InvokeStep ==
  ASSUME IInv, NEW t \in Threads, Invoke(t)
  PROVE  IInv' /\ Contents' = Contents
<1>1. TypeOK /\ Locks /\ Control(t) /\ TypeOK'
  BY TypeStep DEF IInv
<1>2. PICK o \in {"add", "delete", "find"}, k \in Keys : Call(t, o, k)
  BY DEF Invoke
<1>3. /\ pc[t] = "idle" /\ pc'[t] = (IF o = "add" THEN "create" ELSE "lockHead")
      /\ op'[t] = o /\ key'[t] = k /\ saw'[t] = {Status(k)}
      /\ UNCHANGED <<nodes, mtx, pred, curr, newNode>>
      /\ \A u \in Threads \ {t} : pc'[u] = pc[u] /\ op'[u] = op[u] /\ key'[u] = key[u] /\ saw'[u] = saw[u]
  BY <1>1, <1>2 DEF Call, TypeOK
<1>4. Locks'
  BY <1>1, <1>3 DEF Locks
<1>5. \A c : Status(c)' = Status(c)
  BY <1>1, <1>3, SameList
<1>6. Window(t)' /\ Seen(t)'
  BY <1>3, <1>5 DEF Window, Traversing, Seen, Pending
<1>7. Control(t)'
  BY <1>3, FineListAssumption DEF Control
<1>8. ~ OwnsNode(t)'
  BY <1>3, Zenon DEF OwnsNode
<1> QED BY <1>1, <1>3, <1>4, <1>6, <1>7, <1>8, QuietStep

\* A traversal locks the head.
LEMMA LockHeadStep ==
  ASSUME IInv, NEW t \in Threads, LockHead(t)
  PROVE  IInv' /\ Contents' = Contents
<1>1. TypeOK /\ Locks /\ Control(t) /\ Seen(t) /\ TypeOK'
  BY TypeStep DEF IInv, Step
<1>2. /\ pc[t] = "lockHead" /\ mtx[Head] = None
      /\ pc'[t] = "lockCurr" /\ pred'[t] = Head /\ curr'[t] = next[Head]
      /\ UNCHANGED <<nodes, op, key, newNode, saw>>
      /\ \A u \in Threads \ {t} : pc'[u] = pc[u] /\ pred'[u] = pred[u] /\ curr'[u] = curr[u]
      /\ \A n \in Nodes : mtx'[n] = IF n = Head THEN t ELSE mtx[n]
  BY <1>1 DEF LockHead, TypeOK
<1>3. Locks'
  BY <1>1, <1>2, FineListAssumption DEF Locks
<1>4. Chain' = Chain /\ \A k : Status(k)' = Status(k)
  BY <1>1, <1>2, SameList, Zenon
<1>5. Window(t)'
  BY <1>2, <1>4, ChainNodes, Zenon DEF Window, Traversing, nodes
<1>6. Control(t)' /\ Seen(t)'
  BY <1>1, <1>2, <1>4, Zenon DEF Control, Seen, Pending
<1>7. OwnsNode(t)' => OwnsNode(t)
  BY <1>2 DEF OwnsNode
<1> QED BY <1>1, <1>2, <1>3, <1>5, <1>6, <1>7, QuietStep

\* A traversal locks curr.
LEMMA LockCurrStep ==
  ASSUME IInv, NEW t \in Threads, LockCurr(t)
  PROVE  IInv' /\ Contents' = Contents
<1>1. TypeOK /\ Locks /\ Window(t) /\ Control(t) /\ Seen(t) /\ TypeOK'
  BY TypeStep DEF IInv, Step
<1>2. /\ pc[t] = "lockCurr" /\ mtx[curr[t]] = None /\ pc'[t] = "at"
      /\ UNCHANGED <<nodes, op, key, pred, curr, newNode, saw>>
      /\ \A u \in Threads \ {t} : pc'[u] = pc[u]
      /\ \A n \in Nodes : mtx'[n] = IF n = curr[t] THEN t ELSE mtx[n]
  BY <1>1, Zenon DEF LockCurr, TypeOK, locals
<1>3. Locks'
  BY <1>1, <1>2, FineListAssumption DEF Locks
<1>4. Chain' = Chain /\ \A k : Status(k)' = Status(k)
  BY <1>1, <1>2, SameList, Zenon
<1>5. Window(t)'
  BY <1>1, <1>2, <1>4, Zenon DEF Window, Traversing, nodes
<1>6. Control(t)' /\ Seen(t)'
  BY <1>1, <1>2, <1>4 DEF Control, Seen, Pending
<1>7. OwnsNode(t)' => OwnsNode(t)
  BY <1>2, Zenon DEF OwnsNode
<1> QED BY <1>1, <1>2, <1>3, <1>5, <1>6, <1>7, QuietStep, Zenon

\* A traversal moves on to the next window.
LEMMA WalkStep ==
  ASSUME IInv, NEW t \in Threads, Walk(t)
  PROVE  IInv' /\ Contents' = Contents
<1>1. TypeOK /\ Locks /\ Window(t) /\ Control(t) /\ Seen(t) /\ TypeOK'
  BY TypeStep, Zenon DEF IInv, Step
<1>2. /\ pc[t] = "at" /\ Below(t)
      /\ pc'[t] = "lockCurr" /\ pred'[t] = curr[t] /\ curr'[t] = next[curr[t]]
      /\ UNCHANGED <<nodes, op, key, newNode, saw>>
      /\ \A u \in Threads \ {t} : pc'[u] = pc[u] /\ pred'[u] = pred[u] /\ curr'[u] = curr[u]
      /\ \A n \in Nodes : mtx'[n] = IF n = pred[t] THEN None ELSE mtx[n]
  <2>1. /\ mtx' = [mtx EXCEPT ![pred[t]] = None] /\ pred' = [pred EXCEPT ![t] = curr[t]]
        /\ curr' = [curr EXCEPT ![t] = next[curr[t]]] /\ pc' = [pc EXCEPT ![t] = "lockCurr"]
        /\ pc[t] = "at" /\ Below(t) /\ UNCHANGED <<nodes, op, key, newNode, saw>>
    BY Zenon DEF Walk
  <2>a. pc = [u \in Threads |-> pc[u]] /\ pred = [u \in Threads |-> pred[u]] /\ curr = [u \in Threads |-> curr[u]]
    BY <1>1, Zenon DEF TypeOK
  <2>2. \A u \in Threads \ {t} : pc'[u] = pc[u] /\ pred'[u] = pred[u] /\ curr'[u] = curr[u]
    BY <2>1, <2>a, Zenon
  <2>3. pc'[t] = "lockCurr" /\ pred'[t] = curr[t] /\ curr'[t] = next[curr[t]]
    BY <2>1, <2>a, Zenon
  <2>4. \A n \in Nodes : mtx'[n] = IF n = pred[t] THEN None ELSE mtx[n]
    BY <1>1, <2>1, Zenon DEF TypeOK
  <2> QED BY <2>1, <2>2, <2>3, <2>4, Zenon
<1>3. curr[t] \in Chain /\ curr[t] # pred[t] /\ pred[t] \in Nodes
  BY <1>1, <1>2, ChainNodes, LessStrict, Zenon DEF Window, Traversing
<1>4. mtx[pred[t]] = t
  BY <1>1, <1>2, <1>3, Zenon DEF Locks
<1>5. Locks'
  BY <1>1, <1>2, <1>3, <1>4, FineListAssumption DEF Locks
<1>6. Chain' = Chain /\ \A k : Status(k)' = Status(k)
  BY <1>1, <1>2, SameList, Zenon
<1>7. Window(t)'
  BY <1>2, <1>3, <1>6, Zenon DEF Window, Traversing, Below, nodes
<1>8. Control(t)' /\ Seen(t)'
  BY <1>1, <1>2, <1>6, Zenon DEF Control, Seen, Pending
<1>9. OwnsNode(t)' => OwnsNode(t)
  BY <1>2 DEF OwnsNode
<1> QED BY <1>1, <1>2, <1>5, <1>7, <1>8, <1>9, QuietStep

\* The calls that return without a change of the list.
LEMMA ReturnSteps ==
  ASSUME IInv, NEW t \in Threads,
         CreateNodeFails(t) \/ AddUnlock(t) \/ DeleteAbsent(t) \/ FindReturn(t)
  PROVE  IInv' /\ Contents' = Contents
<1>1. TypeOK /\ Locks /\ TypeOK'
  BY TypeStep DEF IInv, Step
<1>2. CASE CreateNodeFails(t)
  <2>1. \A u \in Threads \ {t} : pc'[u] = pc[u] /\ pred'[u] = pred[u] /\ curr'[u] = curr[u]
    BY <1>1, <1>2 DEF CreateNodeFails, Return, TypeOK
  <2>2. pc[t] = "create" /\ pc'[t] = "idle" /\ UNCHANGED mtx
    BY <1>1, <1>2, Zenon DEF CreateNodeFails, Return, TypeOK
  <2>3. Locks'
    BY <1>1, <2>1, <2>2 DEF Locks
  <2> QED BY <1>1, <1>2, <2>2, <2>3, QuietReturn, Zenon DEF CreateNodeFails
<1>3. CASE AddUnlock(t)
  BY <1>1, <1>3, LocksReleased, QuietReturn, Zenon DEF AddUnlock
<1>4. CASE DeleteAbsent(t)
  BY <1>1, <1>4, LocksReleased, QuietReturn, Zenon DEF DeleteAbsent, Arrived
<1>5. CASE FindReturn(t)
  BY <1>1, <1>5, LocksReleased, QuietReturn DEF FindReturn, Arrived
<1> QED BY <1>2, <1>3, <1>4, <1>5

-----------------------------------------------------------------------------
(* Steps on a node that is not in the list *)

\* The fields of a node outside the chain do not matter to the list.
LEMMA OffChain ==
  ASSUME IInv, NEW m \in Heap \ Chain, InList' = InList,
         \A n \in Nodes \ {m} : next'[n] = next[n],
         \A n \in Heap \ {m} : nkey'[n] = nkey[n],
         (InList \cup Unlinked)' \subseteq allocated'
  PROVE  /\ Chain' = Chain /\ Sorted' /\ Contents' = Contents
         /\ \A k : Status(k)' = Status(k)
         /\ \A n \in InList' : nkey'[n] \in Keys
<1>1. /\ Chain' = Chain /\ Chain \subseteq Nodes \ {m} /\ InList \subseteq Heap \ {m}
      /\ Tail \in Chain
  BY ChainNodes, Zenon DEF Chain
<1>2. Contents' = Contents /\ \A n \in InList' : nkey'[n] \in Keys
  BY <1>1 DEF Contents, IInv
<1>3. \A a, b \in Chain : Less(a, b)' <=> Less(a, b)
  BY <1>1 DEF Less
<1>4. \A n \in Chain \ {Tail} : next'[n] = next[n] /\ next[n] \in Chain
  BY <1>1, ChainNodes
<1>5. Sorted
  BY Zenon DEF IInv
<1>6. /\ next'[Tail] = NULL
      /\ \A n \in Chain' \ {Tail} : next'[n] \in Chain' /\ Less(n, next[n])'
  BY <1>1, <1>3, <1>4, <1>5 DEF Sorted
<1>7. \A a, b \in Chain' : Less(a, b)' => next'[a] = b \/ Less(next[a], b)'
  <2> SUFFICES ASSUME NEW a \in Chain, NEW b \in Chain, Less(a, b)
               PROVE  next'[a] = b \/ Less(next[a], b)'
    BY <1>1, <1>3
  <2>1. a # Tail
    BY ChainNodes, Zenon DEF Less
  <2> QED BY <2>1, <1>3, <1>4, <1>5 DEF Sorted
<1>8. \A a, b \in Chain' : a = b \/ Less(a, b)' \/ Less(b, a)'
  BY <1>1, <1>3, <1>5, Zenon DEF Sorted
<1>9. Sorted'
  BY <1>6, <1>7, <1>8 DEF Sorted
<1> QED BY <1>1, <1>2, <1>9 DEF Status

\* Nor to a thread that is not about to free it.
LEMMA OffChainThread ==
  ASSUME IInv, NEW m \in Heap \ Chain,
         Chain' = Chain, \A k : Status(k)' = Status(k),
         \A n \in Nodes \ {m} : next'[n] = next[n],
         \A n \in Heap \ {m} : nkey'[n] = nkey[n],
         NEW u \in Threads,
         pc'[u] = pc[u], op'[u] = op[u], key'[u] = key[u],
         pred'[u] = pred[u], curr'[u] = curr[u], saw'[u] = saw[u],
         pc[u] = "free" => curr[u] # m
  PROVE  Window(u)' /\ Control(u)' /\ Seen(u)'
<1>1. Window(u) /\ Control(u) /\ Seen(u)
  BY DEF IInv
<1>2. /\ Chain \subseteq Nodes /\ m \notin Chain
      /\ \A n \in Chain : n = Head \/ n = Tail \/ n \in Heap
  BY ChainNodes, Zenon DEF Nodes
<1>3. Window(u)'
  BY <1>1, <1>2 DEF Window, Traversing, Nodes
<1>4. Control(u)' /\ Seen(u)'
  BY <1>1, Zenon DEF Control, Seen, Pending
<1> QED BY <1>3, <1>4

\* An add gets memory for its node.
LEMMA CreateNodeStep ==
  ASSUME IInv, NEW t \in Threads, create_node(t)
  PROVE  IInv' /\ Contents' = Contents
<1>1. TypeOK /\ Locks /\ Sorted /\ Control(t) /\ Seen(t) /\ TypeOK'
  BY TypeStep, Zenon DEF IInv, Step
<1>2. PICK m \in Heap \ allocated :
        /\ pc[t] = "create" /\ pc'[t] = "lockHead"
        /\ allocated' = allocated \cup {m}
        /\ nkey'[m] = key[t] /\ newNode'[t] = m
        /\ \A n \in Heap \ {m} : nkey'[n] = nkey[n]
        /\ \A u \in Threads \ {t} : pc'[u] = pc[u] /\ newNode'[u] = newNode[u]
        /\ UNCHANGED <<next, mtx, op, key, pred, curr, saw>>
  BY <1>1, Zenon DEF create_node, TypeOK
<1>3. next[m] = NULL /\ m \notin Chain
  <2>1. next[m] = NULL
    BY <1>2, Zenon DEF IInv
  <2> QED BY <1>2, <2>1, FineListAssumption, Zenon DEF Chain, InList
<1>4. Unlinked' = Unlinked /\ InList' = InList
  <2>1. Unlinked' = Unlinked
    BY <1>2 DEF Unlinked
  <2> QED BY <1>2, <2>1 DEF InList
<1>5. /\ Chain' = Chain /\ Sorted' /\ Contents' = Contents /\ \A k : Status(k)' = Status(k)
      /\ \A n \in InList' : nkey'[n] \in Keys
  BY <1>1, <1>2, <1>3, <1>4, OffChain, Zenon DEF Sorted
<1>6. \A u \in Threads \ {t} : Window(u)' /\ Control(u)' /\ Seen(u)'
  <2>1. \A u \in Threads : pc[u] = "free" => curr[u] # m
    BY <1>1, <1>2 DEF Sorted, Unlinked
  <2> QED BY <1>2, <1>3, <1>5, <2>1, OffChainThread, Zenon
<1>7. Window(t)' /\ Control(t)' /\ Seen(t)'
  BY <1>1, <1>2, <1>5, Zenon DEF Window, Traversing, Control, Seen, Pending
<1>8. \A u \in Threads : Owned(u)'
  <2>1. \A u \in Threads \ {t} : /\ OwnsNode(u)' <=> OwnsNode(u)
                                 /\ OwnsNode(u) => newNode[u] \in allocated
    BY <1>2, Zenon DEF OwnsNode, IInv, Owned
  <2> QED BY <1>2, <1>3, <2>1 DEF IInv, Owned, TypeOK
<1>9. Locks'
  BY <1>1, <1>2, LocksKept, Zenon
<1>10. \A n \in Heap \ allocated' : next'[n] = NULL
  BY <1>2, Zenon DEF IInv
<1> QED BY <1>1, <1>5, <1>6, <1>7, <1>8, <1>9, <1>10, Zenon DEF IInv

\* What is left of a thread's call when it frees a node and returns.
LEMMA FreeStep ==
  ASSUME IInv, NEW t \in Threads, NEW m \in Heap \ Chain, NEW r,
         pc[t] \in {"at", "free"}, m \in allocated,
         free_node(m), Unlock(t), Return(t, r), TypeOK',
         InList' = InList, Unlinked' \subseteq Unlinked \ {m},
         \A u \in Threads \ {t} : /\ pc[u] = "free" => curr[u] # m
                                  /\ OwnsNode(u) => newNode[u] # m
  PROVE  IInv' /\ Contents' = Contents
<1>1. TypeOK /\ Sorted
  BY Zenon DEF IInv
<1>2. /\ pc'[t] = "idle" /\ op'[t] = None /\ key'[t] = None /\ saw'[t] = {}
      /\ \A u \in Threads \ {t} :
           /\ pc'[u] = pc[u] /\ op'[u] = op[u] /\ key'[u] = key[u] /\ pred'[u] = pred[u]
           /\ curr'[u] = curr[u] /\ newNode'[u] = newNode[u] /\ saw'[u] = saw[u]
  BY <1>1 DEF Return, TypeOK
<1>3. /\ allocated' = allocated \ {m} /\ next'[m] = NULL
      /\ \A n \in Nodes \ {m} : next'[n] = next[n]
      /\ \A n \in Heap \ {m} : nkey'[n] = nkey[n]
  BY <1>1 DEF free_node, TypeOK, Nodes
<1>4. (InList \cup Unlinked)' \subseteq allocated'
  BY <1>1, <1>3, Zenon DEF Sorted, Chain
<1>5. /\ Chain' = Chain /\ Sorted' /\ Contents' = Contents /\ \A k : Status(k)' = Status(k)
      /\ \A n \in InList' : nkey'[n] \in Keys
  BY <1>3, <1>4, OffChain
<1>6. \A u \in Threads \ {t} : Window(u)' /\ Control(u)' /\ Seen(u)'
  BY <1>2, <1>3, <1>5, OffChainThread, Zenon
<1>7. Window(t)' /\ Control(t)' /\ Seen(t)' /\ ~ OwnsNode(t)'
  BY <1>2, Zenon DEF Window, Traversing, Control, Seen, Pending, OwnsNode
<1>8. \A u \in Threads : Owned(u)'
  <2>1. \A u \in Threads \ {t} : OwnsNode(u)' <=> OwnsNode(u)
    BY <1>2, Zenon DEF OwnsNode
  <2>2. \A u \in Threads \ {t} : OwnsNode(u) => newNode[u] \in Heap \ {m}
    BY Zenon DEF IInv, Owned, TypeOK
  <2>3. SUFFICES ASSUME NEW u \in Threads \ {t}, OwnsNode(u) PROVE Owned(u)'
    BY <1>7, <2>1, Zenon DEF Owned
  <2>4. /\ newNode[u] \in allocated /\ next[newNode[u]] = NULL /\ nkey[newNode[u]] = key[u]
        /\ \A w \in Threads : w # u /\ OwnsNode(w) => newNode[w] # newNode[u]
    BY <2>3, Zenon DEF IInv, Owned
  <2>5. /\ newNode[u] \in allocated' /\ next'[newNode[u]] = NULL /\ nkey'[newNode[u]] = key[u]
    BY <1>3, <2>2, <2>3, <2>4, Zenon DEF Nodes
  <2>6. \A w \in Threads : w # u /\ OwnsNode(w)' => newNode'[w] # newNode[u]
    BY <1>2, <1>7, <2>1, <2>4, Zenon
  <2> QED BY <1>2, <2>3, <2>5, <2>6, Zenon DEF Owned
<1>9. Locks'
  BY LocksReleased, Zenon
<1>10. \A n \in Heap \ allocated' : next'[n] = NULL
  BY <1>3, Zenon DEF IInv, Nodes
<1> QED BY <1>5, <1>6, <1>7, <1>8, <1>9, <1>10, Zenon DEF IInv

\* An add that finds its key frees the node it had created.
LEMMA AddExistsStep ==
  ASSUME IInv, NEW t \in Threads, AddExists(t)
  PROVE  IInv' /\ Contents' = Contents
<1>0. PICK m : m = newNode[t]
  OBVIOUS
<1>1. TypeOK /\ Sorted /\ TypeOK'
  BY TypeStep DEF IInv, Step
<1>2. /\ pc[t] = "at" /\ op[t] = "add" /\ OwnsNode(t)
      /\ free_node(m) /\ Unlock(t) /\ Return(t, FALSE)
  BY <1>0, Zenon DEF AddExists, Arrived, OwnsNode
<1>3. m \in Heap /\ m \in allocated /\ next[m] = NULL
  BY <1>0, <1>1, <1>2, Zenon DEF IInv, Owned, TypeOK
<1>4. m \in Heap \ Chain
  BY <1>3, FineListAssumption, Zenon DEF Chain, InList
<1>5. \A u \in Threads : pc[u] = "free" => curr[u] # m
  BY <1>3, ChainNodes, Zenon DEF IInv, Window
<1>6. Unlinked' = Unlinked
  BY <1>1, <1>2 DEF Return, Unlinked, TypeOK
<1>7. InList' = InList
  <2>1. next' = next
    BY <1>1, <1>2, <1>3 DEF free_node, TypeOK
  <2> QED BY <1>6, <2>1 DEF InList
<1>8. m \notin Unlinked
  BY <1>5, Zenon DEF Unlinked
<1>9. \A u \in Threads \ {t} : OwnsNode(u) => newNode[u] # m
  BY <1>0, <1>2, Zenon DEF IInv, Owned
<1>10. PICK r : Return(t, r)
  BY <1>2, Zenon
<1>11. Unlinked' \subseteq Unlinked \ {m}
  BY <1>6, <1>8, Zenon
<1>12. pc[t] \in {"at", "free"} /\ m \in allocated /\ free_node(m) /\ Unlock(t) /\ TypeOK'
  BY <1>1, <1>2, <1>3, Zenon
<1>13. \A u \in Threads \ {t} : /\ pc[u] = "free" => curr[u] # m
                                /\ OwnsNode(u) => newNode[u] # m
  BY <1>5, <1>9, Zenon
<1> QED BY <1>4, <1>7, <1>10, <1>11, <1>12, <1>13, FreeStep

\* A delete frees the node it has unlinked.
LEMMA DeleteFreeStep ==
  ASSUME IInv, NEW t \in Threads, DeleteFree(t)
  PROVE  IInv' /\ Contents' = Contents
<1>0. PICK m : m = curr[t]
  OBVIOUS
<1>1. TypeOK /\ Sorted /\ TypeOK'
  BY TypeStep DEF IInv, Step
<1>2. pc[t] = "free" /\ free_node(m) /\ Unlock(t) /\ Return(t, TRUE)
  BY <1>0, Zenon DEF DeleteFree
<1>3. m \in Heap /\ m \in Unlinked /\ next[m] # NULL
  <2>1. m \in Heap /\ next[m] \in Chain
    BY <1>0, <1>2, Zenon DEF IInv, Window
  <2>2. m \in Unlinked
    BY <1>0, <1>2, Zenon DEF Unlinked
  <2> QED BY <2>1, <2>2, ChainNodes, Zenon
<1>4. m \in Heap \ Chain /\ m \in allocated
  BY <1>1, <1>3, FineListAssumption, Zenon DEF Chain, InList, Sorted
<1>5. \A u \in Threads \ {t} : pc[u] = "free" => curr[u] # m
  BY <1>0, <1>2, HeldByOne
<1>6. Unlinked' = Unlinked \ {m}
  <2>1. {u \in Threads : pc'[u] = "free"} = {u \in Threads : pc[u] = "free"} \ {t}
    BY <1>1, <1>2, Zenon DEF Return, TypeOK
  <2>2. \A u \in Threads \ {t} : curr'[u] = curr[u]
    BY <1>1, <1>2 DEF Return, TypeOK
  <2> QED BY <1>0, <1>2, <1>5, <2>1, <2>2 DEF Unlinked
<1>7. InList' = InList
  <2>1. \A n \in Heap : next'[n] = IF n = m THEN NULL ELSE next[n]
    BY <1>1, <1>2, Zenon DEF free_node, TypeOK, Nodes
  <2> QED BY <1>3, <1>6, <2>1 DEF InList
<1>8. \A u \in Threads \ {t} : OwnsNode(u) => newNode[u] # m
  BY <1>3 DEF IInv, Owned
<1>9. PICK r : Return(t, r)
  BY <1>2, Zenon
<1> QED BY <1>1, <1>2, <1>4, <1>5, <1>6, <1>7, <1>8, <1>9, FreeStep

-----------------------------------------------------------------------------
(* The step that links a node *)

\* The order is strict on all nodes, those outside the chain included.
LEMMA LessOrder ==
  ASSUME TypeOK
  PROVE  /\ \A m, n \in Nodes : Less(m, n) => ~ Less(n, m) /\ m # n
         /\ \A m, n, o \in Nodes : Less(m, n) /\ Less(n, o) => Less(m, o)
BY FineListAssumption DEF Less, TypeOK, Nodes

\* Where AddLink puts its node: between two neighbours of the chain.
LEMMA AddPlace ==
  ASSUME IInv, NEW t \in Threads, Arrived(t, "add"), ~ Found(t)
  PROVE  /\ pred[t] \in Chain \ {Tail} /\ curr[t] = next[pred[t]] /\ curr[t] \in Chain
         /\ newNode[t] \in Heap \ Chain /\ newNode[t] \in allocated
         /\ next[newNode[t]] = NULL /\ nkey[newNode[t]] = key[t] /\ key[t] \in Keys
         /\ Less(pred[t], newNode[t]) /\ Less(newNode[t], curr[t])
<1>1. pc[t] = "at" /\ op[t] = "add" /\ ~ Below(t) /\ OwnsNode(t) /\ Traversing(t)
  BY DEF Arrived, OwnsNode, Traversing
<1>2. /\ TypeOK /\ Window(t) /\ Owned(t) /\ Control(t)
  BY Zenon DEF IInv
<1>3. pred[t] \in Chain \ {Tail} /\ curr[t] = next[pred[t]] /\ curr[t] \in Chain
  BY <1>1, <1>2, ChainNodes, Zenon DEF Window
<1>4. /\ newNode[t] \in Heap /\ newNode[t] \in allocated
      /\ next[newNode[t]] = NULL /\ nkey[newNode[t]] = key[t]
  BY <1>1, <1>2 DEF Owned, TypeOK
<1>5. newNode[t] \notin Chain
  BY <1>4, FineListAssumption DEF Chain, InList
<1>6. key[t] \in Keys
  BY <1>1, <1>2, Zenon DEF Control, TypeOK
<1>7. Less(pred[t], newNode[t])
  BY <1>1, <1>2, <1>3, <1>4, FineListAssumption, Zenon DEF Window, Less, Chain, InList
<1>8. Less(newNode[t], curr[t])
  <2>1. CASE curr[t] = Tail
    BY <2>1, <1>4, FineListAssumption DEF Less
  <2>2. CASE curr[t] # Tail
    <3>0. Less(pred[t], curr[t])
      BY <1>3, ChainNodes, Zenon
    <3>1. curr[t] \in Heap /\ nkey[curr[t]] \in Int
      <4>1. curr[t] # Head
        BY <3>0, FineListAssumption DEF Less
      <4>2. curr[t] \in InList
        BY <4>1, <2>2, <1>3 DEF Chain
      <4> QED BY <4>2, ChainNodes
    <3>2. key[t] < nkey[curr[t]]
      <4>1. ~ (nkey[curr[t]] < key[t]) /\ key[t] # nkey[curr[t]]
        BY <2>2, <1>1 DEF Below, Found
      <4>2. key[t] \in Int
        BY <1>6, FineListAssumption, Zenon
      <4> QED BY <3>1, <4>1, <4>2
    <3> QED BY <3>1, <3>2, <1>4, Zenon DEF Less
  <2> QED BY <2>1, <2>2, Zenon
<1> QED BY <1>3, <1>4, <1>5, <1>6, <1>7, <1>8, Zenon

\* A node put between two neighbours leaves the chain sorted.
LEMMA LinkSorted ==
  ASSUME IInv, NEW p \in Chain \ {Tail}, NEW m \in Heap \ Chain, m \in allocated,
         next[m] = NULL, Less(p, m), Less(m, next[p]),
         \A n \in Nodes : next'[n] = IF n = p THEN m ELSE IF n = m THEN next[p] ELSE next[n],
         nkey' = nkey, allocated' = allocated, Unlinked' = Unlinked
  PROVE  InList' = InList \cup {m} /\ Chain' = Chain \cup {m} /\ Sorted'
<1> DEFINE c == next[p]
<1>0. /\ TypeOK /\ Sorted
      /\ Chain \subseteq Nodes /\ m \in Nodes /\ c \in Chain /\ NULL \notin Nodes
      /\ Head \in Chain /\ Tail \in Chain
  BY ChainNodes, Zenon DEF IInv, Nodes
<1>1. m \notin Unlinked
  BY <1>0 DEF IInv, Window, Unlinked
<1>2. InList' = InList \cup {m}
  BY <1>0, <1>1, Zenon DEF InList, Nodes, Chain
<1>3. Chain' = Chain \cup {m}
  BY <1>2 DEF Chain
<1>4. \A a, b : Less(a, b)' <=> Less(a, b)
  BY Zenon DEF Less
<1>5. /\ \A a, b \in Chain \cup {m} : Less(a, b) => ~ Less(b, a) /\ a # b
      /\ \A a, b, d \in Chain \cup {m} : Less(a, b) /\ Less(b, d) => Less(a, d)
  BY <1>0, LessOrder, Zenon
<1>6. \A n \in Chain : Less(p, n) => c = n \/ Less(c, n)
  BY <1>0, Zenon DEF Sorted
<1>7. \A n \in Chain : n = p \/ Less(n, p) \/ Less(p, n)
  BY <1>0, Zenon DEF Sorted
<1>8. next'[Tail] = NULL
  BY <1>0, FineListAssumption, Zenon DEF Sorted
<1>9. \A n \in Chain' \ {Tail} : next'[n] \in Chain' /\ Less(n, next'[n])
  BY <1>0, <1>3 DEF Sorted
<1>10. ASSUME NEW a \in Chain \cup {m}, NEW b \in Chain \cup {m}, Less(a, b)
       PROVE  next'[a] = b \/ Less(next'[a], b)
  <2>1. CASE a = p
    BY <2>1, <1>0, <1>5, <1>6, <1>10, Zenon
  <2>2. CASE a = m
    BY <2>2, <1>0, <1>5, <1>6, <1>10, Zenon
  <2>3. CASE a \in Chain \ {p} /\ b \in Chain
    BY <2>3, <1>0, <1>10, Zenon DEF Sorted
  <2>4. CASE a \in Chain \ {p} /\ b = m
    <3>1. Less(a, p)
      BY <2>4, <1>0, <1>5, <1>6, <1>7, <1>10
    <3>2. next[a] = p \/ Less(next[a], p)
      BY <2>4, <3>1, <1>0, Zenon DEF Sorted
    <3>3. a # Tail /\ next[a] \in Chain
      BY <2>4, <3>1, <1>0, ChainNodes, Zenon DEF Less
    <3> QED BY <2>4, <3>2, <3>3, <1>0, <1>5, Zenon
  <2> QED BY <2>1, <2>2, <2>3, <2>4, Zenon
<1>11. \A a \in Chain : Less(a, m) \/ Less(m, a)
  BY <1>0, <1>5, <1>6, <1>7, Zenon
<1>12. \A a, b \in Chain \cup {m} : a = b \/ Less(a, b) \/ Less(b, a)
  BY <1>0, <1>11 DEF Sorted
<1>13. (InList \cup Unlinked)' \subseteq allocated'
  BY <1>0, <1>2, Zenon DEF Sorted
<1>14. Sorted'
  BY <1>3, <1>4, <1>8, <1>9, <1>10, <1>12, <1>13, Zenon DEF Sorted
<1> QED BY <1>2, <1>3, <1>14

\* A change of the status of t's key is seen by the others.
LEMMA ShowSeen ==
  ASSUME IInv, NEW t \in Threads, NEW u \in Threads \ {t}, NEW s, NEW k, Show(t, s),
         key[t] = k, Status(k)' = s, \A c : c # k => Status(c)' = Status(c),
         pc'[u] = pc[u], key'[u] = key[u]
  PROVE  Seen(u)'
<1>1. saw'[u] = IF Pending(u) /\ key[u] = k THEN saw[u] \cup {s} ELSE saw[u]
  BY Zenon DEF Show
<1>2. Seen(u) /\ (Pending(u)' <=> Pending(u))
  BY DEF IInv, Pending
<1>3. PICK c : c = key[u] /\ c = key'[u]
  OBVIOUS
<1>4. Status(c)' = IF c = k THEN s ELSE Status(c)
  BY Zenon
<1> QED BY <1>1, <1>2, <1>3, <1>4, Zenon DEF Seen, Status

\* newNode->next = curr; pred->next = newNode.
LEMMA AddLinkStep ==
  ASSUME IInv, NEW t \in Threads, AddLink(t)
  PROVE  IInv' /\ Contents' = Contents \cup {key[t]}
<1>0. PICK p, m, c, k : p = pred[t] /\ m = newNode[t] /\ c = curr[t] /\ k = key[t]
  OBVIOUS
<1>1. TypeOK /\ Sorted /\ Locks /\ Window(t) /\ Control(t) /\ TypeOK'
  BY TypeStep, Zenon DEF IInv, Step
<1>2. /\ p \in Chain \ {Tail} /\ c = next[p] /\ c \in Chain
      /\ m \in Heap \ Chain /\ m \in allocated /\ next[m] = NULL /\ nkey[m] = k /\ k \in Keys
      /\ Less(p, m) /\ Less(m, next[p])
  BY <1>0, AddPlace, Zenon DEF AddLink
<1>3. /\ pc[t] = "at" /\ op[t] = "add" /\ OwnsNode(t) /\ Traversing(t)
      /\ pc'[t] = "unlock" /\ Show(t, "in")
      /\ UNCHANGED <<nkey, allocated, mtx, op, key, pred, curr, newNode>>
      /\ \A u \in Threads \ {t} : pc'[u] = pc[u]
  BY <1>1, Zenon DEF AddLink, Arrived, OwnsNode, Traversing, locals, TypeOK
<1>4. /\ p \in Nodes /\ m \in Nodes /\ p # m /\ NULL \notin Nodes /\ Chain \subseteq Nodes
      /\ next[p] # NULL
  BY <1>2, ChainNodes, Zenon DEF Nodes
<1>5. \A n \in Nodes : next'[n] = IF n = p THEN m ELSE IF n = m THEN c ELSE next[n]
  BY <1>0, <1>1, <1>4, Zenon DEF AddLink, TypeOK
<1>6. Unlinked' = Unlinked
  BY <1>3, Zenon DEF Unlinked
<1>7. InList' = InList \cup {m} /\ Chain' = Chain \cup {m} /\ Sorted'
  BY <1>2, <1>3, <1>5, <1>6, LinkSorted, Zenon
<1>8. Contents' = Contents \cup {k}
  BY <1>2, <1>3, <1>7, Zenon DEF Contents
<1>9. Status(k)' = "in" /\ \A d : d # k => Status(d)' = Status(d)
  BY <1>8 DEF Status
<1>10. ASSUME NEW u \in Threads \ {t} PROVE Window(u)' /\ Control(u)' /\ Seen(u)'
  <2>1. Window(u) /\ Control(u)
    BY Zenon DEF IInv
  <2>2. Traversing(u) => pred[u] # p
    BY <1>0, <1>3, HeldByOne, Zenon
  <2>3. pc[u] = "free" => curr[u] # p /\ next[curr[u]] # NULL /\ curr[u] \in Nodes
    BY <1>0, <1>3, <1>4, <2>1, HeldByOne, Zenon DEF Window, Nodes
  <2>4. Window(u)'
    BY <1>2, <1>3, <1>4, <1>5, <1>7, <2>1, <2>2, <2>3, Zenon DEF Window, Traversing
  <2>5. Control(u)'
    BY <1>3, <2>1, Zenon DEF Control
  <2>6. Seen(u)'
    BY <1>0, <1>3, <1>9, ShowSeen, Zenon
  <2> QED BY <2>4, <2>5, <2>6
<1>11. Window(t)' /\ Control(t)' /\ ~ OwnsNode(t)'
  BY <1>0, <1>1, <1>2, <1>3, <1>7, Zenon DEF Window, Traversing, Control, OwnsNode
<1>12. Seen(t)'
  BY <1>3, Zenon DEF Seen, Pending, Show
<1>13. \A u \in Threads : Owned(u)'
  <2>1. \A u \in Threads \ {t} :
          /\ OwnsNode(u)' <=> OwnsNode(u)
          /\ OwnsNode(u) => newNode[u] \in Heap /\ newNode[u] # m /\ next[newNode[u]] = NULL
    <3>1. \A u \in Threads \ {t} : OwnsNode(u)' <=> OwnsNode(u)
      BY <1>3, Zenon DEF OwnsNode
    <3>2. \A u \in Threads : OwnsNode(u) => newNode[u] \in Heap /\ next[newNode[u]] = NULL
      BY <1>1 DEF IInv, Owned, TypeOK
    <3>3. \A u \in Threads \ {t} : OwnsNode(u) => newNode[u] # m
      BY <1>0, <1>3, Zenon DEF IInv, Owned
    <3> QED BY <3>1, <3>2, <3>3
  <2>2. \A u \in Threads \ {t} : OwnsNode(u) => next'[newNode[u]] = NULL
    BY <1>4, <1>5, <2>1, Zenon DEF Nodes
  <2> QED BY <1>3, <1>11, <2>1, <2>2, Zenon DEF IInv, Owned
<1>14. Locks'
  BY <1>1, <1>3, LocksKept, Zenon
<1>15. /\ \A n \in Heap \ allocated' : next'[n] = NULL
       /\ \A n \in InList' : nkey'[n] \in Keys
  <2>1. \A n \in Heap \ allocated : n # p /\ n # m
    BY <1>2, ChainNodes, Zenon DEF Chain
  <2> QED BY <1>2, <1>3, <1>5, <1>7, <2>1, Zenon DEF IInv, Nodes
<1> QED BY <1>0, <1>1, <1>7, <1>8, <1>10, <1>11, <1>12, <1>13, <1>14, <1>15, Zenon DEF IInv

-----------------------------------------------------------------------------
(* The step that unlinks a node *)

\* What DeleteUnlink takes out: a node of the chain with the delete's key.
LEMMA DeletePlace ==
  ASSUME IInv, NEW t \in Threads, Arrived(t, "delete"), Found(t)
  PROVE  /\ pred[t] \in Chain \ {Tail} /\ curr[t] = next[pred[t]] /\ curr[t] \in InList
         /\ nkey[curr[t]] = key[t] /\ key[t] \in Keys
<1>1. pc[t] = "at" /\ op[t] = "delete" /\ Traversing(t)
  BY Zenon DEF Arrived, Traversing
<1>2. TypeOK /\ Window(t) /\ Control(t)
  BY Zenon DEF IInv
<1>3. /\ pred[t] \in Chain \ {Tail} /\ curr[t] = next[pred[t]] /\ curr[t] \in Chain
      /\ Less(pred[t], curr[t])
  BY <1>1, <1>2, ChainNodes, Zenon DEF Window
<1>4. curr[t] # Tail /\ nkey[curr[t]] = key[t]
  BY Zenon DEF Found
<1>5. curr[t] # Head
  BY <1>3, FineListAssumption, Zenon DEF Less
<1>6. key[t] \in Keys
  BY <1>1, <1>2 DEF Control, TypeOK
<1> QED BY <1>3, <1>4, <1>5, <1>6, Zenon DEF Chain

\* The chain without a node is still sorted.
LEMMA UnlinkSorted ==
  ASSUME IInv, NEW p \in Chain \ {Tail}, NEW c \in InList, next[p] = c,
         \A n \in Nodes : next'[n] = IF n = p THEN next[c] ELSE next[n],
         nkey' = nkey, allocated' = allocated, Unlinked' = Unlinked \cup {c}
  PROVE  InList' = InList \ {c} /\ Chain' = Chain \ {c} /\ Sorted'
<1>0. /\ TypeOK /\ Sorted /\ c \in Chain \ {Tail} /\ c # Head
      /\ Chain \subseteq Nodes /\ NULL \notin Nodes
      /\ Head \in Chain /\ Tail \in Chain
      /\ next[c] \in Chain /\ Less(c, next[c]) /\ Less(p, c)
  <2>1. c \in Chain /\ c # Tail /\ c # Head
    BY ChainNodes, Zenon DEF Chain
  <2> QED BY <2>1, ChainNodes, Zenon DEF IInv
<1>1. InList' = InList \ {c}
  BY <1>0, Zenon DEF InList, Nodes
<1>2. Chain' = Chain \ {c}
  BY <1>0, <1>1 DEF Chain
<1>3. \A a, b : Less(a, b)' <=> Less(a, b)
  BY Zenon DEF Less
<1>4. /\ \A a, b \in Chain : Less(a, b) => ~ Less(b, a) /\ a # b
      /\ \A a, b, d \in Chain : Less(a, b) /\ Less(b, d) => Less(a, d)
  BY <1>0, LessOrder
<1>5. \A n \in Chain \ {Tail} : n # p => next[n] # c
  BY OnePredecessor, Zenon
<1>6. next'[Tail] = NULL
  BY <1>0, Zenon DEF Sorted
<1>7. \A n \in Chain' \ {Tail} : next'[n] \in Chain' /\ Less(n, next'[n])
  BY <1>0, <1>2, <1>4, <1>5 DEF Sorted
<1>8. ASSUME NEW a \in Chain \ {c}, NEW b \in Chain \ {c}, Less(a, b)
      PROVE  next'[a] = b \/ Less(next'[a], b)
  <2>1. CASE a = p
    BY <2>1, <1>0, <1>8, Zenon DEF Sorted
  <2>2. CASE a # p
    BY <2>2, <1>0, <1>8, Zenon DEF Sorted
  <2> QED BY <2>1, <2>2, Zenon
<1>9. \A a, b \in Chain : a = b \/ Less(a, b) \/ Less(b, a)
  BY <1>0, Zenon DEF Sorted
<1>10. (InList \cup Unlinked)' \subseteq allocated'
  BY <1>0, <1>1 DEF Sorted
<1>11. Sorted'
  BY <1>2, <1>3, <1>6, <1>7, <1>8, <1>9, <1>10, Zenon DEF Sorted
<1> QED BY <1>1, <1>2, <1>11, Zenon

\* pred->next = curr->next.
LEMMA DeleteUnlinkStep ==
  ASSUME IInv, NEW t \in Threads, DeleteUnlink(t)
  PROVE  IInv' /\ Contents' = Contents \ {key[t]}
<1>0. PICK p, c, k : p = pred[t] /\ c = curr[t] /\ k = key[t]
  OBVIOUS
<1>1. TypeOK /\ Sorted /\ Locks /\ Window(t) /\ Control(t) /\ TypeOK'
  BY TypeStep DEF IInv, Step
<1>2. p \in Chain \ {Tail} /\ c = next[p] /\ c \in InList /\ nkey[c] = k /\ k \in Keys
  BY <1>0, DeletePlace, Zenon DEF DeleteUnlink
<1>3. /\ pc[t] = "at" /\ op[t] = "delete" /\ Traversing(t)
      /\ pc'[t] = "free" /\ Show(t, "out")
      /\ UNCHANGED <<nkey, allocated, mtx, op, key, pred, curr, newNode>>
      /\ \A u \in Threads \ {t} : pc'[u] = pc[u]
  BY <1>1, Zenon DEF DeleteUnlink, Arrived, Traversing, locals, TypeOK
<1>4. /\ p \in Nodes /\ NULL \notin Nodes /\ Chain \subseteq Nodes
      /\ c \in Heap /\ c \in Chain \ {Tail} /\ next[c] \in Chain
      /\ p # c /\ next[c] # c /\ next[p] # NULL
  <2>1. c \in Heap /\ c \in Chain \ {Tail}
    BY <1>2, ChainNodes, Zenon DEF Chain
  <2>2. next[c] \in Chain /\ Less(c, next[c]) /\ Less(p, c)
    BY <1>2, <2>1, ChainNodes, Zenon
  <2> QED BY <1>2, <2>1, <2>2, ChainNodes, LessStrict, Zenon
<1>5. \A n \in Nodes : next'[n] = IF n = p THEN next[c] ELSE next[n]
  BY <1>0, <1>1, <1>4, Zenon DEF DeleteUnlink, TypeOK
<1>6. Unlinked' = Unlinked \cup {c}
  BY <1>0, <1>3 DEF Unlinked
<1>7. InList' = InList \ {c} /\ Chain' = Chain \ {c} /\ Sorted'
  BY <1>2, <1>3, <1>5, <1>6, UnlinkSorted, Zenon
<1>8. Contents' = Contents \ {k}
  <2>1. \A n \in InList : nkey[n] = k => n = c
    <3> SUFFICES ASSUME NEW n \in InList, nkey[n] = k PROVE n = c
      OBVIOUS
    <3>1. n = c \/ Less(n, c) \/ Less(c, n)
      BY <1>1, <1>4, Zenon DEF Sorted, Chain
    <3>2. n \in Heap /\ n # Head /\ n # Tail /\ c # Head /\ c # Tail /\ k \in Int
      BY <1>2, ChainNodes, FineListAssumption
    <3> QED BY <1>2, <3>1, <3>2 DEF Less
  <2> QED BY <1>2, <1>3, <1>7, <2>1, Zenon DEF Contents
<1>9. Status(k)' = "out" /\ \A d : d # k => Status(d)' = Status(d)
  BY <1>8, Zenon DEF Status
<1>10. ASSUME NEW u \in Threads \ {t} PROVE Window(u)' /\ Control(u)' /\ Seen(u)'
  <2>1. Window(u) /\ Control(u)
    BY DEF IInv
  <2>2. /\ Traversing(u) => pred[u] # p /\ pred[u] # c
        /\ pc[u] = "unlock" => curr[u] # c
        /\ pc[u] = "free" => curr[u] # p
    BY <1>0, <1>3, HeldByOne, Zenon
  <2>3. pc[u] = "free" => /\ curr[u] \in Nodes /\ Traversing(u)
                          /\ next[curr[u]] = next[pred[u]] /\ next[curr[u]] \in Chain
    BY <2>1, Zenon DEF Window, Nodes, Traversing
  <2>4. Traversing(u) => pred[u] \in Chain \ {Tail} /\ next[pred[u]] # c
    BY <1>2, <2>1, <2>2, OnePredecessor, Zenon DEF Window
  <2>5. Window(u)'
    BY <1>3, <1>4, <1>5, <1>7, <2>1, <2>2, <2>3, <2>4, Zenon DEF Window, Traversing
  <2>6. Control(u)'
    BY <1>3, <2>1, Zenon DEF Control
  <2>7. Seen(u)'
    BY <1>0, <1>3, <1>9, ShowSeen
  <2> QED BY <2>5, <2>6, <2>7
<1>11. Window(t)'
  BY <1>0, <1>1, <1>2, <1>3, <1>4, <1>5, <1>7, Zenon DEF Window, Traversing, Nodes
<1>12. Control(t)' /\ ~ OwnsNode(t)'
  BY <1>1, <1>3, Zenon DEF Control, OwnsNode
<1>13. Seen(t)'
  BY <1>3, Zenon DEF Seen, Pending, Show
<1>14. \A u \in Threads : Owned(u)'
  <2>1. \A u \in Threads : OwnsNode(u)' => OwnsNode(u)
    BY <1>3 DEF OwnsNode
  <2>2. \A u \in Threads : OwnsNode(u) => newNode[u] \in Nodes /\ next[newNode[u]] = NULL
    BY <1>1, Zenon DEF IInv, Owned, TypeOK, Nodes
  <2>3. \A u \in Threads : OwnsNode(u) => next'[newNode[u]] = NULL
    BY <1>2, <1>4, <1>5, <2>2, Zenon
  <2> QED BY <1>3, <2>1, <2>3, Zenon DEF IInv, Owned
<1>15. Locks'
  BY <1>1, <1>3, LocksKept
<1>16. /\ \A n \in Heap \ allocated' : next'[n] = NULL
       /\ \A n \in InList' : nkey'[n] \in Keys
  <2>1. \A n \in Heap \ allocated : n # p
    BY <1>2, ChainNodes, Zenon DEF Chain
  <2> QED BY <1>3, <1>5, <1>7, <2>1, Zenon DEF IInv, Nodes
<1> QED BY <1>0, <1>1, <1>7, <1>8, <1>10, <1>11, <1>12, <1>13, <1>14, <1>15, <1>16, Zenon DEF IInv

-----------------------------------------------------------------------------
(* The invariant *)

\* init_list makes an empty chain.
LEMMA InitInvariant ==
  ASSUME Init
  PROVE  IInv
<1> USE FineListAssumption DEF Init, init_list
<1>1. TypeOK
  BY DEF TypeOK, Nodes
<1>2. Unlinked = {} /\ InList = {} /\ Chain = {Head, Tail}
  BY Zenon DEF Unlinked, InList, Chain, Nodes
<1>3. Sorted
  BY <1>2, Zenon DEF Sorted, Less, Nodes
<1>4. Locks
  BY DEF Locks
<1>5. \A t \in Threads : Window(t) /\ Owned(t) /\ Control(t) /\ Seen(t)
  BY Zenon DEF Window, Traversing, Owned, OwnsNode, Control, Seen, Pending
<1> QED BY <1>1, <1>2, <1>3, <1>4, <1>5, Zenon DEF IInv, Nodes

\* Every step keeps the invariant.
LEMMA NextInvariant ==
  ASSUME IInv, [Next]_vars
  PROVE  IInv'
<1>1. CASE UNCHANGED vars
  <2>1. UNCHANGED <<nkey, next, allocated, mtx, pc, op, key, pred, curr, newNode, res, saw>>
    BY <1>1, Zenon DEF vars, nodes, locals
  <2>2. InList' = InList /\ Unlinked' = Unlinked /\ Chain' = Chain /\ Contents' = Contents
    BY <2>1, Zenon DEF InList, Unlinked, Chain, Contents
  <2>3. TypeOK' /\ Locks'
    BY <2>1, Zenon DEF IInv, TypeOK, Locks
  <2>4. Sorted'
    BY <2>1, <2>2 DEF IInv, Sorted, Less
  <2>5. \A t \in Threads : Window(t)' /\ Owned(t)'
    BY <2>1, <2>2 DEF IInv, Window, Traversing, Owned, OwnsNode
  <2>6. \A t \in Threads : Control(t)' /\ Seen(t)'
    BY <2>1, <2>2, Zenon DEF IInv, Control, Seen, Pending, Status
  <2> QED BY <2>1, <2>2, <2>3, <2>4, <2>5, <2>6 DEF IInv
<1>2. CASE Next
  <2>1. PICK t \in Threads : Invoke(t) \/ Step(t)
    BY <1>2 DEF Next
  <2> QED BY <2>1, InvokeStep, LockHeadStep, LockCurrStep, WalkStep, ReturnSteps,
             CreateNodeStep, AddExistsStep, DeleteFreeStep, AddLinkStep, DeleteUnlinkStep
          DEF Step
<1> QED BY <1>1, <1>2

\* At every step, for any number of threads, keys and nodes: the list is one
\* sorted chain, a thread holds the locks of its window and of nothing else, and
\* the windows are what next fields say (the lock coupling of add, delete and find).
THEOREM Invariance == Spec => []IInv
<1>1. Init => IInv
  BY InitInvariant
<1>2. IInv /\ [Next]_vars => IInv'
  BY NextInvariant
<1> QED BY <1>1, <1>2, PTL DEF Spec

\* free_node in delete is safe: no other thread is at the node or can get to it.
THEOREM MemorySafety == Spec => []NoUseAfterFree
<1>1. IInv => NoUseAfterFree
  <2> SUFFICES ASSUME IInv PROVE NoUseAfterFree
    OBVIOUS
  <2>1. \A t \in Threads : Window(t) /\ Sorted
    BY Zenon DEF IInv
  <2>2. \A t \in Threads : Traversing(t) => next[pred[t]] \in Chain
    BY <2>1, ChainNodes, Zenon DEF Window
  <2>3. \A t \in Threads : Traversing(t) /\ pc[t] # "free" => curr[t] \in Chain
    BY <2>1, <2>2, Zenon DEF Window, Traversing
  <2>4. \A t \in Threads : pc[t] = "free" => curr[t] \in Unlinked /\ curr[t] \notin Chain
    BY <2>1, FineListAssumption DEF Window, Unlinked, Chain, InList
  <2>5. Chain \cup Unlinked \subseteq allocated \cup {Head, Tail}
    BY Zenon DEF IInv, Sorted, Chain
  <2>6. \A t \in Threads : Traversing(t) => {pred[t], curr[t]} \subseteq allocated \cup {Head, Tail}
    BY <2>1, <2>3, <2>4, <2>5 DEF Window
  <2>7. ASSUME NEW t \in Threads, NEW u \in Threads, pc[t] = "free", Traversing(u), t # u
        PROVE  curr[t] \notin {pred[u], curr[u], next[pred[u]]}
    BY <2>1, <2>2, <2>3, <2>4, <2>7, HeldByOne, Zenon DEF Window, Traversing
  <2> QED BY <2>6, <2>7 DEF NoUseAfterFree
<1> QED BY <1>1, Invariance, PTL

-----------------------------------------------------------------------------
(* Refinement of the atomic set *)

AbsOp == [t \in Threads |-> AbstractOp(t)]
Refines == [Abstract!Next]_Abstract!vars

\* What a thread is doing for its caller.
LEMMA AbstractOps ==
  ASSUME IInv, NEW t \in Threads
  PROVE  /\ pc[t] = "idle" => AbstractOp(t) = "idle"
         /\ pc[t] = "create" => AbstractOp(t) = "alloc"
         /\ pc[t] = "unlock" => AbstractOp(t) = "added"
         /\ pc[t] = "free" => AbstractOp(t) = "deleted"
         /\ pc[t] \in {"lockHead", "lockCurr", "at"} =>
              AbstractOp(t) = op[t] /\ op[t] \in {"add", "delete", "find"}
         /\ Pending(t) <=> AbstractOp(t) \in {"alloc", "add", "delete", "find"}
<1>1. /\ pc[t] \in {"idle", "create", "lockHead", "lockCurr", "at", "unlock", "free"}
      /\ pc[t] # "idle" => op[t] \in {"add", "delete", "find"}
  BY DEF IInv, TypeOK, Control
<1>2. /\ pc[t] = "idle" => AbstractOp(t) = "idle"
      /\ pc[t] = "create" => AbstractOp(t) = "alloc"
      /\ pc[t] = "unlock" => AbstractOp(t) = "added"
      /\ pc[t] = "free" => AbstractOp(t) = "deleted"
      /\ pc[t] \in {"lockHead", "lockCurr", "at"} => AbstractOp(t) = op[t]
  BY DEF AbstractOp
<1> QED BY <1>1, <1>2, Zenon DEF Pending

\* A step of thread t changes what t is doing, and nothing of the others.
LEMMA AbsOpStep ==
  ASSUME NEW t \in Threads, NEW o, AbstractOp(t)' = o,
         \A u \in Threads \ {t} : pc'[u] = pc[u] /\ op'[u] = op[u]
  PROVE  AbsOp' = [AbsOp EXCEPT ![t] = o]
<1>1. \A u \in Threads \ {t} : AbstractOp(u)' = AbstractOp(u)
  BY Zenon DEF AbstractOp
<1> QED BY <1>1, Zenon DEF AbsOp

\* At the end of a traversal the window tells whether the key is in the list.
LEMMA ArrivedStatus ==
  ASSUME IInv, NEW t \in Threads, pc[t] = "at", ~ Below(t)
  PROVE  /\ Found(t) <=> key[t] \in Contents
         /\ Status(key[t]) = (IF Found(t) THEN "in" ELSE "out")
         /\ Status(key[t]) \in saw[t]
<1>1. TypeOK /\ Sorted /\ Window(t) /\ Control(t) /\ Seen(t)
  BY Zenon DEF IInv
<1>2. /\ pred[t] \in Chain \ {Tail} /\ curr[t] = next[pred[t]] /\ curr[t] \in Chain
      /\ Less(pred[t], curr[t]) /\ key[t] \in Int
      /\ pred[t] = Head \/ nkey[pred[t]] < key[t]
  BY <1>1, ChainNodes, FineListAssumption DEF Window, Traversing, Control, TypeOK
<1>3. curr[t] # Head
  BY <1>2, FineListAssumption, Zenon DEF Less
<1>4. Found(t) => key[t] \in Contents
  BY <1>2, <1>3, Zenon DEF Found, Contents, Chain
<1>5. ASSUME NEW n \in InList, nkey[n] = key[t] PROVE Found(t)
  <2>1. n \in Heap /\ n \in Chain /\ n # Head /\ n # Tail
    BY FineListAssumption, Zenon DEF InList, Chain
  <2>2. \A m \in Chain : m # Head /\ m # Tail => m \in Heap /\ nkey[m] \in Int
    BY ChainNodes, Zenon DEF Chain
  <2>3. n # pred[t] /\ ~ Less(n, pred[t])
    BY <1>2, <1>5, <2>1, <2>2, FineListAssumption DEF Less
  <2>4. curr[t] = n \/ Less(curr[t], n)
    BY <1>1, <1>2, <2>1, <2>3, Zenon DEF Sorted
  <2>5. ~ Less(curr[t], n)
    <3> SUFFICES ASSUME Less(curr[t], n) PROVE FALSE
      BY Zenon
    <3>1. curr[t] # Tail /\ nkey[curr[t]] < nkey[n]
      BY <1>3, <2>1, FineListAssumption DEF Less
    <3> QED BY <1>5, <3>1 DEF Below
  <2> QED BY <1>5, <2>1, <2>4, <2>5 DEF Found
<1>6. Found(t) <=> key[t] \in Contents
  BY <1>4, <1>5 DEF Contents
<1> QED BY <1>1, <1>6 DEF Status, Seen, Pending

\* A call begins.
LEMMA InvokeRefines ==
  ASSUME IInv, IInv', NEW t \in Threads, Invoke(t)
  PROVE  Refines
<1>1. TypeOK /\ Contents' = Contents
  BY InvokeStep DEF IInv
<1>2. PICK o \in {"add", "delete", "find"}, k \in Keys : Call(t, o, k)
  BY DEF Invoke
<1>3. PICK a \in {"alloc", "delete", "find"} : a = (IF o = "add" THEN "alloc" ELSE o)
  BY Zenon
<1>4. /\ pc[t] = "idle" /\ pc'[t] = (IF o = "add" THEN "create" ELSE "lockHead") /\ op'[t] = o
      /\ \A u \in Threads \ {t} : pc'[u] = pc[u] /\ op'[u] = op[u]
  BY <1>1, <1>2 DEF Call, TypeOK
<1>5. AbstractOp(t) = "idle" /\ AbstractOp(t)' = a
  BY <1>3, <1>4, Zenon DEF AbstractOp
<1>6. AbsOp[t] = "idle" /\ AbsOp' = [AbsOp EXCEPT ![t] = a]
  BY <1>4, <1>5, AbsOpStep, Zenon DEF AbsOp
<1>7. Abstract!Call(t, a, k)
  BY <1>1, <1>2, <1>6 DEF Call, Abstract!Call, Abstract!Status, Status, AbsOp
<1> QED BY <1>7, Zenon DEF Refines, Abstract!Next

\* Getting on with a traversal is nothing to the caller.
LEMMA TraversalRefines ==
  ASSUME IInv, IInv', NEW t \in Threads, LockHead(t) \/ LockCurr(t) \/ Walk(t)
  PROVE  Refines
<1>1. TypeOK /\ Contents' = Contents
  BY LockHeadStep, LockCurrStep, WalkStep, Zenon DEF IInv
<1>2. /\ pc[t] \in {"lockHead", "lockCurr", "at"} /\ pc'[t] \in {"lockHead", "lockCurr", "at"}
      /\ \A u \in Threads \ {t} : pc'[u] = pc[u]
      /\ UNCHANGED <<op, key, res, saw>>
  BY <1>1 DEF LockHead, LockCurr, Walk, TypeOK, locals
<1>3. \A u \in Threads : AbstractOp(u)' = AbstractOp(u)
  BY <1>2 DEF AbstractOp
<1>4. AbsOp' = AbsOp
  BY <1>3 DEF AbsOp
<1> QED BY <1>1, <1>2, <1>4, Zenon DEF Refines, Abstract!vars, AbsOp

\* A return, for each of the answers the abstract set allows.
LEMMA ReturnRefines ==
  ASSUME IInv, IInv', NEW t \in Threads, NEW r \in BOOLEAN, Return(t, r), Contents' = Contents,
         \/ r = TRUE /\ \/ AbstractOp(t) \in {"added", "deleted"}
                        \/ AbstractOp(t) = "find" /\ "in" \in saw[t]
         \/ r = FALSE /\ \/ AbstractOp(t) = "alloc"
                         \/ AbstractOp(t) = "add" /\ "in" \in saw[t]
                         \/ AbstractOp(t) \in {"delete", "find"} /\ "out" \in saw[t]
  PROVE  Refines
<1>1. TypeOK
  BY Zenon DEF IInv
<1>2. /\ pc'[t] = "idle"
      /\ \A u \in Threads \ {t} : pc'[u] = pc[u] /\ op'[u] = op[u]
  BY <1>1 DEF Return, TypeOK
<1>3. AbstractOp(t)' = "idle" /\ AbsOp[t] = AbstractOp(t)
  BY <1>2 DEF AbstractOp, AbsOp
<1>4. AbsOp' = [AbsOp EXCEPT ![t] = "idle"]
  BY <1>2, <1>3, AbsOpStep, Zenon
<1>5. Abstract!Return(t, r)
  BY <1>4, Zenon DEF Return, Abstract!Return, AbsOp
<1>6. CASE r = TRUE
  <2>1. Abstract!ReturnTrue(t)
    BY <1>3, <1>5, <1>6, Zenon DEF Abstract!ReturnTrue, AbsOp
  <2> QED BY <2>1 DEF Refines, Abstract!Next
<1>7. CASE r = FALSE
  <2>1. Abstract!ReturnFalse(t)
    BY <1>3, <1>5, <1>7, Zenon DEF Abstract!ReturnFalse, AbsOp
  <2> QED BY <2>1 DEF Refines, Abstract!Next
<1> QED BY <1>6, <1>7, Zenon

\* The answers of add, delete and find.
LEMMA ReturnsRefine ==
  ASSUME IInv, IInv', NEW t \in Threads,
         \/ CreateNodeFails(t) \/ AddUnlock(t) \/ AddExists(t)
         \/ DeleteFree(t) \/ DeleteAbsent(t) \/ FindReturn(t)
  PROVE  Refines
<1>1. Contents' = Contents
  BY ReturnSteps, AddExistsStep, DeleteFreeStep, Zenon
<1>2. ASSUME NEW o, Arrived(t, o)
      PROVE  /\ AbstractOp(t) = o
             /\ (IF Found(t) THEN "in" ELSE "out") \in saw[t]
  BY <1>2, AbstractOps, ArrivedStatus DEF Arrived
<1>3. CASE CreateNodeFails(t)
  BY <1>1, <1>3, AbstractOps, ReturnRefines, Zenon DEF CreateNodeFails
<1>4. CASE AddUnlock(t)
  BY <1>1, <1>4, AbstractOps, ReturnRefines, Zenon DEF AddUnlock
<1>5. CASE AddExists(t)
  BY <1>1, <1>2, <1>5, ReturnRefines, Zenon DEF AddExists
<1>6. CASE DeleteFree(t)
  BY <1>1, <1>6, AbstractOps, ReturnRefines, Zenon DEF DeleteFree
<1>7. CASE DeleteAbsent(t)
  BY <1>1, <1>2, <1>7, ReturnRefines, Zenon DEF DeleteAbsent
<1>8. CASE FindReturn(t)
  <2>1. PICK r \in BOOLEAN : r = Found(t)
    BY Zenon DEF Found
  <2>2. Return(t, r) /\ AbstractOp(t) = "find" /\ (IF r THEN "in" ELSE "out") \in saw[t]
    BY <1>2, <1>8, <2>1 DEF FindReturn
  <2> QED BY <1>1, <2>2, ReturnRefines, Zenon
<1> QED BY <1>3, <1>4, <1>5, <1>6, <1>7, <1>8

\* create_node, and the two steps at which a call has its effect.
LEMMA EffectsRefine ==
  ASSUME IInv, IInv', NEW t \in Threads, create_node(t) \/ AddLink(t) \/ DeleteUnlink(t)
  PROVE  Refines
<1>1. TypeOK /\ \A u \in Threads : Pending(u) <=> AbsOp[u] \in Abstract!Pending
  BY AbstractOps, Zenon DEF IInv, AbsOp, Abstract!Pending
<1>2. ASSUME NEW s, Show(t, s) PROVE Abstract!Show(t, s)
  BY <1>1, <1>2, Zenon DEF Show, Abstract!Show, AbsOp
<1>3. CASE create_node(t)
  <2>1. /\ pc[t] = "create" /\ pc'[t] = "lockHead" /\ UNCHANGED <<op, key, saw, res>>
        /\ \A u \in Threads \ {t} : pc'[u] = pc[u]
    BY <1>1, <1>3, Zenon DEF create_node, TypeOK
  <2>2. AbstractOp(t) = "alloc" /\ op[t] = "add"
    BY <2>1, AbstractOps, Zenon DEF IInv, Control
  <2>3. AbstractOp(t)' = "add"
    BY <2>1, <2>2, Zenon DEF AbstractOp
  <2>4. AbsOp[t] = "alloc" /\ AbsOp' = [AbsOp EXCEPT ![t] = "add"]
    BY <2>1, <2>2, <2>3, AbsOpStep, Zenon DEF AbsOp
  <2>5. Abstract!Allocate(t)
    BY <1>3, <2>1, <2>4, CreateNodeStep, Zenon DEF Abstract!Allocate, AbsOp
  <2> QED BY <2>5, Zenon DEF Refines, Abstract!Next
<1>4. CASE AddLink(t)
  <2>1. /\ pc[t] = "at" /\ pc'[t] = "unlock" /\ op[t] = "add" /\ UNCHANGED <<op, key, res>>
        /\ \A u \in Threads \ {t} : pc'[u] = pc[u]
    BY <1>1, <1>4, Zenon DEF AddLink, Arrived, locals, TypeOK
  <2>2. key[t] \notin Contents
    BY <1>4, ArrivedStatus DEF AddLink, Arrived
  <2>3. AbstractOp(t) = "add" /\ AbstractOp(t)' = "added"
    BY <2>1, Zenon DEF AbstractOp
  <2>4. AbsOp[t] = "add" /\ AbsOp' = [AbsOp EXCEPT ![t] = "added"]
    BY <2>1, <2>3, AbsOpStep DEF AbsOp
  <2>5. Abstract!Show(t, "in")
    BY <1>2, <1>4, Zenon DEF AddLink
  <2>6. Abstract!AddEffect(t)
    BY <1>4, <2>1, <2>2, <2>4, <2>5, AddLinkStep DEF Abstract!AddEffect, AbsOp
  <2> QED BY <2>6 DEF Refines, Abstract!Next
<1>5. CASE DeleteUnlink(t)
  <2>1. /\ pc[t] = "at" /\ pc'[t] = "free" /\ op[t] = "delete" /\ UNCHANGED <<op, key, res>>
        /\ \A u \in Threads \ {t} : pc'[u] = pc[u]
    BY <1>1, <1>5, Zenon DEF DeleteUnlink, Arrived, locals, TypeOK
  <2>2. key[t] \in Contents
    BY <1>5, ArrivedStatus DEF DeleteUnlink, Arrived
  <2>3. AbstractOp(t) = "delete" /\ AbstractOp(t)' = "deleted"
    BY <2>1, Zenon DEF AbstractOp
  <2>4. AbsOp[t] = "delete" /\ AbsOp' = [AbsOp EXCEPT ![t] = "deleted"]
    BY <2>1, <2>3, AbsOpStep DEF AbsOp
  <2>5. Abstract!Show(t, "out")
    BY <1>2, <1>5, Zenon DEF DeleteUnlink
  <2>6. Abstract!DeleteEffect(t)
    BY <1>5, <2>1, <2>2, <2>4, <2>5, DeleteUnlinkStep DEF Abstract!DeleteEffect, AbsOp
  <2> QED BY <2>6, Zenon DEF Refines, Abstract!Next
<1> QED BY <1>3, <1>4, <1>5

\* add, delete and find of the hand-over-hand list are linearizable, for any
\* number of threads, keys and nodes: an add takes effect where it links its node,
\* a delete where it unlinks one, and any other answer is the status the key has
\* while the thread holds the two locks around its place.
THEOREM Linearizability == Spec => Linearizable
<1>1. Init => Abstract!Init
  <2> SUFFICES ASSUME Init PROVE Abstract!Init
    OBVIOUS
  <2>1. Contents = {}
    <3>1. InList = {}
      BY FineListAssumption DEF Init, init_list, InList, Nodes
    <3> QED BY <3>1, Zenon DEF Contents
  <2>2. AbsOp = [t \in Threads |-> "idle"]
    BY DEF AbsOp, AbstractOp, Init
  <2> QED BY <2>1, <2>2, Zenon DEF Init, Abstract!Init, AbsOp
<1>2. IInv /\ IInv' /\ [Next]_vars => [Abstract!Next]_Abstract!vars
  <2> SUFFICES ASSUME IInv, IInv', [Next]_vars PROVE Refines
    BY DEF Refines
  <2>1. CASE UNCHANGED vars
    BY <2>1, Zenon DEF vars, nodes, locals, Refines, Abstract!vars, Contents, InList, Unlinked, AbstractOp
  <2>2. CASE Next
    <3>1. PICK t \in Threads : Invoke(t) \/ Step(t)
      BY <2>2 DEF Next
    <3> QED BY <3>1, InvokeRefines, TraversalRefines, ReturnsRefine, EffectsRefine DEF Step
  <2> QED BY <2>1, <2>2
<1> QED BY <1>1, <1>2, Invariance, PTL DEF Spec, Linearizable, Abstract!Spec
=============================================================================
