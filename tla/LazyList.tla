------------------------------ MODULE LazyList ------------------------------
(***************************************************************************)
(* The list of list/LazySynchroList.c.  A traversal takes no lock and      *)
(* loads one next field per step; add and delete then lock two nodes and   *)
(* look again whether they are still neighbours.  Inside the locks, each   *)
(* store another thread can see without a lock is a step of its own: the   *)
(* link, the mark and the unlink.                                          *)
(*                                                                         *)
(* The locks are pthread mutexes that are never destroyed: lock() does not *)
(* fail, and its error branch is left out.  The unlocking of both nodes is *)
(* one step, since no lock can be waited for in between.  The keys of the  *)
(* nodes never change and are read together with the pointer to the node.  *)
(* Deleted nodes are not freed (no _FREE_ in the build).                   *)
(***************************************************************************)
EXTENDS Integers

CONSTANTS
  Threads,         \* the callers
  Keys,            \* the keys they use
  IntMin, IntMax,  \* the keys of the sentinels
  MaxNodes,        \* the nodes calloc can return
  None             \* no thread, no key

ASSUME ListAssumption ==
  /\ Keys \subseteq Int
  /\ IntMin \in Int /\ IntMax \in Int /\ IntMin < IntMax
  /\ MaxNodes \in Nat
  /\ None \notin Int /\ None \notin Threads /\ None \notin {"add", "delete", "find"}

Head == 0
Tail == MaxNodes + 1
Nodes == 0..(MaxNodes + 1)
NULL == MaxNodes + 2

VARIABLES
  nkey, next, marked,  \* the fields of the nodes
  mtx,                 \* the holder of each node's lock
  allocated,           \* how many nodes create_node has returned
  pc, op, key,         \* a thread's place, the function it is in, its argument
  pred, curr, newNode, \* its local variables
  res,                 \* what its last call returned
  saw,                 \* history: the statuses its key has had since the call
  met                  \* history: the nodes that have been in the list since a
                       \* thread called find

nodes == <<nkey, next, marked, allocated>>
locals == <<key, pred, curr, newNode>>
history == <<saw, met>>
vars == <<nodes, mtx, pc, op, locals, res, history>>

Init ==
  /\ nkey = [n \in Nodes |-> IF n = Tail THEN IntMax ELSE IntMin]
  /\ next = [n \in Nodes |-> IF n = Head THEN Tail ELSE NULL]
  /\ marked = [n \in Nodes |-> FALSE]
  /\ mtx = [n \in Nodes |-> None]
  /\ allocated = 0
  /\ pc = [t \in Threads |-> "idle"]
  /\ op = [t \in Threads |-> None]
  /\ key = [t \in Threads |-> None]
  /\ pred = [t \in Threads |-> NULL]
  /\ curr = [t \in Threads |-> NULL]
  /\ newNode = [t \in Threads |-> NULL]
  /\ res = [t \in Threads |-> None]
  /\ saw = [t \in Threads |-> {}]
  /\ met = [t \in Threads |-> {}]

-----------------------------------------------------------------------------
(* What is in the list *)

\* The next field of a node is set in the step that links the node.
Linked(n) == n = Tail \/ next[n] # NULL
InList == {n \in Nodes : Linked(n) /\ ~ marked[n]}
\* Nodes that are marked and still to be unlinked.
Dying == {curr[t] : t \in {u \in Threads : pc[u] = "unlink"}}
Contents == {nkey[n] : n \in InList \ {Head, Tail}}

Status(k) == IF k \in Contents THEN "in" ELSE "out"

\* The calls under way see the status of thread t's key become s.
Pending(u) == pc[u] \notin {"idle", "unlink", "unlock"}
Show(t, s) ==
  saw' = [u \in Threads |->
            IF u = t THEN {}
            ELSE IF Pending(u) /\ key[u] = key[t] THEN saw[u] \cup {s}
            ELSE saw[u]]

-----------------------------------------------------------------------------
(* Steps of every operation *)

Goto(t, from, to) ==
  /\ pc[t] = from
  /\ pc' = [pc EXCEPT ![t] = to]

Call(t, o, first, k) ==
  /\ Goto(t, "idle", first)
  /\ op' = [op EXCEPT ![t] = o]
  /\ key' = [key EXCEPT ![t] = k]
  /\ res' = [res EXCEPT ![t] = None]
  /\ saw' = [saw EXCEPT ![t] = {Status(k)}]
  /\ met' = [met EXCEPT ![t] = IF o = "find" THEN InList \cup Dying ELSE {}]
  /\ UNCHANGED <<nodes, mtx, pred, curr, newNode>>

Return(t, r) ==
  /\ pc' = [pc EXCEPT ![t] = "idle"]
  /\ op' = [op EXCEPT ![t] = None]
  /\ key' = [key EXCEPT ![t] = None]
  /\ pred' = [pred EXCEPT ![t] = NULL]
  /\ curr' = [curr EXCEPT ![t] = NULL]
  /\ newNode' = [newNode EXCEPT ![t] = NULL]
  /\ res' = [res EXCEPT ![t] = r]
  /\ saw' = [saw EXCEPT ![t] = {}]
  /\ met' = [met EXCEPT ![t] = {}]

\* A mutant: the traversal passes a node with the key itself.
MoveTooFar(t, from, p, c) ==
  /\ Goto(t, from, IF nkey[c] <= key[t] /\ c # Tail THEN "walk" ELSE "lockPred")
  /\ pred' = [pred EXCEPT ![t] = p]
  /\ curr' = [curr EXCEPT ![t] = c]

\* pred and curr of the next round of the traversal: it ends at the first node
\* whose key is not below the key, or at the tail.
Move(t, from, p, c) ==
  /\ Goto(t, from, IF nkey[c] < key[t] /\ c # Tail THEN "walk" ELSE "lockPred")
  /\ pred' = [pred EXCEPT ![t] = p]
  /\ curr' = [curr EXCEPT ![t] = c]

\* pred = l->head; curr = pred->next
Start(t) ==
  /\ op[t] = "delete" => next[Head] # Tail
  /\ Move(t, "start", Head, next[Head])
  /\ UNCHANGED <<nodes, mtx, op, key, newNode, res, history>>

\* pred = curr; curr = pred->next
Walk(t) ==
  /\ Move(t, "walk", curr[t], next[curr[t]])
  /\ UNCHANGED <<nodes, mtx, op, key, newNode, res, history>>

LockPred(t) ==
  /\ Goto(t, "lockPred", "lockCurr")
  /\ mtx[pred[t]] = None
  /\ mtx' = [mtx EXCEPT ![pred[t]] = t]
  /\ UNCHANGED <<nodes, op, locals, res, history>>

LockCurr(t) ==
  /\ Goto(t, "lockCurr", "locked")
  /\ mtx[curr[t]] = None
  /\ mtx' = [mtx EXCEPT ![curr[t]] = t]
  /\ UNCHANGED <<nodes, op, locals, res, history>>

Unlock(t) == mtx' = [mtx EXCEPT ![pred[t]] = None, ![curr[t]] = None]

\* assert((pred->key < key) && (key <= curr->key)), at which the process ends if
\* it is false.
Between(t) == nkey[pred[t]] < key[t] /\ key[t] <= nkey[curr[t]]

\* A mutant: pred->marked is not looked at.
validateNoPredMark(p, c) == ~ marked[c] /\ next[p] = c

validate(p, c) == ~ marked[p] /\ ~ marked[c] /\ next[p] = c

\* A mutant: the same two nodes are tried again.
RetrySameNodes(t) ==
  /\ Goto(t, "locked", "lockPred")
  /\ ~ validate(pred[t], curr[t]) \/ (op[t] = "delete" /\ ~ Between(t))
  /\ op[t] = "add" => Between(t)
  /\ Unlock(t)
  /\ UNCHANGED <<nodes, op, locals, res, history>>

\* The nodes are no longer neighbours, or (in delete) not around the key:
\* start over.
Retry(t) ==
  /\ Goto(t, "locked", "start")
  /\ ~ validate(pred[t], curr[t]) \/ (op[t] = "delete" /\ ~ Between(t))
  /\ op[t] = "add" => Between(t)
  /\ Unlock(t)
  /\ pred' = [pred EXCEPT ![t] = NULL]
  /\ curr' = [curr EXCEPT ![t] = NULL]
  /\ UNCHANGED <<nodes, op, key, newNode, res, history>>

\* The stores are done: unlock both nodes and return true.
UnlockReturn(t) ==
  /\ pc[t] = "unlock"
  /\ Unlock(t)
  /\ Return(t, TRUE)
  /\ UNCHANGED nodes

-----------------------------------------------------------------------------
(* add *)

AddCall(t, k) == Call(t, "add", "create", k)

CreateNodeFails(t) ==
  /\ pc[t] = "create"
  /\ Return(t, FALSE)
  /\ UNCHANGED <<nodes, mtx>>

CreateNode(t) ==
  /\ Goto(t, "create", "start")
  /\ allocated < MaxNodes
  /\ allocated' = allocated + 1
  /\ newNode' = [newNode EXCEPT ![t] = allocated + 1]
  /\ nkey' = [nkey EXCEPT ![allocated + 1] = key[t]]
  /\ marked' = [marked EXCEPT ![allocated + 1] = FALSE]
  /\ UNCHANGED <<next, mtx, op, key, pred, curr, res, history>>

\* newNode->next = curr; pred->next = newNode
AddLink(t) ==
  /\ op[t] = "add" /\ Goto(t, "locked", "unlock")
  /\ Between(t) /\ validate(pred[t], curr[t])
  /\ key[t] # nkey[curr[t]]
  /\ next' = [next EXCEPT ![newNode[t]] = curr[t], ![pred[t]] = newNode[t]]
  /\ Show(t, "in")
  /\ met' = [u \in Threads |-> IF op[u] = "find" THEN met[u] \cup {newNode[t]} ELSE met[u]]
  /\ UNCHANGED <<nkey, marked, allocated, mtx, op, locals, res>>

\* The key is there: unlock, and return false.
AddExists(t) ==
  /\ op[t] = "add" /\ pc[t] = "locked"
  /\ Between(t) /\ validate(pred[t], curr[t])
  /\ key[t] = nkey[curr[t]]
  /\ Unlock(t)
  /\ Return(t, FALSE)
  /\ UNCHANGED nodes

-----------------------------------------------------------------------------
(* delete *)

DeleteCall(t, k) == Call(t, "delete", "start", k)

\* l->head->next == l->tail: return false, without a lock.
DeleteEmpty(t) ==
  /\ op[t] = "delete" /\ pc[t] = "start"
  /\ next[Head] = Tail
  /\ Return(t, FALSE)
  /\ UNCHANGED <<nodes, mtx>>

\* curr->marked = true: the effect of delete.
DeleteMark(t) ==
  /\ op[t] = "delete" /\ Goto(t, "locked", "unlink")
  /\ Between(t) /\ validate(pred[t], curr[t])
  /\ key[t] = nkey[curr[t]]
  /\ marked' = [marked EXCEPT ![curr[t]] = TRUE]
  /\ Show(t, "out")
  /\ UNCHANGED <<nkey, next, allocated, mtx, op, locals, res, met>>

\* pred->next = curr->next
DeleteUnlink(t) ==
  /\ Goto(t, "unlink", "unlock")
  /\ next' = [next EXCEPT ![pred[t]] = next[curr[t]]]
  /\ UNCHANGED <<nkey, marked, allocated, mtx, op, locals, res, history>>

\* The key is not there: unlock, and return false.
DeleteAbsent(t) ==
  /\ op[t] = "delete" /\ pc[t] = "locked"
  /\ Between(t) /\ validate(pred[t], curr[t])
  /\ key[t] # nkey[curr[t]]
  /\ Unlock(t)
  /\ Return(t, FALSE)
  /\ UNCHANGED nodes

-----------------------------------------------------------------------------
(* find *)

\* The call, with curr = list->head.
FindCall(t, k) == Call(t, "find", "findHead", k)

FindMove(t, from, c) ==
  /\ Goto(t, from, IF nkey[c] < key[t] THEN "find" ELSE "found")
  /\ curr' = [curr EXCEPT ![t] = c]
  /\ UNCHANGED <<nodes, mtx, op, key, pred, newNode, res, history>>

\* curr = list->head; then curr = curr->next while curr->key < key.
FindHead(t) == FindMove(t, "findHead", Head)

\* A mutant: find waits for the node's lock.
FindWalkWaits(t) ==
  /\ pc[t] = "find" /\ mtx[curr[t]] = None
  /\ FindMove(t, "find", next[curr[t]])

FindWalk(t) == FindMove(t, "find", next[curr[t]])

\* A mutant: marked is not looked at.
FindReturnMarked(t) ==
  /\ pc[t] = "found"
  /\ Return(t, nkey[curr[t]] = key[t])
  /\ UNCHANGED <<nodes, mtx>>

FindReturn(t) ==
  /\ pc[t] = "found"
  /\ Return(t, nkey[curr[t]] = key[t] /\ ~ marked[curr[t]])
  /\ UNCHANGED <<nodes, mtx>>

-----------------------------------------------------------------------------
Step(t) ==
  \/ CreateNodeFails(t) \/ CreateNode(t)
  \/ Start(t) \/ Walk(t) \/ LockPred(t) \/ LockCurr(t) \/ Retry(t)
  \/ AddLink(t) \/ AddExists(t)
  \/ DeleteEmpty(t) \/ DeleteMark(t) \/ DeleteUnlink(t) \/ DeleteAbsent(t)
  \/ UnlockReturn(t)
  \/ FindHead(t) \/ FindWalk(t) \/ FindReturn(t)

Invoke(t) == \E k \in Keys : AddCall(t, k) \/ DeleteCall(t, k) \/ FindCall(t, k)

Next == \E t \in Threads : Invoke(t) \/ Step(t)

Spec == Init /\ [][Next]_vars

-----------------------------------------------------------------------------
(* Properties *)

Lines == {"idle", "create", "start", "walk", "lockPred", "lockCurr", "locked",
          "unlink", "unlock", "findHead", "find", "found"}

TypeOK ==
  /\ nkey \in [Nodes -> Int]
  /\ next \in [Nodes -> Nodes \cup {NULL}]
  /\ marked \in [Nodes -> BOOLEAN]
  /\ mtx \in [Nodes -> Threads \cup {None}]
  /\ allocated \in 0..MaxNodes
  /\ pc \in [Threads -> Lines]
  /\ op \in [Threads -> {"add", "delete", "find", None}]
  /\ key \in [Threads -> Keys \cup {None}]
  /\ pred \in [Threads -> Nodes \cup {NULL}]
  /\ curr \in [Threads -> Nodes \cup {NULL}]
  /\ newNode \in [Threads -> 1..MaxNodes \cup {NULL}]
  /\ res \in [Threads -> {TRUE, FALSE, None}]
  /\ saw \in [Threads -> SUBSET {"in", "out"}]
  /\ met \in [Threads -> SUBSET Nodes]

AbstractOp(t) ==
  CASE pc[t] = "idle" -> "idle"
    [] pc[t] = "create" -> "alloc"
    [] pc[t] \in {"unlink", "unlock"} -> IF op[t] = "add" THEN "added" ELSE "deleted"
    [] OTHER -> op[t]

Abstract == INSTANCE SetObject WITH
  set <- Contents,
  op  <- [t \in Threads |-> AbstractOp(t)]

\* add, delete and find are linearizable: an add takes effect when it links its
\* node, a delete when it marks one, and every other answer was right at some
\* moment of the call, though find and the traversals hold no lock and may walk
\* over nodes that have been deleted under them.
Linearizable == Abstract!Spec

\* The assertion of line 100: add finds the key between the two nodes it has
\* locked, although it chose them without a lock.
AssertHolds == \A t \in Threads : pc[t] = "locked" => Between(t)

\* A find answers true only if the key was in the list at some moment of the
\* call.
FoundWasThere ==
  [][\A t \in Threads : pc[t] = "found" /\ pc'[t] = "idle" /\ res'[t] = TRUE
                          => "in" \in saw[t]]_vars

-----------------------------------------------------------------------------
(* The inductive invariant behind the properties above, for keys between    *)
(* those of the sentinels                                                   *)

InRange == \A k \in Keys : IntMin < k /\ k < IntMax

\* Links lead to linked nodes with greater keys, of the list or long deleted.
SortedLinks ==
  /\ next[Head] # NULL /\ next[Tail] = NULL
  /\ nkey[Head] = IntMin /\ nkey[Tail] = IntMax
  /\ ~ marked[Head] /\ ~ marked[Tail]
  /\ \A n \in Nodes : next[n] # NULL =>
       /\ Linked(next[n])
       /\ nkey[n] < nkey[next[n]]
       /\ n # Head => nkey[n] \in Keys /\ n <= allocated

\* The nodes of the list have different keys, and there is none between a node
\* and its successor; nor around a node that is about to be unlinked.
Gaps ==
  /\ \A m, n \in InList : m # n => nkey[m] # nkey[n]
  /\ \A n \in InList, m \in Dying : nkey[n] # nkey[m]
  /\ \A p \in (InList \cup Dying) \ {Tail}, n \in InList :
       nkey[n] <= nkey[p] \/ nkey[next[p]] <= nkey[n]

\* From the list one gets only to nodes of the list.
Closed == \A p \in (InList \cup Dying) \ {Tail} : next[p] \in InList \cup Dying

\* A thread holds the locks it has taken; the node it creates is its own until
\* it is linked; its traversal has passed the nodes with keys below its key.
Held(t) ==
  /\ pc[t] = "lockCurr" => mtx[pred[t]] = t
  /\ pc[t] \in {"locked", "unlink", "unlock"} => mtx[pred[t]] = t /\ mtx[curr[t]] = t

OwnsNode(t) ==
  op[t] = "add" /\ pc[t] \in {"start", "walk", "lockPred", "lockCurr", "locked"}

Owned(t) ==
  OwnsNode(t) =>
    /\ newNode[t] \in 1..allocated
    /\ next[newNode[t]] = NULL /\ ~ marked[newNode[t]] /\ nkey[newNode[t]] = key[t]
    /\ \A u \in Threads : u # t /\ OwnsNode(u) => newNode[u] # newNode[t]

View(t) ==
  /\ pc[t] = "idle" <=> key[t] = None
  /\ pc[t] \in {"walk", "lockPred", "lockCurr", "locked", "unlink", "unlock"} =>
       /\ pred[t] # NULL /\ pred[t] # Tail /\ next[pred[t]] # NULL
       /\ curr[t] # NULL /\ Linked(curr[t])
       /\ nkey[pred[t]] < key[t]
  /\ pc[t] = "walk" => nkey[curr[t]] < key[t]
  /\ pc[t] \in {"lockPred", "lockCurr", "locked", "unlink"} => key[t] <= nkey[curr[t]]
  /\ pc[t] = "unlink" =>
       /\ ~ marked[pred[t]] /\ next[pred[t]] = curr[t]
       /\ marked[curr[t]] /\ nkey[curr[t]] = key[t]
  /\ pc[t] = "create" => op[t] = "add"
  /\ pc[t] = "unlink" => op[t] = "delete"
  /\ pc[t] \in {"start", "walk", "lockPred", "lockCurr", "locked", "unlock"}
       => op[t] \in {"add", "delete"}
  /\ pc[t] \in {"findHead", "find", "found"} <=> op[t] = "find"

\* The status of a key is seen by the calls under way.
Seen(t) ==
  /\ Pending(t) => Status(key[t]) \in saw[t]
  /\ ~ Pending(t) => saw[t] = {}

\* What a thread in find can run into: nodes of the list, and nodes deleted since
\* its call, which still lead it to such nodes.
Path(t) ==
  op[t] = "find" =>
    /\ InList \cup Dying \subseteq met[t]
    /\ \A n \in met[t] : Linked(n) /\ (marked[n] =>
         /\ next[n] \in met[t]
         /\ nkey[n] = key[t] => "out" \in saw[t]
         /\ nkey[n] < key[t] /\ key[t] < nkey[next[n]] => "out" \in saw[t])
    /\ pc[t] \in {"find", "found"} => curr[t] \in met[t]
    /\ pc[t] = "find" => nkey[curr[t]] < key[t]
    /\ pc[t] = "found" => key[t] <= nkey[curr[t]]
    /\ pc[t] = "found" /\ key[t] < nkey[curr[t]] => "out" \in saw[t]

\* Together, the inductive invariant: at every moment the unmarked nodes are a
\* sorted list, whatever the traversals hold.
IInv ==
  /\ TypeOK
  /\ SortedLinks
  /\ Gaps
  /\ Closed
  /\ \A t \in Threads : Held(t) /\ Owned(t) /\ View(t) /\ Seen(t) /\ Path(t)

-----------------------------------------------------------------------------
(* Liveness *)

\* The scheduler runs a thread that is in find; the others may stop anywhere,
\* with locks held.
FindStep(t) == FindHead(t) \/ FindWalk(t) \/ FindReturn(t)
FairSpec == Spec /\ \A t \in Threads : WF_vars(FindStep(t))

\* find takes no lock, and meets greater keys at every step even on nodes deleted
\* under it: it returns wherever the other threads have stopped.
FindIsWaitFree == \A t \in Threads : op[t] = "find" ~> pc[t] = "idle"

\* Some call returns.
SomeReturn == \E u \in Threads : pc[u] # "idle" /\ pc'[u] = "idle"

\* No deadlock, since locks are taken in the order of the list, and no endless
\* mutual retrying: if every thread that can run does, then while a call is
\* under way some call returns.
Progress ==
  (\A t \in Threads : WF_vars(Step(t))) =>
    []<>(\A t \in Threads : pc[t] = "idle") \/ []<><<SomeReturn>>_vars
=============================================================================
