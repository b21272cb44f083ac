------------------------------ MODULE FineList ------------------------------
(***************************************************************************)
(* The list of list/FineGrainedSynchroList.c.  A traversal goes hand over  *)
(* hand: it holds the locks of pred and curr, lets pred's go and waits for *)
(* the lock of the node after curr.  A step reaches from one lock() to the *)
(* next; what lies between touches nodes the thread has locked.  The two   *)
(* unlock()s at the end of a call are one step: no lock is waited for in   *)
(* between.                                                                *)
(*                                                                         *)
(* A node goes back to the heap where free_node stands, and calloc may     *)
(* return it again (_FREE_); a build without _FREE_ just does not reuse    *)
(* it.  The keys of the sentinels are never compared.                      *)
(***************************************************************************)
EXTENDS Integers

CONSTANTS
  Threads,           \* the callers
  Keys,              \* the keys they use
  Heap,              \* the nodes calloc can return
  Head, Tail, NULL,  \* the sentinels, and no node
  None               \* no thread, no key

ASSUME FineListAssumption ==
  /\ Keys \subseteq Int /\ None \notin Int
  /\ None \notin Threads /\ None \notin {"add", "delete", "find"}
  /\ Head \notin Heap /\ Tail \notin Heap /\ NULL \notin Heap
  /\ Head # Tail /\ Head # NULL /\ Tail # NULL

Nodes == Heap \cup {Head, Tail}

VARIABLES
  nkey, next,          \* the fields of the nodes
  mtx,                 \* the holder of each node's lock
  allocated,           \* the nodes calloc has returned and free_node has not had
  pc, op, key,         \* a thread's place, the function it is in, its argument
  pred, curr, newNode, \* its local variables
  res,                 \* what its last call returned
  saw                  \* history: the statuses its key has had since the call

nodes == <<nkey, next, allocated>>
locals == <<op, key, pred, curr, newNode>>
vars == <<nodes, mtx, pc, locals, res, saw>>

init_list ==
  /\ nkey = [n \in Heap |-> 0]
  /\ next = [n \in Nodes |-> IF n = Head THEN Tail ELSE NULL]
  /\ mtx = [n \in Nodes |-> None]
  /\ allocated = {}

Init ==
  /\ init_list
  /\ pc = [t \in Threads |-> "idle"]
  /\ op = [t \in Threads |-> None]
  /\ key = [t \in Threads |-> None]
  /\ pred = [t \in Threads |-> NULL]
  /\ curr = [t \in Threads |-> NULL]
  /\ newNode = [t \in Threads |-> NULL]
  /\ res = [t \in Threads |-> None]
  /\ saw = [t \in Threads |-> {}]

-----------------------------------------------------------------------------
(* What is in the list *)

\* A node has a next field when it has been linked, until it is freed; a node a
\* delete has unlinked is still to be freed at "free".
Unlinked == {curr[t] : t \in {u \in Threads : pc[u] = "free"}}
InList == {n \in Heap : next[n] # NULL} \ Unlinked
Contents == {nkey[n] : n \in InList}

Status(k) == IF k \in Contents THEN "in" ELSE "out"

\* The calls under way see the status of thread t's key become s.
Pending(u) == pc[u] \notin {"idle", "unlock", "free"}
Show(t, s) ==
  saw' = [u \in Threads |->
            IF u = t THEN {}
            ELSE IF Pending(u) /\ key[u] = key[t] THEN saw[u] \cup {s}
            ELSE saw[u]]

-----------------------------------------------------------------------------
(* Calls and returns *)

Call(t, o, k) ==
  /\ pc[t] = "idle"
  /\ pc' = [pc EXCEPT ![t] = IF o = "add" THEN "create" ELSE "lockHead"]
  /\ op' = [op EXCEPT ![t] = o]
  /\ key' = [key EXCEPT ![t] = k]
  /\ res' = [res EXCEPT ![t] = None]
  /\ saw' = [saw EXCEPT ![t] = {Status(k)}]
  /\ UNCHANGED <<nodes, mtx, pred, curr, newNode>>

Return(t, r) ==
  /\ pc' = [pc EXCEPT ![t] = "idle"]
  /\ op' = [op EXCEPT ![t] = None]
  /\ key' = [key EXCEPT ![t] = None]
  /\ pred' = [pred EXCEPT ![t] = NULL]
  /\ curr' = [curr EXCEPT ![t] = NULL]
  /\ newNode' = [newNode EXCEPT ![t] = NULL]
  /\ res' = [res EXCEPT ![t] = r]
  /\ saw' = [saw EXCEPT ![t] = {}]

Unlock(t) == mtx' = [mtx EXCEPT ![pred[t]] = None, ![curr[t]] = None]

\* The fields of a free node mean nothing; they are cleared.
free_node(n) ==
  /\ allocated' = allocated \ {n}
  /\ next' = [next EXCEPT ![n] = NULL]
  /\ nkey' = [nkey EXCEPT ![n] = 0]

-----------------------------------------------------------------------------
(* The traversal of add, delete and find *)

\* lock(list->head->mtx); pred = list->head; curr = pred->next
LockHead(t) ==
  /\ pc[t] = "lockHead" /\ mtx[Head] = None
  /\ mtx' = [mtx EXCEPT ![Head] = t]
  /\ pred' = [pred EXCEPT ![t] = Head]
  /\ curr' = [curr EXCEPT ![t] = next[Head]]
  /\ pc' = [pc EXCEPT ![t] = "lockCurr"]
  /\ UNCHANGED <<nodes, op, key, newNode, res, saw>>

\* Mutant: the traversal starts over when it finds curr locked.
LockCurrOrRestart(t) ==
  /\ pc[t] = "lockCurr"
  /\ IF mtx[curr[t]] = None
       THEN mtx' = [mtx EXCEPT ![curr[t]] = t] /\ pc' = [pc EXCEPT ![t] = "at"]
       ELSE mtx' = [mtx EXCEPT ![pred[t]] = None] /\ pc' = [pc EXCEPT ![t] = "lockHead"]
  /\ UNCHANGED <<nodes, locals, res, saw>>

LockCurr(t) ==
  /\ pc[t] = "lockCurr" /\ mtx[curr[t]] = None
  /\ mtx' = [mtx EXCEPT ![curr[t]] = t]
  /\ pc' = [pc EXCEPT ![t] = "at"]
  /\ UNCHANGED <<nodes, locals, res, saw>>

\* Mutant: the walk goes on to the key itself.
BelowTooFar(t) == curr[t] # Tail /\ nkey[curr[t]] <= key[t]

\* The condition of the loop; in an empty list curr is the tail.
Below(t) == curr[t] # Tail /\ nkey[curr[t]] < key[t]

\* Mutant: the lock of curr is let go as well.
WalkNoLock(t) ==
  /\ pc[t] = "at" /\ Below(t)
  /\ mtx' = [mtx EXCEPT ![pred[t]] = None, ![curr[t]] = None]
  /\ pred' = [pred EXCEPT ![t] = curr[t]]
  /\ curr' = [curr EXCEPT ![t] = next[curr[t]]]
  /\ pc' = [pc EXCEPT ![t] = "lockCurr"]
  /\ UNCHANGED <<nodes, op, key, newNode, res, saw>>

\* unlock(pred->mtx); pred = curr; curr = curr->next
Walk(t) ==
  /\ pc[t] = "at" /\ Below(t)
  /\ mtx' = [mtx EXCEPT ![pred[t]] = None]
  /\ pred' = [pred EXCEPT ![t] = curr[t]]
  /\ curr' = [curr EXCEPT ![t] = next[curr[t]]]
  /\ pc' = [pc EXCEPT ![t] = "lockCurr"]
  /\ UNCHANGED <<nodes, op, key, newNode, res, saw>>

\* The traversal is over: is the key there?
Found(t) == curr[t] # Tail /\ key[t] = nkey[curr[t]]
Arrived(t, o) == pc[t] = "at" /\ op[t] = o /\ ~ Below(t)

-----------------------------------------------------------------------------
(* add *)

CreateNodeFails(t) ==
  /\ pc[t] = "create"
  /\ Return(t, FALSE)
  /\ UNCHANGED <<nodes, mtx>>

create_node(t) ==
  \E n \in Heap \ allocated :
    /\ pc[t] = "create"
    /\ allocated' = allocated \cup {n}
    /\ nkey' = [nkey EXCEPT ![n] = key[t]]
    /\ newNode' = [newNode EXCEPT ![t] = n]
    /\ pc' = [pc EXCEPT ![t] = "lockHead"]
    /\ UNCHANGED <<next, mtx, op, key, pred, curr, res, saw>>

\* newNode->next = curr; pred->next = newNode
AddLink(t) ==
  /\ Arrived(t, "add") /\ ~ Found(t)
  /\ next' = [next EXCEPT ![newNode[t]] = curr[t], ![pred[t]] = newNode[t]]
  /\ pc' = [pc EXCEPT ![t] = "unlock"]
  /\ Show(t, "in")
  /\ UNCHANGED <<nkey, allocated, mtx, locals, res>>

AddUnlock(t) ==
  /\ pc[t] = "unlock"
  /\ Unlock(t)
  /\ Return(t, TRUE)
  /\ UNCHANGED nodes

AddExists(t) ==
  /\ Arrived(t, "add") /\ Found(t)
  /\ free_node(newNode[t])
  /\ Unlock(t)
  /\ Return(t, FALSE)

-----------------------------------------------------------------------------
(* delete *)

\* Mutant: curr's next field is taken for pred's.
DeleteUnlinkNothing(t) ==
  /\ Arrived(t, "delete") /\ Found(t)
  /\ pc' = [pc EXCEPT ![t] = "free"]
  /\ Show(t, "out")
  /\ UNCHANGED <<nodes, mtx, locals, res>>

\* pred->next = curr->next
DeleteUnlink(t) ==
  /\ Arrived(t, "delete") /\ Found(t)
  /\ next' = [next EXCEPT ![pred[t]] = next[curr[t]]]
  /\ pc' = [pc EXCEPT ![t] = "free"]
  /\ Show(t, "out")
  /\ UNCHANGED <<nkey, allocated, mtx, locals, res>>

\* unlock(curr->mtx); free_node(curr); unlock(pred->mtx)
DeleteFree(t) ==
  /\ pc[t] = "free"
  /\ Unlock(t)
  /\ free_node(curr[t])
  /\ Return(t, TRUE)

DeleteAbsent(t) ==
  /\ Arrived(t, "delete") /\ ~ Found(t)
  /\ Unlock(t)
  /\ Return(t, FALSE)
  /\ UNCHANGED nodes

-----------------------------------------------------------------------------
(* find *)

FindReturn(t) ==
  /\ Arrived(t, "find")
  /\ Unlock(t)
  /\ Return(t, Found(t))
  /\ UNCHANGED nodes

-----------------------------------------------------------------------------
Step(t) ==
  \/ CreateNodeFails(t) \/ create_node(t)
  \/ LockHead(t) \/ LockCurr(t) \/ Walk(t)
  \/ AddLink(t) \/ AddUnlock(t) \/ AddExists(t)
  \/ DeleteUnlink(t) \/ DeleteFree(t) \/ DeleteAbsent(t)
  \/ FindReturn(t)

Invoke(t) == \E o \in {"add", "delete", "find"}, k \in Keys : Call(t, o, k)

Next == \E t \in Threads : Invoke(t) \/ Step(t)

Spec == Init /\ [][Next]_vars

-----------------------------------------------------------------------------
(* Properties *)

AbstractOp(t) ==
  CASE pc[t] = "idle" -> "idle"
    [] pc[t] = "create" -> "alloc"
    [] pc[t] = "unlock" -> "added"
    [] pc[t] = "free" -> "deleted"
    [] OTHER -> op[t]

Abstract == INSTANCE SetObject WITH
  set <- Contents,
  op  <- [t \in Threads |-> AbstractOp(t)]

\* add, delete and find are linearizable.
Linearizable == Abstract!Spec

\* "release lock of curr, and delete curr node": when a delete frees its node no
\* other thread is at the node, waits for its lock or can still get to it, so
\* that no thread ever uses a node that is not allocated.
Traversing(t) == pc[t] \in {"lockCurr", "at", "unlock", "free"}
NoUseAfterFree ==
  /\ \A t \in Threads : Traversing(t) =>
       {pred[t], curr[t]} \subseteq allocated \cup {Head, Tail}
  /\ \A t, u \in Threads : pc[t] = "free" /\ Traversing(u) /\ t # u =>
       curr[t] \notin {pred[u], curr[u], next[pred[u]]}

-----------------------------------------------------------------------------
(* The inductive invariant behind the properties above *)

TypeOK ==
  /\ nkey \in [Heap -> Int]
  /\ next \in [Nodes -> Nodes \cup {NULL}]
  /\ mtx \in [Nodes -> Threads \cup {None}]
  /\ allocated \subseteq Heap
  /\ pc \in [Threads -> {"idle", "create", "lockHead", "lockCurr", "at", "unlock", "free"}]
  /\ op \in [Threads -> {"add", "delete", "find", None}]
  /\ key \in [Threads -> Keys \cup {None}]
  /\ pred \in [Threads -> Nodes \cup {NULL}]
  /\ curr \in [Threads -> Nodes \cup {NULL}]
  /\ newNode \in [Threads -> Heap \cup {NULL}]
  /\ saw \in [Threads -> SUBSET {"in", "out"}]

\* The head and the tail are around all other nodes.
Less(m, n) ==
  \/ m = Head /\ n # Head
  \/ n = Tail /\ m # Tail
  \/ m \in Heap /\ n \in Heap /\ nkey[m] < nkey[n]

Chain == InList \cup {Head, Tail}

\* The chain is closed and sorted, without a node between a node and the next.
Sorted ==
  /\ next[Tail] = NULL
  /\ \A n \in Chain \ {Tail} : next[n] \in Chain /\ Less(n, next[n])
  /\ \A m, n \in Chain : Less(m, n) => next[m] = n \/ Less(next[m], n)
  /\ \A m, n \in Chain : m = n \/ Less(m, n) \/ Less(n, m)
  /\ InList \cup Unlinked \subseteq allocated

\* A thread holds exactly the locks of its window.
Locks ==
  \A t \in Threads, n \in Nodes :
    mtx[n] = t <=> \/ pc[t] = "lockCurr" /\ n = pred[t]
                   \/ pc[t] \in {"at", "unlock", "free"} /\ n \in {pred[t], curr[t]}

\* The window of a traversal is two neighbours, the first with a key below the
\* one it looks for.
Window(t) ==
  /\ Traversing(t) => /\ pred[t] \in Chain /\ pred[t] # Tail
                      /\ pred[t] = Head \/ nkey[pred[t]] < key[t]
  /\ pc[t] \in {"lockCurr", "at"} => curr[t] = next[pred[t]]
  /\ pc[t] = "unlock" => curr[t] \in Chain
  /\ pc[t] = "free" => /\ curr[t] \in Heap /\ curr[t] # pred[t]
                       /\ next[curr[t]] \in Chain /\ next[curr[t]] = next[pred[t]]

\* The node an add creates is its own until it is linked.
OwnsNode(t) == op[t] = "add" /\ pc[t] \in {"lockHead", "lockCurr", "at"}
Owned(t) ==
  OwnsNode(t) =>
    /\ newNode[t] \in allocated /\ next[newNode[t]] = NULL
    /\ nkey[newNode[t]] = key[t]
    /\ \A u \in Threads : u # t /\ OwnsNode(u) => newNode[u] # newNode[t]

Control(t) ==
  /\ pc[t] = "idle" <=> key[t] = None
  /\ pc[t] = "idle" <=> op[t] = None
  /\ pc[t] \in {"create", "unlock"} => op[t] = "add"
  /\ pc[t] = "free" => op[t] = "delete"

\* The status of a key is seen by the calls under way.
Seen(t) ==
  /\ Pending(t) => Status(key[t]) \in saw[t]
  /\ ~ Pending(t) => saw[t] = {}

\* Together, the inductive invariant: the linked nodes are one sorted chain, and
\* the windows of the threads are disjoint stretches of it, kept so by the locks.
IInv ==
  /\ TypeOK /\ Sorted /\ Locks
  /\ \A n \in Heap \ allocated : next[n] = NULL
  /\ \A n \in InList : nkey[n] \in Keys
  /\ \A t \in Threads : Window(t) /\ Owned(t) /\ Control(t) /\ Seen(t)

-----------------------------------------------------------------------------
(* Liveness *)

\* The scheduler runs every thread; a mutex may pass over a waiting thread as
\* long as others ask for it.
FairSpec == Spec /\ \A t \in Threads : WF_vars(Step(t))

\* No thread overtakes another: once a call has the lock of the head it returns,
\* however many calls come after it.
EnteredReturns == \A t \in Threads : Traversing(t) ~> pc[t] = "idle"
=============================================================================
