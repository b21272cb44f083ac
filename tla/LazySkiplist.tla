---------------------------- MODULE LazySkiplist ----------------------------
(***************************************************************************)
(* The skip list of list/LazySkiplist.c.  A search takes no lock and loads *)
(* one next field per step; add and delete then lock the nodes before the  *)
(* key, level by level from the bottom, and look again.  Inside the locks  *)
(* each store that a search can see is a step of its own.  A lock() and    *)
(* the validation after it are one step: what it reads of pred is under    *)
(* the lock, the rest is one load.  The unlock()s of a call are one step.  *)
(* The mutexes are recursive: a thread may lock the same pred on several   *)
(* levels.                                                                 *)
(*                                                                         *)
(* calloc does not fail (add does not test it).  Deleted nodes are not     *)
(* freed (no _FREE_ in the build).  find returns the value as a char; a    *)
(* value is taken to have a low byte other than 0.                         *)
(***************************************************************************)
EXTENDS Integers, FiniteSets

CONSTANTS
  Threads,     \* the callers
  Keys,        \* the keys they use, between min and max
  min, max,    \* the keys of the sentinels
  maxLevel,    \* the levels of the list: 0..maxLevel-1
  MaxNodes,    \* a bound on the nodes that adds create
  None         \* no thread, no key

Head == 0
Tail == MaxNodes + 1
Nodes == 0..(MaxNodes + 1)
NULL == MaxNodes + 2
Levels == 0..(maxLevel - 1)

VARIABLES
  nkey, topLevel, next, marked, fullyLinked,  \* the fields of the nodes
  mtx,                 \* the holder of each node's lock
  allocated,           \* how many nodes create_node has returned
  pc, op, key,         \* a thread's place, the function it is in, its argument
  level, pred,         \* its local variables
  preds, succs, lFound,
  top,                 \* topLevel of add and delete
  node,                \* newNode, or the victim once it is marked (isMarked)
  res,                 \* what its last call returned
  saw                  \* history: the statuses its key has had since the call

fields == <<nkey, topLevel, next, marked, fullyLinked, allocated>>
found == <<preds, succs, lFound>>
call == <<op, key, top>>
vars == <<fields, mtx, pc, call, level, pred, found, node, res, saw>>

init_list ==
  /\ nkey = [n \in Nodes |-> IF n = Tail THEN max ELSE min]
  /\ topLevel = [n \in Nodes |-> IF n \in {Head, Tail} THEN maxLevel ELSE 0]
  /\ next = [n \in Nodes |-> [l \in Levels |-> IF n = Head THEN Tail ELSE NULL]]
  /\ marked = [n \in Nodes |-> FALSE]
  /\ fullyLinked = [n \in Nodes |-> n \in {Head, Tail}]
  /\ mtx = [n \in Nodes |-> None]
  /\ allocated = 0

NoNodes == [l \in Levels |-> NULL]

Init ==
  /\ init_list
  /\ pc = [t \in Threads |-> "idle"]
  /\ op = [t \in Threads |-> None]
  /\ key = [t \in Threads |-> None]
  /\ top = [t \in Threads |-> 0]
  /\ level = [t \in Threads |-> 0]
  /\ pred = [t \in Threads |-> NULL]
  /\ preds = [t \in Threads |-> NoNodes]
  /\ succs = [t \in Threads |-> NoNodes]
  /\ lFound = [t \in Threads |-> -1]
  /\ node = [t \in Threads |-> NULL]
  /\ res = [t \in Threads |-> None]
  /\ saw = [t \in Threads |-> {}]

-----------------------------------------------------------------------------
(* What is in the list *)

Contents == {nkey[n] : n \in {m \in 1..MaxNodes : fullyLinked[m] /\ ~ marked[m]}}
Status(k) == IF k \in Contents THEN "in" ELSE "out"

\* Has thread u's call still to take effect?
Pending(u) == pc[u] # "idle" /\ pc[u] # "unlock" /\ ~ (op[u] = "delete" /\ node[u] # NULL)

\* The calls under way see the status of thread t's key become s.
Show(t, s) ==
  saw' = [u \in Threads |->
            IF u = t THEN {}
            ELSE IF Pending(u) /\ key[u] = key[t] THEN saw[u] \cup {s}
            ELSE saw[u]]

-----------------------------------------------------------------------------
(* Calls, returns and the search *)

Goto(t, to) == pc' = [pc EXCEPT ![t] = to]

\* pred = sl->head, at the highest level; preds and succs are written before
\* they are read.
StartSearch(t) ==
  /\ Goto(t, "search")
  /\ level' = [level EXCEPT ![t] = maxLevel - 1]
  /\ pred' = [pred EXCEPT ![t] = Head]
  /\ preds' = [preds EXCEPT ![t] = NoNodes]
  /\ succs' = [succs EXCEPT ![t] = NoNodes]
  /\ lFound' = [lFound EXCEPT ![t] = -1]

Call(t, o, k) ==
  /\ pc[t] = "idle"
  /\ op' = [op EXCEPT ![t] = o]
  /\ key' = [key EXCEPT ![t] = k]
  /\ res' = [res EXCEPT ![t] = None]
  /\ saw' = [saw EXCEPT ![t] = {Status(k)}]
  /\ IF o = "add"
       THEN /\ allocated + Cardinality({u \in Threads : op[u] = "add"}) < MaxNodes
            /\ Goto(t, "rand") /\ UNCHANGED <<level, pred, found>>
       ELSE StartSearch(t)
  /\ UNCHANGED <<fields, mtx, top, node>>

Return(t, r) ==
  /\ pc' = [pc EXCEPT ![t] = "idle"]
  /\ op' = [op EXCEPT ![t] = None]
  /\ key' = [key EXCEPT ![t] = None]
  /\ top' = [top EXCEPT ![t] = 0]
  /\ level' = [level EXCEPT ![t] = 0]
  /\ pred' = [pred EXCEPT ![t] = NULL]
  /\ preds' = [preds EXCEPT ![t] = NoNodes]
  /\ succs' = [succs EXCEPT ![t] = NoNodes]
  /\ lFound' = [lFound EXCEPT ![t] = -1]
  /\ node' = [node EXCEPT ![t] = NULL]
  /\ res' = [res EXCEPT ![t] = r]
  /\ saw' = [saw EXCEPT ![t] = {}]

\* curr = pred->next[level]: on along the level, or down to the one below.
search(t) ==
  LET l == level[t]
      curr == next[pred[t]][l]
  IN  /\ pc[t] = "search"
      /\ IF key[t] > nkey[curr]
           THEN /\ pred' = [pred EXCEPT ![t] = curr]
                /\ UNCHANGED <<pc, level, found>>
           ELSE /\ preds' = [preds EXCEPT ![t][l] = pred[t]]
                /\ succs' = [succs EXCEPT ![t][l] = curr]
                /\ lFound' = [lFound EXCEPT ![t] = IF @ = -1 /\ key[t] = nkey[curr] THEN l ELSE @]
                /\ level' = [level EXCEPT ![t] = IF l = 0 THEN 0 ELSE l - 1]
                /\ Goto(t, IF l = 0 THEN "searched" ELSE "search")
                /\ UNCHANGED pred
      /\ UNCHANGED <<fields, mtx, call, node, res, saw>>

Searched(t, o) == pc[t] = "searched" /\ op[t] = o
NodeFound(t) == succs[t][lFound[t]]

\* Unlocks the nodes freed, once for every time the loop over preds has locked
\* them: a node stays locked if it is also one of kept.
Unlock(t, freed, kept) ==
  mtx' = [n \in Nodes |-> IF mtx[n] = t /\ n \in freed \ kept THEN None ELSE mtx[n]]

\* Locks preds[level]; with the lock, is the window as the search has seen it?
LockLevel(t, valid, last) ==
  LET p == preds[t][level[t]]
  IN  /\ pc[t] = "lock" /\ mtx[p] \in {None, t}
      /\ valid
      /\ mtx' = [mtx EXCEPT ![p] = t]
      /\ IF level[t] = top[t]
           THEN Goto(t, last) /\ level' = [level EXCEPT ![t] = IF op[t] = "add" THEN 0 ELSE topLevel[node[t]]]
           ELSE level' = [level EXCEPT ![t] = @ + 1] /\ UNCHANGED pc
      /\ UNCHANGED <<fields, call, pred, found, node, res, saw>>

\* Mutant: the locks of the levels below are kept for the next attempt.
LockInvalidKeepsLocks(t, valid) ==
  /\ pc[t] = "lock" /\ mtx[preds[t][level[t]]] \in {None, t}
  /\ ~ valid
  /\ mtx' = [mtx EXCEPT ![preds[t][level[t]]] = t]
  /\ StartSearch(t)
  /\ UNCHANGED <<fields, call, node, res, saw>>

\* It is not: unlock preds, and search again; a delete keeps its victim locked.
LockInvalid(t, valid) ==
  /\ pc[t] = "lock" /\ mtx[preds[t][level[t]]] \in {None, t}
  /\ ~ valid
  /\ Unlock(t, {preds[t][l] : l \in 0..(level[t] - 1)}, {})
  /\ StartSearch(t)
  /\ UNCHANGED <<fields, call, node, res, saw>>

-----------------------------------------------------------------------------
(* add *)

\* topLevel = r % sl->maxLevel
AddRand(t) ==
  /\ pc[t] = "rand"
  /\ \E l \in Levels : top' = [top EXCEPT ![t] = l]
  /\ StartSearch(t)
  /\ UNCHANGED <<fields, mtx, op, key, node, res, saw>>

AddFound(t) ==
  /\ Searched(t, "add") /\ lFound[t] # -1
  /\ IF marked[NodeFound(t)] THEN StartSearch(t)
                             ELSE Goto(t, "wait") /\ UNCHANGED <<level, pred, found>>
  /\ UNCHANGED <<fields, mtx, call, node, res, saw>>

\* Mutant: an add does not wait for the one that is linking the same key.
AddExistsAtOnce(t) ==
  /\ pc[t] = "wait"
  /\ Return(t, FALSE)
  /\ UNCHANGED <<fields, mtx>>

\* while (nodeFound->fullyLinked != true) {}; return false
AddExists(t) ==
  /\ pc[t] = "wait" /\ fullyLinked[NodeFound(t)]
  /\ Return(t, FALSE)
  /\ UNCHANGED <<fields, mtx>>

AddAbsent(t) ==
  /\ Searched(t, "add") /\ lFound[t] = -1
  /\ Goto(t, "lock")
  /\ UNCHANGED <<fields, mtx, call, level, pred, found, node, res, saw>>

\* Mutant: the marks are not looked at.
AddValidNoMark(t) ==
  next[preds[t][level[t]]][level[t]] = succs[t][level[t]]

AddValid(t) ==
  LET p == preds[t][level[t]]
      s == succs[t][level[t]]
  IN  ~ marked[p] /\ ~ marked[s] /\ next[p][level[t]] = s

AddLock(t) == op[t] = "add" /\ (LockLevel(t, AddValid(t), "link") \/ LockInvalid(t, AddValid(t)))

\* create_node at the bottom level; newNode->next[level] = succs[level];
\* preds[level]->next[level] = newNode
AddLink(t) ==
  LET l == level[t]
      n == IF l = 0 THEN allocated + 1 ELSE node[t]
  IN  /\ pc[t] = "link" /\ op[t] = "add"
      /\ IF l = 0 THEN /\ allocated' = n
                       /\ nkey' = [nkey EXCEPT ![n] = key[t]]
                       /\ topLevel' = [topLevel EXCEPT ![n] = top[t]]
                       /\ node' = [node EXCEPT ![t] = n]
                  ELSE UNCHANGED <<allocated, nkey, topLevel, node>>
      /\ next' = [next EXCEPT ![n][l] = succs[t][l], ![preds[t][l]][l] = n]
      /\ IF l = top[t] THEN Goto(t, "linked") /\ UNCHANGED level
                       ELSE level' = [level EXCEPT ![t] = l + 1] /\ UNCHANGED pc
      /\ UNCHANGED <<marked, fullyLinked, mtx, call, pred, found, res, saw>>

\* newNode->fullyLinked = true: the effect of add.
AddFullyLinked(t) ==
  /\ pc[t] = "linked"
  /\ fullyLinked' = [fullyLinked EXCEPT ![node[t]] = TRUE]
  /\ Goto(t, "unlock")
  /\ Show(t, "in")
  /\ UNCHANGED <<nkey, topLevel, next, marked, allocated, mtx, call, level, pred, found, node, res>>

\* The stores are done: unlock, and return true.  A delete unlocks the levels up
\* to lFound of those up to topLevel that it has locked.
UnlockReturn(t) ==
  /\ pc[t] = "unlock"
  /\ LET PredsAt(from, to) == {preds[t][l] : l \in from..to}
     IN  IF op[t] = "add" THEN Unlock(t, PredsAt(0, top[t]), {})
         ELSE Unlock(t, {node[t]} \cup PredsAt(0, lFound[t]), PredsAt(lFound[t] + 1, top[t]))
  /\ Return(t, TRUE)
  /\ UNCHANGED fields

-----------------------------------------------------------------------------
(* delete *)

Absent(t) ==
  /\ pc[t] = "searched" /\ op[t] \in {"delete", "find"} /\ lFound[t] = -1
  /\ Return(t, FALSE)
  /\ UNCHANGED <<fields, mtx>>

\* flag
victimFlag(t) ==
  LET v == NodeFound(t)
  IN  fullyLinked[v] /\ topLevel[v] = lFound[t] /\ ~ marked[v]

DeleteGivesUp(t) ==
  /\ Searched(t, "delete") /\ lFound[t] # -1
  /\ node[t] = NULL /\ ~ victimFlag(t)
  /\ Return(t, FALSE)
  /\ UNCHANGED <<fields, mtx>>

DeleteFound(t) ==
  /\ Searched(t, "delete") /\ lFound[t] # -1
  /\ IF node[t] = NULL
       THEN victimFlag(t) /\ Goto(t, "mark") /\ UNCHANGED node
       ELSE Goto(t, "lock") /\ node' = [node EXCEPT ![t] = NodeFound(t)]
  /\ UNCHANGED <<fields, mtx, call, level, pred, found, res, saw>>

\* lock(victim->mtx), then victim->marked = true: the effect of delete.
DeleteMark(t) ==
  LET v == NodeFound(t)
  IN  /\ pc[t] = "mark" /\ mtx[v] = None /\ ~ marked[v]
      /\ mtx' = [mtx EXCEPT ![v] = t]
      /\ marked' = [marked EXCEPT ![v] = TRUE]
      /\ node' = [node EXCEPT ![t] = v]
      /\ top' = [top EXCEPT ![t] = topLevel[v]]
      /\ Goto(t, "lock")
      /\ Show(t, "out")
      /\ UNCHANGED <<nkey, topLevel, next, fullyLinked, allocated, op, key, level, pred, found, res>>

\* Another delete has marked it: unlock, and return false.
DeleteMarked(t) ==
  /\ pc[t] = "mark" /\ mtx[NodeFound(t)] = None /\ marked[NodeFound(t)]
  /\ Return(t, FALSE)
  /\ UNCHANGED <<fields, mtx>>

DeleteValid(t) ==
  LET p == preds[t][level[t]]
  IN  ~ marked[p] /\ next[p][level[t]] = node[t]

DeleteLock(t) ==
  op[t] = "delete" /\ (LockLevel(t, DeleteValid(t), "unlink") \/ LockInvalid(t, DeleteValid(t)))

\* preds[level]->next[level] = victim->next[level], from the top level down
DeleteUnlink(t) ==
  LET l == level[t]
  IN  /\ pc[t] = "unlink"
      /\ next' = [next EXCEPT ![preds[t][l]][l] = next[node[t]][l]]
      /\ IF l = 0 THEN Goto(t, "unlock") /\ UNCHANGED level
                  ELSE level' = [level EXCEPT ![t] = l - 1] /\ UNCHANGED pc
      /\ UNCHANGED <<nkey, topLevel, marked, fullyLinked, allocated, mtx, call, pred, found, node, res, saw>>

-----------------------------------------------------------------------------
(* find *)

\* false if the node is not fully linked or marked; else the value of
\* preds[0]->next[0], which may be another node by now.
FindReturn(t) ==
  /\ Searched(t, "find") /\ lFound[t] # -1
  /\ Return(t, fullyLinked[NodeFound(t)] /\ ~ marked[NodeFound(t)])
  /\ UNCHANGED <<fields, mtx>>

-----------------------------------------------------------------------------
Step(t) ==
  \/ search(t) \/ AddRand(t) \/ AddFound(t) \/ AddExists(t) \/ AddAbsent(t) \/ AddLock(t)
  \/ AddLink(t) \/ AddFullyLinked(t) \/ UnlockReturn(t)
  \/ Absent(t) \/ DeleteGivesUp(t) \/ DeleteFound(t) \/ DeleteMark(t) \/ DeleteMarked(t)
  \/ DeleteLock(t) \/ DeleteUnlink(t)
  \/ FindReturn(t)

Next == \E t \in Threads :
  (\E o \in {"add", "delete", "find"}, k \in Keys : Call(t, o, k)) \/ Step(t)

Spec == Init /\ [][Next]_vars

-----------------------------------------------------------------------------
(* Properties *)

AbstractOp(t) ==
  CASE pc[t] = "idle" -> "idle"
    [] pc[t] = "rand" -> "alloc"
    [] pc[t] # "idle" /\ pc[t] # "rand" /\ Pending(t) -> op[t]
    [] OTHER -> IF op[t] = "add" THEN "added" ELSE "deleted"

Abstract == INSTANCE SetObject WITH
  set <- Contents,
  op  <- [t \in Threads |-> AbstractOp(t)]

\* add, delete and find are linearizable: an add takes effect when its node is
\* fully linked, a delete when it marks one, although searches meet nodes that
\* are linked or unlinked on some of their levels only.
Linearizable == Abstract!Spec

\* A node that is not marked and not at work is linked on all its levels and no
\* other, and every level is in ascending order.
LevelsSorted ==
  \A n \in Nodes, l \in Levels :
    /\ next[n][l] # NULL => nkey[n] < nkey[next[n][l]] /\ l <= topLevel[n]
    /\ n \in 1..allocated /\ fullyLinked[n] /\ ~ marked[n] /\ l <= topLevel[n]
         => \E m \in Nodes : next[m][l] = n /\ ~ (marked[m] /\ mtx[m] = None)

-----------------------------------------------------------------------------
(* Liveness *)

\* The scheduler runs every thread.
FairSpec == Spec /\ \A t \in Threads : WF_vars(Step(t))

\* No deadlock, since a thread locks nodes in the order of falling keys, and no
\* endless mutual retrying: while a call is under way some call returns.
SomeReturn == \E t \in Threads : pc[t] # "idle" /\ pc'[t] = "idle"
Progress == []<>(\A t \in Threads : pc[t] = "idle") \/ []<><<SomeReturn>>_vars
=============================================================================
