------------------------- MODULE LLSCLockFreeQueue -------------------------
(***************************************************************************)
(* The queue of queue/LLSCLockFreeQueue.c: q->head and q->tail are LL/SC   *)
(* variables made of two pointers and an entry tag, whose version says     *)
(* which pointer is current.  One action per access to shared memory; an   *)
(* ExitTag is changed by a loop around one cas, which is one step.         *)
(*                                                                         *)
(* On X86_64 a cas is of 8 bytes: a whole EntryTag, but of an ExitTag only *)
(* count and transfersLeft.  What setNLPred and setToBeFreed compute is    *)
(* compared (FREEABLE) and not stored.                                     *)
(*                                                                         *)
(* The build defines no _FREE_.  Nodes are numbered in the order calloc    *)
(* returns them; 1 and 2 are ptr0 and ptr1 of init_queue, 0 is NULL.       *)
(***************************************************************************)
EXTENDS Integers, Sequences

CONSTANTS
  Threads,    \* the callers of enq and deq
  Values,     \* what they enqueue
  None,       \* no value
  MaxNodes    \* the nodes calloc can return

ASSUME LLSCAssumption == MaxNodes \in Nat \ {0, 1} /\ None \notin Values

NULL == 0
Nodes == 1..MaxNodes
Vars == {"head", "tail"}
NoEntry == [ver |-> 0, count |-> 0]

VARIABLES
  ptr, entry,           \* ptr0 and ptr1, and the entry tag, of q->head and q->tail
  val, next, pred, exit,\* the fields of the nodes
  allocated,            \* how many nodes calloc has returned
  freed,                \* the nodes that have been given to free
  pc, op, arg,          \* a thread's place, its function, the parameter val
  newNode,              \* nd of enq
  e, myver, mynode,     \* the local e, and the thread's workspace
  new,                  \* the node that SC is to make current
  done,                 \* the cas that is the effect of the call has succeeded
  chain,                \* history: the nodes, in the order they were linked
  sawEmpty              \* history: the threads in deq since a moment at which
                        \* the queue was empty

fields == <<val, next, pred>>
call == <<op, arg, newNode>>
history == <<chain, sawEmpty>>
vars == <<ptr, entry, fields, exit, allocated, freed, pc, call, e, myver, mynode, new, done, history>>

NewExit(n) == [count |-> 0, transfersLeft |-> n, nlP |-> FALSE, toBeFreed |-> FALSE]

init_queue ==
  /\ ptr = [x \in Vars |-> <<1, 2>>]
  /\ entry = [x \in Vars |-> NoEntry]
  /\ val = [n \in Nodes |-> None]
  /\ next = [n \in Nodes |-> NULL]
  /\ pred = [n \in Nodes |-> IF n = 1 THEN 2 ELSE NULL]
  /\ exit = [n \in Nodes |-> NewExit(IF n = 1 THEN 2 ELSE 0)]

Init ==
  /\ init_queue
  /\ allocated = 2
  /\ freed = {}
  /\ pc = [t \in Threads |-> "idle"]
  /\ op = [t \in Threads |-> "idle"]
  /\ arg = [t \in Threads |-> None]
  /\ newNode = [t \in Threads |-> NULL]
  /\ e = [t \in Threads |-> NoEntry]
  /\ myver = [t \in Threads |-> 0]
  /\ mynode = [t \in Threads |-> NULL]
  /\ new = [t \in Threads |-> NULL]
  /\ done = [t \in Threads |-> FALSE]
  /\ chain = <<1>>
  /\ sawEmpty = {}

-----------------------------------------------------------------------------
CURRENT(x, ver) == ptr[x][1 + (ver % 2)]
NONCUR(ver) == 2 - (ver % 2)            \* its index
CLEAN(x) == x.count = 0 /\ x.transfersLeft = 0

\* Mutant: a clean node is freed whether or not the queue has let go of it.
FREEABLEwhenClean(x) == CLEAN(x)
FREEABLE(x) == CLEAN(x) /\ x.nlP /\ x.toBeFreed

\* The node whose successor is the oldest in the queue: SC has written it to the
\* pointer that is not current, or still has to.
Dummy ==
  LET c == CURRENT("head", entry["head"].ver)
      n == ptr["head"][NONCUR(entry["head"].ver)]
  IN  IF n = pred[c] THEN c ELSE n
Empty == next[Dummy] = NULL

Loc(t) == IF op[t] = "enq" THEN "tail" ELSE "head"

Goto(t, from, to) ==
  /\ pc[t] = from
  /\ pc' = [pc EXCEPT ![t] = to]

\* The locals are set again before they are used.
Forget(t) ==
  /\ e' = [e EXCEPT ![t] = NoEntry]
  /\ myver' = [myver EXCEPT ![t] = 0]
  /\ mynode' = [mynode EXCEPT ![t] = NULL]
  /\ new' = [new EXCEPT ![t] = NULL]

Return(t) ==
  /\ pc' = [pc EXCEPT ![t] = "idle"]
  /\ op' = [op EXCEPT ![t] = "idle"]
  /\ arg' = [arg EXCEPT ![t] = None]
  /\ newNode' = [newNode EXCEPT ![t] = NULL]
  /\ done' = [done EXCEPT ![t] = FALSE]
  /\ Forget(t)

-----------------------------------------------------------------------------
(* LL and SC *)

\* e = loc->entry
LLRead(t) ==
  /\ Goto(t, "LL", "LLptr")
  /\ e' = [e EXCEPT ![t] = entry[Loc(t)]]
  /\ UNCHANGED <<ptr, entry, fields, exit, allocated, freed, call, myver, mynode, new, done, history>>

\* *myver = e.ver; *mynode = CURRENT(loc, e.ver)
LLCurrent(t) ==
  /\ Goto(t, "LLptr", "LLcas")
  /\ myver' = [myver EXCEPT ![t] = e[t].ver]
  /\ mynode' = [mynode EXCEPT ![t] = CURRENT(Loc(t), e[t].ver)]
  /\ UNCHANGED <<ptr, entry, fields, exit, allocated, freed, call, e, new, done, history>>

LLCas(t) ==
  LET ok == entry[Loc(t)] = e[t]
  IN  /\ Goto(t, "LLcas", IF ~ ok THEN "LL" ELSE IF op[t] = "enq" THEN "link" ELSE "next")
      /\ entry' = IF ok THEN [entry EXCEPT ![Loc(t)].count = @ + 1] ELSE entry
      /\ UNCHANGED <<ptr, fields, exit, allocated, freed, call, e, myver, mynode, new, done, history>>

\* Mutant: the pointer is stored whatever it holds.
SCstores(t) == TRUE

\* The pointer that is not current is still the one before mynode.
SCsucceeds(t) == ptr[Loc(t)][NONCUR(myver[t])] = pred[mynode[t]]

\* cas(NONCURADDR(loc, myver), mynode->pred, nd): for a deq that succeeds, its
\* effect.
SC(t) ==
  LET ok == SCsucceeds(t)
  IN  /\ Goto(t, "SC", "SCread")
      /\ ptr' = IF ok THEN [ptr EXCEPT ![Loc(t)][NONCUR(myver[t])] = new[t]] ELSE ptr
      /\ IF ok /\ op[t] = "deq"
           THEN /\ done' = [done EXCEPT ![t] = TRUE]
                /\ arg' = [arg EXCEPT ![t] = val[new[t]]]
                /\ sawEmpty' = IF next[new[t]] = NULL
                                 THEN {u \in Threads : op[u] = "deq" /\ ~ done'[u]}
                                 ELSE sawEmpty \ {t}
           ELSE UNCHANGED <<done, arg, sawEmpty>>
      /\ UNCHANGED <<entry, fields, exit, allocated, freed, op, newNode, e, myver, mynode, new, chain>>

\* e = loc->entry, and the condition of the loop
SCRead(t) ==
  /\ Goto(t, "SCread", IF entry[Loc(t)].ver = myver[t] THEN "SCbump" ELSE "release")
  /\ e' = [e EXCEPT ![t] = entry[Loc(t)]]
  /\ UNCHANGED <<ptr, entry, fields, exit, allocated, freed, call, myver, mynode, new, done, history>>

\* Mutant: the entry is stored whatever it has become.
SCBumpStores(t) ==
  /\ Goto(t, "SCbump", "transfer")
  /\ entry' = [entry EXCEPT ![Loc(t)] = [ver |-> e[t].ver + 1, count |-> 0]]
  /\ UNCHANGED <<ptr, fields, exit, allocated, freed, call, e, myver, mynode, new, done, history>>

\* The next version, and the readers of this one are handed to its node.
SCBump(t) ==
  LET ok == entry[Loc(t)] = e[t]
  IN  /\ Goto(t, "SCbump", IF ok THEN "transfer" ELSE "SCread")
      /\ entry' = IF ok THEN [entry EXCEPT ![Loc(t)] = [ver |-> e[t].ver + 1, count |-> 0]]
                        ELSE entry
      /\ UNCHANGED <<ptr, fields, exit, allocated, freed, call, e, myver, mynode, new, done, history>>

transfer(t) ==
  /\ Goto(t, "transfer", "SCread")
  /\ exit' = [exit EXCEPT ![mynode[t]].count = @ + e[t].count,
                          ![mynode[t]].transfersLeft = @ - 1]
  /\ UNCHANGED <<ptr, entry, fields, allocated, freed, call, e, myver, mynode, new, done, history>>

\* setNLPred(nd) and setToBeFreed(nd): the nodes they free.
setNLPred(nd) == {n \in {nd} : FREEABLE([exit'[n] EXCEPT !.nlP = TRUE])}
setToBeFreed(nd) == {n \in {nd} : FREEABLE([exit'[n] EXCEPT !.toBeFreed = TRUE])}

\* release(mynode)
release(t) ==
  LET nd == mynode[t]
  IN  /\ exit' = [exit EXCEPT ![nd].count = @ - 1]
      /\ freed' = freed \cup (IF CLEAN(exit'[nd]) THEN setNLPred(pred[nd]) ELSE {})
                        \cup {n \in {nd} : FREEABLE(exit'[n])}

\* The end of SC: a call without effect tries again.
SCRelease(t) ==
  /\ Goto(t, "release", IF done[t] THEN "done" ELSE "LL")
  /\ release(t)
  /\ IF done[t] THEN UNCHANGED <<e, myver, mynode, new>> ELSE Forget(t)
  /\ UNCHANGED <<ptr, entry, fields, allocated, call, done, history>>

-----------------------------------------------------------------------------
(* enq *)

EnqCall(t, v) ==
  /\ Goto(t, "idle", "create")
  /\ op' = [op EXCEPT ![t] = "enq"]
  /\ arg' = [arg EXCEPT ![t] = v]
  /\ UNCHANGED <<ptr, entry, fields, exit, allocated, freed, newNode, e, myver, mynode, new, done, history>>

CreateNodeFails(t) ==
  /\ pc[t] = "create"
  /\ Return(t)
  /\ UNCHANGED <<ptr, entry, fields, exit, allocated, freed, history>>

create_node(t) ==
  /\ Goto(t, "create", "LL")
  /\ allocated < MaxNodes
  /\ allocated' = allocated + 1
  /\ newNode' = [newNode EXCEPT ![t] = allocated + 1]
  /\ val' = [val EXCEPT ![allocated + 1] = arg[t]]
  /\ exit' = [exit EXCEPT ![allocated + 1] = NewExit(2)]
  /\ UNCHANGED <<ptr, entry, next, pred, freed, op, arg, e, myver, mynode, new, done, history>>

\* nd->pred = tail; cas(&tail->next, NULL, nd): its effect; then SC for nd, or
\* for the node another enq has linked.
EnqLink(t) ==
  LET nd == newNode[t]
      tail == mynode[t]
      ok == next[tail] = NULL
  IN  /\ Goto(t, "link", "SC")
      /\ pred' = [pred EXCEPT ![nd] = tail]
      /\ next' = IF ok THEN [next EXCEPT ![tail] = nd] ELSE next
      /\ new' = [new EXCEPT ![t] = next'[tail]]
      /\ done' = [done EXCEPT ![t] = ok]
      /\ chain' = IF ok THEN Append(chain, nd) ELSE chain
      /\ UNCHANGED <<ptr, entry, val, exit, allocated, freed, call, e, myver, mynode, sawEmpty>>

EnqReturn(t) ==
  /\ pc[t] = "done" /\ op[t] = "enq"
  /\ Return(t)
  /\ UNCHANGED <<ptr, entry, fields, exit, allocated, freed, history>>

-----------------------------------------------------------------------------
(* deq *)

DeqCall(t) ==
  /\ Goto(t, "idle", "LL")
  /\ op' = [op EXCEPT ![t] = "deq"]
  /\ sawEmpty' = IF Empty THEN sawEmpty \cup {t} ELSE sawEmpty
  /\ UNCHANGED <<ptr, entry, fields, exit, allocated, freed, arg, newNode, e, myver, mynode, new, done, chain>>

\* next = head->next
DeqNext(t) ==
  /\ Goto(t, "next", IF next[mynode[t]] = NULL THEN "unlink" ELSE "SC")
  /\ new' = [new EXCEPT ![t] = next[mynode[t]]]
  /\ UNCHANGED <<ptr, entry, fields, exit, allocated, freed, call, e, myver, mynode, done, history>>

\* do e = loc->entry while (e.ver == myver): until another deq has succeeded.
UnlinkRead(t) ==
  /\ Goto(t, "unlink", IF entry["head"].ver = myver[t] THEN "unlink" ELSE "unlinkCas")
  /\ e' = [e EXCEPT ![t] = entry["head"]]
  /\ UNCHANGED <<ptr, entry, fields, exit, allocated, freed, call, myver, mynode, new, done, history>>

\* The count of the new version goes down, or mynode is released; return false.
UnlinkCas(t) ==
  /\ pc[t] = "unlinkCas"
  /\ IF entry["head"] = e[t]
       THEN entry' = [entry EXCEPT !["head"].count = @ - 1] /\ UNCHANGED <<exit, freed>>
       ELSE release(t) /\ UNCHANGED entry
  /\ sawEmpty' = sawEmpty \ {t}
  /\ Return(t)
  /\ UNCHANGED <<ptr, fields, allocated, chain>>

\* *val = next->val; setToBeFreed(next); return true
DeqReturn(t) ==
  /\ pc[t] = "done" /\ op[t] = "deq"
  /\ UNCHANGED <<ptr, entry, fields, exit, allocated, history>>
  /\ freed' = freed \cup setToBeFreed(new[t])
  /\ Return(t)

-----------------------------------------------------------------------------
Step(t) ==
  \/ LLRead(t) \/ LLCurrent(t) \/ LLCas(t)
  \/ SC(t) \/ SCRead(t) \/ SCBump(t) \/ transfer(t) \/ SCRelease(t)
  \/ CreateNodeFails(t) \/ create_node(t) \/ EnqLink(t) \/ EnqReturn(t)
  \/ DeqNext(t) \/ UnlinkRead(t) \/ UnlinkCas(t) \/ DeqReturn(t)

Next == \E t \in Threads : (\E v \in Values : EnqCall(t, v)) \/ DeqCall(t) \/ Step(t)

Spec == Init /\ [][Next]_vars

-----------------------------------------------------------------------------
(* Properties *)

AbstractOp(t) ==
  IF op[t] = "idle" \/ ~ done[t] THEN op[t] ELSE IF op[t] = "enq" THEN "enqed" ELSE "deqed"

\* The values behind the dummy.
Items ==
  LET at == CHOOSE i \in DOMAIN chain : chain[i] = Dummy
  IN  [i \in 1..(Len(chain) - at) |-> val[chain[at + i]]]

Abstract == INSTANCE FIFOQueue WITH
  items <- Items, op <- [t \in Threads |-> AbstractOp(t)]

\* enq and deq are linearizable: an enq takes effect when it links its node, a
\* deq when its SC writes the pointer that is not current, before the version
\* that makes it so; the other calls of that version fail, and help.
Linearizable == Abstract!Spec

\* The LL/SC variables: the pointer that is not current is the predecessor of the
\* current node, or its successor, which SC has put there; no stale SC of an
\* earlier version changes either, and every version moves one node on.
PointersAdjacent ==
  \A x \in Vars :
    LET c == CURRENT(x, entry[x].ver)
        n == ptr[x][NONCUR(entry[x].ver)]
    IN  /\ n = pred[c] \/ (n = next[c] /\ n # NULL)
        /\ chain[entry[x].ver + 1] = c

\* No node is freed that a thread is working on or that the queue still holds.
FreedUnused ==
  \A n \in freed : /\ \A t \in Threads : n \notin {mynode[t], new[t], newNode[t]}
                   /\ \A x \in Vars : n # CURRENT(x, entry[x].ver)

-----------------------------------------------------------------------------
(* Liveness *)

\* The scheduler runs every thread.
FairSpec == Spec /\ \A t \in Threads : WF_vars(Step(t))

\* "LL/SC based LockFree Queue": while a call is under way some call returns,
\* the deq on an empty queue included.
Returned == \E t \in Threads : pc[t] # "idle" /\ pc'[t] = "idle"
LockFree == []<>(\A t \in Threads : pc[t] = "idle") \/ []<><<Returned>>_vars
=============================================================================
