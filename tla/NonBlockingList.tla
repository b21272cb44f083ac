-------------------------- MODULE NonBlockingList --------------------------
(***************************************************************************)
(* The list of list/NonBlockingList.c.  A step is one load, one store or   *)
(* one cas() of a next field; cas() takes the pointer and the mark of the  *)
(* field together, the loads and the stores one of the two.  A search does *)
(* not only read: it takes back the mark of every node it comes to.        *)
(*                                                                         *)
(* Deleted nodes are not freed (no _FREE_ in the build).                   *)
(***************************************************************************)
EXTENDS Integers, FiniteSets

CONSTANTS
  Threads,     \* the callers
  Keys,        \* the keys they use, between MinKey and MaxKey
  MinKey, MaxKey,  \* INT_MIN and INT_MAX
  MaxNodes,    \* a bound on the nodes that adds link
  None         \* no function, no key

Head == 0
Tail == MaxNodes + 1
Nodes == 0..(MaxNodes + 1)
NULL == MaxNodes + 2

VARIABLES
  nkey, next,             \* the fields of the nodes; next is [ptr, mark]
  linked,                 \* how many nodes adds have linked
  dead,                   \* the process has ended: a cas() through NULL, an assert
  pc, op, key,            \* a thread's place, the function it is in, its argument
  node, t_next,           \* the locals t and t_next of search
  pred, pred_next, curr,
  curr_next, old,         \* of delete; old is what the cas() on curr expects
  after,                  \* its place after the search
  res                     \* what its last call returned

list == <<nkey, linked>>
call == <<op, key>>
window == <<pred, pred_next, curr>>
vars == <<list, next, dead, pc, call, node, t_next, window, curr_next, old, after, res>>

make_ref(n, mark) == [ptr |-> n, mark |-> mark]

init_list ==
  /\ nkey = [n \in Nodes |-> IF n = Tail THEN MaxKey ELSE MinKey]
  /\ next = [n \in Nodes |-> make_ref(IF n = Head THEN Tail ELSE NULL, "UNMARKED")]
  /\ linked = 0

Init ==
  /\ init_list
  /\ dead = FALSE
  /\ pc = [t \in Threads |-> "idle"]
  /\ op = [t \in Threads |-> None]
  /\ key = [t \in Threads |-> None]
  /\ node = [t \in Threads |-> NULL]
  /\ t_next = [t \in Threads |-> NULL]
  /\ pred = [t \in Threads |-> NULL]
  /\ pred_next = [t \in Threads |-> NULL]
  /\ curr = [t \in Threads |-> NULL]
  /\ curr_next = [t \in Threads |-> NULL]
  /\ old = [t \in Threads |-> make_ref(NULL, "UNMARKED")]
  /\ after = [t \in Threads |-> None]
  /\ res = [t \in Threads |-> None]

-----------------------------------------------------------------------------
Goto(t, to) == pc' = [pc EXCEPT ![t] = to]
IsMarked(n) == next[n].mark = "MARKED"

\* search_again: pred and pred_next stay what they are.
Again(t) ==
  /\ Goto(t, "start")
  /\ node' = [node EXCEPT ![t] = NULL]
  /\ t_next' = [t_next EXCEPT ![t] = NULL]
  /\ curr' = [curr EXCEPT ![t] = NULL]

\* A call of search; pred is the caller's.
Search(t, then) ==
  /\ Again(t)
  /\ pred_next' = [pred_next EXCEPT ![t] = NULL]
  /\ after' = [after EXCEPT ![t] = then]

Call(t, o, k) ==
  /\ pc[t] = "idle"
  /\ o = "add" => linked + Cardinality({u \in Threads : op[u] = "add"}) < MaxNodes
  /\ op' = [op EXCEPT ![t] = o]
  /\ key' = [key EXCEPT ![t] = k]
  /\ res' = [res EXCEPT ![t] = None]
  /\ Search(t, "searched")
  /\ UNCHANGED <<list, next, dead, pred, curr_next, old>>

Return(t, r) ==
  /\ Goto(t, "idle")
  /\ op' = [op EXCEPT ![t] = None]
  /\ key' = [key EXCEPT ![t] = None]
  /\ node' = [node EXCEPT ![t] = NULL]
  /\ t_next' = [t_next EXCEPT ![t] = NULL]
  /\ pred' = [pred EXCEPT ![t] = NULL]
  /\ pred_next' = [pred_next EXCEPT ![t] = NULL]
  /\ curr' = [curr EXCEPT ![t] = NULL]
  /\ curr_next' = [curr_next EXCEPT ![t] = NULL]
  /\ old' = [old EXCEPT ![t] = make_ref(NULL, "UNMARKED")]
  /\ after' = [after EXCEPT ![t] = None]
  /\ res' = [res EXCEPT ![t] = r]
  /\ UNCHANGED list

-----------------------------------------------------------------------------
(* search *)

\* t = list->head; t_next = the node after it
Start(t) ==
  /\ pc[t] = "start"
  /\ node' = [node EXCEPT ![t] = Head]
  /\ t_next' = [t_next EXCEPT ![t] = next[Head].ptr]
  /\ Goto(t, "window")
  /\ UNCHANGED <<list, next, dead, call, window, curr_next, old, after, res>>

\* Is t_next marked?  If not, it may be curr; and t = t_next
Window(t) ==
  /\ pc[t] = "window"
  /\ IF IsMarked(t_next[t])
       THEN UNCHANGED <<pred, pred_next>>
       ELSE /\ pred' = [pred EXCEPT ![t] = node[t]]
            /\ pred_next' = [pred_next EXCEPT ![t] = t_next[t]]
  /\ node' = [node EXCEPT ![t] = t_next[t]]
  /\ Goto(t, "unmark")
  /\ UNCHANGED <<list, next, dead, call, t_next, curr, curr_next, old, after, res>>

\* t->next.mark = UNMARKED; the tail ends the loop
Unmark(t) ==
  /\ pc[t] = "unmark"
  /\ next' = [next EXCEPT ![node[t]].mark = "UNMARKED"]
  /\ Goto(t, IF node[t] = Tail THEN "adjacent" ELSE "next")
  /\ UNCHANGED <<list, dead, call, node, t_next, window, curr_next, old, after, res>>

Below(t) == nkey[node[t]] < key[t]

\* t_next = the node after t; "while (t->key < key || ..."
LoadNext(t) ==
  /\ pc[t] = "next"
  /\ t_next' = [t_next EXCEPT ![t] = next[node[t]].ptr]
  /\ Goto(t, IF Below(t) THEN "window" ELSE "marked")
  /\ UNCHANGED <<list, next, dead, call, node, window, curr_next, old, after, res>>

\* "... is_marked_ref(t_next->next))"
LoadMarked(t) ==
  /\ pc[t] = "marked"
  /\ Goto(t, IF IsMarked(t_next[t]) THEN "window" ELSE "adjacent")
  /\ UNCHANGED <<list, next, dead, call, node, t_next, window, curr_next, old, after, res>>

\* curr = t, and with pred before it: return curr, unless it is marked by now
Adjacent(t) ==
  /\ pc[t] = "adjacent" /\ pred_next[t] = node[t]
  /\ IF node[t] # Tail /\ IsMarked(node[t])
       THEN Again(t)
       ELSE /\ curr' = [curr EXCEPT ![t] = node[t]]
            /\ Goto(t, after[t])
            /\ UNCHANGED <<node, t_next>>
  /\ UNCHANGED <<list, next, dead, call, pred, pred_next, curr_next, old, after, res>>

\* Step 3: the cas() that is to unlink what lies between
Unlink(t) ==
  /\ pc[t] = "adjacent" /\ pred_next[t] # node[t] /\ pred[t] # NULL
  /\ IF next[pred[t]] = make_ref(pred_next[t], "MARKED")
       THEN /\ next' = [next EXCEPT ![pred[t]] = make_ref(node[t], "UNMARKED")]
            /\ Goto(t, "unlinked") /\ UNCHANGED <<node, t_next, curr>>
       ELSE Again(t) /\ UNCHANGED next
  /\ UNCHANGED <<list, dead, call, pred, pred_next, curr_next, old, after, res>>

\* The search that started before an unmarked node was seen has no pred.
UnlinkDies(t) ==
  /\ pc[t] = "adjacent" /\ pred_next[t] # node[t] /\ pred[t] = NULL
  /\ dead' = TRUE
  /\ UNCHANGED <<list, next, pc, call, node, t_next, window, curr_next, old, after, res>>

\* After the cas(): curr may be marked, or, by the assert, still follows pred.
Unlinked(t) ==
  /\ pc[t] = "unlinked"
  /\ IF node[t] # Tail /\ IsMarked(node[t])
       THEN Again(t) /\ UNCHANGED dead
       ELSE /\ dead' = (next[pred[t]].ptr # node[t])
            /\ curr' = [curr EXCEPT ![t] = node[t]]
            /\ Goto(t, after[t])
            /\ UNCHANGED <<node, t_next>>
  /\ UNCHANGED <<list, next, call, pred, pred_next, curr_next, old, after, res>>

-----------------------------------------------------------------------------
(* add, delete and find *)

\* assert(pred->key < key && key <= curr->key), in add and delete
Asserted(t) == op[t] = "find" \/ (nkey[pred[t]] < key[t] /\ key[t] <= nkey[curr[t]])

AssertFails(t) ==
  /\ pc[t] = "searched" /\ ~ Asserted(t)
  /\ dead' = TRUE
  /\ UNCHANGED <<list, next, pc, call, node, t_next, window, curr_next, old, after, res>>

Searched(t, o) == pc[t] = "searched" /\ op[t] = o /\ Asserted(t)
KeyFound(t) == curr[t] # Tail /\ nkey[curr[t]] = key[t]

\* The calls that end with the search, and an add without memory.
SearchReturn(t) ==
  /\ \/ Searched(t, "add") /\ KeyFound(t) /\ Return(t, FALSE)
     \/ Searched(t, "delete") /\ ~ KeyFound(t) /\ Return(t, FALSE)
     \/ Searched(t, "find") /\ Return(t, KeyFound(t))
  /\ UNCHANGED <<next, dead>>

create_nodeFails(t) ==
  /\ op[t] = "add" /\ pc[t] = "start" /\ pred[t] = NULL
  /\ Return(t, FALSE)
  /\ UNCHANGED <<next, dead>>

\* newNode->next = curr, and the cas() of pred->next
AddCas(t) ==
  LET n == linked + 1
  IN  /\ Searched(t, "add") /\ ~ KeyFound(t)
      /\ IF next[pred[t]] = make_ref(curr[t], "UNMARKED")
           THEN /\ linked' = n
                /\ nkey' = [nkey EXCEPT ![n] = key[t]]
                /\ next' = [next EXCEPT ![n] = make_ref(curr[t], "UNMARKED"),
                                        ![pred[t]] = make_ref(n, "UNMARKED")]
                /\ Goto(t, "added")
                /\ UNCHANGED <<node, t_next, pred_next, curr, after>>
           ELSE Search(t, "searched") /\ UNCHANGED <<list, next>>
      /\ UNCHANGED <<dead, call, pred, curr_next, old, res>>

CallReturn(t) ==
  /\ pc[t] \in {"added", "deleted"}
  /\ Return(t, TRUE)
  /\ UNCHANGED <<next, dead>>

\* curr_next = the node after curr
DeleteNext(t) ==
  /\ Searched(t, "delete") /\ KeyFound(t)
  /\ curr_next' = [curr_next EXCEPT ![t] = next[curr[t]].ptr]
  /\ Goto(t, "try")
  /\ UNCHANGED <<list, next, dead, call, node, t_next, window, old, after, res>>

\* is_unmarked_ref(curr_next->next), or search again
DeleteTry(t) ==
  /\ pc[t] = "try"
  /\ IF IsMarked(curr_next[t])
       THEN Search(t, "searched")
       ELSE Goto(t, "oldptr") /\ UNCHANGED <<node, t_next, pred_next, curr, after>>
  /\ UNCHANGED <<list, next, dead, call, pred, curr_next, old, res>>

\* The pointer and the mark that the cas() is to find, in two loads
DeleteLoadPtr(t) ==
  /\ pc[t] = "oldptr"
  /\ old' = [old EXCEPT ![t].ptr = next[curr[t]].ptr]
  /\ Goto(t, "oldmark")
  /\ UNCHANGED <<list, next, dead, call, node, t_next, window, curr_next, after, res>>

DeleteLoadMark(t) ==
  /\ pc[t] = "oldmark"
  /\ old' = [old EXCEPT ![t].mark = next[curr[t]].mark]
  /\ Goto(t, "mark")
  /\ UNCHANGED <<list, next, dead, call, node, t_next, window, curr_next, after, res>>

\* The cas() that marks curr, or search again
DeleteMark(t) ==
  /\ pc[t] = "mark"
  /\ IF next[curr[t]] = old[t]
       THEN /\ next' = [next EXCEPT ![curr[t]].mark = "MARKED"]
            /\ Goto(t, "unlink")
            /\ UNCHANGED <<node, t_next, pred_next, curr, after>>
       ELSE Search(t, "searched") /\ UNCHANGED next
  /\ UNCHANGED <<list, dead, call, pred, curr_next, old, res>>

\* The cas() of pred->next past curr; if it fails, a search is to do it
DeleteUnlink(t) ==
  /\ pc[t] = "unlink"
  /\ IF next[pred[t]] = make_ref(curr[t], "UNMARKED")
       THEN /\ next' = [next EXCEPT ![pred[t]] = make_ref(curr_next[t], "UNMARKED")]
            /\ Goto(t, "deleted")
            /\ UNCHANGED <<node, t_next, pred_next, curr, after>>
       ELSE Search(t, "deleted") /\ UNCHANGED next
  /\ UNCHANGED <<list, dead, call, pred, curr_next, old, res>>

-----------------------------------------------------------------------------
Step(t) ==
  /\ ~ dead
  /\ \/ Start(t) \/ Window(t) \/ Unmark(t) \/ LoadNext(t) \/ LoadMarked(t)
     \/ Adjacent(t) \/ Unlink(t) \/ UnlinkDies(t) \/ Unlinked(t)
     \/ AssertFails(t) \/ SearchReturn(t) \/ create_nodeFails(t) \/ AddCas(t) \/ CallReturn(t)
     \/ DeleteNext(t) \/ DeleteTry(t) \/ DeleteLoadPtr(t) \/ DeleteLoadMark(t)
     \/ DeleteMark(t) \/ DeleteUnlink(t)

Next == \E t \in Threads :
  (~ dead /\ \E o \in {"add", "delete", "find"}, k \in Keys : Call(t, o, k)) \/ Step(t)

Spec == Init /\ [][Next]_vars

-----------------------------------------------------------------------------
(* Properties *)

\* assert(pred->key < key && key <= curr->key): the search of an add or a delete
\* returns a window around its key.
AssertHolds == \A t \in Threads : pc[t] = "searched" => Asserted(t)
=============================================================================
