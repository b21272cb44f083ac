-------------------------- MODULE LockFreeSkiplist --------------------------
(***************************************************************************)
(* The skip list of list/LockFreeSkiplist.c.  A step is one load, one      *)
(* store or one cas() of a tower entry; cas() compares and swaps the next  *)
(* pointer and the mark of an entry together, while the loads and the      *)
(* stores of the code take one of the two at a time.                       *)
(*                                                                         *)
(* calloc does not fail (add does not test it).  Deleted nodes are not     *)
(* freed (no _FREE_ in the build).                                         *)
(***************************************************************************)
EXTENDS Integers, FiniteSets

CONSTANTS
  Threads,     \* the callers
  Keys,        \* the keys they use, between min and max
  min, max,    \* the keys of the sentinels
  maxLevel,    \* the levels of the list: 0..maxLevel-1
  MaxNodes,    \* a bound on the nodes that adds link
  None         \* no thread, no key

Head == 0
Tail == MaxNodes + 1
Nodes == 0..(MaxNodes + 1)
NULL == MaxNodes + 2
Levels == 0..(maxLevel - 1)

VARIABLES
  nkey, topLevel, tower,  \* the fields of the nodes; an entry is [next, mark]
  linked,                 \* how many nodes adds have linked
  dead,                   \* the process has ended: find read through NULL
  pc, op, key,            \* a thread's place, the function it is in, its argument
  after,                  \* its place after the search
  level, pred, curr, succ,
  preds, succs,
  node, top,              \* newNode or victim, and the topLevel of add
  at,                     \* the level of add and delete
  res,                    \* what its last call returned
  keys,                   \* history: the keys added and not deleted
  saw                     \* history: the statuses its key has had since the call

fields == <<nkey, topLevel, linked>>
list == <<fields, tower>>
call == <<op, key>>
walk == <<level, pred, curr, succ, preds, succs>>
answer == <<dead, res, keys, saw>>
vars == <<list, call, pc, after, walk, node, top, at, answer>>

make_ref(n, mark) == [next |-> n, mark |-> mark]

init_list ==
  /\ nkey = [n \in Nodes |-> IF n = Tail THEN max ELSE min]
  /\ topLevel = [n \in Nodes |-> IF n \in {Head, Tail} THEN maxLevel ELSE 0]
  /\ tower = [n \in Nodes |-> [l \in Levels |->
                make_ref(IF n = Head THEN Tail ELSE NULL, "UNMARKED")]]
  /\ linked = 0

NoNodes == [l \in Levels |-> NULL]

Init ==
  /\ init_list
  /\ dead = FALSE
  /\ pc = [t \in Threads |-> "idle"]
  /\ op = [t \in Threads |-> None]
  /\ key = [t \in Threads |-> None]
  /\ after = [t \in Threads |-> None]
  /\ level = [t \in Threads |-> 0]
  /\ pred = [t \in Threads |-> NULL]
  /\ curr = [t \in Threads |-> NULL]
  /\ succ = [t \in Threads |-> NULL]
  /\ preds = [t \in Threads |-> NoNodes]
  /\ succs = [t \in Threads |-> NoNodes]
  /\ node = [t \in Threads |-> NULL]
  /\ top = [t \in Threads |-> 0]
  /\ at = [t \in Threads |-> 0]
  /\ res = [t \in Threads |-> None]
  /\ keys = {}
  /\ saw = [t \in Threads |-> {}]

-----------------------------------------------------------------------------
Goto(t, to) == pc' = [pc EXCEPT ![t] = to]

\* cas(&n->tower[l], make_ref(old, UNMARKED), ...) finds what it expects.
CasSucceeds(n, l, old) == tower[n][l] = make_ref(old, "UNMARKED")

\* The calls under way see the status of thread t's key become s.
Show(t, s) ==
  saw' = [u \in Threads |->
            IF pc[u] # "idle" /\ key[u] = key[t] THEN saw[u] \cup {s} ELSE saw[u]]

-----------------------------------------------------------------------------
(* search *)

\* retry: pred = sl->head
StartSearch(t, then) ==
  /\ Goto(t, "curr")
  /\ after' = [after EXCEPT ![t] = then]
  /\ level' = [level EXCEPT ![t] = maxLevel - 1]
  /\ pred' = [pred EXCEPT ![t] = Head]
  /\ curr' = [curr EXCEPT ![t] = NULL]
  /\ succ' = [succ EXCEPT ![t] = NULL]
  /\ preds' = [preds EXCEPT ![t] = NoNodes]
  /\ succs' = [succs EXCEPT ![t] = NoNodes]

\* curr = pred->tower[level].next_node_ptr
LoadCurr(t) ==
  /\ pc[t] = "curr"
  /\ curr' = [curr EXCEPT ![t] = tower[pred[t]][level[t]].next]
  /\ Goto(t, "succ")
  /\ UNCHANGED <<list, call, after, level, pred, succ, preds, succs, node, top, at, answer>>

\* succ = curr->tower[level].next_node_ptr
LoadSucc(t) ==
  /\ pc[t] = "succ"
  /\ succ' = [succ EXCEPT ![t] = tower[curr[t]][level[t]].next]
  /\ Goto(t, "mark")
  /\ UNCHANGED <<list, call, after, level, pred, curr, preds, succs, node, top, at, answer>>

\* marked = curr->tower[level].mark, and where the search goes from there
LoadMark(t) ==
  LET l == level[t]
  IN  /\ pc[t] = "mark"
      /\ CASE tower[curr[t]][l].mark = "MARKED" ->
                Goto(t, "snip") /\ UNCHANGED <<after, walk>>
           [] tower[curr[t]][l].mark # "MARKED" /\ key[t] > nkey[curr[t]] ->
                /\ Goto(t, "succ")
                /\ pred' = [pred EXCEPT ![t] = curr[t]]
                /\ curr' = [curr EXCEPT ![t] = succ[t]]
                /\ succ' = [succ EXCEPT ![t] = NULL]
                /\ UNCHANGED <<after, level, preds, succs>>
           [] OTHER ->
                /\ preds' = [preds EXCEPT ![t][l] = pred[t]]
                /\ succs' = [succs EXCEPT ![t][l] = curr[t]]
                /\ curr' = [curr EXCEPT ![t] = NULL]
                /\ succ' = [succ EXCEPT ![t] = NULL]
                /\ IF l > 0 THEN Goto(t, "curr") /\ level' = [level EXCEPT ![t] = l - 1]
                            ELSE Goto(t, after[t]) /\ UNCHANGED level
                /\ UNCHANGED <<after, pred>>
      /\ UNCHANGED <<list, call, node, top, at, answer>>

\* snip: pred->tower[level] from curr to succ; if it fails, goto retry
Snip(t) ==
  LET p == pred[t]
      l == level[t]
  IN  /\ pc[t] = "snip"
      /\ IF CasSucceeds(p, l, curr[t])
           THEN /\ tower' = [tower EXCEPT ![p][l] = make_ref(succ[t], "UNMARKED")]
                /\ Goto(t, "curr")
                /\ curr' = [curr EXCEPT ![t] = NULL]
                /\ succ' = [succ EXCEPT ![t] = NULL]
                /\ UNCHANGED <<after, level, pred, preds, succs>>
           ELSE StartSearch(t, after[t]) /\ UNCHANGED tower
      /\ UNCHANGED <<fields, call, node, top, at, answer>>

-----------------------------------------------------------------------------
(* Calls and returns *)

\* topLevel = r % sl->maxLevel, in add
Call(t, o, k) ==
  /\ pc[t] = "idle"
  /\ o = "add" => linked + Cardinality({u \in Threads : op[u] = "add"}) < MaxNodes
  /\ op' = [op EXCEPT ![t] = o]
  /\ key' = [key EXCEPT ![t] = k]
  /\ \E l \in IF o = "add" THEN Levels ELSE {0} : top' = [top EXCEPT ![t] = l]
  /\ StartSearch(t, "searched")
  /\ res' = [res EXCEPT ![t] = None]
  /\ saw' = [saw EXCEPT ![t] = {IF k \in keys THEN "in" ELSE "out"}]
  /\ UNCHANGED <<list, node, at, dead, keys>>

Return(t, r) ==
  /\ Goto(t, "idle")
  /\ op' = [op EXCEPT ![t] = None]
  /\ key' = [key EXCEPT ![t] = None]
  /\ after' = [after EXCEPT ![t] = None]
  /\ level' = [level EXCEPT ![t] = 0]
  /\ pred' = [pred EXCEPT ![t] = NULL]
  /\ curr' = [curr EXCEPT ![t] = NULL]
  /\ succ' = [succ EXCEPT ![t] = NULL]
  /\ preds' = [preds EXCEPT ![t] = NoNodes]
  /\ succs' = [succs EXCEPT ![t] = NoNodes]
  /\ node' = [node EXCEPT ![t] = NULL]
  /\ top' = [top EXCEPT ![t] = 0]
  /\ at' = [at EXCEPT ![t] = 0]
  /\ res' = [res EXCEPT ![t] = r]
  /\ saw' = [saw EXCEPT ![t] = {}]

\* find begins at level maxLevel, above the highest entry that init_list sets:
\* it reads through the NULL it finds there.
find(t) ==
  /\ pc[t] = "idle"
  /\ dead' = TRUE
  /\ UNCHANGED <<list, call, pc, after, walk, node, top, at, res, keys, saw>>

Searched(t, o) == pc[t] = "searched" /\ op[t] = o

\* curr->key == key
KeyFound(t) == nkey[succs[t][0]] = key[t]

SearchFails(t) ==
  /\ \/ Searched(t, "add") /\ KeyFound(t)
     \/ Searched(t, "delete") /\ ~ KeyFound(t)
  /\ Return(t, FALSE)
  /\ UNCHANGED <<list, dead, keys>>

-----------------------------------------------------------------------------
(* add *)

\* Mutant: a key that is in the list already is added again.
MayAddAlways(t) == Searched(t, "add")

MayAdd(t) == Searched(t, "add") /\ ~ KeyFound(t)

\* create_node, its tower, and the cas() at the bottom level: the effect of add.
AddBottom(t) ==
  LET n == linked + 1
      p == preds[t][0]
  IN  /\ MayAdd(t) /\ CasSucceeds(p, 0, succs[t][0])
      /\ linked' = n
      /\ nkey' = [nkey EXCEPT ![n] = key[t]]
      /\ topLevel' = [topLevel EXCEPT ![n] = top[t]]
      /\ tower' = [tower EXCEPT
                    ![n] = [l \in Levels |-> IF l <= top[t] THEN make_ref(succs[t][l], "UNMARKED") ELSE @[l]],
                    ![p][0] = make_ref(n, "UNMARKED")]
      /\ keys' = keys \cup {key[t]}
      /\ Show(t, "in")
      /\ Goto(t, "link")
      /\ node' = [node EXCEPT ![t] = n]
      /\ at' = [at EXCEPT ![t] = 1]
      /\ UNCHANGED <<call, after, walk, top, dead, res>>

\* The window has changed: continue
AddRetry(t) ==
  /\ MayAdd(t) /\ ~ CasSucceeds(preds[t][0], 0, succs[t][0])
  /\ StartSearch(t, "searched")
  /\ UNCHANGED <<list, call, node, top, at, answer>>

\* The cas() of a level above, or another search; node's own entry of the level
\* stays as the first search has made it.
AddLink(t) ==
  LET l == at[t]
      p == preds[t][l]
  IN  /\ pc[t] = "link" /\ l <= top[t]
      /\ IF CasSucceeds(p, l, succs[t][l])
           THEN /\ tower' = [tower EXCEPT ![p][l] = make_ref(node[t], "UNMARKED")]
                /\ at' = [at EXCEPT ![t] = l + 1]
                /\ UNCHANGED <<pc, after, walk>>
           ELSE StartSearch(t, "link") /\ UNCHANGED <<tower, at>>
      /\ UNCHANGED <<fields, call, node, top, answer>>

AddReturn(t) ==
  /\ pc[t] = "link" /\ at[t] > top[t]
  /\ Return(t, TRUE)
  /\ UNCHANGED <<list, dead, keys>>

-----------------------------------------------------------------------------
(* delete *)

\* victim = succs[bottomLevel]
DeleteFound(t) ==
  LET v == succs[t][0]
  IN  /\ Searched(t, "delete") /\ KeyFound(t)
      /\ node' = [node EXCEPT ![t] = v]
      /\ at' = [at EXCEPT ![t] = topLevel[v]]
      /\ Goto(t, "dsucc")
      /\ UNCHANGED <<list, call, after, walk, top, answer>>

\* succ = victim->tower[level].next_node_ptr
DeleteLoadSucc(t) ==
  /\ pc[t] = "dsucc"
  /\ succ' = [succ EXCEPT ![t] = tower[node[t]][at[t]].next]
  /\ Goto(t, IF at[t] > 0 THEN "dmark" ELSE "dcas")
  /\ UNCHANGED <<list, call, after, level, pred, curr, preds, succs, node, top, at, answer>>

\* marked = victim->tower[level].mark: "while (marked == UNMARKED)"
DeleteLoadMark(t) ==
  /\ pc[t] = "dmark"
  /\ IF tower[node[t]][at[t]].mark = "UNMARKED"
       THEN Goto(t, "dstore") /\ UNCHANGED at
       ELSE Goto(t, "dsucc") /\ at' = [at EXCEPT ![t] = @ - 1]
  /\ UNCHANGED <<list, call, after, walk, node, top, answer>>

\* victim->tower[level].next_node_ptr = succ
DeleteStoreSucc(t) ==
  /\ pc[t] = "dstore"
  /\ tower' = [tower EXCEPT ![node[t]][at[t]].next = succ[t]]
  /\ Goto(t, "dmarked")
  /\ UNCHANGED <<fields, call, after, walk, node, top, at, answer>>

\* victim->tower[level].mark = MARKED; nothing takes a mark back, so the loop ends.
DeleteStoreMark(t) ==
  /\ pc[t] = "dmarked"
  /\ tower' = [tower EXCEPT ![node[t]][at[t]].mark = "MARKED"]
  /\ at' = [at EXCEPT ![t] = @ - 1]
  /\ Goto(t, "dsucc")
  /\ UNCHANGED <<fields, call, after, walk, node, top, answer>>

\* The cas() that marks the bottom level: the effect of delete.
DeleteCas(t) ==
  /\ pc[t] = "dcas"
  /\ IF CasSucceeds(node[t], 0, succ[t])
       THEN /\ tower' = [tower EXCEPT ![node[t]][0].mark = "MARKED"]
            /\ keys' = keys \ {key[t]}
            /\ Show(t, "out")
            /\ StartSearch(t, "deleted")
       ELSE Goto(t, "dresucc") /\ UNCHANGED <<tower, keys, saw, after, walk>>
  /\ UNCHANGED <<fields, call, node, top, at, dead, res>>

\* The search has unlinked it.
DeleteReturn(t) ==
  /\ pc[t] = "deleted"
  /\ Return(t, TRUE)
  /\ UNCHANGED <<list, dead, keys>>

\* The cas() has failed: succ and marked are read again.
DeleteReloadSucc(t) ==
  /\ pc[t] = "dresucc"
  /\ succ' = [succ EXCEPT ![t] = tower[node[t]][0].next]
  /\ Goto(t, "dremark")
  /\ UNCHANGED <<list, call, after, level, pred, curr, preds, succs, node, top, at, answer>>

DeleteReloadMark(t) ==
  /\ pc[t] = "dremark"
  /\ IF tower[node[t]][0].mark = "MARKED"
       THEN Return(t, FALSE)
       ELSE Goto(t, "dcas") /\ UNCHANGED <<call, after, walk, node, top, at, res, saw>>
  /\ UNCHANGED <<list, dead, keys>>

-----------------------------------------------------------------------------
Step(t) ==
  /\ ~ dead
  /\ \/ LoadCurr(t) \/ LoadSucc(t) \/ LoadMark(t) \/ Snip(t) \/ find(t) \/ SearchFails(t)
     \/ AddBottom(t) \/ AddRetry(t) \/ AddLink(t) \/ AddReturn(t)
     \/ DeleteFound(t) \/ DeleteLoadSucc(t) \/ DeleteLoadMark(t) \/ DeleteStoreSucc(t)
     \/ DeleteStoreMark(t) \/ DeleteCas(t) \/ DeleteReturn(t)
     \/ DeleteReloadSucc(t) \/ DeleteReloadMark(t)

Next == \E t \in Threads :
  (~ dead /\ \E o \in {"add", "delete"}, k \in Keys : Call(t, o, k)) \/ Step(t)

Spec == Init /\ [][Next]_vars

-----------------------------------------------------------------------------
(* Properties *)

\* The bottom level is in ascending order and no level has a cycle, although a
\* search may unlink with a next pointer it read before the mark and the upper
\* levels are marked by plain stores: there a new node may point to a deleted one
\* with its key, never the other way round.  So every search comes to an end.
LevelsSorted ==
  \A n \in Nodes, l \in Levels :
    LET nx == tower[n][l].next
    IN  nx # NULL => nkey[n] < nkey[nx] \/ (l > 0 /\ nkey[n] = nkey[nx] /\ n > nx)

\* "failure(not found) : return false": a delete returns false only if its key
\* was not in the list at some moment of the call.
DeleteFindsItsKey ==
  [][\A t \in Threads :
       op[t] = "delete" /\ pc'[t] = "idle" /\ res'[t] = FALSE => "out" \in saw[t]]_vars
=============================================================================
