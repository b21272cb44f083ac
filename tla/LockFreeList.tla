---------------------------- MODULE LockFreeList ----------------------------
(***************************************************************************)
(* The list of list/LockFreeList.c.  A deletion flags the succ field of    *)
(* the node before, marks the node, and takes it out; any thread that      *)
(* meets a flag or a mark helps.  A step is one load, one store or one     *)
(* cas(), which takes the pointer and the mark word together.  A copy of a *)
(* succ field is two loads, in either order.  A mark stays, so that a load *)
(* of a mark and a load that only a mark leads to are one step.            *)
(*                                                                         *)
(* searchFrom2 stops before the first node whose key is not smaller, and   *)
(* add and find look for the key in the node it stopped at: so add takes a *)
(* key again that is in the list, and find finds nothing.                  *)
(*                                                                         *)
(* Deleted nodes are not freed (no _FREE_ in the build).                   *)
(***************************************************************************)
EXTENDS Integers, Sequences, FiniteSets

CONSTANTS
  Threads,     \* the callers
  Keys,        \* the keys they use, between MinKey and MaxKey
  MinKey, MaxKey,  \* INT_MIN and INT_MAX
  MaxNodes,    \* a bound on the nodes that adds link
  None         \* no function, no key, no word

head == 0
tail == MaxNodes + 1
Nodes == 0..(MaxNodes + 1)
NULL == MaxNodes + 2

VARIABLES
  nkey, succ, backlink,   \* the fields of the nodes; succ is [ptr, mark]
  linked,                 \* how many nodes adds have linked
  pc, op, key,            \* a thread's place, the function it is in, its argument
  curr, next,             \* curr_node and next_node of searchFrom2; then prev_node,
                          \* and next_node of add or del_node of delete
  ref,                    \* a copy of a succ field, as far as it is loaded
  frames,                 \* the pairs <<prev_node, del_node>> of the calls of helpFlagged
  after,                  \* its place after the search, or after helpFlagged
  res,                    \* what its last call returned
  claims, done            \* history: how many deletes have flagged a node for
                          \* themselves; the nodes whose delete has returned true

fields == <<nkey, backlink, linked>>
call == <<op, key>>
history == <<claims, done>>
vars == <<fields, succ, pc, call, curr, next, ref, frames, after, res, history>>

make_ref(n, mark) == [ptr |-> n, mark |-> mark]
NoRef == make_ref(None, None)

init_list ==
  /\ nkey = [n \in Nodes |-> IF n = tail THEN MaxKey ELSE MinKey]
  /\ succ = [n \in Nodes |-> make_ref(IF n = head THEN tail ELSE NULL, "UNMARKED")]
  /\ backlink = [n \in Nodes |-> NULL]
  /\ linked = 0

Init ==
  /\ init_list
  /\ pc = [t \in Threads |-> "idle"]
  /\ op = [t \in Threads |-> None]
  /\ key = [t \in Threads |-> None]
  /\ curr = [t \in Threads |-> NULL]
  /\ next = [t \in Threads |-> NULL]
  /\ ref = [t \in Threads |-> NoRef]
  /\ frames = [t \in Threads |-> << >>]
  /\ after = [t \in Threads |-> None]
  /\ res = [t \in Threads |-> None]
  /\ claims = [n \in Nodes |-> 0]
  /\ done = {}

-----------------------------------------------------------------------------
Goto(t, to) == pc' = [pc EXCEPT ![t] = to]

IsMarked(n) == succ[n].mark = "MARKED"
Below(t, n) == nkey[n] < key[t]

\* searchFrom2(key, list->head, ...)
StartSearch(t, then) ==
  /\ Goto(t, "next")
  /\ curr' = [curr EXCEPT ![t] = head]
  /\ next' = [next EXCEPT ![t] = NULL]
  /\ after' = [after EXCEPT ![t] = then]

Call(t, o, k) ==
  /\ pc[t] = "idle"
  /\ o = "add" => linked + Cardinality({u \in Threads : op[u] = "add"}) < MaxNodes
  /\ op' = [op EXCEPT ![t] = o]
  /\ key' = [key EXCEPT ![t] = k]
  /\ res' = [res EXCEPT ![t] = None]
  /\ StartSearch(t, "searched")
  /\ UNCHANGED <<fields, succ, ref, frames, history>>

Return(t, r) ==
  /\ Goto(t, "idle")
  /\ op' = [op EXCEPT ![t] = None]
  /\ key' = [key EXCEPT ![t] = None]
  /\ curr' = [curr EXCEPT ![t] = NULL]
  /\ next' = [next EXCEPT ![t] = NULL]
  /\ after' = [after EXCEPT ![t] = None]
  /\ res' = [res EXCEPT ![t] = r]

-----------------------------------------------------------------------------
(* searchFrom2 *)

\* next_node = curr_node->succ.node_ptr: is its key still smaller?
LoadNext(t) ==
  LET n == succ[curr[t]].ptr
  IN  /\ pc[t] = "next"
      /\ next' = [next EXCEPT ![t] = n]
      /\ Goto(t, IF Below(t, n) THEN "marked" ELSE after[t])
      /\ UNCHANGED <<fields, succ, call, curr, ref, frames, after, res, history>>

\* On to next_node, or, after some have been taken out, no more of them.
Advance(t) ==
  IF Below(t, next[t])
    THEN Goto(t, "next") /\ curr' = [curr EXCEPT ![t] = next[t]]
    ELSE Goto(t, after[t]) /\ UNCHANGED curr

\* is_marked_ref(next_node->succ)
LoadMarked(t) ==
  /\ pc[t] = "marked"
  /\ IF IsMarked(next[t]) THEN Goto(t, "currmark") /\ UNCHANGED curr ELSE Advance(t)
  /\ UNCHANGED <<fields, succ, call, next, ref, frames, after, res, history>>

\* ... && (is_unmarked_ref(curr_node->succ)
LoadCurrMark(t) ==
  /\ pc[t] = "currmark"
  /\ Goto(t, IF IsMarked(curr[t]) THEN "currptr" ELSE "test")
  /\ UNCHANGED <<fields, succ, call, curr, next, ref, frames, after, res, history>>

\* ... || (curr_node->succ.node_ptr != next_node))
LoadCurrPtr(t) ==
  /\ pc[t] = "currptr"
  /\ IF succ[curr[t]].ptr = next[t] THEN Advance(t) ELSE Goto(t, "test") /\ UNCHANGED curr
  /\ UNCHANGED <<fields, succ, call, next, ref, frames, after, res, history>>

\* if (curr_node->succ.node_ptr == next_node) helpMarked(curr_node, next_node)
TestHelp(t) ==
  /\ pc[t] = "test"
  /\ Goto(t, IF succ[curr[t]].ptr = next[t] THEN "help" ELSE "reload")
  /\ UNCHANGED <<fields, succ, call, curr, next, ref, frames, after, res, history>>

\* next_node = curr_node->succ.node_ptr, and the inner loop once more
Reload(t) ==
  /\ pc[t] = "reload"
  /\ next' = [next EXCEPT ![t] = succ[curr[t]].ptr]
  /\ Goto(t, "marked")
  /\ UNCHANGED <<fields, succ, call, curr, ref, frames, after, res, history>>

-----------------------------------------------------------------------------
(* helpMarked, helpFlagged and tryMark *)

\* prev_node and del_node of the call under way: helpFlagged's, or the search's.
Frame(t) ==
  IF frames[t] = << >> THEN <<curr[t], next[t]>> ELSE frames[t][Len(frames[t])]
prev_node(t) == Frame(t)[1]
del_node(t) == Frame(t)[2]

helpFlagged(t, prev, del, then) ==
  /\ Goto(t, "backlink")
  /\ frames' = [frames EXCEPT ![t] = Append(@, <<prev, del>>)]
  /\ after' = [after EXCEPT ![t] = then]
  /\ ref' = [ref EXCEPT ![t] = NoRef]

\* next_node = del_node->succ.node_ptr
HelpLoad(t) ==
  /\ pc[t] = "help"
  /\ ref' = [ref EXCEPT ![t].ptr = succ[del_node(t)].ptr]
  /\ Goto(t, "helpcas")
  /\ UNCHANGED <<fields, succ, call, curr, next, frames, after, res, history>>

\* cas(&prev_node->succ, ...), and the return from helpMarked
HelpCas(t) ==
  LET p == prev_node(t)
  IN  /\ pc[t] = "helpcas"
      /\ succ' = IF succ[p] = make_ref(del_node(t), "FLAGGED")
                   THEN [succ EXCEPT ![p] = make_ref(ref[t].ptr, "UNMARKED")]
                   ELSE succ
      /\ ref' = [ref EXCEPT ![t] = NoRef]
      /\ IF frames[t] = << >>
           THEN Goto(t, "reload") /\ UNCHANGED frames
           ELSE /\ frames' = [frames EXCEPT ![t] = SubSeq(@, 1, Len(@) - 1)]
                /\ Goto(t, IF Len(frames[t]) = 1 THEN after[t] ELSE "trymarked")
      /\ UNCHANGED <<fields, call, curr, next, after, res, history>>

\* Mutant: the backlink is not set.
SetBacklinkNot(t) ==
  /\ pc[t] = "backlink"
  /\ Goto(t, "trymarked")
  /\ UNCHANGED <<fields, succ, call, curr, next, ref, frames, after, res, history>>

\* del_node->backlink = prev_node
SetBacklink(t) ==
  /\ pc[t] = "backlink"
  /\ backlink' = [backlink EXCEPT ![del_node(t)] = prev_node(t)]
  /\ Goto(t, "trymarked")
  /\ UNCHANGED <<nkey, linked, succ, call, curr, next, ref, frames, after, res, history>>

\* is_unmarked_ref(del_node->succ): in helpFlagged, and tryMark's loop
TestMarked(t) ==
  /\ pc[t] = "trymarked"
  /\ Goto(t, IF IsMarked(del_node(t)) THEN "help" ELSE "trynext")
  /\ UNCHANGED <<fields, succ, call, curr, next, ref, frames, after, res, history>>

\* next_node = del_node->succ.node_ptr
TryNext(t) ==
  /\ pc[t] = "trynext"
  /\ ref' = [ref EXCEPT ![t].ptr = succ[del_node(t)].ptr]
  /\ Goto(t, "trycas")
  /\ UNCHANGED <<fields, succ, call, curr, next, frames, after, res, history>>

TryCas(t) ==
  LET d == del_node(t)
  IN  /\ pc[t] = "trycas"
      /\ succ' = IF succ[d] = make_ref(ref[t].ptr, "UNMARKED")
                   THEN [succ EXCEPT ![d].mark = "MARKED"]
                   ELSE succ
      /\ ref' = [ref EXCEPT ![t] = NoRef]
      /\ Goto(t, "trycopy")
      /\ UNCHANGED <<fields, call, curr, next, frames, after, res, history>>

-----------------------------------------------------------------------------
(* Copies of a succ field *)

\* The node whose succ field is copied.
Copied(t) == IF pc[t] = "trycopy" THEN del_node(t) ELSE curr[t]

\* The first word
FirstWord(t) ==
  /\ pc[t] \in {"copy", "recopy", "flagcopy", "trycopy"} /\ ref[t] = NoRef
  /\ \E w \in {"ptr", "mark"} : ref' = [ref EXCEPT ![t][w] = succ[Copied(t)][w]]
  /\ UNCHANGED <<fields, succ, pc, call, curr, next, frames, after, res, history>>

\* With the second one: the copy.
Copy(t) == [w \in {"ptr", "mark"} |-> IF ref[t][w] = None THEN succ[Copied(t)][w] ELSE ref[t][w]]
HasFirst(t, at) == pc[t] = at /\ ref[t] # NoRef

\* result = del_node->succ, in tryMark: help there first, if it is flagged.
TryCopied(t) ==
  /\ HasFirst(t, "trycopy")
  /\ IF Copy(t).mark = "FLAGGED"
       THEN helpFlagged(t, del_node(t), Copy(t).ptr, after[t])
       ELSE /\ Goto(t, "trymarked")
            /\ ref' = [ref EXCEPT ![t] = NoRef]
            /\ UNCHANGED <<frames, after>>
  /\ UNCHANGED <<fields, succ, call, curr, next, res, history>>

-----------------------------------------------------------------------------
(* add *)

Searched(t, o) == pc[t] = "searched" /\ op[t] = o

\* The node the search has stopped at: no key smaller than the key is the key.
KeyFound(t) == curr[t] # tail /\ nkey[curr[t]] = key[t]

\* The first search is done, and create_node.
AddSearched(t) ==
  /\ Searched(t, "add")
  /\ IF KeyFound(t)
       THEN Return(t, FALSE)
       ELSE Goto(t, "copy") /\ UNCHANGED <<call, curr, next, after, res>>
  /\ UNCHANGED <<fields, succ, ref, frames, history>>

create_nodeFails(t) ==
  /\ Searched(t, "add") /\ ~ KeyFound(t)
  /\ Return(t, FALSE)
  /\ UNCHANGED <<fields, succ, ref, frames, history>>

\* prev_succ = prev_node->succ: help, if it is flagged
AddCopied(t) ==
  /\ HasFirst(t, "copy")
  /\ IF Copy(t).mark = "FLAGGED"
       THEN helpFlagged(t, curr[t], Copy(t).ptr, "again")
       ELSE /\ Goto(t, "addcas")
            /\ ref' = [ref EXCEPT ![t] = NoRef]
            /\ UNCHANGED <<frames, after>>
  /\ UNCHANGED <<fields, succ, call, curr, next, res, history>>

\* Mutant: the cas() compares the pointer and not the mark word.
AddLinkPtr(t) ==
  LET n == linked + 1
  IN  /\ pc[t] = "addcas" /\ succ[curr[t]].ptr = next[t]
      /\ linked' = n
      /\ nkey' = [nkey EXCEPT ![n] = key[t]]
      /\ succ' = [succ EXCEPT ![n] = make_ref(next[t], "UNMARKED"),
                              ![curr[t]] = make_ref(n, "UNMARKED")]
      /\ Return(t, TRUE)
      /\ UNCHANGED <<backlink, ref, frames, history>>

\* newNode->succ and the cas() of prev_node->succ: the effect of add.
AddLink(t) ==
  LET n == linked + 1
  IN  /\ pc[t] = "addcas" /\ succ[curr[t]] = make_ref(next[t], "UNMARKED")
      /\ linked' = n
      /\ nkey' = [nkey EXCEPT ![n] = key[t]]
      /\ succ' = [succ EXCEPT ![n] = make_ref(next[t], "UNMARKED"),
                              ![curr[t]] = make_ref(n, "UNMARKED")]
      /\ Return(t, TRUE)
      /\ UNCHANGED <<backlink, ref, frames, history>>

AddCasFails(t) ==
  /\ pc[t] = "addcas" /\ succ[curr[t]] # make_ref(next[t], "UNMARKED")
  /\ Goto(t, "recopy")
  /\ UNCHANGED <<fields, succ, call, curr, next, ref, frames, after, res, history>>

\* result = prev_node->succ: help, if it is flagged by now
AddRecopied(t) ==
  /\ HasFirst(t, "recopy")
  /\ IF Copy(t).mark = "FLAGGED"
       THEN helpFlagged(t, curr[t], Copy(t).ptr, "back")
       ELSE /\ Goto(t, "back")
            /\ ref' = [ref EXCEPT ![t] = NoRef]
            /\ UNCHANGED <<frames, after>>
  /\ UNCHANGED <<fields, succ, call, curr, next, res, history>>

\* while (is_marked_ref(prev_node->succ)) prev_node = prev_node->backlink;
\* then, in add, another search, and in tryFlag another attempt
Back(t) ==
  /\ pc[t] = "back"
  /\ IF IsMarked(curr[t]) THEN curr' = [curr EXCEPT ![t] = backlink[curr[t]]] /\ UNCHANGED pc
                          ELSE Goto(t, IF op[t] = "add" THEN "again" ELSE "flagptr") /\ UNCHANGED curr
  /\ UNCHANGED <<fields, succ, call, next, ref, frames, after, res, history>>

AddAgain(t) ==
  /\ pc[t] = "again"
  /\ StartSearch(t, "researched")
  /\ UNCHANGED <<fields, succ, call, ref, frames, res, history>>

AddResearched(t) ==
  /\ pc[t] = "researched"
  /\ IF KeyFound(t)
       THEN Return(t, FALSE)
       ELSE Goto(t, "copy") /\ UNCHANGED <<call, curr, next, after, res>>
  /\ UNCHANGED <<fields, succ, ref, frames, history>>

-----------------------------------------------------------------------------
(* delete and find *)

DeleteSearched(t) ==
  /\ Searched(t, "delete")
  /\ IF nkey[next[t]] # key[t]
       THEN Return(t, FALSE)
       ELSE Goto(t, "flagptr") /\ UNCHANGED <<call, curr, next, after, res>>
  /\ UNCHANGED <<fields, succ, ref, frames, history>>

\* tryFlag: prev_node->succ.node_ptr == target_node && ...
FlagLoadPtr(t) ==
  /\ pc[t] = "flagptr"
  /\ Goto(t, IF succ[curr[t]].ptr = next[t] THEN "flagmark" ELSE "flagcas")
  /\ UNCHANGED <<fields, succ, call, curr, next, ref, frames, after, res, history>>

\* ... is_flagged_ref(prev_node->succ): another delete has come first, return false
FlagLoadMark(t) ==
  /\ pc[t] = "flagmark"
  /\ IF succ[curr[t]].mark = "FLAGGED"
       THEN helpFlagged(t, curr[t], next[t], "false")
       ELSE Goto(t, "flagcas") /\ UNCHANGED <<ref, frames, after>>
  /\ UNCHANGED <<fields, succ, call, curr, next, res, history>>

\* The cas() that flags prev_node->succ: this delete is to return true.
FlagCas(t) ==
  /\ pc[t] = "flagcas"
  /\ IF succ[curr[t]] = make_ref(next[t], "UNMARKED")
       THEN /\ succ' = [succ EXCEPT ![curr[t]].mark = "FLAGGED"]
            /\ claims' = [claims EXCEPT ![next[t]] = @ + 1]
            /\ helpFlagged(t, curr[t], next[t], "true")
       ELSE Goto(t, "flagcopy") /\ UNCHANGED <<succ, claims, ref, frames, after>>
  /\ UNCHANGED <<fields, call, curr, next, res, done>>

\* result = prev_node->succ
FlagCopied(t) ==
  /\ HasFirst(t, "flagcopy")
  /\ IF Copy(t) = make_ref(next[t], "FLAGGED")
       THEN helpFlagged(t, curr[t], next[t], "false")
       ELSE /\ Goto(t, "back")
            /\ ref' = [ref EXCEPT ![t] = NoRef]
            /\ UNCHANGED <<frames, after>>
  /\ UNCHANGED <<fields, succ, call, curr, next, res, history>>

DeleteReturn(t) ==
  /\ pc[t] \in {"true", "false"}
  /\ Return(t, pc[t] = "true")
  /\ done' = IF pc[t] = "true" THEN done \cup {next[t]} ELSE done
  /\ UNCHANGED <<fields, succ, ref, frames, claims>>

FindReturn(t) ==
  /\ Searched(t, "find")
  /\ Return(t, KeyFound(t))
  /\ UNCHANGED <<fields, succ, ref, frames, history>>

-----------------------------------------------------------------------------
Step(t) ==
  \/ LoadNext(t) \/ LoadMarked(t) \/ LoadCurrMark(t) \/ LoadCurrPtr(t) \/ TestHelp(t) \/ Reload(t)
  \/ HelpLoad(t) \/ HelpCas(t) \/ SetBacklink(t) \/ TestMarked(t) \/ TryNext(t) \/ TryCas(t)
  \/ FirstWord(t) \/ TryCopied(t)
  \/ AddSearched(t) \/ create_nodeFails(t) \/ AddCopied(t) \/ AddLink(t) \/ AddCasFails(t)
  \/ AddRecopied(t) \/ Back(t) \/ AddAgain(t) \/ AddResearched(t)
  \/ DeleteSearched(t) \/ FlagLoadPtr(t) \/ FlagLoadMark(t) \/ FlagCas(t) \/ FlagCopied(t)
  \/ DeleteReturn(t) \/ FindReturn(t)

Next == \E t \in Threads :
  (\E o \in {"add", "delete", "find"}, k \in Keys : Call(t, o, k)) \/ Step(t)

Spec == Init /\ [][Next]_vars

-----------------------------------------------------------------------------
(* Properties *)

\* The nodes on the way from list->head.
Reachable ==
  LET path[i \in Nodes] == IF i = 0 \/ path[i - 1] = NULL THEN IF i = 0 THEN head ELSE NULL
                           ELSE succ[path[i - 1]].ptr
  IN  {path[i] : i \in Nodes}

\* No node is lost and none is deleted twice: a node that an add has linked is in
\* the list until a delete has flagged the node before it, no second delete does
\* so, and when that delete returns true the node is out of the list, whoever
\* has helped.
NodesAccounted ==
  /\ \A n \in 1..linked : claims[n] <= 1 /\ (claims[n] = 0 => n \in Reachable)
  /\ done \cap Reachable = {}

\* Is m before n in the list?  Of two nodes with one key the newer comes first.
Before(m, n) == nkey[m] < nkey[n] \/ (nkey[m] = nkey[n] /\ m > n)

\* The links lead forward and the backlinks lead back: a search comes to the end
\* of the list, and a thread that stands on a marked node always finds a
\* backlink to go by, at last to a node without a mark, even where two words of a succ
\* field that were not there together have made it mark a node nobody deletes.
LinksLead ==
  \A n \in 0..linked :
    /\ Before(n, succ[n].ptr)
    /\ backlink[n] # NULL => Before(backlink[n], n)
    /\ IsMarked(n) => backlink[n] # NULL
=============================================================================
