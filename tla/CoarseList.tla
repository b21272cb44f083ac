----------------------------- MODULE CoarseList -----------------------------
(***************************************************************************)
(* The list of list/CoarseGrainedSynchroList.c.  add, delete and find hold *)
(* list->mtx from their first access to the list to their last, so a call  *)
(* is one step.  The list is the sequence of the keys after the head, the  *)
(* tail's included: the tail is a zeroed node, whose key is 0.             *)
(***************************************************************************)
EXTENDS Integers, FiniteSets, SequencesExt

CONSTANT Keys   \* not negative: see delete

VARIABLES
  nodes,     \* the keys from head->next to the tail
  last       \* the last call, its key and its answer

vars == <<nodes, last>>

TailKey == 0

init_list == nodes = <<TailKey>>

Init == init_list /\ last = << >>

-----------------------------------------------------------------------------
IsTail(i) == i = Len(nodes)

\* Where "while (curr != list->tail && curr->key < key)" stops.
Stop(k) == CHOOSE i \in DOMAIN nodes :
             /\ IsTail(i) \/ nodes[i] >= k
             /\ \A j \in 1..(i - 1) : nodes[j] < k

\* Mutant: the tail's key is compared as well.
HasNoTailTest(k) == nodes[Stop(k)] = k

Has(k) == ~ IsTail(Stop(k)) /\ nodes[Stop(k)] = k

add(k) ==
  /\ nodes' = IF Has(k) THEN nodes ELSE InsertAt(nodes, Stop(k), k)
  /\ last' = <<"add", k, ~ Has(k)>>

\* create_node finds no memory.
add_fails(k) ==
  /\ last' = <<"add", k, FALSE, "no room">>
  /\ UNCHANGED nodes

\* In a list that is not empty the tail is not left out: were all its keys below
\* 0, a delete of 0 would take the tail for its node.
delete(k) ==
  LET found == Len(nodes) > 1 /\ nodes[Stop(k)] = k
  IN  /\ nodes' = IF found THEN RemoveAt(nodes, Stop(k)) ELSE nodes
      /\ last' = <<"delete", k, found>>

find(k) ==
  /\ last' = <<"find", k, Has(k)>>
  /\ UNCHANGED nodes

Next == \E k \in Keys : add(k) \/ add_fails(k) \/ delete(k) \/ find(k)

Spec == Init /\ [][Next]_vars

-----------------------------------------------------------------------------
(* Properties *)

\* Every answer is that of a set of keys.
Refines == INSTANCE AtomicTable WITH
  Duplicates <- FALSE,
  count <- [k \in Keys |-> Cardinality({i \in 1..(Len(nodes) - 1) : nodes[i] = k})]
IsSet == Refines!Spec
=============================================================================
