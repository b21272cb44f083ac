------------------------------ MODULE Skiplist ------------------------------
(***************************************************************************)
(* The skip list of list/Skiplist.c.  Every call holds sl->mtx, so a call  *)
(* is one step.  A node is named by its key: no call keeps a pointer to a  *)
(* node after the lock is released.  A value is not null, so that find,    *)
(* which returns the value, answers true when it meets the key.            *)
(***************************************************************************)
EXTENDS Integers, FiniteSets

CONSTANTS
  Keys,       \* between min and max
  min, max,   \* the keys of the sentinels
  maxLevel    \* the levels of the list: 0..maxLevel-1

Levels == 0..(maxLevel - 1)
Nodes == Keys \cup {min, max}
NoNode == max + 1

VARIABLES
  next,       \* next[n][level]
  topLevel,   \* the level of each node; -1 for a key without a node
  last,       \* the last call, its key and its answer
  dead        \* the process has ended: add wrote through a null newNode

list == <<next, topLevel>>
vars == <<list, last, dead>>

\* head->next[i] = tail, tail->next[i] = NULL
init_list ==
  /\ next = [n \in Nodes |-> [l \in Levels |-> IF n = min THEN max ELSE NoNode]]
  /\ topLevel = [n \in Nodes |-> IF n \in {min, max} THEN maxLevel ELSE -1]

Init == init_list /\ last = << >> /\ dead = FALSE

-----------------------------------------------------------------------------
\* The walk along a level, on while the next key is below k.
RECURSIVE walk(_, _, _)
walk(pred, level, k) ==
  IF k > next[pred][level] THEN walk(next[pred][level], level, k) ELSE pred

\* preds, from the top level down, each walk from where the one above stopped;
\* succs; and the highest level at which k was met, or -1.
search(k) ==
  LET preds[l \in 0..maxLevel] == IF l = maxLevel THEN min ELSE walk(preds[l + 1], l, k)
      succs == [l \in Levels |-> next[preds[l]][l]]
      met == {l \in Levels : succs[l] = k}
  IN  [preds |-> preds, succs |-> succs,
       lFound |-> IF met = {} THEN -1 ELSE CHOOSE l \in met : \A m \in met : m <= l]

\* top is drawn by rand(); create_node may find no memory.
add(k, top) ==
  LET s == search(k)
  IN  \/ /\ s.lFound # -1
         /\ last' = <<"add", k, FALSE>>
         /\ UNCHANGED <<list, dead>>
      \/ /\ s.lFound = -1
         /\ last' = <<"add", k, TRUE>>
         /\ topLevel' = [topLevel EXCEPT ![k] = top]
         /\ next' = [n \in Nodes |-> [l \in Levels |->
                       IF l <= top /\ n = k THEN s.succs[l]
                       ELSE IF l <= top /\ n = s.preds[l] THEN k ELSE next[n][l]]]
         /\ UNCHANGED dead
      \/ /\ s.lFound = -1
         /\ dead' = TRUE
         /\ UNCHANGED <<list, last>>

\* Mutant: the victim stays linked on its top level, unless that is the lowest.
unlinkBelowTop(victim, preds) ==
  [n \in Nodes |-> [l \in Levels |->
     IF (l < topLevel[victim] \/ l = 0) /\ n = preds[l] THEN next[victim][l] ELSE next[n][l]]]

\* The victim taken out of all its levels.
unlink(victim, preds) ==
  [n \in Nodes |-> [l \in Levels |->
     IF l <= topLevel[victim] /\ n = preds[l] THEN next[victim][l] ELSE next[n][l]]]

\* The victim is gone when the call returns.
delete(k) ==
  LET s == search(k)
      victim == s.succs[s.lFound]
  IN  /\ last' = <<"delete", k, s.lFound # -1>>
      /\ IF s.lFound = -1 THEN UNCHANGED list
         ELSE /\ next' = [unlink(victim, s.preds) EXCEPT ![victim] = next[max]]
              /\ topLevel' = [topLevel EXCEPT ![victim] = -1]
      /\ UNCHANGED dead

\* Mutant: the level found at is taken for the answer.
findLevel(k) ==
  /\ last' = <<"find", k, search(k).lFound > 0>>
  /\ UNCHANGED <<list, dead>>

find(k) ==
  /\ last' = <<"find", k, search(k).lFound # -1>>
  /\ UNCHANGED <<list, dead>>

Next ==
  /\ ~ dead
  /\ \E k \in Keys : (\E top \in Levels : add(k, top)) \/ delete(k) \/ find(k)

Spec == Init /\ [][Next]_vars

-----------------------------------------------------------------------------
(* Properties *)

\* The nodes of a level, from the head on.
RECURSIVE From(_, _)
From(n, l) == IF n >= max THEN {} ELSE {n} \cup From(next[n][l], l)
OnLevel(l) == From(next[min][l], l)

\* Every answer is that of the set of keys of the bottom level, though searches
\* come down from the levels above.
Refines == INSTANCE AtomicTable WITH
  Duplicates <- FALSE, count <- [k \in Keys |-> IF k \in OnLevel(0) THEN 1 ELSE 0]
IsSet == Refines!Spec

\* A node is linked on all levels up to its own and on no other, in ascending
\* order: each level is a sublist of the one below.
LevelsNested ==
  \A l \in Levels :
    /\ OnLevel(l) = {k \in Keys : topLevel[k] >= l}
    /\ \A n \in OnLevel(l) \cup {min} : n < next[n][l]
=============================================================================
