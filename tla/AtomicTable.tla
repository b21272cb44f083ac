---------------------------- MODULE AtomicTable ----------------------------
(***************************************************************************)
(* What a list or a table that does each call under one lock promises (the *)
(* comments on its add, delete and find): the calls act one after another  *)
(* on a bag of keys, which is a set unless duplicates are taken.           *)
(***************************************************************************)
EXTENDS Integers

CONSTANTS Keys, Duplicates

VARIABLES
  count,   \* how often each key is in the table
  last     \* the last call: the function, its key, its answer

vars == <<count, last>>

Init ==
  /\ count = [k \in Keys |-> 0]
  /\ last = << >>

Add(k) ==
  LET new == Duplicates \/ count[k] = 0
  IN  /\ count' = IF new THEN [count EXCEPT ![k] = @ + 1] ELSE count
      /\ last' = <<"add", k, new>>

\* An add that finds no memory or no room leaves the table alone.
AddFails(k) == last' = <<"add", k, FALSE, "no room">> /\ UNCHANGED count

Delete(k) ==
  LET found == count[k] > 0
  IN  /\ count' = IF found THEN [count EXCEPT ![k] = @ - 1] ELSE count
      /\ last' = <<"delete", k, found>>

Find(k) == last' = <<"find", k, count[k] > 0>> /\ UNCHANGED count

Next == \E k \in Keys : Add(k) \/ AddFails(k) \/ Delete(k) \/ Find(k)

Spec == Init /\ [][Next]_vars
=============================================================================
