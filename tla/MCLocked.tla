----------------------------- MODULE MCLocked -----------------------------
(***************************************************************************)
(* The structures that are accessed under locks only, for TLC: the fine-   *)
(* grained list, with a lock for every node, and those that do every call  *)
(* under one lock.  The Makefiles build each of them into a program of its *)
(* own, so `which' is chosen once; the variables of the others stay as     *)
(* they are.                                                               *)
(***************************************************************************)
EXTENDS FineList

VARIABLES
  which,
  lNodes, lLast,
  sNext, topLevel, sLast, sDead,
  cBucket, cTable_size, cSetSize, cLast, cDead,
  oBucket, oTable_size, oSetSize, oLast, oDead,
  table, kTable_size, kSetSize, kLast, kDead

Coarse == INSTANCE CoarseList WITH Keys <- 0..3, nodes <- lNodes, last <- lLast

Skip == INSTANCE Skiplist WITH
  Keys <- 1..4, min <- 0, max <- 5, maxLevel <- 3, next <- sNext, last <- sLast, dead <- sDead

\* 4 and 6 follow 2 into the buckets that the resizes make.
Chained == INSTANCE ChainHash WITH
  Keys <- {1, 2, 3, 4, 6}, InitSize <- 1, Load <- 1,
  bucket <- cBucket, table_size <- cTable_size, setSize <- cSetSize,
  last <- cLast, dead <- cDead

Open == INSTANCE OpenAddressHash WITH
  Keys <- 1..3, InitBits <- 1, MaxNodes <- 4,
  bucket <- oBucket, table_size <- oTable_size, setSize <- oSetSize,
  last <- oLast, dead <- oDead

\* 1 and 9 collide in up to 8 cells, 1 and 17 in up to 16: an add does one
\* resize, two, or gives up.
Cuckoo == INSTANCE CuckooHash WITH
  Keys <- {1, 2, 3, 9, 17}, InitBits <- 1, Try <- 2,
  table_size <- kTable_size, setSize <- kSetSize, last <- kLast, dead <- kDead

coarse == <<lNodes, lLast>>
skip == <<sNext, topLevel, sLast, sDead>>
chain == <<cBucket, cTable_size, cSetSize, cLast, cDead>>
open == <<oBucket, oTable_size, oSetSize, oLast, oDead>>
cuckoo == <<table, kTable_size, kSetSize, kLast, kDead>>
tables == <<coarse, skip, chain, open, cuckoo>>
all == <<which, vars, tables>>

AllInit ==
  /\ which \in {"FineGrainedSynchroList", "CoarseGrainedSynchroList", "Skiplist", "Hash",
                "OpenAddressHash", "CuckooHash"}
  /\ Init /\ Coarse!Init /\ Skip!Init /\ Chained!Init /\ Open!Init /\ Cuckoo!Init

FineStep(t) == which = "FineGrainedSynchroList" /\ UNCHANGED <<which, tables>> /\ Step(t)

AllNext ==
  /\ UNCHANGED which
  /\ \/ which = "FineGrainedSynchroList" /\ UNCHANGED tables /\ Next
     \/ /\ which = "CoarseGrainedSynchroList"
        /\ UNCHANGED <<vars, skip, chain, open, cuckoo>>
        /\ Coarse!Next
     \/ /\ which = "Skiplist"
        /\ UNCHANGED <<vars, coarse, chain, open, cuckoo>>
        /\ Skip!Next
     \/ /\ which = "Hash"
        /\ UNCHANGED <<vars, coarse, skip, open, cuckoo>>
        /\ Chained!Next
     \/ /\ which = "OpenAddressHash"
        /\ UNCHANGED <<vars, coarse, skip, chain, cuckoo>>
        /\ Open!Next
     \/ /\ which = "CuckooHash"
        /\ UNCHANGED <<vars, coarse, skip, chain, open>>
        /\ Cuckoo!Next

\* The scheduler runs every thread.
AllSpec == AllInit /\ [][AllNext]_all /\ \A t \in Threads : WF_all(FineStep(t))

-----------------------------------------------------------------------------
(* The properties of the modules, stated there. *)

\* CoarseGrainedSynchroList.c: every answer of add, delete and find is that of a set.
CoarseIsSet == Coarse!IsSet

\* Skiplist.c: every answer is that of the set of keys of the bottom level.
SkipIsSet == Skip!IsSet

\* Skiplist.c: a node is linked on its levels and no other, in ascending order.
SkipLevelsNested == Skip!LevelsNested

\* Hash.c: every answer is that of a set, through any number of resizes.
ChainIsSet == Chained!IsSet

\* Hash.c: setSize is the number of nodes, and resize keeps up with it.
ChainSetSizeExact == Chained!SetSizeExact

\* OpenAddressHash.c: every answer is that of a bag, whatever marks and probes
\* have done to the table.
OpenIsBag == Open!IsBag

\* OpenAddressHash.c: setSize is the number of nodes, and a cell is always free.
OpenRoomLeft == Open!RoomLeft

\* CuckooHash.c: every answer is that of a set, through evictions and resizes.
CuckooIsSet == Cuckoo!IsSet

\* CuckooHash.c: setSize is the number of nodes, each where get_node looks.
CuckooInPlace == Cuckoo!InPlace
=============================================================================
