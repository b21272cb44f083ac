--------------------------- MODULE MCOptimistic ---------------------------
(***************************************************************************)
(* The structures that choose what to lock before they have a lock, for    *)
(* TLC: the lazy skip list, with a lock for every node, and the striped    *)
(* hash table, with a lock for every stripe.  Each is a program of its     *)
(* own, so `which' is chosen once.                                         *)
(***************************************************************************)
EXTENDS Naturals

CONSTANTS Threads, None

VARIABLES
  which,
  nkey, topLevel, next, marked, fullyLinked, mtx, allocated, pc, op, key,
  level, pred, preds, succs, lFound, top, node, res, saw,
  bucket, table_size, setSize, hMtx, lost, dead, hPc, hOp, hKey, ts, myBucket,
  retry, ret, i, count, hRes, found, calls, hSaw

skip == <<nkey, topLevel, next, marked, fullyLinked, mtx, allocated, pc, op, key,
          level, pred, preds, succs, lFound, top, node, res, saw>>
hash == <<bucket, table_size, setSize, hMtx, lost, dead, hPc, hOp, hKey, ts, myBucket,
          retry, ret, i, count, hRes, found, calls, hSaw>>
vars == <<which, skip, hash>>

Skip == INSTANCE LazySkiplist WITH
  Keys <- 1..2, min <- 0, max <- 3, maxLevel <- 2, MaxNodes <- 2

\* 0 and 2 share a bucket until the first resize, which the second add may start.
Hash == INSTANCE StripedHash WITH
  Keys <- 0..2, InitSize <- 2, Load <- 0, Retry <- 2, MaxCalls <- 3,
  mtx <- hMtx, pc <- hPc, op <- hOp, key <- hKey, res <- hRes, saw <- hSaw

Init == which \in {"LazySkiplist", "StripedHash"} /\ Skip!Init /\ Hash!Init

SkipStep(t) == which = "LazySkiplist" /\ UNCHANGED <<which, hash>> /\ Skip!Step(t)
HashStep(t) == which = "StripedHash" /\ UNCHANGED <<which, skip>> /\ Hash!Step(t)

Next ==
  \/ which = "LazySkiplist" /\ UNCHANGED <<which, hash>> /\ Skip!Next
  \/ which = "StripedHash" /\ UNCHANGED <<which, skip>> /\ Hash!Next

\* The scheduler runs every thread of the program.
Spec ==
  /\ Init /\ [][Next]_vars
  /\ \A t \in Threads : WF_vars(SkipStep(t)) /\ WF_vars(HashStep(t))

-----------------------------------------------------------------------------
(* The properties of the modules, stated there. *)

\* LazySkiplist.c: every level is sorted, and a node in the list is on all its levels.
SkipLevelsSorted == Skip!LevelsSorted

\* LazySkiplist.c: add, delete and find are linearizable.
SkipLinearizable == Skip!Linearizable

\* LazySkiplist.c: while a call is under way, some call returns.
SkipProgress == Skip!Progress

\* StripedHash.c: add and delete are linearizable, whatever resizes they meet, and
\* a find that returns true is right.
HashLinearizable == Hash!Linearizable

\* StripedHash.c: every call returns.
HashCallsReturn == Hash!CallsReturn
=============================================================================
