----------------------------- MODULE MCLockFree -----------------------------
(***************************************************************************)
(* The structures without locks, for TLC: the LL/SC queue, the lock-free   *)
(* skip list and the lock-free list.  Each is a program of its own, so     *)
(* `which' is chosen once.                                                 *)
(***************************************************************************)
EXTENDS LLSCLockFreeQueue, TLC

VARIABLES
  which,
  nkey, topLevel, tower, linked, dead, sPc, sOp, key, after,
  level, sPred, curr, succ, preds, succs, node, top, at, res, keys, saw,
  lNkey, lSucc, lBacklink, lLinked, lPc, lOp, lKey, lCurr, lNext, lRef,
  lFrames, lAfter, lRes, lClaims, lDone

skip == <<nkey, topLevel, tower, linked, dead, sPc, sOp, key, after,
          level, sPred, curr, succ, preds, succs, node, top, at, res, keys, saw>>

Skip == INSTANCE LockFreeSkiplist WITH
  Keys <- 1..2, min <- 0, max <- 3, maxLevel <- 2, MaxNodes <- 2,
  pc <- sPc, op <- sOp, pred <- sPred

list == <<lNkey, lSucc, lBacklink, lLinked, lPc, lOp, lKey, lCurr, lNext, lRef,
          lFrames, lAfter, lRes, lClaims, lDone>>

List == INSTANCE LockFreeList WITH
  Keys <- 1..2, MinKey <- 0, MaxKey <- 3, MaxNodes <- 2,
  nkey <- lNkey, succ <- lSucc, backlink <- lBacklink, linked <- lLinked,
  pc <- lPc, op <- lOp, key <- lKey, curr <- lCurr, next <- lNext, ref <- lRef,
  frames <- lFrames, after <- lAfter, res <- lRes, claims <- lClaims, done <- lDone

AllInit ==
  /\ which \in {"LLSCLockFreeQueue", "LockFreeSkiplist", "LockFreeList"}
  /\ Init /\ Skip!Init /\ List!Init

AllNext ==
  /\ UNCHANGED which
  /\ \/ which = "LLSCLockFreeQueue" /\ UNCHANGED <<skip, list>> /\ Next
     \/ which = "LockFreeSkiplist" /\ UNCHANGED <<vars, list>> /\ Skip!Next
     \/ which = "LockFreeList" /\ UNCHANGED <<vars, skip>> /\ List!Next

AllSpec == AllInit /\ [][AllNext]_<<which, vars, skip, list>>

\* The threads are interchangeable, and so are the values.
Symmetry == Permutations(Threads) \cup Permutations(Values)

\* LockFreeSkiplist.c: no level is out of order or has a cycle.
SkipLevelsSorted == Skip!LevelsSorted

\* LockFreeList.c: no node is lost, none is deleted twice, and one whose delete
\* has returned true is out of the list.
ListNodesAccounted == List!NodesAccounted

\* LockFreeList.c: links lead forward and backlinks back, and a marked node has one.
ListLinksLead == List!LinksLead
=============================================================================
