----------------------- MODULE LLSCLockFreeQueueProofs -----------------------
(***************************************************************************)
(* The theorems about LLSCLockFreeQueue: the invariant of                  *)
(* LLSCLockFreeQueueSteps holds at all times, and with it the properties   *)
(* of the LL/SC variables and of free; the queue implements the atomic one *)
(* of FIFOQueue.                                                           *)
(***************************************************************************)
EXTENDS LLSCLockFreeQueueSteps

-----------------------------------------------------------------------------
(* The cas of SC *)

\* The cas of SC succeeds only at the version that LL has read, and only once.
LEMMA SCOnce ==
  ASSUME IInv, NEW t \in Threads, pc[t] = "SC"
  PROVE  /\ SCsucceeds(t) => /\ entry[Loc(t)].ver = myver[t]
                             /\ ptr[Loc(t)][NONCUR(myver[t])] = At(myver[t])
         /\ ~ SCsucceeds(t) /\ entry[Loc(t)].ver = myver[t]
              => ptr[Loc(t)][NONCUR(myver[t])] = chain[myver[t] + 2]
<1> DEFINE x == Loc(t)
           v == entry[x].ver
           m == myver[t]
<1>0. /\ x \in Vars /\ View(t) /\ Adjacent(x) /\ v \in Nat /\ m \in Nat /\ Len(chain) \in Nat
  BY Numbers DEF IInv
<1>1. pc[t] \in LLDone
  BY DEF LLDone, SCLines
<1>2. pred[mynode[t]] = At(m)
  BY <1>1, Places
<1>3. m <= v /\ v + 1 <= Len(chain)
  BY <1>0, <1>1 DEF View, Adjacent
<1>4. SCsucceeds(t) => v = m
  <2> SUFFICES ASSUME SCsucceeds(t) PROVE v = m
    OBVIOUS
  <2>1. NONCUR(m) \in 1..2
    BY <1>0, Parity, Zenon
  <2>2. PICK j \in v..Len(chain) : ptr[x][NONCUR(m)] = At(j)
    BY <1>0, <2>1, PointersAhead
  <2>3. At(j) = At(m)
    BY <1>2, <2>2 DEF SCsucceeds
  <2>4. j \in 0..Len(chain) /\ m \in 0..Len(chain)
    BY <1>0, <1>3
  <2>5. j = m
    BY <2>3, <2>4, AtDistinct
  <2> QED BY <1>0, <1>3, <2>2, <2>5
<1>5. SCsucceeds(t) => ptr[x][NONCUR(m)] = At(m)
  BY <1>2 DEF SCsucceeds
<1>6. ~ SCsucceeds(t) /\ v = m => ptr[x][NONCUR(m)] = chain[m + 2]
  BY <1>0, <1>2 DEF SCsucceeds, Adjacent
<1> QED BY <1>4, <1>5, <1>6

LEMMA SCStep ==
  ASSUME IInv, NEW t \in Threads, SC(t)
  PROVE  /\ IInv'
         /\ ~ (SCsucceeds(t) /\ op[t] = "deq") => Dummy' = Dummy
         /\ SCsucceeds(t) /\ op[t] = "deq" => /\ DummyAt + 1 \in 1..Len(chain)
                                              /\ new[t] = chain[DummyAt + 1] /\ Dummy' = new[t]
<1> DEFINE x == Loc(t)
           v == entry[x].ver
           m == myver[t]
<1> USE DEF Goto, fields, call, history
<1>0. /\ TypeOK /\ x \in Vars /\ Control(t) /\ View(t) /\ Adjacent(x) /\ EmptySeen
      /\ v \in Nat /\ m \in Nat /\ Len(chain) \in Nat
  BY Numbers DEF IInv
<1>1. TypeOK' /\ OthersKeep(t)
  BY <1>0, TypeStep, OthersStep DEF Step
<1>2. /\ UNCHANGED <<entry, val, next, pred, allocated, chain, op, newNode, e, myver, mynode, new>>
      /\ pc[t] = "SC" /\ pc'[t] = "SCread" /\ Loc(t)' = x
  BY <1>0 DEF SC, TypeOK, Loc
<1>3. m + 2 <= Len(chain) /\ new[t] = chain[m + 2] /\ m <= v /\ mynode[t] = chain[m + 1]
  BY <1>0, <1>2 DEF View, LLDone, SCLines
<1>4. op[t] \in {"enq", "deq"} /\ (op[t] = "deq" => ~ done[t])
  BY <1>0, <1>2 DEF Control, TypeOK
<1>5. CASE ~ SCsucceeds(t)
  <2>1. UNCHANGED <<ptr, done, arg, sawEmpty>>
    BY <1>5 DEF SC
  <2>2. Quiet
    BY <1>2, <2>1 DEF Quiet
  <2>3. v = m => ptr[x][NONCUR(m)] = chain[m + 2]
    BY <1>2, <1>5, SCOnce
  <2>4. View(t)'
    BY <1>2, <1>3, <2>1, <2>3 DEF View, LLDone, SCLines
  <2>5. pc'[t] \in SCLines \ {"SC"}
    BY <1>2 DEF SCLines
  <2> QED BY <1>1, <1>2, <1>5, <2>1, <2>2, <2>4, <2>5, QuietInside, QuietDummy
<1>6. CASE SCsucceeds(t)
  <2>1. v = m /\ ptr[x][NONCUR(v)] = At(v)
    BY <1>2, <1>6, SCOnce
  <2>2. NONCUR(v) \in 1..2 /\ 1 + (v % 2) \in 1..2 /\ NONCUR(v) # 1 + (v % 2)
    BY <1>0, Parity, Zenon
  <2>3. /\ ptr'[x][NONCUR(v)] = chain[v + 2] /\ ptr'[x][1 + (v % 2)] = ptr[x][1 + (v % 2)]
        /\ \A y \in Vars \ {x} : ptr'[y] = ptr[y]
    BY <1>0, <1>3, <1>6, <2>1, <2>2, Zenon DEF SC, TypeOK
  <2>4. \A y \in Vars : Adjacent(y)'
    <3>1. Adjacent(x)'
      BY <1>0, <1>2, <1>3, <2>1, <2>3 DEF Adjacent, CURRENT, At
    <3>2. \A y \in Vars \ {x} : Adjacent(y)'
      BY <1>2, <2>3, Zenon DEF IInv, Adjacent, CURRENT, At
    <3> QED BY <1>2, <3>1, <3>2
  <2>5. View(t)'
    BY <1>2, <1>3, <2>1, <2>3 DEF View, LLDone, SCLines
  <2>6. \A y \in Vars : entry[y].ver \in Nat /\ entry[y].ver <= entry'[y].ver
    <3>1. \A y \in Vars : entry[y].ver \in Nat
      BY <1>0, Numbers
    <3> QED BY <1>2, <3>1
  <2>7. \A y \in Vars : \/ ptr'[y] = ptr[y]
                        \/ ptr[y][NONCUR(entry[y].ver)] = At(entry[y].ver) /\ entry[y].ver + 2 <= Len(chain)
    BY <1>3, <2>1, <2>3
  <2>8. CASE op[t] = "enq"
    <3>1. x = "tail" /\ UNCHANGED <<done, arg, sawEmpty>>
      BY <2>8 DEF SC, Loc
    <3>2. ptr'["head"] = ptr["head"]
      BY <2>3, <3>1 DEF Vars
    <3>3. Dummy' = Dummy
      BY <1>2, <3>2 DEF Dummy, CURRENT
    <3>4. Control(t)'
      BY <1>0, <1>2, <2>8, <3>1, Zenon DEF Control, SCLines
    <3>5. EmptySeen'
      <4>1. Empty' <=> Empty
        BY <1>2, <3>3 DEF Empty
      <4>2. \A u \in Threads : pc'[u] \in {"unlink", "unlinkCas"} => pc[u] = pc'[u]
        BY <1>1, <1>2 DEF OthersKeep
      <4> QED BY <1>0, <1>2, <3>1, <4>1, <4>2 DEF EmptySeen
    <3>6. Owns(t)' => Owns(t) /\ newNode'[t] = newNode[t] /\ arg'[t] = arg[t]
      BY <1>2, <3>1, Zenon DEF Owns
    <3>7. IInv'
      BY <1>1, <1>2, <2>4, <2>5, <2>6, <2>7, <3>4, <3>5, <3>6, SCActive, Zenon
    <3> QED BY <2>8, <3>3, <3>7
  <2>9. CASE op[t] = "deq"
    <3>1. /\ x = "head" /\ done' = [done EXCEPT ![t] = TRUE]
          /\ sawEmpty' = IF next[new[t]] = NULL THEN {u \in Threads : op[u] = "deq" /\ ~ done'[u]}
                                               ELSE sawEmpty \ {t}
      BY <1>6, <2>9 DEF SC, Loc
    <3>2. DummyAt = v + 1
      BY <2>1, <3>1 DEF DummyAt
    <3>3. DummyAt + 1 = m + 2 /\ DummyAt + 1 \in 1..Len(chain)
      BY <1>0, <1>3, <2>1, <3>2
    <3>4. Dummy' = new[t]
      <4>1. v + 1 \in 1..Len(chain) /\ (v + 1) - 1 = v
        <5>1. v \in Nat /\ Len(chain) \in Nat /\ v + 2 <= Len(chain)
          BY <1>0, <1>3, <2>1, Zenon
        <5> HIDE DEF v
        <5> QED BY <5>1
      <4>2. pred[chain[v + 1]] = At(v)
        BY <4>1, Zenon DEF IInv, OneList
      <4>3. At(v + 2) = chain[v + 2] /\ v + 2 \in 0..Len(chain) /\ v \in 0..Len(chain) /\ v + 2 # v
        BY <1>0, <1>3, <2>1 DEF At
      <4>4. chain[v + 2] # At(v)
        BY <4>3, AtDistinct, Zenon
      <4>5. CURRENT("head", entry["head"].ver)' = chain[v + 1]
        BY <1>0, <1>2, <2>3, <3>1, Zenon DEF CURRENT, Adjacent
      <4>6. ptr'["head"][NONCUR(entry'["head"].ver)] = chain[v + 2]
        BY <1>2, <2>3, <3>1
      <4> QED BY <1>2, <1>3, <2>1, <4>2, <4>4, <4>5, <4>6 DEF Dummy
    <3>5. done'[t] = TRUE /\ \A u \in Threads \ {t} : done'[u] = done[u]
      BY <1>0, <3>1, Zenon DEF TypeOK
    <3>6. Control(t)'
      BY <1>0, <1>2, <2>9, <3>5 DEF Control, SCLines
    <3>7. EmptySeen'
      <4>1. Empty' <=> next[new[t]] = NULL
        BY <1>2, <3>4 DEF Empty
      <4>2. \A u \in Threads : pc'[u] \in {"unlink", "unlinkCas"} => u # t /\ pc[u] = pc'[u] /\ done'[u] = done[u]
        BY <1>1, <1>2 DEF OthersKeep
      <4>3. \A u \in Threads : pc[u] \in {"unlink", "unlinkCas"} => op[u] = "deq" /\ ~ done[u] /\ u \in sawEmpty
        BY <1>0 DEF IInv, Control, EmptySeen, SCLines
      <4> QED BY <1>2, <3>1, <3>5, <4>1, <4>2, <4>3, Zenon DEF EmptySeen
    <3>8. ~ Owns(t)'
      BY <1>2, <2>9, Zenon DEF Owns
    <3>9. IInv'
      BY <1>1, <1>2, <2>4, <2>5, <2>6, <2>7, <3>6, <3>7, <3>8, SCActive
    <3> QED BY <1>3, <1>6, <2>9, <3>3, <3>4, <3>9
  <2> QED BY <1>4, <2>8, <2>9
<1> QED BY <1>5, <1>6

-----------------------------------------------------------------------------
(* The cas of enq that links a node *)

LEMMA Appended ==
  ASSUME NEW S, NEW c \in Seq(S), NEW x \in S
  PROVE  /\ Len(Append(c, x)) = Len(c) + 1 /\ Append(c, x)[Len(c) + 1] = x
         /\ \A i \in 1..Len(c) : Append(c, x)[i] = c[i]
BY AppendProperties

LEMMA LinkFacts ==
  ASSUME IInv, NEW t \in Threads, EnqLink(t)
  PROVE  /\ UNCHANGED <<ptr, entry, val, allocated, op, arg, newNode, e, myver, mynode, sawEmpty>>
         /\ pc[t] = "link" /\ pc'[t] = "SC" /\ op[t] = "enq" /\ ~ done[t]
         /\ newNode[t] \in Nodes /\ newNode[t] \in 3..allocated /\ next[newNode[t]] = NULL
         /\ val[newNode[t]] = arg[t]
         /\ \A i \in 1..Len(chain) : chain[i] # newNode[t]
         /\ \A u \in Threads \ {t} : Owns(u) => newNode[u] # newNode[t]
         /\ pred'[newNode[t]] = mynode[t] /\ \A k \in Nodes \ {newNode[t]} : pred'[k] = pred[k]
         /\ new'[t] = next'[mynode[t]] /\ done'[t] = (next[mynode[t]] = NULL)
         /\ \A u \in Threads \ {t} : done'[u] = done[u]
<1> USE DEF Goto, call, history, fields
<1>0. TypeOK /\ Control(t) /\ Owned(t)
  BY Zenon DEF IInv
<1>1. /\ UNCHANGED <<ptr, entry, val, allocated, op, arg, newNode, e, myver, mynode, sawEmpty>>
      /\ pc[t] = "link"
  BY Zenon DEF EnqLink
<1>2. pc'[t] = "SC" /\ new'[t] = next'[mynode[t]]
  BY <1>0 DEF EnqLink, TypeOK
<1>3. done'[t] = (next[mynode[t]] = NULL) /\ \A u \in Threads \ {t} : done'[u] = done[u]
  <2>1. done \in [Threads -> BOOLEAN] /\ done' = [done EXCEPT ![t] = (next[mynode[t]] = NULL)]
    BY <1>0 DEF EnqLink, TypeOK
  <2> QED BY <2>1, Zenon
<1>4. op[t] = "enq" /\ ~ done[t]
  BY <1>0, <1>1 DEF Control, SCLines
<1>5. Owns(t)
  BY <1>1, <1>4 DEF Owns
<1>6. /\ newNode[t] \in 3..allocated /\ next[newNode[t]] = NULL /\ val[newNode[t]] = arg[t]
      /\ \A i \in 1..Len(chain) : chain[i] # newNode[t]
      /\ \A u \in Threads \ {t} : Owns(u) => newNode[u] # newNode[t]
  BY <1>0, <1>5 DEF Owned
<1>7. newNode[t] \in Nodes
  BY <1>0, <1>6, LLSCAssumption DEF TypeOK, Nodes
<1>8. pred'[newNode[t]] = mynode[t] /\ \A k \in Nodes \ {newNode[t]} : pred'[k] = pred[k]
  <2>1. pred \in [Nodes -> Nodes \cup {NULL}] /\ pred' = [pred EXCEPT ![newNode[t]] = mynode[t]]
    BY <1>0, Zenon DEF EnqLink, TypeOK
  <2> QED BY <1>7, <2>1, Zenon
<1> QED BY <1>1, <1>2, <1>3, <1>4, <1>6, <1>7, <1>8, Zenon

\* Neither the cas nor the store to nd->pred moves the dummy.
LEMMA LinkDummy ==
  ASSUME IInv, NEW t \in Threads, EnqLink(t)
  PROVE  Dummy' = Dummy
<1> DEFINE v == entry["head"].ver
<1>1. v \in Nat /\ Len(chain) \in Nat /\ "head" \in Vars
  BY Numbers, Zenon DEF IInv, Vars
<1>2. v + 1 <= Len(chain) /\ CURRENT("head", v) = chain[v + 1]
  BY <1>1 DEF IInv, Adjacent
<1>3. v + 1 \in 1..Len(chain)
  BY <1>1, <1>2
<1>4. chain[v + 1] \in Nodes \ {newNode[t]}
  BY <1>3, LinkFacts, Numbers, Zenon DEF IInv
<1>5. pred'[chain[v + 1]] = pred[chain[v + 1]] /\ UNCHANGED <<ptr, entry>>
  BY <1>4, LinkFacts, Zenon
<1> QED BY <1>2, <1>5, Zenon DEF Dummy, CURRENT

\* Another enq was first: only nd->pred has changed.
LEMMA LinkFails ==
  ASSUME IInv, NEW t \in Threads, EnqLink(t), next[mynode[t]] # NULL
  PROVE  IInv' /\ UNCHANGED <<chain, done>>
<1> DEFINE m == myver[t]
<1>0. TypeOK /\ Control(t) /\ View(t) /\ OneList /\ EmptySeen /\ Owned(t)
  BY DEF IInv
<1>1. TypeOK' /\ OthersKeep(t)
  BY <1>0, TypeStep, OthersStep, Zenon DEF Step
<1>2. /\ UNCHANGED <<ptr, entry, val, allocated, op, arg, newNode, e, myver, mynode, sawEmpty>>
      /\ pc[t] = "link" /\ pc'[t] = "SC" /\ op[t] = "enq" /\ ~ done[t]
      /\ \A i \in 1..Len(chain) : chain[i] # newNode[t]
      /\ \A k \in Nodes \ {newNode[t]} : pred'[k] = pred[k]
      /\ new'[t] = next'[mynode[t]] /\ Loc(t)' = Loc(t)
  BY LinkFacts, Zenon DEF Loc
<1>3. UNCHANGED <<chain, next, done>>
  <2>1. UNCHANGED <<chain, next>> /\ done \in [Threads -> BOOLEAN] /\ done' = [done EXCEPT ![t] = FALSE]
    BY <1>0, Zenon DEF EnqLink, TypeOK
  <2>2. done[t] = FALSE
    BY <1>2, <2>1, Zenon
  <2> QED BY <2>1, <2>2
<1>4. pc[t] \in LLDone
  BY <1>2 DEF LLDone
<1>5. /\ m + 2 \in 1..Len(chain) /\ next[mynode[t]] = chain[m + 2] /\ Len(chain) \in Nat
  BY <1>0, <1>4, Places, Numbers
<1>6. View(t)'
  <2>1. m <= entry[Loc(t)].ver /\ mynode[t] = chain[m + 1]
    BY <1>0, <1>4, Zenon DEF View
  <2>2. m + 2 <= Len(chain)
    BY <1>5
  <2> QED BY <1>2, <1>3, <1>5, <2>1, <2>2, Zenon DEF View
<1>7. OneList'
  <2>1. \A i \in 1..Len(chain) : chain[i] \in Nodes \ {newNode[t]}
    BY <1>0, <1>2, Numbers, Zenon
  <2>2. \A i \in 1..Len(chain) : pred'[chain[i]] = pred[chain[i]]
    BY <1>2, <2>1, Zenon
  <2>3. UNCHANGED <<chain, next, allocated>>
    BY <1>2, <1>3, Zenon
  <2>4. /\ \A i \in 1..Len(chain) : chain[i] <= allocated
        /\ \A n \in Nodes : allocated < n => next[n] = NULL
    BY <1>0, Zenon DEF OneList
  <2> QED BY <1>0, <2>2, <2>3, <2>4, ListKept, Zenon
<1>8. \A x \in Vars : Adjacent(x)'
  <2>1. UNCHANGED <<ptr, entry, chain>> /\ \A x \in Vars : Adjacent(x)
    BY <1>2, <1>3, Zenon DEF IInv
  <2> QED BY <2>1, AdjacentKept, Zenon
<1>9. EmptySeen'
  <2>1. Empty' <=> Empty
    BY <1>3, LinkDummy, Zenon DEF Empty
  <2>2. \A u \in Threads : pc'[u] \in {"unlink", "unlinkCas"} => pc[u] = pc'[u]
    BY <1>1, <1>2, Zenon DEF OthersKeep
  <2> QED BY <1>0, <1>2, <1>3, <2>1, <2>2 DEF EmptySeen
<1>10. \A u \in Threads \ {t} : View(u)'
  <2>1. \A x \in Vars : entry'[x].ver \in Nat /\ entry[x].ver <= entry'[x].ver /\ ptr'[x] = ptr[x]
    BY <1>0, <1>2, Numbers
  <2>2. chain' = chain /\ Len(chain) \in Nat /\ Len(chain) <= Len(chain)
    BY <1>0, <1>3, Numbers, Zenon
  <2> QED BY <1>1, <2>1, <2>2, OtherViews, Zenon
<1>11. Control(t)' /\ \A u \in Threads \ {t} : Control(u)'
  <2>1. Control(t)'
    <3>1. pc'[t] = "SC" /\ op'[t] = "enq" /\ ~ done'[t] /\ arg'[t] = arg[t]
      BY <1>2, <1>3, Zenon
    <3>2. arg[t] \in Values
      BY <1>0, <1>2, Zenon DEF Control
    <3> QED BY <3>1, <3>2 DEF Control
  <2> QED BY <1>0, <1>1, <2>1, OthersControl, Zenon
<1>12. \A u \in Threads : Owned(u)'
  <2>1. \A u \in Threads : Owns(u)' <=> Owns(u)
    BY <1>1, <1>2, <1>3, OthersControl, Zenon DEF Owns
  <2> QED BY <1>2, <1>3, <2>1, OwnedKept, Zenon
<1> QED BY <1>1, <1>3, <1>6, <1>7, <1>8, <1>9, <1>10, <1>11, <1>12, Zenon DEF IInv

\* The node is linked behind the last.
LEMMA LinkSucceeds ==
  ASSUME IInv, NEW t \in Threads, EnqLink(t), next[mynode[t]] = NULL
  PROVE  IInv' /\ chain' = Append(chain, newNode[t])
<1> DEFINE m == myver[t]
           nd == newNode[t]
           L == Len(chain)
<1>0. /\ TypeOK /\ Control(t) /\ View(t) /\ OneList /\ EmptySeen
      /\ L \in Nat /\ m \in Nat /\ 1 <= L
  BY Numbers, Zenon DEF IInv, OneList
<1>1. TypeOK' /\ OthersKeep(t)
  BY <1>0, TypeStep, OthersStep, Zenon DEF Step
<1>2. /\ UNCHANGED <<ptr, entry, val, allocated, op, arg, newNode, e, myver, mynode, sawEmpty>>
      /\ pc[t] = "link" /\ pc'[t] = "SC" /\ op[t] = "enq" /\ done'[t] = TRUE
      /\ nd \in Nodes /\ nd \in 3..allocated /\ next[nd] = NULL
      /\ \A i \in 1..L : chain[i] # nd
      /\ pred'[nd] = mynode[t] /\ \A k \in Nodes \ {nd} : pred'[k] = pred[k]
      /\ new'[t] = next'[mynode[t]] /\ Loc(t)' = Loc(t)
      /\ \A u \in Threads \ {t} : done'[u] = done[u]
  BY LinkFacts, Zenon DEF Loc
<1>3. pc[t] \in LLDone
  BY <1>2, Zenon DEF LLDone
<1>4. m + 1 = L /\ mynode[t] = chain[L] /\ L \in 1..L
  BY <1>0, <1>3, Places, Zenon
<1>5. chain' = Append(chain, nd)
  BY Zenon DEF EnqLink
<1>6. Len(chain') = L + 1 /\ chain'[L + 1] = nd /\ \A i \in 1..L : chain'[i] = chain[i]
  <2>1. chain \in Seq(Nodes)
    BY <1>0, Zenon DEF TypeOK
  <2>2. nd \in Nodes
    BY <1>2, Zenon
  <2>3. /\ Len(Append(chain, nd)) = L + 1 /\ Append(chain, nd)[L + 1] = nd
        /\ \A i \in 1..L : Append(chain, nd)[i] = chain[i]
    <3> HIDE DEF nd
    <3> QED BY <2>1, <2>2, Appended
  <2> QED BY <1>5, <2>3, Zenon
<1>7. \A i \in 1..L : chain[i] \in Nodes \ {nd}
  BY <1>0, <1>2, Numbers, Zenon
<1>8. next'[chain[L]] = nd /\ \A k \in Nodes \ {chain[L]} : next'[k] = next[k]
  <2>1. next \in [Nodes -> Nodes \cup {NULL}] /\ next' = [next EXCEPT ![chain[L]] = nd] /\ chain[L] \in Nodes
    BY <1>0, <1>4, <1>7, Zenon DEF EnqLink, TypeOK
  <2> QED BY <2>1, Zenon
<1>9. OneList'
  <2>1. Len(chain') >= 1 /\ chain'[1] = 1
    BY <1>0, <1>6 DEF OneList
  <2>2. ASSUME NEW i \in 1..L
        PROVE  /\ chain'[i] # 2 /\ chain'[i] <= allocated' /\ pred'[chain'[i]] = At(i - 1)'
               /\ next'[chain'[i]] = chain'[i + 1] /\ i # Len(chain')
    <3>1. /\ chain[i] # 2 /\ chain[i] <= allocated /\ pred[chain[i]] = At(i - 1)
          /\ next[chain[i]] = IF i = L THEN NULL ELSE chain[i + 1]
      BY <1>0, Zenon DEF OneList
    <3>2. At(i - 1)' = At(i - 1)
      <4>1. i - 1 = 0 \/ i - 1 \in 1..L
        <5> HIDE DEF L
        <5> QED BY <1>0
      <4> QED BY <1>6, <4>1, Zenon DEF At
    <3>3. pred'[chain[i]] = pred[chain[i]] /\ chain'[i] = chain[i] /\ allocated' = allocated
      BY <1>2, <1>6, <1>7, Zenon
    <3>4. next'[chain[i]] = chain'[i + 1]
      <4>1. CASE i = L
        BY <1>6, <1>8, <4>1, Zenon
      <4>2. CASE i # L
        <5>1. i + 1 \in 1..L /\ chain[i] # chain[L]
          <6>1. i + 1 \in 1..L
            <7> HIDE DEF L
            <7> QED BY <1>0, <4>2
          <6>2. chain[i] # chain[L]
            BY <1>0, <1>4, <4>2 DEF OneList
          <6> QED BY <6>1, <6>2
        <5> QED BY <1>6, <1>7, <1>8, <3>1, <4>2, <5>1, Zenon
      <4> QED BY <4>1, <4>2
    <3>5. i # L + 1
      BY <1>0
    <3> QED BY <1>6, <3>1, <3>2, <3>3, <3>4, <3>5, Zenon
  <2>3. /\ nd # 2 /\ nd <= allocated' /\ pred'[nd] = chain[L] /\ next'[nd] = NULL
    <3>1. nd # 2 /\ nd <= allocated
      BY <1>0, <1>2 DEF TypeOK
    <3>2. nd # chain[L]
      BY <1>2, <1>4, Zenon
    <3> QED BY <1>2, <1>4, <1>8, <3>1, <3>2
  <2>4. \A i \in 1..Len(chain') : /\ chain'[i] # 2 /\ chain'[i] <= allocated'
                                  /\ pred'[chain'[i]] = At(i - 1)'
                                  /\ next'[chain'[i]] = IF i = Len(chain') THEN NULL ELSE chain'[i + 1]
    <3> SUFFICES ASSUME NEW i \in 1..(L + 1)
                 PROVE  /\ chain'[i] # 2 /\ chain'[i] <= allocated'
                        /\ pred'[chain'[i]] = At(i - 1)'
                        /\ next'[chain'[i]] = IF i = Len(chain') THEN NULL ELSE chain'[i + 1]
      BY <1>6, Zenon
    <3>1. i \in 1..L \/ i = L + 1
      <4> HIDE DEF L
      <4> QED BY <1>0
    <3>2. CASE i \in 1..L
      BY <2>2, <3>2, Zenon
    <3>3. CASE i = L + 1
      <4>1. i - 1 = L /\ L # 0
        BY <1>0, <3>3
      <4>2. At(i - 1)' = chain[L]
        BY <1>4, <1>6, <4>1, Zenon DEF At
      <4> QED BY <1>6, <2>3, <3>3, <4>2
    <3> QED BY <3>1, <3>2, <3>3, Zenon
  <2>5. \A i, j \in 1..Len(chain') : chain'[i] = chain'[j] => i = j
    <3> SUFFICES ASSUME NEW i \in 1..(L + 1), NEW j \in 1..(L + 1), chain'[i] = chain'[j]
                 PROVE  i = j
      BY <1>6
    <3>1. (i \in 1..L \/ i = L + 1) /\ (j \in 1..L \/ j = L + 1)
      BY <1>0
    <3>2. CASE i \in 1..L /\ j \in 1..L
      BY <1>0, <1>6, <3>2 DEF OneList
    <3>3. CASE i = L + 1 \/ j = L + 1
      BY <1>2, <1>6, <3>1, <3>3
    <3> QED BY <3>1, <3>2, <3>3, Zenon
  <2>6. \A n \in Nodes : allocated' < n => next'[n] = NULL
    <3> SUFFICES ASSUME NEW n \in Nodes, allocated < n PROVE next'[n] = NULL
      BY <1>2, Zenon
    <3>1. next[n] = NULL /\ chain[L] <= allocated
      BY <1>0, <1>4, Zenon DEF OneList
    <3>2. n # chain[L]
      <4>1. n \in Nat /\ allocated \in Nat /\ chain[L] \in Nat
        <5>1. chain[L] \in Nodes
          BY <1>4, <1>7, Zenon
        <5>2. Nodes \subseteq Nat /\ allocated \in Nat
          BY <1>0, NodeNumbers, Zenon
        <5> QED BY <5>1, <5>2, Zenon
      <4> QED BY <3>1, <4>1, Below, Zenon
    <3> QED BY <1>8, <3>1, <3>2, Zenon
  <2> QED BY <2>1, <2>4, <2>5, <2>6, Zenon DEF OneList
<1>10. \A x \in Vars : Adjacent(x)'
  <2> SUFFICES ASSUME NEW x \in Vars PROVE Adjacent(x)'
    OBVIOUS
  <2> DEFINE v == entry[x].ver
  <2>1. Adjacent(x) /\ v \in Nat /\ UNCHANGED <<ptr, entry>>
    BY <1>0, <1>2, Numbers, Zenon DEF IInv
  <2>2. /\ v + 1 <= L /\ CURRENT(x, v) = chain[v + 1]
        /\ ptr[x][NONCUR(v)] = At(v) \/ (v + 2 <= L /\ ptr[x][NONCUR(v)] = chain[v + 2])
    BY <2>1, Zenon DEF Adjacent
  <2>3. v + 1 <= L + 1 /\ v + 1 \in 1..L /\ (v = 0 \/ v \in 1..L)
    BY <1>0, <2>1, <2>2
  <2>4. v + 2 <= L => v + 2 <= L + 1 /\ v + 2 \in 1..L
    BY <1>0, <2>1
  <2>5. At(v)' = At(v)
    BY <1>6, <2>1, <2>3, Zenon DEF At
  <2> QED BY <1>6, <2>1, <2>2, <2>3, <2>4, <2>5 DEF Adjacent, CURRENT
<1>11. View(t)'
  <2>1. m <= entry[Loc(t)].ver /\ m + 1 \in 1..L /\ m + 2 = L + 1 /\ L + 1 <= L + 1
    <3>1. m <= entry[Loc(t)].ver
      BY <1>0, <1>3, Zenon DEF View
    <3> QED BY <1>0, <1>4, <3>1, LastTwo, Zenon
  <2>2. mynode[t] = chain'[m + 1] /\ new'[t] = chain'[m + 2] /\ m + 2 <= Len(chain')
    <3>1. chain'[m + 1] = chain[L] /\ chain'[m + 2] = nd /\ Len(chain') = m + 2 /\ L + 1 = m + 2
      BY <1>4, <1>6, <2>1, Zenon
    <3>2. new'[t] = nd
      BY <1>2, <1>4, <1>8, Zenon
    <3> QED BY <1>4, <2>1, <3>1, <3>2, Zenon
  <2>3. /\ entry'[Loc(t)'] = entry[Loc(t)] /\ myver'[t] = m /\ mynode'[t] = mynode[t] /\ pc'[t] = "SC"
    BY <1>2, Zenon
  <2> QED BY <2>1, <2>2, <2>3, Zenon DEF View
<1>12. EmptySeen'
  <2>1. Dummy' = Dummy /\ Dummy \in Nodes /\ nd # NULL
    <3>1. Dummy' = Dummy /\ Dummy \in Nodes
      BY <1>7, LinkDummy, DummyPlace, Zenon
    <3>2. nd # NULL
      BY <1>0, <1>2, Numbers, Zenon
    <3> QED BY <3>1, <3>2, Zenon
  <2>2. Empty' => Empty
    BY <1>8, <2>1 DEF Empty
  <2>3. \A u \in Threads : pc'[u] \in {"unlink", "unlinkCas"} => pc[u] = pc'[u]
    BY <1>1, <1>2, Zenon DEF OthersKeep
  <2> QED BY <1>0, <1>2, <2>2, <2>3 DEF EmptySeen
<1>13. \A u \in Threads \ {t} : View(u)'
  <2>1. \A x \in Vars : entry'[x].ver \in Nat /\ entry[x].ver <= entry'[x].ver /\ ptr'[x] = ptr[x]
    BY <1>0, <1>2, Numbers
  <2>2. Len(chain') \in Nat /\ L <= Len(chain')
    BY <1>0, <1>6
  <2> QED BY <1>1, <1>6, <2>1, <2>2, OtherViews, Zenon
<1>14. Control(t)' /\ \A u \in Threads \ {t} : Control(u)'
  <2>1. Control(t)'
    <3>1. pc'[t] = "SC" /\ op'[t] = "enq" /\ arg'[t] = arg[t]
      BY <1>2, Zenon
    <3>2. arg[t] \in Values
      BY <1>0, <1>2, Zenon DEF Control
    <3> QED BY <3>1, <3>2 DEF Control, SCLines
  <2> QED BY <1>0, <1>1, <2>1, OthersControl, Zenon
<1>15. \A u \in Threads : Owned(u)'
  <2>1. ~ Owns(t)' /\ \A u \in Threads \ {t} : Owns(u)' <=> Owns(u)
    BY <1>1, <1>2, OthersControl, Zenon DEF Owns
  <2>2. ASSUME NEW u \in Threads \ {t}, Owns(u) PROVE Owned(u)'
    <3>1. /\ newNode[u] \in 3..allocated /\ next[newNode[u]] = NULL /\ val[newNode[u]] = arg[u]
          /\ \A i \in 1..L : chain[i] # newNode[u]
          /\ \A w \in Threads : w # u /\ Owns(w) => newNode[w] # newNode[u]
      BY <2>2, Zenon DEF IInv, Owned
    <3>2. newNode[u] # nd /\ newNode[u] \in Nodes /\ newNode[u] # chain[L]
      <4>1. newNode[u] # nd
        BY <2>2, LinkFacts
      <4>2. newNode[u] \in Nodes
        BY <1>0, <3>1, NodeNumbers, Zenon
      <4> QED BY <1>4, <3>1, <4>1, <4>2, Zenon
    <3>3. \A i \in 1..Len(chain') : chain'[i] # newNode[u]
      <4>1. \A i \in 1..(L + 1) : i \in 1..L \/ i = L + 1
        BY <1>0
      <4> QED BY <1>6, <3>1, <3>2, <4>1, Zenon
    <3>4. next'[newNode[u]] = NULL
      BY <1>8, <3>1, <3>2, Zenon
    <3>5. \A w \in Threads : w # u /\ Owns(w)' => newNode[w] # newNode[u]
      BY <2>1, <3>1, Zenon
    <3> QED BY <1>2, <3>1, <3>3, <3>4, <3>5, Zenon DEF Owned
  <2> QED BY <2>1, <2>2, Zenon DEF Owned
<1> QED BY <1>1, <1>5, <1>9, <1>10, <1>11, <1>12, <1>13, <1>14, <1>15, Zenon DEF IInv

LEMMA EnqLinkStep ==
  ASSUME IInv, NEW t \in Threads, EnqLink(t)
  PROVE  IInv'
BY LinkFails, LinkSucceeds, Zenon

-----------------------------------------------------------------------------
(* The invariant holds at all times *)

LEMMA InitInvariant ==
  ASSUME Init
  PROVE  IInv
<1> USE DEF Init, init_queue
<1>1. MaxNodes \in Nat /\ 2 <= MaxNodes /\ 1 \in Nodes /\ 2 \in Nodes /\ Nodes \subseteq Nat /\ NULL \notin Nodes
  BY LLSCAssumption DEF Nodes, NULL
<1>2. chain = <<1>> /\ chain \in Seq(Nodes) /\ Len(chain) = 1 /\ chain[1] = 1
  <2> HIDE DEF Nodes
  <2> QED BY <1>1
<1>3. TypeOK
  <2>1. NoEntry \in Entries
    BY DEF NoEntry, Entries
  <2>2. NewExit(0) \in Exits /\ NewExit(2) \in Exits
    BY DEF NewExit, Exits
  <2>3. ptr \in [Vars -> [1..2 -> Nodes]]
    <3>1. <<1, 2>> \in [1..2 -> Nodes]
      BY <1>1
    <3> QED BY <3>1, Zenon
  <2>4. exit \in [Nodes -> Exits]
    <3>1. \A n \in Nodes : NewExit(IF n = 1 THEN 2 ELSE 0) \in Exits
      BY <2>2
    <3> QED BY <3>1, Zenon
  <2>5. entry \in [Vars -> Entries] /\ e \in [Threads -> Entries]
    BY <2>1, Zenon
  <2>6. /\ val \in [Nodes -> Content] /\ next \in [Nodes -> Nodes \cup {NULL}]
        /\ pred \in [Nodes -> Nodes \cup {NULL}]
    BY <1>1, Zenon DEF Content
  <2>7. allocated \in 2..MaxNodes
    BY <1>1
  <2>8. /\ pc \in [Threads -> Lines] /\ op \in [Threads -> {"idle", "enq", "deq"}]
        /\ arg \in [Threads -> Content] /\ newNode \in [Threads -> Nodes \cup {NULL}]
        /\ myver \in [Threads -> Nat] /\ mynode \in [Threads -> Nodes \cup {NULL}]
        /\ new \in [Threads -> Nodes \cup {NULL}] /\ done \in [Threads -> BOOLEAN]
    BY DEF Lines, Content
  <2>9. freed = {} /\ sawEmpty \subseteq Threads
    BY Zenon
  <2> HIDE DEF Init, init_queue
  <2> QED BY <1>2, <2>3, <2>4, <2>5, <2>6, <2>7, <2>8, <2>9 DEF TypeOK
<1>4. OneList
  <2>1. \A i \in 1..Len(chain) : i = 1 /\ At(i - 1) = 2
    BY <1>2 DEF At
  <2>2. pred[1] = 2 /\ next[1] = NULL /\ 1 <= allocated /\ \A n \in Nodes : next[n] = NULL
    BY <1>1
  <2> QED BY <1>2, <2>1, <2>2 DEF OneList
<1>5. \A x \in Vars : Adjacent(x)
  <2> SUFFICES ASSUME NEW x \in Vars PROVE Adjacent(x)
    BY Zenon
  <2>1. entry[x].ver = 0 /\ ptr[x][1] = 1 /\ ptr[x][2] = 2
    BY Zenon DEF NoEntry
  <2>2. NONCUR(0) = 2 /\ CURRENT(x, 0) = 1 /\ At(0) = 2
    BY <2>1 DEF NONCUR, CURRENT, At
  <2> QED BY <1>2, <2>1, <2>2 DEF Adjacent
<1>6. EmptySeen
  BY DEF EmptySeen
<1>7. \A t \in Threads : Owned(t) /\ View(t) /\ Control(t)
  BY Zenon DEF Owned, Owns, View, Control, LLDone, SCLines
<1> QED BY <1>3, <1>4, <1>5, <1>6, <1>7, Zenon DEF IInv

LEMMA NextInvariant ==
  ASSUME IInv, [Next]_vars
  PROVE  IInv'
<1>1. CASE UNCHANGED vars
  <2>1. UNCHANGED <<ptr, entry, val, next, pred, exit, allocated, freed, pc, op, arg, newNode,
                    e, myver, mynode, new, done, chain, sawEmpty>>
    BY <1>1, Zenon DEF vars, fields, call, history
  <2>2. TypeOK' /\ OneList'
    BY <2>1 DEF IInv, TypeOK, OneList, At
  <2>3. EmptySeen' /\ \A x \in Vars : Adjacent(x)'
    BY <2>1, Zenon DEF IInv, EmptySeen, Empty, Dummy, CURRENT, Adjacent, At
  <2>4. \A t \in Threads : Owned(t)'
    BY <2>1, Zenon DEF IInv, Owned, Owns
  <2>5. \A t \in Threads : View(t)'
    BY <2>1, Zenon DEF IInv, View, Loc
  <2>6. \A t \in Threads : Control(t)'
    BY <2>1, Zenon DEF IInv, Control
  <2> QED BY <2>2, <2>3, <2>4, <2>5, <2>6, Zenon DEF IInv
<1>2. ASSUME NEW t \in Threads, Step(t) PROVE IInv'
  BY <1>2, LLSteps, SCStep, SCQuietSteps, SCBumpStep, ReturnSteps, CreateNodeStep, EnqLinkStep,
     DeqQuietSteps, Zenon DEF Step
<1> QED BY <1>1, <1>2, CallSteps, Zenon DEF Next

\* The inductive invariant: the nodes linked so far are one list in both
\* directions, each LL/SC variable is at one of them, and every thread of LL and
\* SC knows the node of the version it has read.
THEOREM Invariance == Spec => []IInv
<1>1. Init => IInv
  BY InitInvariant
<1>2. IInv /\ [Next]_vars => IInv'
  BY NextInvariant
<1> QED BY <1>1, <1>2, PTL DEF Spec

\* The LL/SC variables move on one node per version; a cas of SC made for an
\* earlier version never takes effect, however late it comes.
THEOREM VariablesAdvance == Spec => []PointersAdjacent
<1>1. IInv => PointersAdjacent
  <2> SUFFICES ASSUME IInv, NEW x \in Vars
               PROVE  LET c == CURRENT(x, entry[x].ver)
                          n == ptr[x][NONCUR(entry[x].ver)]
                      IN  /\ n = pred[c] \/ (n = next[c] /\ n # NULL)
                          /\ chain[entry[x].ver + 1] = c
    BY Zenon DEF PointersAdjacent
  <2> DEFINE v == entry[x].ver
             n == ptr[x][NONCUR(v)]
  <2>1. v \in Nat /\ Len(chain) \in Nat
    BY Numbers, Zenon DEF IInv
  <2>2. /\ v + 1 <= Len(chain) /\ CURRENT(x, v) = chain[v + 1]
        /\ n = At(v) \/ (v + 2 <= Len(chain) /\ n = chain[v + 2])
    BY Zenon DEF IInv, Adjacent
  <2>3. v + 1 \in 1..Len(chain) /\ (v + 1) - 1 = v /\ (v + 1) + 1 = v + 2
    BY <2>1, <2>2
  <2>4. /\ pred[chain[v + 1]] = At(v)
        /\ next[chain[v + 1]] = IF v + 1 = Len(chain) THEN NULL ELSE chain[v + 2]
    <3> HIDE DEF v
    <3>1. \A i \in 1..Len(chain) :
            /\ pred[chain[i]] = At(i - 1)
            /\ next[chain[i]] = IF i = Len(chain) THEN NULL ELSE chain[i + 1]
      BY Zenon DEF IInv, OneList
    <3> QED BY <2>3, <3>1, Zenon
  <2>5. v + 2 <= Len(chain) => v + 2 \in 1..Len(chain) /\ v + 1 # Len(chain)
    <3> DEFINE L == Len(chain)
    <3>1. L \in Nat
      BY <2>1, Zenon
    <3> HIDE DEF v, L
    <3>2. v + 2 <= L => v + 2 \in 1..L /\ v + 1 # L
      BY <2>1, <3>1
    <3> QED BY <3>2, Zenon DEF L
  <2>6. v + 2 <= Len(chain) => chain[v + 2] # NULL
    BY <2>5, Numbers, Zenon DEF IInv
  <2> QED BY <2>2, <2>4, <2>5, <2>6, Zenon
<1> QED BY <1>1, Invariance, PTL

\* No node is freed that is in use: as the flags are not stored, FREEABLE finds no
\* node it may free.
THEOREM FreeSafety == Spec => []FreedUnused
<1>1. IInv => FreedUnused
  BY DEF IInv, TypeOK, FreedUnused
<1> QED BY <1>1, Invariance, PTL

-----------------------------------------------------------------------------
(* The queue of FIFOQueue *)

ItemsOf(c, h, v) == [i \in 1..(Len(c) - h) |-> v[c[h + i]]]
AbsOp == [t \in Threads |-> AbstractOp(t)]

LEMMA ItemsOfProperties ==
  ASSUME NEW c \in Seq(Nodes), NEW h \in 1..Len(c), NEW v \in [Nodes -> Content]
  PROVE  /\ ItemsOf(c, h, v) \in Seq(Content)
         /\ Len(ItemsOf(c, h, v)) = Len(c) - h
         /\ \A i \in 1..(Len(c) - h) : ItemsOf(c, h, v)[i] = v[c[h + i]]
<1>1. Len(c) \in Nat /\ h \in Nat /\ Len(c) - h \in Nat
  BY LenProperties
<1>2. \A i \in 1..(Len(c) - h) : h + i \in 1..Len(c)
  BY <1>1
<1>3. \A i \in 1..(Len(c) - h) : v[c[h + i]] \in Content
  BY <1>2, ElementOfSeq
<1> QED BY <1>1, <1>3 DEF ItemsOf

LEMMA PositionUnique ==
  ASSUME NEW c, NEW h \in 1..Len(c), DOMAIN c = 1..Len(c),
         \A i, j \in 1..Len(c) : c[i] = c[j] => i = j
  PROVE  (CHOOSE i \in DOMAIN c : c[i] = c[h]) = h
OBVIOUS

LEMMA ItemsAt ==
  ASSUME IInv
  PROVE  /\ Items = ItemsOf(chain, DummyAt, val) /\ Items \in Seq(Content)
         /\ Len(Items) = Len(chain) - DummyAt
         /\ \A i \in 1..Len(Items) : Items[i] = val[chain[DummyAt + i]]
         /\ Empty <=> Items = << >>
<1>1. /\ chain \in Seq(Nodes) /\ val \in [Nodes -> Content] /\ DOMAIN chain = 1..Len(chain)
      /\ Len(chain) \in Nat
  BY Numbers, Zenon DEF IInv, TypeOK
<1>2. DummyAt \in 1..Len(chain) /\ Dummy = chain[DummyAt] /\ (Empty <=> DummyAt = Len(chain))
  BY DummyPlace, Zenon
<1>3. \A i, j \in 1..Len(chain) : chain[i] = chain[j] => i = j
  BY DEF IInv, OneList
<1>4. (CHOOSE i \in DOMAIN chain : chain[i] = Dummy) = DummyAt
  BY <1>1, <1>2, <1>3, PositionUnique, Zenon
<1>5. Items = ItemsOf(chain, DummyAt, val)
  <2>1. Items = ItemsOf(chain, CHOOSE i \in DOMAIN chain : chain[i] = Dummy, val)
    BY Zenon DEF Items, ItemsOf
  <2> QED BY <1>4, <2>1, Zenon
<1>6. /\ Items \in Seq(Content) /\ Len(Items) = Len(chain) - DummyAt
      /\ \A i \in 1..(Len(chain) - DummyAt) : Items[i] = val[chain[DummyAt + i]]
  <2> HIDE DEF DummyAt
  <2>1. /\ ItemsOf(chain, DummyAt, val) \in Seq(Content)
        /\ Len(ItemsOf(chain, DummyAt, val)) = Len(chain) - DummyAt
        /\ \A i \in 1..(Len(chain) - DummyAt) : ItemsOf(chain, DummyAt, val)[i] = val[chain[DummyAt + i]]
    BY <1>1, <1>2, ItemsOfProperties, Zenon
  <2> QED BY <1>5, <2>1, Zenon
<1>7. Items = << >> <=> Len(Items) = 0
  BY <1>6, EmptySeq
<1>8. Len(Items) = 0 <=> DummyAt = Len(chain)
  <2>1. Len(Items) = Len(chain) - DummyAt /\ Len(chain) \in Nat /\ DummyAt \in 1..Len(chain)
    BY <1>1, <1>2, <1>6, Zenon
  <2> QED BY <2>1
<1>9. \A i \in 1..Len(Items) : Items[i] = val[chain[DummyAt + i]]
  BY <1>6, Zenon
<1> QED BY <1>2, <1>5, <1>6, <1>7, <1>8, <1>9, Zenon

LEMMA ItemsAtPrimed ==
  ASSUME IInv', NEW h \in 1..Len(chain'), chain'[h] = Dummy'
  PROVE  /\ Items' = ItemsOf(chain', h, val') /\ Items' \in Seq(Content)
         /\ Len(Items') = Len(chain') - h
         /\ \A i \in 1..(Len(chain') - h) : Items'[i] = val'[chain'[h + i]]
<1>1. chain' \in Seq(Nodes) /\ val' \in [Nodes -> Content]
  BY DEF IInv, TypeOK
<1>2. DOMAIN chain' = 1..Len(chain')
  BY <1>1, LenProperties, Zenon
<1>3. \A i, j \in 1..Len(chain') : chain'[i] = chain'[j] => i = j
  BY DEF IInv, OneList
<1>4. (CHOOSE i \in DOMAIN chain' : chain'[i] = Dummy') = h
  BY <1>2, <1>3, PositionUnique
<1>5. Items' = ItemsOf(chain', h, val')
  <2>1. Items' = ItemsOf(chain', CHOOSE i \in DOMAIN chain' : chain'[i] = Dummy', val')
    BY Zenon DEF Items, ItemsOf
  <2> QED BY <1>4, <2>1, Zenon
<1>6. /\ ItemsOf(chain', h, val') \in Seq(Content)
      /\ Len(ItemsOf(chain', h, val')) = Len(chain') - h
      /\ \A i \in 1..(Len(chain') - h) : ItemsOf(chain', h, val')[i] = val'[chain'[h + i]]
  BY <1>1, ItemsOfProperties, Zenon
<1> QED BY <1>5, <1>6, Zenon

\* The dummy stays where it is and so does the list.
LEMMA SameItems ==
  ASSUME IInv, IInv', UNCHANGED chain, Dummy' = Dummy,
         \A i \in 1..Len(chain) : val'[chain[i]] = val[chain[i]]
  PROVE  Items' = Items
<1>1. DummyAt \in 1..Len(chain) /\ Dummy = chain[DummyAt] /\ Len(chain) \in Nat
  BY DummyPlace, Numbers, Zenon DEF IInv
<1>2. Items = ItemsOf(chain, DummyAt, val) /\ Items' = ItemsOf(chain, DummyAt, val')
  BY <1>1, ItemsAt, ItemsAtPrimed, Zenon
<1>3. \A i \in 1..(Len(chain) - DummyAt) : DummyAt + i \in 1..Len(chain)
  BY <1>1
<1> QED BY <1>2, <1>3, Zenon DEF ItemsOf

-----------------------------------------------------------------------------
(* Every step is one of FIFOQueue or a stutter *)

Refines == [Abstract!Next]_Abstract!vars

LEMMA OpUpdate ==
  ASSUME NEW t \in Threads, OthersKeep(t)
  PROVE  AbsOp[t] = AbstractOp(t) /\ AbsOp' = [AbsOp EXCEPT ![t] = AbstractOp(t)']
<1>1. \A u \in Threads \ {t} : AbstractOp(u)' = AbstractOp(u)
  BY DEF OthersKeep, AbstractOp
<1> QED BY <1>1, Zenon DEF AbsOp

\* A step inside a call, before or after its effect.
LEMMA Stutters ==
  ASSUME IInv, IInv', NEW t \in Threads, OthersKeep(t), UNCHANGED <<op, arg, done, sawEmpty>>, Items' = Items
  PROVE  Refines
<1>1. AbsOp' = AbsOp
  BY DEF AbsOp, AbstractOp
<1> QED BY <1>1 DEF Refines, Abstract!vars, AbsOp

LEMMA CallsRefine ==
  ASSUME IInv, IInv', NEW t \in Threads, DeqCall(t) \/ \E v \in Values : EnqCall(t, v)
  PROVE  Refines
<1>0. TypeOK /\ Control(t) /\ OthersKeep(t) /\ Quiet
  BY OthersStep, CallSteps, Zenon DEF IInv
<1>1. Items' = Items
  BY <1>0, SameItems, QuietDummy, Zenon DEF Quiet
<1>2. pc[t] = "idle" /\ done' = done
  BY Zenon DEF DeqCall, EnqCall, Goto
<1>3. op[t] = "idle" /\ done[t] = FALSE
  BY <1>0, <1>2, Zenon DEF Control, SCLines, TypeOK
<1>4. AbsOp[t] = "idle" /\ AbsOp' = [AbsOp EXCEPT ![t] = op'[t]]
  <2>1. AbstractOp(t) = "idle" /\ AbstractOp(t)' = op'[t]
    BY <1>2, <1>3 DEF AbstractOp
  <2> QED BY <1>0, <2>1, OpUpdate, Zenon
<1>5. CASE DeqCall(t)
  <2>1. op'[t] = "deq" /\ arg' = arg /\ sawEmpty' = IF Items = << >> THEN sawEmpty \cup {t} ELSE sawEmpty
    BY <1>0, <1>5, ItemsAt, Zenon DEF DeqCall, TypeOK
  <2>2. Abstract!DeqCall(t)
    BY <1>1, <1>4, <2>1 DEF Abstract!DeqCall, AbsOp
  <2> QED BY <2>2, Zenon DEF Refines, Abstract!Next
<1>6. ASSUME NEW v \in Values, EnqCall(t, v) PROVE Refines
  <2>1. op'[t] = "enq" /\ arg' = [arg EXCEPT ![t] = v] /\ sawEmpty' = sawEmpty
    BY <1>0, <1>6, Zenon DEF EnqCall, TypeOK, history
  <2>2. Abstract!EnqCall(t, v)
    BY <1>1, <1>4, <2>1 DEF Abstract!EnqCall, AbsOp
  <2> QED BY <2>2, Zenon DEF Refines, Abstract!Next
<1> QED BY <1>5, <1>6, Zenon

LEMMA ReturnsRefine ==
  ASSUME IInv, IInv', NEW t \in Threads,
         CreateNodeFails(t) \/ EnqReturn(t) \/ UnlinkCas(t) \/ DeqReturn(t)
  PROVE  Refines
<1> USE DEF Return, history
<1>0. TypeOK /\ Control(t) /\ EmptySeen /\ OthersKeep(t) /\ Quiet
  BY OthersStep, ReturnSteps, Zenon DEF IInv, Step
<1>1. Items' = Items
  BY <1>0, SameItems, QuietDummy, Zenon DEF Quiet
<1>2. op'[t] = "idle" /\ arg' = [arg EXCEPT ![t] = None]
  BY <1>0 DEF CreateNodeFails, EnqReturn, UnlinkCas, DeqReturn, TypeOK
<1>3. AbsOp[t] = AbstractOp(t) /\ AbsOp' = [AbsOp EXCEPT ![t] = "idle"]
  <2>1. AbstractOp(t)' = "idle"
    BY <1>2 DEF AbstractOp
  <2> QED BY <1>0, <2>1, OpUpdate, Zenon
<1>4. CASE CreateNodeFails(t)
  <2>1. op[t] = "enq" /\ done[t] = FALSE /\ sawEmpty' = sawEmpty
    BY <1>0, <1>4, Zenon DEF CreateNodeFails, Control, SCLines, TypeOK
  <2>2. AbstractOp(t) = "enq"
    BY <2>1 DEF AbstractOp
  <2>3. Abstract!EnqReturnFail(t)
    BY <1>1, <1>2, <1>3, <2>1, <2>2, Zenon DEF Abstract!EnqReturnFail, AbsOp
  <2> QED BY <2>3, Zenon DEF Refines, Abstract!Next
<1>5. CASE EnqReturn(t)
  <2>1. op[t] = "enq" /\ done[t] /\ sawEmpty' = sawEmpty
    BY <1>0, <1>5, Zenon DEF EnqReturn, Control
  <2>2. AbstractOp(t) = "enqed"
    BY <2>1 DEF AbstractOp
  <2>3. Abstract!EnqReturn(t)
    BY <1>1, <1>2, <1>3, <2>1, <2>2, Zenon DEF Abstract!EnqReturn, AbsOp
  <2> QED BY <2>3, Zenon DEF Refines, Abstract!Next
<1>6. CASE DeqReturn(t)
  <2>1. op[t] = "deq" /\ done[t] /\ sawEmpty' = sawEmpty
    BY <1>0, <1>6, Zenon DEF DeqReturn, Control
  <2>2. AbstractOp(t) = "deqed"
    BY <2>1 DEF AbstractOp
  <2>3. Abstract!DeqReturn(t)
    BY <1>1, <1>2, <1>3, <2>1, <2>2, Zenon DEF Abstract!DeqReturn, AbsOp
  <2> QED BY <2>3, Zenon DEF Refines, Abstract!Next
<1>7. CASE UnlinkCas(t)
  <2>1. pc[t] = "unlinkCas" /\ sawEmpty' = sawEmpty \ {t}
    BY <1>7, Zenon DEF UnlinkCas
  <2>2. op[t] = "deq" /\ ~ done[t] /\ arg[t] = None /\ t \in sawEmpty
    BY <1>0, <2>1, Zenon DEF Control, SCLines, EmptySeen
  <2>3. AbstractOp(t) = "deq" /\ arg' = arg
    BY <1>0, <1>2, <2>2 DEF AbstractOp, TypeOK
  <2>4. Abstract!DeqReturnEmpty(t)
    BY <1>1, <1>3, <2>1, <2>2, <2>3, Zenon DEF Abstract!DeqReturnEmpty, AbsOp
  <2> QED BY <2>4 DEF Refines, Abstract!Next
<1> QED BY <1>4, <1>5, <1>6, <1>7, Zenon

\* The cas that links the node appends the argument.
LEMMA EnqLinkRefines ==
  ASSUME IInv, IInv', NEW t \in Threads, EnqLink(t)
  PROVE  Refines
<1>0. OthersKeep(t) /\ TypeOK
  BY OthersStep, Zenon DEF IInv, Step
<1>1. /\ UNCHANGED <<val, op, arg, sawEmpty>> /\ op[t] = "enq" /\ ~ done[t]
      /\ newNode[t] \in Nodes /\ val[newNode[t]] = arg[t] /\ done'[t] = (next[mynode[t]] = NULL)
  BY LinkFacts, Zenon
<1>2. CASE next[mynode[t]] # NULL
  <2>1. UNCHANGED <<chain, done>>
    BY <1>2, LinkFails, Zenon
  <2>2. Items' = Items
    BY <1>1, <2>1, LinkDummy, SameItems
  <2> QED BY <1>0, <1>1, <2>1, <2>2, Stutters, Zenon
<1>3. CASE next[mynode[t]] = NULL
  <2> DEFINE h == DummyAt
             k == newNode[t]
             L == Len(chain)
  <2>1. /\ L \in Nat /\ h \in 1..L /\ Dummy = chain[h] /\ Len(Items) = L - h /\ Items \in Seq(Content)
        /\ \A i \in 1..Len(Items) : Items[i] = val[chain[h + i]]
    BY <1>0, DummyPlace, ItemsAt, Numbers, Zenon
  <2> HIDE DEF h
  <2>2. Len(chain') = L + 1 /\ chain'[L + 1] = k /\ \A i \in 1..L : chain'[i] = chain[i]
    <3>1. chain' = Append(chain, k) /\ chain \in Seq(Nodes)
      BY <1>0, <1>3, LinkSucceeds, Zenon DEF TypeOK
    <3> QED BY <1>1, <3>1, AppendProperties
  <2>3. h \in 1..Len(chain') /\ chain'[h] = Dummy'
    <3>1. h \in 1..(L + 1)
      BY <2>1
    <3> QED BY <2>1, <2>2, <3>1, LinkDummy, Zenon
  <2>4. /\ Items' \in Seq(Content) /\ Len(Items') = Len(chain') - h
        /\ \A i \in 1..(Len(chain') - h) : Items'[i] = val[chain'[h + i]]
    BY <1>1, <2>3, ItemsAtPrimed, Zenon
  <2>5. Len(chain') - h = Len(Items) + 1 /\ Len(Items) \in Nat
    <3> HIDE DEF L
    <3> QED BY <2>1, <2>2
  <2>6. arg[t] \in Content
    BY <1>0 DEF TypeOK
  <2>7. /\ Append(Items, arg[t]) \in Seq(Content) /\ Len(Append(Items, arg[t])) = Len(Items) + 1
        /\ \A i \in 1..Len(Items) : Append(Items, arg[t])[i] = Items[i]
        /\ Append(Items, arg[t])[Len(Items) + 1] = arg[t]
    <3>1. Items \in Seq(Content)
      BY <2>1, Zenon
    <3> HIDE DEF Content
    <3> QED BY <2>6, <3>1, AppendProperties
  <2>8. ASSUME NEW i \in 1..(Len(Items) + 1) PROVE Items'[i] = Append(Items, arg[t])[i]
    <3>1. CASE i \in 1..Len(Items)
      <4>1. h + i \in 1..L
        <5> HIDE DEF L
        <5> QED BY <2>1, <2>5, <3>1
      <4>2. Items'[i] = val[chain'[h + i]] /\ chain'[h + i] = chain[h + i]
        BY <2>2, <2>4, <2>5, <4>1, Zenon
      <4>3. Items[i] = val[chain[h + i]] /\ Append(Items, arg[t])[i] = Items[i]
        BY <2>1, <2>7, <3>1, Zenon
      <4> QED BY <4>2, <4>3, Zenon
    <3>2. CASE i = Len(Items) + 1
      <4>1. h + i = L + 1
        <5>1. Len(Items) = L - h /\ L \in Nat /\ h \in Nat
          BY <2>1
        <5> HIDE DEF L
        <5> QED BY <3>2, <5>1
      <4>2. Items'[i] = val[chain'[h + i]]
        BY <2>4, <2>5, Zenon
      <4>3. chain'[h + i] = k
        BY <2>2, <4>1, Zenon
      <4> QED BY <1>1, <2>7, <3>2, <4>2, <4>3, Zenon
    <3> QED BY <2>5, <3>1, <3>2
  <2>9. Items' = Append(Items, arg[t])
    BY <2>4, <2>5, <2>7, <2>8, SeqEqual, Zenon
  <2>10. AbsOp[t] = "enq" /\ AbsOp' = [AbsOp EXCEPT ![t] = "enqed"]
    <3>1. AbstractOp(t) = "enq" /\ AbstractOp(t)' = "enqed"
      BY <1>1, <1>3, Zenon DEF AbstractOp
    <3> QED BY <1>0, <3>1, OpUpdate
  <2>11. Abstract!EnqEffect(t)
    BY <1>1, <2>9, <2>10 DEF Abstract!EnqEffect, AbsOp
  <2> QED BY <2>11, Zenon DEF Refines, Abstract!Next
<1> QED BY <1>2, <1>3, Zenon

\* The cas of SC of a deq removes the oldest value and returns it.
LEMMA SCRefines ==
  ASSUME IInv, IInv', NEW t \in Threads, SC(t)
  PROVE  Refines
<1>0. OthersKeep(t) /\ TypeOK /\ Control(t)
  BY OthersStep, Zenon DEF IInv, Step
<1>1. UNCHANGED <<val, next, chain, op>> /\ pc[t] = "SC"
  BY DEF SC, Goto, fields
<1>2. CASE ~ (SCsucceeds(t) /\ op[t] = "deq")
  <2>1. UNCHANGED <<done, arg, sawEmpty>>
    BY <1>2, Zenon DEF SC
  <2>2. Items' = Items
    BY <1>1, <1>2, SameItems, SCStep
  <2> QED BY <1>0, <1>1, <2>1, <2>2, Stutters, Zenon
<1>3. CASE SCsucceeds(t) /\ op[t] = "deq"
  <2> DEFINE h == DummyAt
             L == Len(chain)
             n == new[t]
  <2>1. /\ L \in Nat /\ h \in 1..L /\ Len(Items) = L - h /\ Items \in Seq(Content)
        /\ \A i \in 1..Len(Items) : Items[i] = val[chain[h + i]]
    BY <1>0, DummyPlace, ItemsAt, Numbers, Zenon
  <2>2. h + 1 \in 1..L /\ n = chain[h + 1] /\ Dummy' = n
    BY <1>3, SCStep, Zenon
  <2> HIDE DEF h
  <2>3. /\ done' = [done EXCEPT ![t] = TRUE] /\ arg' = [arg EXCEPT ![t] = val[n]]
        /\ sawEmpty' = IF next[n] = NULL THEN {u \in Threads : op[u] = "deq" /\ ~ done'[u]}
                                         ELSE sawEmpty \ {t}
    BY <1>3 DEF SC
  <2>4. /\ Items' \in Seq(Content) /\ Len(Items') = L - (h + 1)
        /\ \A i \in 1..(L - (h + 1)) : Items'[i] = val[chain[h + 1 + i]]
    BY <1>1, <2>2, ItemsAtPrimed, Zenon
  <2>5. Items # << >> /\ Head(Items) = val[n]
    <3>1. 1 \in 1..Len(Items) /\ Len(Items) # 0
      <4> HIDE DEF L
      <4> QED BY <2>1, <2>2
    <3>2. Items # << >>
      BY <2>1, <3>1, EmptySeq
    <3> QED BY <2>1, <2>2, <3>1, <3>2
  <2>6. Items' = Tail(Items)
    <3>1. /\ Tail(Items) \in Seq(Content) /\ Len(Tail(Items)) = Len(Items) - 1
          /\ \A i \in 1..Len(Tail(Items)) : Tail(Items)[i] = Items[i + 1]
      BY <2>1, <2>5, HeadTailProperties, Zenon
    <3>2. Len(Items') = Len(Tail(Items))
      <4> HIDE DEF L
      <4> QED BY <2>1, <2>4, <3>1
    <3>3. ASSUME NEW i \in 1..Len(Items') PROVE Items'[i] = Tail(Items)[i]
      <4>1. i \in 1..(L - (h + 1)) /\ i + 1 \in 1..Len(Items) /\ h + (i + 1) = h + 1 + i
        <5> HIDE DEF L
        <5> QED BY <2>1, <2>4
      <4> QED BY <2>1, <2>4, <3>1, <3>2, <4>1, Zenon
    <3> QED BY <2>4, <3>1, <3>2, <3>3, SeqEqual, Zenon
  <2>7. next[n] = NULL <=> Items' = << >>
    <3>1. next[n] = IF h + 1 = L THEN NULL ELSE chain[(h + 1) + 1]
      BY <2>2 DEF IInv, OneList
    <3>2. h + 1 # L => (h + 1) + 1 \in 1..L
      <4> HIDE DEF L
      <4> QED BY <2>1, <2>2
    <3>3. h + 1 # L => chain[(h + 1) + 1] # NULL
      BY <1>0, <3>2, Numbers, Zenon
    <3>4. Items' = << >> <=> Len(Items') = 0
      BY <2>4, EmptySeq, Zenon
    <3>5. Len(Items') = 0 <=> h + 1 = L
      <4>1. Len(Items') = L - (h + 1)
        BY <2>4, Zenon
      <4> HIDE DEF L
      <4> QED BY <2>1, <2>2, <4>1
    <3> QED BY <3>1, <3>3, <3>4, <3>5, Zenon
  <2>8. done[t] = FALSE /\ done'[t] = TRUE
    BY <1>0, <1>1, <1>3, <2>3 DEF Control, SCLines, TypeOK
  <2>9. AbsOp[t] = "deq" /\ AbsOp' = [AbsOp EXCEPT ![t] = "deqed"]
    <3>1. AbstractOp(t) = "deq" /\ AbstractOp(t)' = "deqed"
      BY <1>1, <1>3, <2>8, Zenon DEF AbstractOp
    <3> QED BY <1>0, <3>1, OpUpdate, Zenon
  <2>10. {u \in Threads : op[u] = "deq" /\ ~ done'[u]} = {u \in Threads : AbsOp'[u] = "deq"}
    <3>1. \A u \in Threads : AbsOp'[u] = "deq" <=> op[u] = "deq" /\ ~ done'[u]
      BY <1>1, Zenon DEF AbsOp, AbstractOp
    <3> QED BY <3>1, Zenon
  <2>11. Abstract!DeqEffect(t)
    BY <2>3, <2>5, <2>6, <2>7, <2>9, <2>10, Zenon DEF Abstract!DeqEffect, AbsOp
  <2> QED BY <2>11 DEF Refines, Abstract!Next
<1> QED BY <1>2, <1>3, Zenon

LEMMA StepRefines ==
  ASSUME IInv, IInv', NEW t \in Threads, Step(t)
  PROVE  Refines
<1> USE DEF Goto, call, fields, history
<1>0. TypeOK /\ OthersKeep(t) /\ OneList
  BY OthersStep DEF IInv
<1>1. CASE \/ LLRead(t) \/ LLCurrent(t) \/ LLCas(t) \/ SCRead(t) \/ transfer(t) \/ SCRelease(t)
           \/ DeqNext(t) \/ UnlinkRead(t)
  <2>1. Quiet
    BY <1>1, LLSteps, SCQuietSteps, DeqQuietSteps, Zenon
  <2>2. Items' = Items
    BY <2>1, SameItems, QuietDummy DEF Quiet
  <2>3. UNCHANGED <<op, arg, done, sawEmpty>>
    BY <1>1, Zenon DEF LLRead, LLCurrent, LLCas, SCRead, transfer, SCRelease, DeqNext, UnlinkRead
  <2> QED BY <1>0, <2>2, <2>3, Stutters
<1>2. CASE SCBump(t)
  <2>1. UNCHANGED <<chain, val, op, arg, done, sawEmpty>>
    BY <1>2, Zenon DEF SCBump
  <2>2. Items' = Items
    BY <1>2, <2>1, SameItems, SCBumpStep
  <2> QED BY <1>0, <2>1, <2>2, Stutters, Zenon
<1>3. CASE create_node(t)
  <2>1. UNCHANGED <<ptr, entry, pred, chain, op, arg, done, sawEmpty>>
    BY <1>3, Zenon DEF create_node
  <2>2. Dummy' = Dummy
    BY <2>1 DEF Dummy, CURRENT
  <2>3. \A i \in 1..Len(chain) : val'[chain[i]] = val[chain[i]]
    <3>1. \A i \in 1..Len(chain) : chain[i] \in Nodes /\ chain[i] # allocated + 1
      <4> DEFINE S == {chain[i] : i \in 1..Len(chain)}
      <4>1. \A k \in S : k \in Nodes /\ k <= allocated
        <5>1. \A i \in 1..Len(chain) : chain[i] \in Nodes
          BY <1>0, Numbers, Zenon
        <5>2. \A i \in 1..Len(chain) : chain[i] <= allocated
          BY <1>0, Zenon DEF OneList
        <5> QED BY <5>1, <5>2, Zenon
      <4>2. \A i \in 1..Len(chain) : chain[i] \in S
        BY Zenon
      <4>3. allocated \in Nat /\ 2 <= allocated /\ Nodes \subseteq Nat
        BY <1>0, LLSCAssumption DEF TypeOK, Nodes
      <4> HIDE DEF S
      <4> QED BY <4>1, <4>2, <4>3, NextNumber, Zenon
    <3>2. val \in [Nodes -> Content] /\ val' = [val EXCEPT ![allocated + 1] = arg[t]]
      BY <1>0, <1>3 DEF create_node, TypeOK
    <3> QED BY <3>1, <3>2, Zenon
  <2>4. Items' = Items
    BY <2>1, <2>2, <2>3, SameItems, Zenon
  <2> QED BY <1>0, <2>1, <2>4, Stutters, Zenon
<1>4. CASE SC(t) \/ EnqLink(t)
  BY <1>4, SCRefines, EnqLinkRefines
<1>5. CASE CreateNodeFails(t) \/ EnqReturn(t) \/ UnlinkCas(t) \/ DeqReturn(t)
  BY <1>5, ReturnsRefine, Zenon
<1> QED BY <1>1, <1>2, <1>3, <1>4, <1>5, Zenon DEF Step

LEMMA InitRefines ==
  ASSUME Init
  PROVE  Abstract!Init
<1>1. IInv
  BY InitInvariant
<1>2. Items = << >>
  <2>1. next[Dummy] = NULL
    <3>1. Dummy \in Nodes
      <4>1. DummyAt \in 1..Len(chain) /\ Dummy = chain[DummyAt]
        BY <1>1, DummyPlace, Zenon
      <4> QED BY <1>1, <4>1, Numbers DEF IInv
    <3> QED BY <3>1, Zenon DEF Init, init_queue
  <2> QED BY <1>1, <2>1, ItemsAt, Zenon DEF Empty
<1>3. AbsOp = [t \in Threads |-> "idle"]
  BY DEF Init, AbsOp, AbstractOp
<1> QED BY <1>2, <1>3 DEF Init, Abstract!Init, AbsOp

LEMMA NextRefines ==
  ASSUME IInv, IInv', [Next]_vars
  PROVE  [Abstract!Next]_Abstract!vars
<1>1. CASE UNCHANGED vars
  <2>1. Items' = Items
    BY <1>1 DEF vars, fields, history, Items, Dummy, CURRENT
  <2>2. AbsOp' = AbsOp /\ arg' = arg /\ sawEmpty' = sawEmpty
    BY <1>1, Zenon DEF vars, call, history, AbsOp, AbstractOp
  <2> QED BY <2>1, <2>2, Zenon DEF Abstract!vars, AbsOp
<1>2. CASE Next
  BY <1>2, CallsRefine, StepRefines DEF Next, Refines
<1> QED BY <1>1, <1>2

\* The queue is linearizable: an enq takes effect when its node is linked, a deq
\* when its SC writes the pointer that is not current; a deq returns false only if
\* the queue was empty at some moment of the call.
THEOREM Linearizability == Spec => Linearizable
<1>1. Init => Abstract!Init
  BY InitRefines
<1>2. IInv /\ IInv' /\ [Next]_vars => [Abstract!Next]_Abstract!vars
  BY NextRefines
<1> QED BY <1>1, <1>2, Invariance, PTL DEF Spec, Linearizable, Abstract!Spec

=============================================================================
