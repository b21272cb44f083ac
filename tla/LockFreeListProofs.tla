------------------------- MODULE LockFreeListProofs -------------------------
(***************************************************************************)
(* The links of list/LockFreeList.c lead forward and its backlinks back,   *)
(* for every number of threads, keys and nodes.                            *)
(*                                                                         *)
(* What a thread knows is said without the present succ fields: a pointer  *)
(* it has loaded leads on from the node it was loaded from, and does so    *)
(* whatever has become of that node since.                                 *)
(***************************************************************************)
EXTENDS LockFreeList, FiniteSetTheorems, TLAPS

\* The keys lie between those of list->head and list->tail.
Constants ==
  /\ IsFiniteSet(Threads) /\ MaxNodes \in Nat
  /\ MinKey \in Int /\ MaxKey \in Int /\ MinKey < MaxKey
  /\ \A k \in Keys : k \in Int /\ MinKey < k /\ k < MaxKey
  /\ None \notin Int \cup {"add", "delete", "find", "UNMARKED", "FLAGGED", "MARKED"}

Marks == {"UNMARKED", "FLAGGED", "MARKED"}

\* The nodes a thread can stand on, and those a link can lead to.
Here == 0..linked
There == (1..linked) \cup {tail}

\* A node, and one that a link of it leads or once led to.
Leads(m, n) == m \in Here /\ n \in There /\ Before(m, n)

FieldTypes ==
  /\ linked \in 0..MaxNodes
  /\ nkey \in [Nodes -> Int] /\ nkey[head] = MinKey /\ nkey[tail] = MaxKey
  /\ \A n \in 1..linked : nkey[n] \in Keys
  /\ succ \in [Nodes -> [ptr : Nodes \cup {NULL}, mark : Marks]]
  /\ backlink \in [Nodes -> Nodes \cup {NULL}]

\* What the fields of the nodes are: list->tail may be marked by a thread whose
\* copy of a succ field has words of two moments, but nobody flags a link to it.
\* A node that is not linked yet has no backlink.
Links ==
  /\ \A n \in Here : /\ Leads(n, succ[n].ptr)
                     /\ succ[n].mark = "FLAGGED" => succ[n].ptr # tail
                     /\ backlink[n] # NULL => Leads(backlink[n], n)
                     /\ IsMarked(n) => backlink[n] # NULL
  /\ succ[tail].mark # "FLAGGED"
  /\ \A n \in (linked + 1)..MaxNodes : backlink[n] = NULL

Search == {"next", "marked", "currmark", "currptr", "test", "reload"}
Helping == {"backlink", "trymarked", "trynext", "trycas", "trycopy"}
Help == {"help", "helpcas"}
Adding == {"copy", "addcas", "recopy", "again", "researched"}
Deleting == {"flagptr", "flagmark", "flagcas", "flagcopy", "true", "false"}
Copying == {"copy", "recopy", "flagcopy", "trycopy"}
Places == {"idle", "searched", "back"} \cup Search \cup Helping \cup Help \cup Adding \cup Deleting

Refs == [ptr : Nodes \cup {NULL, None}, mark : Marks \cup {None}]

ThreadTypes ==
  /\ pc \in [Threads -> Places] /\ op \in [Threads -> {"add", "delete", "find", None}]
  /\ key \in [Threads -> Keys \cup {None}]
  /\ curr \in [Threads -> Nodes \cup {NULL}] /\ next \in [Threads -> Nodes \cup {NULL}]
  /\ ref \in [Threads -> Refs]
  /\ frames \in [Threads -> Seq(Nodes \X Nodes)]
  /\ after \in [Threads -> Places \cup {None}]

\* Of a thread at p in the call of o with key k: the place and the function go
\* together.
Control(p, o, k, f, a) ==
  /\ p = "idle" <=> o = None
  /\ p # "idle" => k \in Keys
  /\ p \in Adding => o = "add"
  /\ p \in Deleting => o = "delete"
  /\ p = "back" => o \in {"add", "delete"}
  /\ p \in Helping => f # << >>
  /\ f # << >> => /\ p \in Helping \cup Help
                  /\ \/ o = "add" /\ a \in {"again", "back"}
                     \/ o = "delete" /\ a \in {"true", "false"}
  /\ f = << >> /\ p \in Search \cup Help => a = "searched" \/ (a = "researched" /\ o = "add")

\* The search stops between two nodes around the key; curr may go back
\* afterwards, and next stays.
Window(p, o, k, c, n, f) ==
  /\ p # "idle" => c \in Here /\ nkey[c] < k
  /\ p \notin {"idle", "next"} => n \in There
  /\ p \in {"searched", "researched", "copy", "addcas"} => k <= nkey[n]
  /\ o = "delete" /\ (p \in Deleting \cup {"back"} \/ f # << >>) => nkey[n] = k

\* The calls of helpFlagged: each has set the backlink, the last one perhaps not
\* yet.
Frames(p, f) ==
  \A j \in 1..Len(f) :
    /\ Leads(f[j][1], f[j][2])
    /\ j # Len(f) \/ p # "backlink" => backlink[f[j][2]] # NULL

\* del_node of the call under way, and the node whose succ field is copied.
Del(n, f) == IF f = << >> THEN n ELSE f[Len(f)][2]
Source(p, c, n, f) == IF p = "trycopy" THEN Del(n, f) ELSE c

\* A pointer that has been loaded leads on from where it was.
Loaded(p, c, n, f, r) ==
  /\ p \notin Copying \cup {"helpcas", "trycas"} => r = NoRef
  /\ p \in {"helpcas", "trycas"} /\ Del(n, f) # tail => Leads(Del(n, f), r.ptr)
  /\ p \in Copying =>
       /\ Source(p, c, n, f) # tail /\ r.ptr # None => Leads(Source(p, c, n, f), r.ptr)
       /\ Source(p, c, n, f) = tail => r.mark # "FLAGGED"

Good(p, o, k, c, n, r, f, a) ==
  Control(p, o, k, f, a) /\ Window(p, o, k, c, n, f) /\ Frames(p, f) /\ Loaded(p, c, n, f, r)

\* There are nodes for the adds under way.
Adders == {u \in Threads : op[u] = "add"}
Room == linked + Cardinality(Adders) <= MaxNodes

IInv ==
  /\ FieldTypes /\ Links /\ ThreadTypes /\ Room
  /\ \A t \in Threads : Good(pc[t], op[t], key[t], curr[t], next[t], ref[t], frames[t], after[t])

-----------------------------------------------------------------------------
(* Steps *)

\* A step may leave a thread's variable alone, or give it a value.
Sets(x, y, t, v) == y = [x EXCEPT ![t] = v] \/ (y = x /\ x[t] = v)

Moves(t, p, o, k, c, n, r, f, a) ==
  /\ Sets(pc, pc', t, p) /\ Sets(op, op', t, o) /\ Sets(key, key', t, k)
  /\ Sets(curr, curr', t, c) /\ Sets(next, next', t, n) /\ Sets(ref, ref', t, r)
  /\ Sets(frames, frames', t, f) /\ Sets(after, after', t, a)

Values(p, o, k, c, n, r, f, a) ==
  /\ p \in Places /\ o \in {"add", "delete", "find", None} /\ k \in Keys \cup {None}
  /\ c \in Nodes \cup {NULL} /\ n \in Nodes \cup {NULL} /\ r \in Refs
  /\ f \in Seq(Nodes \X Nodes) /\ a \in Places \cup {None}

\* What no step undoes: a node that is linked stays so, with its key, and a
\* backlink that is set stays set.
Grows ==
  /\ linked <= linked'
  /\ \A n \in Here \cup {tail} : nkey'[n] = nkey[n]
  /\ \A n \in Nodes : backlink[n] # NULL => backlink'[n] # NULL

\* The threads' variables after a step of one of them: the others' are as before.
LEMMA Moved ==
  ASSUME ThreadTypes, NEW t \in Threads,
         NEW p, NEW o, NEW k, NEW c, NEW n, NEW r, NEW f, NEW a,
         Values(p, o, k, c, n, r, f, a), Moves(t, p, o, k, c, n, r, f, a)
  PROVE  /\ ThreadTypes'
         /\ pc'[t] = p /\ op'[t] = o /\ key'[t] = k /\ curr'[t] = c
         /\ next'[t] = n /\ ref'[t] = r /\ frames'[t] = f /\ after'[t] = a
         /\ \A u \in Threads \ {t} :
              /\ pc'[u] = pc[u] /\ op'[u] = op[u] /\ key'[u] = key[u] /\ curr'[u] = curr[u]
              /\ next'[u] = next[u] /\ ref'[u] = ref[u] /\ frames'[u] = frames[u] /\ after'[u] = after[u]
<1>1. pc' \in [Threads -> Places] /\ pc'[t] = p /\ \A u \in Threads \ {t} : pc'[u] = pc[u]
  <2>1. pc \in [Threads -> Places] /\ p \in Places /\ Sets(pc, pc', t, p)
    BY Zenon DEF ThreadTypes, Values, Moves
  <2> QED
    BY <2>1, SMT DEF Sets
<1>2. op' \in [Threads -> {"add", "delete", "find", None}] /\ op'[t] = o /\ \A u \in Threads \ {t} : op'[u] = op[u]
  <2>1. op \in [Threads -> {"add", "delete", "find", None}] /\ o \in {"add", "delete", "find", None} /\ Sets(op, op', t, o)
    BY Zenon DEF ThreadTypes, Values, Moves
  <2> QED
    BY <2>1, SMT DEF Sets
<1>3. key' \in [Threads -> Keys \cup {None}] /\ key'[t] = k /\ \A u \in Threads \ {t} : key'[u] = key[u]
  <2>1. key \in [Threads -> Keys \cup {None}] /\ k \in Keys \cup {None} /\ Sets(key, key', t, k)
    BY Zenon DEF ThreadTypes, Values, Moves
  <2> QED
    BY <2>1, SMT DEF Sets
<1>4. curr' \in [Threads -> Nodes \cup {NULL}] /\ curr'[t] = c /\ \A u \in Threads \ {t} : curr'[u] = curr[u]
  <2>1. curr \in [Threads -> Nodes \cup {NULL}] /\ c \in Nodes \cup {NULL} /\ Sets(curr, curr', t, c)
    BY Zenon DEF ThreadTypes, Values, Moves
  <2> QED
    BY <2>1, SMT DEF Sets
<1>5. next' \in [Threads -> Nodes \cup {NULL}] /\ next'[t] = n /\ \A u \in Threads \ {t} : next'[u] = next[u]
  <2>1. next \in [Threads -> Nodes \cup {NULL}] /\ n \in Nodes \cup {NULL} /\ Sets(next, next', t, n)
    BY Zenon DEF ThreadTypes, Values, Moves
  <2> QED
    BY <2>1, SMT DEF Sets
<1>6. ref' \in [Threads -> Refs] /\ ref'[t] = r /\ \A u \in Threads \ {t} : ref'[u] = ref[u]
  <2>1. ref \in [Threads -> Refs] /\ r \in Refs /\ Sets(ref, ref', t, r)
    BY Zenon DEF ThreadTypes, Values, Moves
  <2> QED
    BY <2>1, SMT DEF Sets
<1>7. frames' \in [Threads -> Seq(Nodes \X Nodes)] /\ frames'[t] = f /\ \A u \in Threads \ {t} : frames'[u] = frames[u]
  <2> DEFINE S == Seq(Nodes \X Nodes)
  <2>1. frames \in [Threads -> S] /\ f \in S /\ Sets(frames, frames', t, f)
    BY Zenon DEF ThreadTypes, Values, Moves
  <2> HIDE DEF S
  <2>2. frames' \in [Threads -> S] /\ frames'[t] = f /\ \A u \in Threads \ {t} : frames'[u] = frames[u]
    BY <2>1, SMT DEF Sets
  <2> QED
    BY <2>2, Zenon DEF S
<1>8. after' \in [Threads -> Places \cup {None}] /\ after'[t] = a /\ \A u \in Threads \ {t} : after'[u] = after[u]
  <2>1. after \in [Threads -> Places \cup {None}] /\ a \in Places \cup {None} /\ Sets(after, after', t, a)
    BY Zenon DEF ThreadTypes, Values, Moves
  <2> QED
    BY <2>1, SMT DEF Sets
<1> QED
  BY <1>1, <1>2, <1>3, <1>4, <1>5, <1>6, <1>7, <1>8, Zenon DEF ThreadTypes

\* The linked nodes are nodes of the model.
LEMMA LinkedNodes ==
  ASSUME Constants, FieldTypes
  PROVE  Here \subseteq Nodes /\ There \subseteq Nodes
BY SMT DEF FieldTypes, Constants, Here, There, Nodes, tail

\* A link leads on while the list grows.
LEMMA LeadsGrow ==
  ASSUME Constants, FieldTypes, FieldTypes', Grows, NEW m, NEW n, Leads(m, n)
  PROVE  Leads(m, n)'
<1>1. m \in Here' /\ n \in There' /\ n \in Here \cup {tail}
  BY SMT DEF Leads, Here, There, Grows, FieldTypes, Constants
<1>2. nkey'[m] = nkey[m] /\ nkey'[n] = nkey[n]
  BY <1>1 DEF Grows, Leads
<1> QED
  BY <1>1, <1>2, Zenon DEF Leads, Before

\* What a thread knows stays true while the list grows.
LEMMA Grown ==
  ASSUME Constants, FieldTypes, FieldTypes', Grows,
         NEW p, NEW o, NEW k, NEW c, NEW n, NEW r, NEW f, NEW a,
         f \in Seq(Nodes \X Nodes), Good(p, o, k, c, n, r, f, a)
  PROVE  Good(p, o, k, c, n, r, f, a)'
<1>1. Control(p, o, k, f, a)'
  BY Zenon DEF Good, Control
<1>2. Window(p, o, k, c, n, f)'
  <2>1. Here \subseteq Here' /\ There \subseteq There' /\ There \subseteq Here \cup {tail}
    BY SMT DEF Here, There, Grows, FieldTypes, Constants
  <2>2. (c \in Here => nkey'[c] = nkey[c]) /\ (n \in There => nkey'[n] = nkey[n])
    BY <2>1, Zenon DEF Grows
  <2>3. p \in {"searched", "researched", "copy", "addcas"} => p \notin {"idle", "next"}
    BY Zenon
  <2>4. o = "delete" /\ (p \in Deleting \cup {"back"} \/ f # << >>) => p \notin {"idle", "next"}
    BY SMT DEF Good, Control, Constants, Deleting, Helping, Help
  <2> QED
    BY <2>1, <2>2, <2>3, <2>4, Zenon DEF Good, Window
<1>3. Frames(p, f)'
  <2>1. ASSUME NEW j \in 1..Len(f)
        PROVE  /\ Leads(f[j][1], f[j][2])'
               /\ j # Len(f) \/ p # "backlink" => backlink'[f[j][2]] # NULL
    <3>1. /\ Leads(f[j][1], f[j][2])
          /\ j # Len(f) \/ p # "backlink" => backlink[f[j][2]] # NULL
      BY <2>1, Zenon DEF Good, Frames
    <3>2. f[j][2] \in Nodes
      BY <2>1
    <3> QED
      BY <3>1, <3>2, LeadsGrow, Zenon DEF Grows
  <2> QED
    BY <2>1, Zenon DEF Frames
<1>4. Loaded(p, c, n, f, r)'
  BY LeadsGrow, Zenon DEF Good, Loaded, Del, Source
<1> QED
  BY <1>1, <1>2, <1>3, <1>4, Zenon DEF Good

\* What a thread knows.
LEMMA Own ==
  ASSUME IInv, NEW t \in Threads
  PROVE  /\ Values(pc[t], op[t], key[t], curr[t], next[t], ref[t], frames[t], after[t])
         /\ Good(pc[t], op[t], key[t], curr[t], next[t], ref[t], frames[t], after[t])
<1>1. ThreadTypes /\ Good(pc[t], op[t], key[t], curr[t], next[t], ref[t], frames[t], after[t])
  BY Zenon DEF IInv
<1> HIDE DEF IInv
<1>2. /\ pc[t] \in Places /\ op[t] \in {"add", "delete", "find", None} /\ key[t] \in Keys \cup {None}
      /\ curr[t] \in Nodes \cup {NULL} /\ next[t] \in Nodes \cup {NULL}
  BY <1>1, Zenon DEF ThreadTypes
<1>3. ref[t] \in Refs /\ frames[t] \in Seq(Nodes \X Nodes) /\ after[t] \in Places \cup {None}
  BY <1>1, Zenon DEF ThreadTypes
<1> QED
  BY <1>1, <1>2, <1>3, Zenon DEF Values

\* A step of one thread while the list grows.
LEMMA StepDone ==
  ASSUME Constants, IInv, NEW t \in Threads,
         NEW p, NEW o, NEW k, NEW c, NEW n, NEW r, NEW f, NEW a,
         Values(p, o, k, c, n, r, f, a), Moves(t, p, o, k, c, n, r, f, a),
         FieldTypes', Links', Room', Grows, Good(p, o, k, c, n, r, f, a)'
  PROVE  IInv'
<1>1. ThreadTypes /\ FieldTypes
  BY Zenon DEF IInv
<1>2. /\ ThreadTypes'
      /\ pc'[t] = p /\ op'[t] = o /\ key'[t] = k /\ curr'[t] = c
      /\ next'[t] = n /\ ref'[t] = r /\ frames'[t] = f /\ after'[t] = a
      /\ \A u \in Threads \ {t} :
           /\ pc'[u] = pc[u] /\ op'[u] = op[u] /\ key'[u] = key[u] /\ curr'[u] = curr[u]
           /\ next'[u] = next[u] /\ ref'[u] = ref[u] /\ frames'[u] = frames[u] /\ after'[u] = after[u]
  BY <1>1, Moved, Zenon
<1>3. ASSUME NEW u \in Threads
      PROVE  Good(pc[u], op[u], key[u], curr[u], next[u], ref[u], frames[u], after[u])'
  <2>1. CASE u = t
    BY <2>1, <1>2, Zenon
  <2>2. CASE u # t
    <3>1. /\ frames[u] \in Seq(Nodes \X Nodes)
          /\ Good(pc[u], op[u], key[u], curr[u], next[u], ref[u], frames[u], after[u])
      BY Own, Zenon DEF Values
    <3>2. /\ pc'[u] = pc[u] /\ op'[u] = op[u] /\ key'[u] = key[u] /\ curr'[u] = curr[u]
          /\ next'[u] = next[u] /\ ref'[u] = ref[u] /\ frames'[u] = frames[u] /\ after'[u] = after[u]
      BY <2>2, <1>2, Zenon
    <3> QED
      BY <3>1, <3>2, <1>1, Grown, Zenon
  <2> QED
    BY <2>1, <2>2
<1> QED
  BY <1>2, <1>3, Zenon DEF IInv

\* The list and its backlinks are unchanged.
LEMMA GoodKept ==
  ASSUME IInv, UNCHANGED fields
  PROVE  /\ Grows /\ \A m, n : Leads(m, n)' <=> Leads(m, n)
         /\ \A p, o, k, c, n, r, f, a : Good(p, o, k, c, n, r, f, a) => Good(p, o, k, c, n, r, f, a)'
<1>1. nkey' = nkey /\ backlink' = backlink /\ linked' = linked
  BY DEF fields
<1>2. \A m, n : Leads(m, n)' <=> Leads(m, n)
  BY <1>1, Zenon DEF Leads, Here, There, Before
<1>3. Grows
  BY <1>1, SMT DEF Grows, IInv, FieldTypes
<1>4. ASSUME NEW p, NEW o, NEW k, NEW c, NEW n, NEW r, NEW f, NEW a, Good(p, o, k, c, n, r, f, a)
      PROVE  Good(p, o, k, c, n, r, f, a)'
  <2>1. Control(p, o, k, f, a)'
    BY <1>4, Zenon DEF Good, Control
  <2>2. Window(p, o, k, c, n, f)'
    BY <1>4, <1>1, Zenon DEF Good, Window, Here, There
  <2>3. Frames(p, f)'
    BY <1>4, <1>1, <1>2, Zenon DEF Good, Frames
  <2>4. Loaded(p, c, n, f, r)'
    BY <1>4, <1>2, Zenon DEF Good, Loaded, Del, Source
  <2> QED
    BY <2>1, <2>2, <2>3, <2>4, Zenon DEF Good
<1> QED
  BY <1>2, <1>3, <1>4, Zenon

\* The fields of the nodes are unchanged, and the list with them.
LEMMA FieldsKept ==
  ASSUME IInv, UNCHANGED <<fields, succ>>
  PROVE  FieldTypes' /\ Links' /\ Grows
<1>1. nkey' = nkey /\ backlink' = backlink /\ linked' = linked /\ succ' = succ
  BY DEF fields
<1>2. FieldTypes /\ Links
  BY Zenon DEF IInv
<1>3. Grows /\ \A m, n : Leads(m, n)' <=> Leads(m, n)
  BY GoodKept, Zenon
<1>4. FieldTypes'
  BY <1>1, <1>2, Zenon DEF FieldTypes
<1>5. Links'
  BY <1>1, <1>2, <1>3, Zenon DEF Links, Here, IsMarked
<1> QED
  BY <1>3, <1>4, <1>5

\* A step within a function that leaves the fields of the nodes alone.
LEMMA QuietStep ==
  ASSUME Constants, IInv, NEW t \in Threads,
         NEW p, NEW c, NEW n, NEW r, NEW f, NEW a,
         UNCHANGED <<fields, succ, call>>,
         Sets(pc, pc', t, p), Sets(curr, curr', t, c), Sets(next, next', t, n),
         Sets(ref, ref', t, r), Sets(frames, frames', t, f), Sets(after, after', t, a),
         Values(p, op[t], key[t], c, n, r, f, a), Good(p, op[t], key[t], c, n, r, f, a)
  PROVE  IInv'
<1>1. op' = op /\ key' = key /\ linked' = linked
  BY DEF call, fields
<1>2. FieldTypes' /\ Links' /\ Grows /\ Good(p, op[t], key[t], c, n, r, f, a)'
  <2>1. UNCHANGED <<fields, succ>>
    BY Zenon
  <2> QED
    BY <2>1, <1>1, FieldsKept, GoodKept, Zenon
<1>3. Room'
  <2>1. Room
    BY Zenon DEF IInv
  <2> QED
    BY <2>1, <1>1, Zenon DEF Room, Adders
<1>4. Moves(t, p, op[t], key[t], c, n, r, f, a)
  BY <1>1, Zenon DEF Moves, Sets
<1> QED
  BY <1>1, <1>2, <1>3, <1>4, StepDone, Zenon

\* Where a link leads from a node of the list.
LEMMA LinkLeads ==
  ASSUME Constants, IInv, NEW m \in Here
  PROVE  /\ m \in Nodes /\ m # tail
         /\ Leads(m, succ[m].ptr) /\ succ[m].ptr \in Nodes /\ succ[m].mark \in Marks
         /\ backlink[m] # NULL => Leads(backlink[m], m) /\ backlink[m] \in Nodes
         /\ IsMarked(m) => backlink[m] # NULL
         /\ succ[m].mark = "FLAGGED" => succ[m].ptr # tail
<1>1. FieldTypes /\ Links
  BY Zenon DEF IInv
<1>2. m \in Nodes /\ m # tail /\ Here \subseteq Nodes /\ There \subseteq Nodes
  BY <1>1, SMT DEF Constants, FieldTypes, Here, There, Nodes, tail
<1>3. succ[m].mark \in Marks
  BY <1>1, <1>2, SMT DEF FieldTypes
<1> QED
  BY <1>1, <1>2, <1>3, Zenon DEF Links, Leads

\* searchFrom2: a step of the search stays before the key, and the search stops
\* when next_node is not.
LEMMA SearchStep ==
  ASSUME Constants, IInv, NEW t \in Threads, pc[t] \in Search,
         NEW p, NEW c, NEW n,
         UNCHANGED <<fields, succ, call, ref, frames, after>>,
         Sets(pc, pc', t, p), Sets(curr, curr', t, c), Sets(next, next', t, n),
         c \in Here, nkey[c] < key[t], n \in There,
         p \in Search \cup {"help"} \/ (p = after[t] /\ key[t] <= nkey[n])
  PROVE  IInv'
<1>1. /\ Values(pc[t], op[t], key[t], curr[t], next[t], ref[t], frames[t], after[t])
      /\ Good(pc[t], op[t], key[t], curr[t], next[t], ref[t], frames[t], after[t])
  BY Own, Zenon
<1>2. pc[t] # "idle" /\ pc[t] \notin Helping \cup Help /\ pc[t] \notin Copying \cup {"helpcas", "trycas"}
  BY SMT DEF Search, Helping, Help, Copying
<1>3. /\ op[t] # None /\ key[t] \in Keys /\ frames[t] = << >> /\ ref[t] = NoRef
      /\ after[t] = "searched" \/ (after[t] = "researched" /\ op[t] = "add")
  BY <1>1, <1>2, Zenon DEF Good, Control, Loaded
<1>4. /\ p # "idle" /\ p \notin Helping /\ p \notin Deleting \cup {"back"}
      /\ p \notin Copying \cup {"helpcas", "trycas"} /\ p \in Places
      /\ p \in Adding => op[t] = "add"
      /\ p \in {"searched", "researched", "copy", "addcas"} => key[t] <= nkey[n]
  <2>1. CASE p \in Search \cup {"help"}
    BY <2>1, SMT DEF Search, Helping, Deleting, Copying, Adding, Places, Help
  <2>2. CASE p = after[t] /\ key[t] <= nkey[n]
    BY <2>2, <1>3, SMT DEF Helping, Deleting, Copying, Adding, Places
  <2> QED
    BY <2>1, <2>2
<1>5. Control(p, op[t], key[t], frames[t], after[t])
  BY <1>3, <1>4, Zenon DEF Control
<1>6. Window(p, op[t], key[t], c, n, frames[t])
  BY <1>3, <1>4, Zenon DEF Window
<1>7. Frames(p, frames[t])
  BY <1>3, SMT DEF Frames
<1>8. Loaded(p, c, n, frames[t], ref[t])
  BY <1>3, <1>4, Zenon DEF Loaded
<1>9. c \in Nodes /\ n \in Nodes
  BY LinkedNodes, Zenon DEF IInv
<1>10. Values(p, op[t], key[t], c, n, ref[t], frames[t], after[t])
  BY <1>1, <1>4, <1>9, Zenon DEF Values
<1>11. /\ UNCHANGED <<fields, succ, call>>
       /\ Sets(ref, ref', t, ref[t]) /\ Sets(frames, frames', t, frames[t]) /\ Sets(after, after', t, after[t])
  BY Zenon DEF Sets
<1> QED
  BY <1>5, <1>6, <1>7, <1>8, <1>10, <1>11, QuietStep, Zenon DEF Good

\* Where a search is: curr_node comes before the key, and a node that does too is
\* not list->tail.
LEMMA SearchPlace ==
  ASSUME Constants, IInv, NEW t \in Threads, pc[t] # "idle"
  PROVE  /\ key[t] \in Keys /\ curr[t] \in Here /\ nkey[curr[t]] < key[t]
         /\ pc[t] # "next" => next[t] \in There
         /\ succ[curr[t]].ptr \in There
         /\ \A n \in There : IF Below(t, n) THEN n \in Here /\ nkey[n] < key[t] ELSE key[t] <= nkey[n]
<1>1. /\ key[t] \in Keys /\ curr[t] \in Here /\ nkey[curr[t]] < key[t]
      /\ pc[t] # "next" => next[t] \in There
  BY Own, Zenon DEF Good, Control, Window
<1>2. succ[curr[t]].ptr \in There
  BY <1>1, LinkLeads, Zenon DEF Leads
<1>3. ASSUME NEW n \in There
      PROVE  IF Below(t, n) THEN n \in Here /\ nkey[n] < key[t] ELSE key[t] <= nkey[n]
  <2>1. FieldTypes
    BY Zenon DEF IInv
  <2>2. n \in Nodes /\ (n \in Here \/ n = tail)
    BY <1>3, <2>1, SMT DEF Constants, FieldTypes, Here, There, Nodes, tail
  <2>3. nkey[n] \in Int /\ nkey[tail] = MaxKey /\ key[t] \in Int /\ key[t] < MaxKey /\ MaxKey \in Int
    BY <2>1, <2>2, <1>1 DEF FieldTypes, Constants
  <2> QED
    BY <2>2, <2>3, SMT DEF Below
<1> QED
  BY <1>1, <1>2, <1>3, Zenon

\* The loads of searchFrom2.
LEMMA SearchSteps ==
  ASSUME Constants, IInv, NEW t \in Threads,
         \/ LoadNext(t) \/ LoadMarked(t) \/ LoadCurrMark(t) \/ LoadCurrPtr(t) \/ TestHelp(t) \/ Reload(t)
  PROVE  IInv'
<1>1. pc[t] \in Search /\ pc[t] # "idle"
  BY SMT DEF LoadNext, LoadMarked, LoadCurrMark, LoadCurrPtr, TestHelp, Reload, Search
<1>2. /\ curr[t] \in Here /\ nkey[curr[t]] < key[t]
      /\ pc[t] # "next" => next[t] \in There
      /\ succ[curr[t]].ptr \in There
      /\ \A n \in There : IF Below(t, n) THEN n \in Here /\ nkey[n] < key[t] ELSE key[t] <= nkey[n]
  BY <1>1, SearchPlace, Zenon
<1>3. UNCHANGED <<fields, succ, call, ref, frames, after>>
  BY Zenon DEF LoadNext, LoadMarked, LoadCurrMark, LoadCurrPtr, TestHelp, Reload
<1>4. Sets(curr, curr, t, curr[t]) /\ Sets(next, next, t, next[t])
  BY Zenon DEF Sets
<1>5. \A p \in {"next", "marked", "currmark", "currptr", "test", "reload", "help"} :
        p \in Search \cup {"help"}
  BY Zenon DEF Search
<1>6. CASE LoadNext(t) \/ Reload(t)
  <2>1. PICK p : /\ Sets(pc, pc', t, p) /\ Sets(next, next', t, succ[curr[t]].ptr) /\ curr' = curr
                 /\ p = "marked" \/ (p = after[t] /\ ~ Below(t, succ[curr[t]].ptr))
    BY <1>6, Zenon DEF LoadNext, Reload, Goto, Sets
  <2>2. Sets(curr, curr', t, curr[t])
    BY <2>1, Zenon DEF Sets
  <2> QED
    BY <2>1, <2>2, <1>1, <1>2, <1>3, <1>5, SearchStep, Zenon
<1>7. ASSUME next[t] \in There, next' = next, Advance(t)
      PROVE  IInv'
  <2>1. Sets(next, next', t, next[t])
    BY <1>7, Zenon DEF Sets
  <2>2. CASE Below(t, next[t])
    <3>1. Sets(pc, pc', t, "next") /\ Sets(curr, curr', t, next[t])
      BY <2>2, <1>7, Zenon DEF Advance, Goto, Sets
    <3> QED
      BY <2>1, <2>2, <3>1, <1>7, <1>1, <1>2, <1>3, <1>5, SearchStep, Zenon
  <2>3. CASE ~ Below(t, next[t])
    <3>1. Sets(pc, pc', t, after[t]) /\ Sets(curr, curr', t, curr[t])
      BY <2>3, <1>7, Zenon DEF Advance, Goto, Sets
    <3> QED
      BY <2>1, <2>3, <3>1, <1>7, <1>1, <1>2, <1>3, <1>5, SearchStep, Zenon
  <2> QED
    BY <2>2, <2>3
<1>8. CASE LoadMarked(t) \/ LoadCurrMark(t) \/ LoadCurrPtr(t) \/ TestHelp(t)
  <2>1. next' = next /\ next[t] \in There
    BY <1>8, <1>2, Zenon DEF LoadMarked, LoadCurrMark, LoadCurrPtr, TestHelp
  <2>2. CASE Advance(t)
    BY <2>1, <2>2, <1>7
  <2>3. CASE ~ Advance(t)
    <3>1. PICK p \in {"currmark", "currptr", "test", "reload", "help"} : Sets(pc, pc', t, p) /\ curr' = curr
      BY <2>3, <1>8, Zenon DEF LoadMarked, LoadCurrMark, LoadCurrPtr, TestHelp, Goto, Sets
    <3>2. Sets(curr, curr', t, curr[t]) /\ Sets(next, next', t, next[t])
      BY <3>1, <2>1, Zenon DEF Sets
    <3>3. p \in Search \cup {"help"}
      BY <1>5, Zenon
    <3> QED
      BY <3>1, <3>2, <3>3, <2>1, <1>1, <1>2, <1>3, SearchStep, Zenon
  <2> QED
    BY <2>2, <2>3
<1> QED
  BY <1>6, <1>8

\* A return from a function.
LEMMA ReturnStep ==
  ASSUME Constants, IInv, NEW t \in Threads, NEW v, Return(t, v),
         FieldTypes', Links', Grows, linked' = linked \/ (linked' = linked + 1 /\ op[t] = "add"),
         UNCHANGED <<ref, frames>>, ref[t] = NoRef, frames[t] = << >>
  PROVE  IInv'
<1>1. /\ Sets(pc, pc', t, "idle") /\ Sets(op, op', t, None) /\ Sets(key, key', t, None)
      /\ Sets(curr, curr', t, NULL) /\ Sets(next, next', t, NULL) /\ Sets(after, after', t, None)
  BY Zenon DEF Return, Goto, Sets
<1>2. Sets(ref, ref', t, NoRef) /\ Sets(frames, frames', t, << >>)
  BY Zenon DEF Sets
<1>3. Moves(t, "idle", None, None, NULL, NULL, NoRef, << >>, None)
  BY <1>1, <1>2, Zenon DEF Moves
<1>4. Values("idle", None, None, NULL, NULL, NoRef, << >>, None)
  <2>1. NoRef \in Refs
    BY SMT DEF NoRef, make_ref, Refs
  <2>2. "idle" \in Places
    BY Zenon DEF Places
  <2> QED
    BY <2>1, <2>2, SMT DEF Values
<1>5. Good("idle", None, None, NULL, NULL, NoRef, << >>, None)'
  <2>1. /\ "idle" \notin Adding \cup Deleting \cup Helping \cup Search \cup Help
        /\ "idle" \notin Copying \cup {"helpcas", "trycas"}
    BY SMT DEF Adding, Deleting, Helping, Search, Help, Copying
  <2>2. None # "delete"
    BY SMT DEF Constants
  <2>3. Control("idle", None, None, << >>, None)'
    BY <2>1, Zenon DEF Control
  <2>4. Window("idle", None, None, NULL, NULL, << >>)'
    BY <2>1, <2>2, Zenon DEF Window
  <2>5. Frames("idle", << >>)'
    BY SMT DEF Frames
  <2>6. Loaded("idle", NULL, NULL, << >>, NoRef)'
    BY <2>1, Zenon DEF Loaded
  <2> QED
    BY <2>3, <2>4, <2>5, <2>6, Zenon DEF Good
<1>6. Room'
  <2>1. Room /\ FieldTypes /\ ThreadTypes
    BY Zenon DEF IInv
  <2>2. Adders' = Adders \ {t}
    BY <2>1, SMT DEF Return, Adders, ThreadTypes, Constants
  <2>3. IsFiniteSet(Adders)
    BY FS_Subset, Zenon DEF Adders, Constants
  <2>4. /\ Cardinality(Adders') = IF t \in Adders THEN Cardinality(Adders) - 1 ELSE Cardinality(Adders)
        /\ Cardinality(Adders) \in Nat
    BY <2>2, <2>3, FS_RemoveElement, FS_CardinalityType
  <2>5. op[t] = "add" => t \in Adders
    BY Zenon DEF Adders
  <2>6. linked \in Nat /\ MaxNodes \in Nat
    BY <2>1, SMT DEF FieldTypes, Constants
  <2> QED
    BY <2>1, <2>4, <2>5, <2>6, SMT DEF Room
<1> QED
  BY <1>3, <1>4, <1>5, <1>6, StepDone, Zenon

\* A return that leaves the fields of the nodes alone.
LEMMA QuietReturn ==
  ASSUME Constants, IInv, NEW t \in Threads, NEW v, Return(t, v), UNCHANGED <<fields, succ, ref, frames>>,
         pc[t] \in {"searched", "researched", "true", "false"}
  PROVE  IInv'
<1>1. pc[t] \notin Helping \cup Help /\ pc[t] \notin Copying \cup {"helpcas", "trycas"}
  BY SMT DEF Helping, Help, Copying
<1>2. ref[t] = NoRef /\ frames[t] = << >>
  BY <1>1, Own, Zenon DEF Good, Control, Loaded
<1>3. FieldTypes' /\ Links' /\ Grows
  <2>1. UNCHANGED <<fields, succ>>
    BY Zenon
  <2> QED
    BY <2>1, FieldsKept, Zenon
<1>4. linked' = linked /\ UNCHANGED <<ref, frames>>
  BY DEF fields
<1> QED
  BY <1>2, <1>3, <1>4, ReturnStep, Zenon

\* A step that only takes its thread to another place.
LEMMA GotoStep ==
  ASSUME Constants, IInv, NEW t \in Threads, NEW p \in Places, Goto(t, p),
         UNCHANGED <<fields, succ, call, curr, next, ref, frames, after>>,
         Good(p, op[t], key[t], curr[t], next[t], ref[t], frames[t], after[t])
  PROVE  IInv'
<1>1. /\ Sets(pc, pc', t, p) /\ Sets(curr, curr', t, curr[t]) /\ Sets(next, next', t, next[t])
      /\ Sets(ref, ref', t, ref[t]) /\ Sets(frames, frames', t, frames[t]) /\ Sets(after, after', t, after[t])
      /\ UNCHANGED <<fields, succ, call>>
  BY Zenon DEF Goto, Sets
<1>2. Values(p, op[t], key[t], curr[t], next[t], ref[t], frames[t], after[t])
  BY Own, Zenon DEF Values
<1> QED
  BY <1>1, <1>2, QuietStep, Zenon

\* The function a place is in, and the node that delete has found.
LEMMA OwnCall ==
  ASSUME Constants, IInv, NEW t \in Threads
  PROVE  /\ pc[t] \in Adding => op[t] = "add"
         /\ pc[t] \in Deleting => op[t] = "delete" /\ nkey[next[t]] = key[t]
         /\ pc[t] \in {"copy", "addcas", "recopy", "again", "researched"} => op[t] = "add"
         /\ pc[t] \in {"flagptr", "flagmark", "flagcas", "flagcopy", "true", "false"} =>
              op[t] = "delete" /\ nkey[next[t]] = key[t]
<1>1. /\ Control(pc[t], op[t], key[t], frames[t], after[t])
      /\ Window(pc[t], op[t], key[t], curr[t], next[t], frames[t])
  BY Own, Zenon DEF Good
<1>2. /\ pc[t] \in Adding => op[t] = "add"
      /\ pc[t] \in Deleting => op[t] = "delete" /\ nkey[next[t]] = key[t]
  BY <1>1, Zenon DEF Control, Window
<1> QED
  BY <1>2, Zenon DEF Adding, Deleting

\* The places of add and delete between the search and helpFlagged.
LEMMA OwnPlaces ==
  ASSUME Constants, IInv, NEW t \in Threads, NEW p,
         \/ /\ p \in {"copy", "recopy"} /\ op[t] = "add" /\ pc[t] \in {"searched", "researched", "addcas"}
         \/ /\ p \in {"flagptr", "flagmark", "flagcas", "flagcopy"} /\ op[t] = "delete"
            /\ nkey[next[t]] = key[t] /\ pc[t] \in {"searched", "flagptr", "flagmark", "flagcas"}
  PROVE  p \in Places /\ Good(p, op[t], key[t], curr[t], next[t], ref[t], frames[t], after[t])
<1>1. /\ pc[t] \notin Helping \cup Help /\ pc[t] \notin Copying \cup {"helpcas", "trycas"}
      /\ pc[t] \notin {"idle", "next"} /\ p \notin {"idle", "back", "searched", "researched", "addcas"}
      /\ p = "copy" => pc[t] \in {"searched", "researched", "copy", "addcas"}
  BY SMT DEF Helping, Help, Copying
<1>2. /\ ref[t] = NoRef /\ frames[t] = << >> /\ op[t] # None /\ key[t] \in Keys
      /\ curr[t] \in Here /\ nkey[curr[t]] < key[t] /\ next[t] \in There
      /\ p = "copy" => key[t] <= nkey[next[t]]
  <2>1. /\ Control(pc[t], op[t], key[t], frames[t], after[t])
        /\ Window(pc[t], op[t], key[t], curr[t], next[t], frames[t])
        /\ Loaded(pc[t], curr[t], next[t], frames[t], ref[t])
    BY Own, Zenon DEF Good
  <2>2. ref[t] = NoRef /\ frames[t] = << >> /\ op[t] # None /\ key[t] \in Keys
    BY <1>1, <2>1, Zenon DEF Control, Loaded
  <2>3. curr[t] \in Here /\ nkey[curr[t]] < key[t] /\ next[t] \in There /\ (p = "copy" => key[t] <= nkey[next[t]])
    BY <1>1, <2>1, Zenon DEF Window
  <2> QED
    BY <2>2, <2>3
<1>3. /\ p \in Places /\ p \notin Helping \cup Help \cup Search /\ p \notin {"helpcas", "trycas", "trycopy"}
      /\ p \in Adding => op[t] = "add"
      /\ p \in Deleting => op[t] = "delete" /\ nkey[next[t]] = key[t]
      /\ op[t] = "delete" => nkey[next[t]] = key[t]
  BY SMT DEF Places, Helping, Help, Search, Adding, Deleting
<1>4. Control(p, op[t], key[t], frames[t], after[t])
  BY <1>1, <1>2, <1>3, Zenon DEF Control
<1>5. Window(p, op[t], key[t], curr[t], next[t], frames[t])
  BY <1>1, <1>2, <1>3, Zenon DEF Window
<1>6. Frames(p, frames[t])
  BY <1>2, SMT DEF Frames
<1>7. Loaded(p, curr[t], next[t], frames[t], ref[t])
  <2>1. ref[t].ptr = None /\ ref[t].mark # "FLAGGED"
    BY <1>2, SMT DEF NoRef, make_ref, Constants
  <2> QED
    BY <2>1, <1>2, <1>3, Zenon DEF Loaded
<1> QED
  BY <1>3, <1>4, <1>5, <1>6, <1>7, Zenon DEF Good

\* The searches of add, delete and find are done, and tryFlag looks at a field.
LEMMA CallerSteps ==
  ASSUME Constants, IInv, NEW t \in Threads,
         \/ AddSearched(t) \/ create_nodeFails(t) \/ AddCasFails(t) \/ AddResearched(t) \/ DeleteSearched(t)
         \/ FlagLoadPtr(t) \/ DeleteReturn(t) \/ FindReturn(t)
  PROVE  IInv'
<1>1. /\ pc[t] \in {"addcas", "researched"} => op[t] = "add"
      /\ pc[t] = "flagptr" => op[t] = "delete" /\ nkey[next[t]] = key[t]
  BY OwnCall
<1>2. CASE create_nodeFails(t) \/ DeleteReturn(t) \/ FindReturn(t)
  <2>1. PICK v : Return(t, v) /\ UNCHANGED <<fields, succ, ref, frames>> /\ pc[t] \in {"searched", "true", "false"}
    BY <1>2, Zenon DEF create_nodeFails, DeleteReturn, FindReturn, Searched
  <2> QED
    BY <2>1, QuietReturn, Zenon
<1>3. CASE AddCasFails(t) \/ FlagLoadPtr(t)
  <2>1. PICK p \in {"recopy", "flagmark", "flagcas"} :
          /\ Goto(t, p) /\ UNCHANGED <<fields, succ, call, curr, next, ref, frames, after>>
          /\ (p = "recopy" /\ pc[t] = "addcas") \/ (p # "recopy" /\ pc[t] = "flagptr")
    BY <1>3, Zenon DEF AddCasFails, FlagLoadPtr
  <2>2. p \in Places /\ Good(p, op[t], key[t], curr[t], next[t], ref[t], frames[t], after[t])
    BY <2>1, <1>1, OwnPlaces, Zenon
  <2> QED
    BY <2>1, <2>2, GotoStep, Zenon
<1>4. CASE AddSearched(t) \/ AddResearched(t) \/ DeleteSearched(t)
  <2>1. /\ UNCHANGED <<fields, succ, ref, frames>> /\ pc[t] \in {"searched", "researched"}
        /\ \/ \E v : Return(t, v)
           \/ /\ UNCHANGED <<call, curr, next, after>>
              /\ \/ Goto(t, "copy") /\ op[t] = "add"
                 \/ Goto(t, "flagptr") /\ op[t] = "delete" /\ nkey[next[t]] = key[t] /\ pc[t] = "searched"
    BY <1>1, <1>4, Zenon DEF AddSearched, AddResearched, DeleteSearched, Searched
  <2>2. CASE \E v : Return(t, v)
    BY <2>1, <2>2, QuietReturn, Zenon
  <2>3. CASE ~ \E v : Return(t, v)
    <3>1. PICK p \in {"copy", "flagptr"} :
            /\ Goto(t, p) /\ UNCHANGED <<fields, succ, call, curr, next, ref, frames, after>>
            /\ (p = "copy" /\ op[t] = "add") \/
               (p = "flagptr" /\ op[t] = "delete" /\ nkey[next[t]] = key[t] /\ pc[t] = "searched")
      BY <2>1, <2>3, Zenon
    <3>2. p \in Places /\ Good(p, op[t], key[t], curr[t], next[t], ref[t], frames[t], after[t])
      BY <2>1, <3>1, OwnPlaces, Zenon
    <3> QED
      BY <3>1, <3>2, GotoStep, Zenon
  <2> QED
    BY <2>2, <2>3
<1> QED
  BY <1>2, <1>3, <1>4

\* The nodes of the call of helpFlagged or helpMarked under way.
LEMMA FrameLeads ==
  ASSUME Constants, IInv, NEW t \in Threads, pc[t] \in Helping \cup Help
  PROVE  /\ del_node(t) = Del(next[t], frames[t])
         /\ prev_node(t) \in Here /\ del_node(t) \in There /\ del_node(t) \in Nodes
         /\ del_node(t) # tail => del_node(t) \in Here
         /\ frames[t] # << >> =>
              /\ Len(frames[t]) \in 1..Len(frames[t]) /\ Leads(prev_node(t), del_node(t))
              /\ pc[t] # "backlink" => backlink[del_node(t)] # NULL
         /\ pc[t] \in Helping => frames[t] # << >>
<1>1. /\ Control(pc[t], op[t], key[t], frames[t], after[t])
      /\ Window(pc[t], op[t], key[t], curr[t], next[t], frames[t])
      /\ Frames(pc[t], frames[t]) /\ frames[t] \in Seq(Nodes \X Nodes)
  BY Own, Zenon DEF Good, Values
<1>2. pc[t] \notin {"idle", "next"}
  BY SMT DEF Helping, Help
<1>3. curr[t] \in Here /\ next[t] \in There /\ (pc[t] \in Helping => frames[t] # << >>)
  BY <1>1, <1>2, Zenon DEF Window, Control
<1>4. del_node(t) = Del(next[t], frames[t])
  <2>1. CASE frames[t] = << >>
    BY <2>1, SMT DEF del_node, Frame, Del
  <2>2. CASE frames[t] # << >>
    BY <2>2, Zenon DEF del_node, Frame, Del
  <2> QED
    BY <2>1, <2>2
<1>5. CASE frames[t] = << >>
  <2>1. prev_node(t) = curr[t] /\ del_node(t) = next[t]
    BY <1>5, SMT DEF prev_node, del_node, Frame
  <2>2. next[t] \in Nodes /\ (next[t] # tail => next[t] \in Here)
    BY <1>3, SMT DEF IInv, FieldTypes, Constants, There, Here, Nodes, tail
  <2> QED
    BY <1>3, <1>4, <1>5, <2>1, <2>2, Zenon
<1>6. CASE frames[t] # << >>
  <2>1. Len(frames[t]) \in 1..Len(frames[t])
    BY <1>1, <1>6
  <2>2. /\ prev_node(t) = frames[t][Len(frames[t])][1]
        /\ del_node(t) = frames[t][Len(frames[t])][2]
    BY <1>6, Zenon DEF prev_node, del_node, Frame
  <2>3. /\ Leads(prev_node(t), del_node(t))
        /\ pc[t] # "backlink" => backlink[del_node(t)] # NULL
    BY <1>1, <2>1, <2>2, Zenon DEF Frames
  <2>4. prev_node(t) \in Here /\ del_node(t) \in There
    BY <2>3, Zenon DEF Leads
  <2>5. del_node(t) \in Nodes /\ (del_node(t) # tail => del_node(t) \in Here)
    BY <2>4, SMT DEF IInv, FieldTypes, Constants, There, Here, Nodes, tail
  <2> QED
    BY <1>3, <1>4, <2>1, <2>3, <2>4, <2>5, Zenon
<1> QED
  BY <1>5, <1>6

\* The places of helpMarked, helpFlagged and tryMark.
LEMMA HelpPlaces ==
  ASSUME Constants, IInv, NEW t \in Threads, pc[t] \in Helping \cup Help, pc[t] # "backlink",
         NEW p, NEW r, p \in {"help", "helpcas"} \/ (p \in {"trymarked", "trynext", "trycas", "trycopy"} /\ frames[t] # << >>),
         r = NoRef \/ (/\ p \in {"helpcas", "trycas", "trycopy"}
                       /\ del_node(t) # tail /\ r.ptr # None => Leads(del_node(t), r.ptr)
                       /\ del_node(t) = tail => r.mark # "FLAGGED"),
         p \in {"helpcas", "trycas"} => r.ptr # None
  PROVE  p \in Places /\ Good(p, op[t], key[t], curr[t], next[t], r, frames[t], after[t])
<1>1. /\ Control(pc[t], op[t], key[t], frames[t], after[t])
      /\ Window(pc[t], op[t], key[t], curr[t], next[t], frames[t])
      /\ Frames(pc[t], frames[t])
  BY Own, Zenon DEF Good
<1>2. pc[t] \notin {"idle", "next", "back"} /\ pc[t] \notin Deleting
  BY SMT DEF Helping, Help, Deleting
<1>3. /\ p \in Places /\ p \in Helping \cup Help /\ p \notin Adding /\ p \notin Deleting \cup {"back"}
      /\ p \notin {"idle", "next", "backlink", "searched", "researched", "copy", "addcas"}
      /\ p \in Helping => frames[t] # << >>
      /\ p \in Copying => p = "trycopy"
  BY SMT DEF Places, Helping, Help, Adding, Deleting, Copying
<1>4. Control(p, op[t], key[t], frames[t], after[t])
  BY <1>1, <1>2, <1>3, Zenon DEF Control
<1>5. Window(p, op[t], key[t], curr[t], next[t], frames[t])
  BY <1>1, <1>2, <1>3, Zenon DEF Window
<1>6. Frames(p, frames[t])
  BY <1>1, Zenon DEF Frames
<1>7. Loaded(p, curr[t], next[t], frames[t], r)
  <2>1. del_node(t) = Del(next[t], frames[t])
    BY FrameLeads
  <2>2. r = NoRef => r.ptr = None /\ r.mark # "FLAGGED"
    BY SMT DEF NoRef, make_ref, Constants
  <2>3. p \notin Copying \cup {"helpcas", "trycas"} => r = NoRef
    BY SMT DEF Copying
  <2>4. p = "trycopy" => Source(p, curr[t], next[t], frames[t]) = del_node(t)
    BY <2>1, Zenon DEF Source
  <2> QED
    BY <1>3, <2>1, <2>2, <2>3, <2>4, Zenon DEF Loaded
<1> QED
  BY <1>3, <1>4, <1>5, <1>6, <1>7, Zenon DEF Good

\* One word of a copy of a succ field.
LEMMA SetWord ==
  ASSUME NEW x \in Refs, NEW v
  PROVE  [x EXCEPT !.ptr = v] = make_ref(v, x.mark) /\ [x EXCEPT !.mark = v] = make_ref(x.ptr, v)
BY SMT DEF Refs, make_ref

\* The loads of helpMarked, helpFlagged and tryMark.
LEMMA HelpSteps ==
  ASSUME Constants, IInv, NEW t \in Threads, HelpLoad(t) \/ TestMarked(t) \/ TryNext(t)
  PROVE  IInv'
<1>1. pc[t] \in Helping \cup Help /\ pc[t] # "backlink"
  BY SMT DEF HelpLoad, TestMarked, TryNext, Helping, Help
<1>2. /\ del_node(t) \in Nodes /\ (del_node(t) # tail => del_node(t) \in Here)
      /\ pc[t] \in Helping => frames[t] # << >>
  BY <1>1, FrameLeads, Zenon
<1>3. ref[t] \in Refs
  BY Own, Zenon DEF Values
<1>4. CASE TestMarked(t)
  <2>1. PICK p \in {"help", "trynext"} :
          Goto(t, p) /\ UNCHANGED <<fields, succ, call, curr, next, ref, frames, after>>
    BY <1>4, Zenon DEF TestMarked
  <2>2. pc[t] = "trymarked" /\ pc[t] \in Helping /\ pc[t] \notin Copying \cup {"helpcas", "trycas"}
    BY <1>4, SMT DEF TestMarked, Helping, Copying
  <2>3. ref[t] = NoRef
    BY <2>2, Own, Zenon DEF Good, Loaded
  <2>4. p \in Places /\ Good(p, op[t], key[t], curr[t], next[t], ref[t], frames[t], after[t])
    <3>1. /\ p \in {"help", "helpcas"} \/ (p \in {"trymarked", "trynext", "trycas", "trycopy"} /\ frames[t] # << >>)
          /\ p \notin {"helpcas", "trycas"}
      BY <1>2, <2>2, Zenon
    <3> QED
      BY <1>1, <2>3, <3>1, HelpPlaces, Zenon
  <2> QED
    BY <2>1, <2>4, GotoStep, Zenon
<1>5. CASE HelpLoad(t) \/ TryNext(t)
  <2> DEFINE r == make_ref(succ[del_node(t)].ptr, ref[t].mark)
  <2>1. PICK p \in {"helpcas", "trycas"} :
          /\ Goto(t, p) /\ UNCHANGED <<fields, succ, call, curr, next, frames, after>>
          /\ p = "trycas" => pc[t] = "trynext"
          /\ ref' = [ref EXCEPT ![t].ptr = succ[del_node(t)].ptr]
          /\ pc[t] \in {"help", "trynext"}
    BY <1>5, Zenon DEF HelpLoad, TryNext
  <2>2. Sets(ref, ref', t, r)
    <3>1. [ref[t] EXCEPT !.ptr = succ[del_node(t)].ptr] = r
      BY <1>3, SetWord, Zenon
    <3>2. ref' = [ref EXCEPT ![t] = [ref[t] EXCEPT !.ptr = succ[del_node(t)].ptr]]
      BY <2>1
    <3> QED
      BY <3>1, <3>2, Zenon DEF Sets
  <2>3. pc[t] \notin Copying \cup {"helpcas", "trycas"} /\ (pc[t] = "trynext" => pc[t] \in Helping)
    BY <2>1, SMT DEF Copying, Helping
  <2>4. ref[t].mark = None
    <3>1. ref[t] = NoRef
      BY <2>3, Own, Zenon DEF Good, Loaded
    <3> QED
      BY <3>1, SMT DEF NoRef, make_ref
  <2>5. r.ptr = succ[del_node(t)].ptr /\ r.mark = None
    BY <2>4, SMT DEF make_ref
  <2>6. succ[del_node(t)].ptr \in Nodes \cup {NULL} /\ None \notin Nodes \cup {NULL} /\ None # "FLAGGED"
    BY <1>2, SMT DEF IInv, FieldTypes, Constants, Nodes, NULL
  <2>7. r \in Refs
    BY <2>4, <2>6, SMT DEF make_ref, Refs
  <2>8. del_node(t) # tail => Leads(del_node(t), r.ptr)
    BY <1>2, <2>5, LinkLeads, Zenon
  <2> HIDE DEF r
  <2>9. r.ptr # None /\ r.mark # "FLAGGED"
    BY <2>5, <2>6, Zenon
  <2>10. p \in Places /\ Good(p, op[t], key[t], curr[t], next[t], r, frames[t], after[t])
    BY <1>1, <1>2, <2>1, <2>3, <2>8, <2>9, HelpPlaces, Zenon
  <2>11. Values(p, op[t], key[t], curr[t], next[t], r, frames[t], after[t])
    BY <2>7, <2>10, Own, Zenon DEF Values
  <2>12. /\ Sets(pc, pc', t, p) /\ Sets(curr, curr', t, curr[t]) /\ Sets(next, next', t, next[t])
         /\ Sets(frames, frames', t, frames[t]) /\ Sets(after, after', t, after[t])
         /\ UNCHANGED <<fields, succ, call>>
    BY <2>1, Zenon DEF Sets, Goto
  <2> QED
    BY <2>2, <2>10, <2>11, <2>12, QuietStep, Zenon
<1> QED
  BY <1>4, <1>5

\* The node whose succ field is copied, and the words of the field.
LEMMA CopyPlace ==
  ASSUME Constants, IInv, NEW t \in Threads, pc[t] \in Copying
  PROVE  /\ Copied(t) = Source(pc[t], curr[t], next[t], frames[t])
         /\ Copied(t) \in Nodes /\ (Copied(t) # tail => Copied(t) \in Here)
         /\ succ[Copied(t)].ptr \in Nodes \cup {NULL} /\ succ[Copied(t)].mark \in Marks
         /\ Copied(t) # tail => Leads(Copied(t), succ[Copied(t)].ptr)
         /\ Copied(t) = tail => succ[Copied(t)].mark # "FLAGGED"
         /\ None \notin Nodes \cup {NULL} /\ None \notin Marks
<1>1. /\ Copied(t) = Source(pc[t], curr[t], next[t], frames[t])
      /\ Copied(t) \in Nodes /\ (Copied(t) # tail => Copied(t) \in Here)
  <2>1. CASE pc[t] = "trycopy"
    <3>1. pc[t] \in Helping \cup Help
      BY <2>1, SMT DEF Helping
    <3>2. /\ del_node(t) = Del(next[t], frames[t])
          /\ del_node(t) \in Nodes /\ (del_node(t) # tail => del_node(t) \in Here)
      BY <3>1, FrameLeads, Zenon
    <3> QED
      BY <2>1, <3>2, Zenon DEF Copied, Source
  <2>2. CASE pc[t] # "trycopy"
    <3>1. pc[t] # "idle"
      BY SMT DEF Copying
    <3>2. curr[t] \in Here
      BY <3>1, SearchPlace, Zenon
    <3>3. curr[t] \in Nodes
      BY <3>2, LinkLeads, Zenon
    <3> QED
      BY <2>2, <3>2, <3>3, Zenon DEF Copied, Source
  <2> QED
    BY <2>1, <2>2
<1>2. FieldTypes /\ Links
  BY Zenon DEF IInv
<1>3. succ[Copied(t)].ptr \in Nodes \cup {NULL} /\ succ[Copied(t)].mark \in Marks
  <2>1. succ[Copied(t)] \in [ptr : Nodes \cup {NULL}, mark : Marks]
    BY <1>1, <1>2, Zenon DEF FieldTypes
  <2> QED
    BY <2>1, SMT
<1>4. Copied(t) # tail => Leads(Copied(t), succ[Copied(t)].ptr)
  BY <1>1, LinkLeads, Zenon
<1>5. Copied(t) = tail => succ[Copied(t)].mark # "FLAGGED"
  BY <1>2, Zenon DEF Links
<1>6. None \notin Nodes \cup {NULL} /\ None \notin Marks
  BY SMT DEF Constants, Nodes, NULL, Marks
<1> QED
  BY <1>1, <1>3, <1>4, <1>5, <1>6

\* The first word of a copy.
LEMMA FirstWordStep ==
  ASSUME Constants, IInv, NEW t \in Threads, FirstWord(t)
  PROVE  IInv'
<1>1. pc[t] \in Copying /\ ref[t] = NoRef
  BY Zenon DEF FirstWord, Copying
<1> DEFINE m == Copied(t)
<1>2. /\ m = Source(pc[t], curr[t], next[t], frames[t])
      /\ succ[m].ptr \in Nodes \cup {NULL} /\ succ[m].mark \in Marks
      /\ m # tail => Leads(m, succ[m].ptr)
      /\ m = tail => succ[m].mark # "FLAGGED"
      /\ None \notin Marks
  BY <1>1, CopyPlace, Zenon
<1> HIDE DEF m
<1>3. PICK r : /\ Sets(ref, ref', t, r)
               /\ r = make_ref(succ[m].ptr, None) \/ r = make_ref(None, succ[m].mark)
  <2>1. PICK w \in {"ptr", "mark"} : ref' = [ref EXCEPT ![t][w] = succ[m][w]]
    BY Zenon DEF FirstWord, m
  <2>2. ref' = [ref EXCEPT ![t] = [ref[t] EXCEPT ![w] = succ[m][w]]]
    BY <2>1
  <2>3. ref[t] \in Refs /\ ref[t].ptr = None /\ ref[t].mark = None
    BY <1>1, SMT DEF NoRef, make_ref, Refs
  <2>4. CASE w = "ptr"
    <3>1. ref' = [ref EXCEPT ![t] = [ref[t] EXCEPT !.ptr = succ[m].ptr]]
      BY <2>2, <2>4, Zenon
    <3>2. [ref[t] EXCEPT !.ptr = succ[m].ptr] = make_ref(succ[m].ptr, ref[t].mark)
      BY <2>3, SetWord, Zenon
    <3> QED
      BY <2>3, <3>1, <3>2, Zenon DEF Sets
  <2>5. CASE w = "mark"
    <3>1. ref' = [ref EXCEPT ![t] = [ref[t] EXCEPT !.mark = succ[m].mark]]
      BY <2>2, <2>5, Zenon
    <3>2. [ref[t] EXCEPT !.mark = succ[m].mark] = make_ref(ref[t].ptr, succ[m].mark)
      BY <2>3, SetWord, Zenon
    <3> QED
      BY <2>3, <3>1, <3>2, Zenon DEF Sets
  <2> QED
    BY <2>1, <2>4, <2>5, Zenon
<1>4. /\ r \in Refs
      /\ r.ptr = None \/ r.ptr = succ[m].ptr
      /\ r.mark = None \/ r.mark = succ[m].mark
  BY <1>2, <1>3, SMT DEF make_ref, Refs
<1>5. /\ m # tail /\ r.ptr # None => Leads(m, r.ptr)
      /\ m = tail => r.mark # "FLAGGED"
  <2>1. None # "FLAGGED"
    BY <1>2, SMT DEF Marks
  <2> QED
    BY <1>2, <1>4, <2>1, Zenon
<1>6. pc[t] \notin {"helpcas", "trycas"}
  BY <1>1, SMT DEF Copying
<1>7. Good(pc[t], op[t], key[t], curr[t], next[t], r, frames[t], after[t])
  <2>1. Good(pc[t], op[t], key[t], curr[t], next[t], ref[t], frames[t], after[t])
    BY Own, Zenon
  <2> QED
    BY <1>1, <1>2, <1>5, <1>6, <2>1, Zenon DEF Good, Loaded
<1>8. Values(pc[t], op[t], key[t], curr[t], next[t], r, frames[t], after[t])
  BY <1>4, Own, Zenon DEF Values
<1>9. /\ Sets(pc, pc', t, pc[t]) /\ Sets(curr, curr', t, curr[t]) /\ Sets(next, next', t, next[t])
      /\ Sets(frames, frames', t, frames[t]) /\ Sets(after, after', t, after[t])
      /\ UNCHANGED <<fields, succ, call>>
  BY Zenon DEF Sets, FirstWord
<1> QED
  BY <1>3, <1>7, <1>8, <1>9, QuietStep, Zenon

\* A copy with a flag: even when its words are of two moments, the node it says is
\* to be deleted comes after the one it was copied from.
LEMMA CopyLeads ==
  ASSUME Constants, IInv, NEW t \in Threads, pc[t] \in Copying, Copy(t).mark = "FLAGGED"
  PROVE  Leads(Copied(t), Copy(t).ptr)
<1> DEFINE m == Copied(t)
<1>1. /\ m = Source(pc[t], curr[t], next[t], frames[t])
      /\ m # tail => Leads(m, succ[m].ptr)
      /\ m = tail => succ[m].mark # "FLAGGED"
  BY CopyPlace, Zenon
<1>2. /\ Copy(t).ptr = IF ref[t].ptr = None THEN succ[m].ptr ELSE ref[t].ptr
      /\ Copy(t).mark = IF ref[t].mark = None THEN succ[m].mark ELSE ref[t].mark
  BY SMT DEF Copy
<1> HIDE DEF m
<1>3. /\ m # tail /\ ref[t].ptr # None => Leads(m, ref[t].ptr)
      /\ m = tail => ref[t].mark # "FLAGGED"
  BY <1>1, Own, Zenon DEF Good, Loaded
<1>4. m # tail
  BY <1>1, <1>2, <1>3, Zenon
<1>5. Leads(m, Copy(t).ptr)
  BY <1>1, <1>2, <1>3, <1>4, Zenon
<1> QED
  BY <1>5, Zenon DEF m

\* helpFlagged is called with two nodes, one before the other.
LEMMA HelpFrame ==
  ASSUME Constants, IInv, NEW t \in Threads,
         pc[t] \in {"trycopy", "copy", "recopy", "flagmark", "flagcas", "flagcopy"},
         NEW m, NEW n, Leads(m, n), NEW a,
         \/ op[t] = "add" /\ a \in {"again", "back"}
         \/ op[t] = "delete" /\ a \in {"true", "false"}
  PROVE  /\ Values("backlink", op[t], key[t], curr[t], next[t], NoRef, Append(frames[t], <<m, n>>), a)
         /\ Good("backlink", op[t], key[t], curr[t], next[t], NoRef, Append(frames[t], <<m, n>>), a)
<1> DEFINE f == Append(frames[t], <<m, n>>)
<1>1. /\ Control(pc[t], op[t], key[t], frames[t], after[t])
      /\ Window(pc[t], op[t], key[t], curr[t], next[t], frames[t])
      /\ Frames(pc[t], frames[t])
      /\ Values(pc[t], op[t], key[t], curr[t], next[t], ref[t], frames[t], after[t])
  BY Own, Zenon DEF Good
<1>2. /\ pc[t] \notin {"idle", "next", "backlink"} /\ (pc[t] = "trycopy" => pc[t] \in Helping)
      /\ pc[t] \in {"flagmark", "flagcas", "flagcopy"} => pc[t] \in Deleting
      /\ pc[t] \in {"copy", "recopy"} => pc[t] \in Adding
      /\ "backlink" \in Helping /\ "backlink" \in Places
      /\ "backlink" \notin Adding \cup Deleting \cup Search \cup Help \cup Copying
  BY SMT DEF Helping, Deleting, Adding, Search, Help, Copying, Places
<1>3. /\ frames[t] \in Seq(Nodes \X Nodes) /\ m \in Nodes /\ n \in Nodes
  <2>1. m \in Nodes /\ n \in Nodes
    BY LinkedNodes, Zenon DEF IInv, Leads
  <2> QED
    BY <1>1, <2>1, Zenon DEF Values
<1>4. /\ f \in Seq(Nodes \X Nodes) /\ f # << >> /\ Len(f) = Len(frames[t]) + 1 /\ Len(frames[t]) \in Nat
      /\ f[Len(f)] = <<m, n>> /\ \A j \in 1..Len(frames[t]) : f[j] = frames[t][j]
  BY <1>3
<1>5. op[t] # None /\ key[t] \in Keys /\ a \in Places
  <2>1. a \in Places
    BY SMT DEF Places, Adding, Deleting
  <2> QED
    BY <1>1, <1>2, <2>1, Zenon DEF Control
<1>6. op[t] = "delete" => nkey[next[t]] = key[t]
  BY <1>1, <1>2, Zenon DEF Window, Control
<1>7. curr[t] \in Here /\ nkey[curr[t]] < key[t] /\ next[t] \in There
  BY <1>1, <1>2, Zenon DEF Window
<1>8. Frames("backlink", f)
  <2>1. ASSUME NEW j \in 1..Len(f)
        PROVE  Leads(f[j][1], f[j][2]) /\ (j # Len(f) => backlink[f[j][2]] # NULL)
    <3>1. CASE j = Len(f)
      BY <3>1, <1>4
    <3>2. CASE j # Len(f)
      <4>1. j \in 1..Len(frames[t])
        BY <3>2, <1>4
      <4>2. Leads(frames[t][j][1], frames[t][j][2]) /\ backlink[frames[t][j][2]] # NULL
        BY <4>1, <1>1, <1>2, Zenon DEF Frames
      <4> QED
        BY <4>1, <4>2, <1>4, Zenon
    <3> QED
      BY <3>1, <3>2
  <2> QED
    BY <2>1, Zenon DEF Frames
<1> HIDE DEF f
<1>9. Control("backlink", op[t], key[t], f, a)
  BY <1>2, <1>4, <1>5, Zenon DEF Control
<1>10. Window("backlink", op[t], key[t], curr[t], next[t], f)
  BY <1>6, <1>7, Zenon DEF Window
<1>11. Loaded("backlink", curr[t], next[t], f, NoRef)
  BY <1>2, Zenon DEF Loaded
<1>12. NoRef \in Refs
  BY SMT DEF NoRef, make_ref, Refs
<1>13. Values("backlink", op[t], key[t], curr[t], next[t], NoRef, f, a)
  BY <1>1, <1>2, <1>4, <1>5, <1>12, Zenon DEF Values
<1> QED
  BY <1>8, <1>9, <1>10, <1>11, <1>13, Zenon DEF Good, f

\* A copy that is done, or a mark that is read, and the call of helpFlagged or not.
LEMMA HelpStart ==
  ASSUME Constants, IInv, NEW t \in Threads,
         pc[t] \in {"trycopy", "copy", "recopy", "flagmark", "flagcopy"},
         NEW m, NEW n, Leads(m, n), NEW a,
         \/ op[t] = "add" /\ a \in {"again", "back"}
         \/ op[t] = "delete" /\ a \in {"true", "false"},
         helpFlagged(t, m, n, a), UNCHANGED <<fields, succ, call, curr, next>>
  PROVE  IInv'
<1>1. /\ Values("backlink", op[t], key[t], curr[t], next[t], NoRef, Append(frames[t], <<m, n>>), a)
      /\ Good("backlink", op[t], key[t], curr[t], next[t], NoRef, Append(frames[t], <<m, n>>), a)
  BY HelpFrame
<1>2. /\ Sets(pc, pc', t, "backlink") /\ Sets(curr, curr', t, curr[t]) /\ Sets(next, next', t, next[t])
      /\ Sets(ref, ref', t, NoRef) /\ Sets(frames, frames', t, Append(frames[t], <<m, n>>))
      /\ Sets(after, after', t, a) /\ UNCHANGED <<fields, succ, call>>
  BY Zenon DEF helpFlagged, Goto, Sets
<1> QED
  BY <1>1, <1>2, QuietStep, Zenon

\* A copy without a flag.
LEMMA CopyEnds ==
  ASSUME Constants, IInv, NEW t \in Threads, NEW p,
         \/ pc[t] = "copy" /\ p = "addcas"
         \/ pc[t] \in {"recopy", "flagcopy"} /\ p = "back"
         \/ pc[t] = "trycopy" /\ p = "trymarked",
         Goto(t, p), ref' = [ref EXCEPT ![t] = NoRef], UNCHANGED <<fields, succ, call, curr, next, frames, after>>
  PROVE  IInv'
<1>1. /\ Control(pc[t], op[t], key[t], frames[t], after[t])
      /\ Window(pc[t], op[t], key[t], curr[t], next[t], frames[t])
      /\ Values(pc[t], op[t], key[t], curr[t], next[t], ref[t], frames[t], after[t])
  BY Own, Zenon DEF Good
<1>2. p \in Places /\ Good(p, op[t], key[t], curr[t], next[t], NoRef, frames[t], after[t])
  <2>1. CASE pc[t] = "trycopy" /\ p = "trymarked"
    <3>1. pc[t] \in Helping /\ pc[t] # "backlink" /\ p \notin {"helpcas", "trycas"}
      BY <2>1, SMT DEF Helping
    <3>2. frames[t] # << >>
      BY <1>1, <3>1, Zenon DEF Control
    <3> QED
      BY <2>1, <3>1, <3>2, HelpPlaces, Zenon
  <2>2. CASE pc[t] # "trycopy"
    <3>1. /\ pc[t] \notin Helping \cup Help /\ pc[t] \notin {"idle", "next"}
          /\ pc[t] = "flagcopy" => pc[t] \in Deleting
          /\ pc[t] \in {"copy", "recopy"} => pc[t] \in Adding
          /\ p \notin {"idle", "next", "searched", "researched", "copy"}
          /\ p \notin Helping \cup Help \cup Search /\ p \notin Copying \cup {"helpcas", "trycas"}
          /\ p \notin Deleting /\ p \in Places
      BY <2>2, SMT DEF Helping, Help, Search, Deleting, Adding, Copying, Places
    <3>2. /\ frames[t] = << >> /\ op[t] # None /\ key[t] \in Keys
          /\ p \in Adding => op[t] = "add"
          /\ p = "back" => op[t] \in {"add", "delete"}
      BY <1>1, <2>2, <3>1, Zenon DEF Control, Adding
    <3>3. /\ curr[t] \in Here /\ nkey[curr[t]] < key[t] /\ next[t] \in There
          /\ p = "addcas" => key[t] <= nkey[next[t]]
          /\ op[t] = "delete" /\ p = "back" => nkey[next[t]] = key[t]
      BY <1>1, <2>2, <3>1, Zenon DEF Window, Control
    <3>4. Control(p, op[t], key[t], frames[t], after[t])
      BY <3>1, <3>2, Zenon DEF Control
    <3>5. Window(p, op[t], key[t], curr[t], next[t], frames[t])
      BY <3>1, <3>2, <3>3, Zenon DEF Window
    <3>6. Frames(p, frames[t])
      BY <3>2, SMT DEF Frames
    <3>7. Loaded(p, curr[t], next[t], frames[t], NoRef)
      BY <3>1, Zenon DEF Loaded
    <3> QED
      BY <3>1, <3>4, <3>5, <3>6, <3>7, Zenon DEF Good
  <2> QED
    BY <2>1, <2>2
<1>3. NoRef \in Refs
  BY SMT DEF NoRef, make_ref, Refs
<1>4. Values(p, op[t], key[t], curr[t], next[t], NoRef, frames[t], after[t])
  BY <1>1, <1>2, <1>3, Zenon DEF Values
<1>5. /\ Sets(pc, pc', t, p) /\ Sets(curr, curr', t, curr[t]) /\ Sets(next, next', t, next[t])
      /\ Sets(ref, ref', t, NoRef) /\ Sets(frames, frames', t, frames[t])
      /\ Sets(after, after', t, after[t]) /\ UNCHANGED <<fields, succ, call>>
  BY Zenon DEF Goto, Sets
<1> QED
  BY <1>2, <1>4, <1>5, QuietStep, Zenon

\* The ends of the copies, and tryFlag's look at the mark.
LEMMA CopySteps ==
  ASSUME Constants, IInv, NEW t \in Threads,
         TryCopied(t) \/ AddCopied(t) \/ AddRecopied(t) \/ FlagLoadMark(t) \/ FlagCopied(t)
  PROVE  IInv'
<1>1. /\ Control(pc[t], op[t], key[t], frames[t], after[t])
      /\ Window(pc[t], op[t], key[t], curr[t], next[t], frames[t])
  BY Own, Zenon DEF Good
<1>2. CASE TryCopied(t) \/ AddCopied(t) \/ AddRecopied(t)
  <2>1. pc[t] \in {"trycopy", "copy", "recopy"} /\ UNCHANGED <<fields, succ, call, curr, next>>
    BY <1>2, Zenon DEF TryCopied, AddCopied, AddRecopied, HasFirst
  <2>2. pc[t] \in Copying /\ (pc[t] = "trycopy" => pc[t] \in Helping)
    BY <2>1, SMT DEF Copying, Helping
  <2>3. CASE Copy(t).mark = "FLAGGED"
    <3>1. Leads(Copied(t), Copy(t).ptr)
      BY <2>2, <2>3, CopyLeads, Zenon
    <3>2. PICK a : /\ helpFlagged(t, Copied(t), Copy(t).ptr, a)
                   /\ \/ a = after[t] /\ pc[t] = "trycopy"
                      \/ a \in {"again", "back"} /\ pc[t] \in {"copy", "recopy"}
      BY <1>2, <2>3, Zenon DEF TryCopied, AddCopied, AddRecopied, HasFirst, Copied
    <3>3. \/ op[t] = "add" /\ a \in {"again", "back"}
          \/ op[t] = "delete" /\ a \in {"true", "false"}
      BY <1>1, <2>2, <3>2, OwnCall, Zenon DEF Control
    <3> QED
      BY <2>1, <3>1, <3>2, <3>3, HelpStart, Zenon
  <2>4. CASE Copy(t).mark # "FLAGGED"
    <3>1. PICK p : /\ \/ pc[t] = "copy" /\ p = "addcas"
                      \/ pc[t] \in {"recopy", "flagcopy"} /\ p = "back"
                      \/ pc[t] = "trycopy" /\ p = "trymarked"
                   /\ Goto(t, p) /\ ref' = [ref EXCEPT ![t] = NoRef] /\ UNCHANGED <<frames, after>>
      BY <1>2, <2>4, Zenon DEF TryCopied, AddCopied, AddRecopied, HasFirst
    <3>2. UNCHANGED <<fields, succ, call, curr, next, frames, after>>
      BY <2>1, <3>1, Zenon
    <3> QED
      BY <3>1, <3>2, CopyEnds, Zenon
  <2> QED
    BY <2>3, <2>4
<1>3. CASE FlagLoadMark(t) \/ FlagCopied(t)
  <2>1. pc[t] \in {"flagmark", "flagcopy"} /\ UNCHANGED <<fields, succ, call, curr, next>>
    BY <1>3, Zenon DEF FlagLoadMark, FlagCopied, HasFirst
  <2>2. op[t] = "delete" /\ nkey[next[t]] = key[t] /\ pc[t] \notin {"idle", "next"}
    BY <2>1, OwnCall, Zenon
  <2>3. CASE helpFlagged(t, curr[t], next[t], "false")
    <3>1. Leads(curr[t], next[t])
      BY <1>1, <2>2, Zenon DEF Window, Leads, Before
    <3> QED
      BY <2>1, <2>2, <2>3, <3>1, HelpStart, Zenon
  <2>4. CASE FlagLoadMark(t) /\ ~ helpFlagged(t, curr[t], next[t], "false")
    <3>1. pc[t] = "flagmark" /\ Goto(t, "flagcas") /\ UNCHANGED <<ref, frames, after>>
      BY <2>4, Zenon DEF FlagLoadMark
    <3>2. UNCHANGED <<fields, succ, call, curr, next, ref, frames, after>>
      BY <2>1, <3>1, Zenon
    <3>3. "flagcas" \in Places /\ Good("flagcas", op[t], key[t], curr[t], next[t], ref[t], frames[t], after[t])
      BY <2>2, <3>1, OwnPlaces
    <3> QED
      BY <3>1, <3>2, <3>3, GotoStep, Zenon
  <2>5. CASE FlagCopied(t) /\ ~ helpFlagged(t, curr[t], next[t], "false")
    <3>1. pc[t] = "flagcopy" /\ Goto(t, "back") /\ ref' = [ref EXCEPT ![t] = NoRef] /\ UNCHANGED <<frames, after>>
      BY <2>5, Zenon DEF FlagCopied, HasFirst
    <3>2. UNCHANGED <<fields, succ, call, curr, next, frames, after>>
      BY <2>1, <3>1, Zenon
    <3> QED
      BY <3>1, <3>2, CopyEnds, Zenon
  <2> QED
    BY <1>3, <2>3, <2>4, <2>5
<1> QED
  BY <1>2, <1>3

\* A list node comes before another with a smaller key or with the same.
LEMMA BackLeads ==
  ASSUME Constants, IInv, NEW m, NEW n, Leads(m, n), NEW k \in Keys, nkey[n] < k
  PROVE  nkey[m] < k
<1>1. m \in Nodes /\ n \in Nodes /\ FieldTypes
  BY LinkedNodes, Zenon DEF IInv, Leads
<1>2. nkey[m] \in Int /\ nkey[n] \in Int /\ k \in Int
  BY <1>1 DEF FieldTypes, Constants
<1>3. nkey[m] <= nkey[n]
  BY <1>2, SMT DEF Leads, Before
<1> QED
  BY <1>2, <1>3, SMT

\* The way back along the backlinks, and what comes after it.
LEMMA BackStep ==
  ASSUME Constants, IInv, NEW t \in Threads, Back(t)
  PROVE  IInv'
<1>1. /\ Control(pc[t], op[t], key[t], frames[t], after[t])
      /\ Window(pc[t], op[t], key[t], curr[t], next[t], frames[t])
      /\ Loaded(pc[t], curr[t], next[t], frames[t], ref[t])
      /\ Values(pc[t], op[t], key[t], curr[t], next[t], ref[t], frames[t], after[t])
  BY Own, Zenon DEF Good
<1>2. /\ pc[t] = "back" /\ pc[t] \notin {"idle", "next"} /\ pc[t] \notin Helping \cup Help
      /\ pc[t] \notin Copying \cup {"helpcas", "trycas"}
  BY SMT DEF Back, Helping, Help, Copying
<1>3. /\ frames[t] = << >> /\ ref[t] = NoRef /\ key[t] \in Keys /\ op[t] # None /\ op[t] \in {"add", "delete"}
      /\ curr[t] \in Here /\ nkey[curr[t]] < key[t] /\ next[t] \in There
      /\ op[t] = "delete" => nkey[next[t]] = key[t]
  <2>1. frames[t] = << >> /\ ref[t] = NoRef /\ key[t] \in Keys /\ op[t] # None /\ op[t] \in {"add", "delete"}
    BY <1>1, <1>2, Zenon DEF Control, Loaded
  <2>2. /\ curr[t] \in Here /\ nkey[curr[t]] < key[t] /\ next[t] \in There
        /\ op[t] = "delete" => nkey[next[t]] = key[t]
    BY <1>1, <1>2, Zenon DEF Window
  <2> QED
    BY <2>1, <2>2
<1>4. PICK p, c : /\ Sets(pc, pc', t, p) /\ Sets(curr, curr', t, c)
                  /\ c = curr[t] \/ (IsMarked(curr[t]) /\ c = backlink[curr[t]])
                  /\ p = "back" \/ (p = "again" /\ op[t] = "add") \/ (p = "flagptr" /\ op[t] = "delete")
  <2>1. CASE IsMarked(curr[t])
    <3>1. Sets(pc, pc', t, "back") /\ Sets(curr, curr', t, backlink[curr[t]])
      BY <1>2, <2>1, Zenon DEF Back, Sets
    <3> QED
      BY <2>1, <3>1, Zenon
  <2>2. CASE ~ IsMarked(curr[t])
    <3>1. Sets(pc, pc', t, IF op[t] = "add" THEN "again" ELSE "flagptr") /\ Sets(curr, curr', t, curr[t])
      BY <2>2, Zenon DEF Back, Sets, Goto
    <3> QED
      BY <1>3, <3>1, Zenon
  <2> QED
    BY <2>1, <2>2
<1>5. c \in Here /\ nkey[c] < key[t] /\ c \in Nodes
  <2>1. CASE c = curr[t]
    BY <1>3, <2>1, LinkLeads, Zenon
  <2>2. CASE IsMarked(curr[t]) /\ c = backlink[curr[t]]
    <3>1. Leads(c, curr[t]) /\ c \in Nodes
      BY <1>3, <2>2, LinkLeads, Zenon
    <3> QED
      BY <1>3, <3>1, BackLeads, Zenon DEF Leads
  <2> QED
    BY <1>4, <2>1, <2>2
<1>6. /\ p \notin {"idle", "next", "searched", "researched", "copy", "addcas"}
      /\ p \notin Helping \cup Help \cup Search /\ p \notin Copying \cup {"helpcas", "trycas"}
      /\ p \in Places /\ (p \in Adding => op[t] = "add") /\ (p \in Deleting => op[t] = "delete")
  BY <1>4, SMT DEF Helping, Help, Search, Copying, Places, Adding, Deleting
<1>7. Control(p, op[t], key[t], frames[t], after[t])
  BY <1>3, <1>6, Zenon DEF Control
<1>8. Window(p, op[t], key[t], c, next[t], frames[t])
  BY <1>3, <1>5, <1>6, Zenon DEF Window
<1>9. Frames(p, frames[t])
  BY <1>3, SMT DEF Frames
<1>10. Loaded(p, c, next[t], frames[t], ref[t])
  BY <1>3, <1>6, Zenon DEF Loaded
<1>11. Values(p, op[t], key[t], c, next[t], ref[t], frames[t], after[t])
  BY <1>1, <1>5, <1>6, Zenon DEF Values
<1>12. /\ Sets(next, next', t, next[t]) /\ Sets(ref, ref', t, ref[t]) /\ Sets(frames, frames', t, frames[t])
       /\ Sets(after, after', t, after[t]) /\ UNCHANGED <<fields, succ, call>>
  BY Zenon DEF Back, Sets
<1> QED
  BY <1>4, <1>7, <1>8, <1>9, <1>10, <1>11, <1>12, QuietStep, Zenon DEF Good

\* A search starts at list->head.
LEMMA SearchStart ==
  ASSUME Constants, IInv, NEW o \in {"add", "delete", "find"}, NEW k \in Keys, NEW a,
         a = "searched" \/ (a = "researched" /\ o = "add")
  PROVE  Values("next", o, k, head, NULL, NoRef, << >>, a) /\ Good("next", o, k, head, NULL, NoRef, << >>, a)
<1>1. /\ "next" \notin Adding \cup Deleting \cup {"back"} /\ "next" \notin Helping \cup Help
      /\ "next" \notin Copying \cup {"helpcas", "trycas"} /\ "next" \in Places /\ a \in Places
  BY SMT DEF Adding, Deleting, Helping, Help, Search, Copying, Places
<1>2. head \in Here /\ nkey[head] < k /\ head \in Nodes
  <2>1. FieldTypes
    BY Zenon DEF IInv
  <2> QED BY <2>1, SMT DEF FieldTypes, Constants, Here, head, Nodes
<1>3. NoRef \in Refs
  BY SMT DEF NoRef, make_ref, Refs
<1>4. o # None
  BY SMT DEF Constants
<1>5. Control("next", o, k, << >>, a)
  BY <1>1, <1>4, Zenon DEF Control
<1>6. Window("next", o, k, head, NULL, << >>)
  BY <1>1, <1>2, Zenon DEF Window
<1>7. Frames("next", << >>)
  BY SMT DEF Frames
<1>8. Loaded("next", head, NULL, << >>, NoRef)
  BY <1>1, Zenon DEF Loaded
<1>9. Values("next", o, k, head, NULL, NoRef, << >>, a)
  <2>1. << >> \in Seq(Nodes \X Nodes)
    BY SMT
  <2> QED
    BY <1>1, <1>2, <1>3, <2>1, Zenon DEF Values
<1> QED
  BY <1>5, <1>6, <1>7, <1>8, <1>9, Zenon DEF Good

\* add searches once more.
LEMMA AddAgainStep ==
  ASSUME Constants, IInv, NEW t \in Threads, AddAgain(t)
  PROVE  IInv'
<1>1. pc[t] = "again" /\ pc[t] \notin Helping \cup Help /\ pc[t] \notin Copying \cup {"helpcas", "trycas"}
  BY SMT DEF AddAgain, Helping, Help, Copying
<1>2. frames[t] = << >> /\ ref[t] = NoRef /\ key[t] \in Keys /\ op[t] = "add"
  <2>1. /\ Control(pc[t], op[t], key[t], frames[t], after[t])
        /\ Loaded(pc[t], curr[t], next[t], frames[t], ref[t])
    BY Own, Zenon DEF Good
  <2>2. frames[t] = << >> /\ ref[t] = NoRef /\ key[t] \in Keys
    BY <1>1, <2>1, Zenon DEF Control, Loaded
  <2> QED
    BY <1>1, <2>2, OwnCall, Zenon
<1>3. /\ Values("next", op[t], key[t], head, NULL, ref[t], frames[t], "researched")
      /\ Good("next", op[t], key[t], head, NULL, ref[t], frames[t], "researched")
  BY <1>2, SearchStart, Zenon
<1>4. /\ Sets(pc, pc', t, "next") /\ Sets(curr, curr', t, head) /\ Sets(next, next', t, NULL)
      /\ Sets(ref, ref', t, ref[t]) /\ Sets(frames, frames', t, frames[t]) /\ Sets(after, after', t, "researched")
      /\ UNCHANGED <<fields, succ, call>>
  BY Zenon DEF AddAgain, StartSearch, Goto, Sets
<1> QED
  BY <1>3, <1>4, QuietStep, Zenon

\* A function is called, an add only while there is a node for it.
LEMMA CallStep ==
  ASSUME Constants, IInv, NEW t \in Threads, NEW o \in {"add", "delete", "find"}, NEW k \in Keys, Call(t, o, k)
  PROVE  IInv'
<1>1. pc[t] = "idle" /\ pc[t] \notin Helping \cup Help /\ pc[t] \notin Copying \cup {"helpcas", "trycas"}
  BY SMT DEF Call, Helping, Help, Copying
<1>2. frames[t] = << >> /\ ref[t] = NoRef /\ op[t] = None
  BY <1>1, Own, Zenon DEF Good, Control, Loaded
<1>3. UNCHANGED <<fields, succ>>
  BY Zenon DEF Call
<1>4. /\ Values("next", o, k, head, NULL, NoRef, << >>, "searched")
      /\ Good("next", o, k, head, NULL, NoRef, << >>, "searched")
  BY SearchStart, Zenon
<1>5. FieldTypes' /\ Links' /\ Grows /\ Good("next", o, k, head, NULL, NoRef, << >>, "searched")'
  BY <1>3, <1>4, FieldsKept, GoodKept, Zenon DEF head, NULL
<1>6. Moves(t, "next", o, k, head, NULL, NoRef, << >>, "searched")
  BY <1>2, Zenon DEF Call, StartSearch, Goto, Sets, Moves
<1>7. Room'
  <2>1. Room /\ FieldTypes /\ ThreadTypes /\ linked' = linked
    BY <1>3, Zenon DEF IInv, fields
  <2>2. op' = [op EXCEPT ![t] = o] /\ (o = "add" => linked + Cardinality(Adders) < MaxNodes)
    BY Zenon DEF Call, Adders
  <2>3. IF o = "add" THEN Adders' = Adders \cup {t} ELSE Adders' = Adders
    BY <2>1, <2>2, <1>2, SMT DEF Adders, ThreadTypes, Constants
  <2>4. IsFiniteSet(Adders) /\ t \notin Adders
    <3>1. None # "add"
      BY SMT DEF Constants
    <3> QED
      BY <1>2, <3>1, FS_Subset, Zenon DEF Adders, Constants
  <2>5. /\ Cardinality(Adders \cup {t}) = Cardinality(Adders) + 1
        /\ Cardinality(Adders) \in Nat
    BY <2>4, FS_AddElement, FS_CardinalityType, Zenon
  <2>6. linked \in Nat /\ MaxNodes \in Nat
    BY <2>1, SMT DEF FieldTypes, Constants
  <2> QED
    BY <2>1, <2>2, <2>3, <2>5, <2>6, SMT DEF Room
<1> QED
  BY <1>4, <1>5, <1>6, <1>7, StepDone, Zenon

-----------------------------------------------------------------------------
(* The steps that change the fields of the nodes *)

\* Of three nodes each comes before the next.
LEMMA LeadsOn ==
  ASSUME Constants, IInv, NEW m, NEW n, NEW q, Leads(m, n), n \in Here, Leads(n, q)
  PROVE  Leads(m, q)
<1>1. m \in Nodes /\ n \in Nodes /\ q \in Nodes /\ FieldTypes
  BY LinkedNodes, Zenon DEF IInv, Leads
<1>2. nkey[m] \in Int /\ nkey[n] \in Int /\ nkey[q] \in Int /\ m \in Int /\ n \in Int /\ q \in Int
  BY <1>1, SMT DEF FieldTypes, Constants, Nodes
<1>3. Before(m, n) /\ Before(n, q) => Before(m, q)
  BY <1>2, SMT DEF Before
<1> QED
  BY <1>3, Zenon DEF Leads

\* A cas() of a succ field, which leaves the list as long as it was.
Cas(m, x) ==
  \/ succ' = succ
  \/ /\ succ' = [succ EXCEPT ![m] = x] /\ x \in [ptr : Nodes \cup {NULL}, mark : Marks]
     /\ m = tail => x.mark # "FLAGGED"
     /\ m # tail => /\ Leads(m, x.ptr)
                    /\ x.mark = "FLAGGED" => x.ptr # tail
                    /\ x.mark = "MARKED" => backlink[m] # NULL

\* Such a cas() keeps the links leading on.
LEMMA CasStep ==
  ASSUME Constants, IInv, NEW m \in Nodes, NEW x, UNCHANGED fields, Cas(m, x)
  PROVE  FieldTypes' /\ Links'
<1>1. nkey' = nkey /\ backlink' = backlink /\ linked' = linked
  BY DEF fields
<1>2. FieldTypes /\ Links
  BY Zenon DEF IInv
<1>3. \A i, j : Leads(i, j)' <=> Leads(i, j)
  BY GoodKept, Zenon
<1>4. FieldTypes'
  <2>1. succ' \in [Nodes -> [ptr : Nodes \cup {NULL}, mark : Marks]]
    BY <1>2, Zenon DEF FieldTypes, Cas
  <2> QED
    BY <1>1, <1>2, <2>1, Zenon DEF FieldTypes
<1>5. Links'
  <2>1. tail \in Nodes /\ Here \subseteq Nodes /\ tail \notin Here /\ DOMAIN succ = Nodes
    BY <1>2, SMT DEF FieldTypes, Constants, Here, Nodes, tail
  <2>2. \A i \in Nodes : succ'[i] = succ[i] \/ (i = m /\ succ'[i] = x /\ succ' # succ)
    BY <2>1, Zenon DEF Cas
  <2>3. ASSUME NEW i \in Here
        PROVE  /\ Leads(i, succ'[i].ptr)
               /\ succ'[i].mark = "FLAGGED" => succ'[i].ptr # tail
               /\ backlink[i] # NULL => Leads(backlink[i], i)
               /\ succ'[i].mark = "MARKED" => backlink[i] # NULL
    <3>1. CASE succ'[i] = succ[i]
      BY <3>1, <1>2, Zenon DEF Links, IsMarked
    <3>2. CASE i = m /\ succ'[i] = x /\ succ' # succ
      BY <3>2, <1>2, <2>1, Zenon DEF Links, Cas
    <3> QED
      BY <2>1, <2>2, <3>1, <3>2, Zenon
  <2>4. succ'[tail].mark # "FLAGGED"
    BY <1>2, <2>1, <2>2, Zenon DEF Links, Cas
  <2> QED
    BY <1>1, <1>2, <1>3, <2>3, <2>4, Zenon DEF Links, Here, IsMarked
<1> QED
  BY <1>4, <1>5

\* A step of a thread that makes such a cas().
LEMMA CasDone ==
  ASSUME Constants, IInv, NEW t \in Threads, NEW m \in Nodes, NEW x, Cas(m, x),
         NEW p, NEW r, NEW f, NEW a,
         UNCHANGED <<fields, call, curr, next>>,
         Sets(pc, pc', t, p), Sets(ref, ref', t, r), Sets(frames, frames', t, f), Sets(after, after', t, a),
         Values(p, op[t], key[t], curr[t], next[t], r, f, a), Good(p, op[t], key[t], curr[t], next[t], r, f, a)
  PROVE  IInv'
<1>1. UNCHANGED fields /\ op' = op /\ key' = key /\ curr' = curr /\ next' = next
  BY DEF call
<1>2. FieldTypes' /\ Links' /\ Grows /\ Good(p, op[t], key[t], curr[t], next[t], r, f, a)'
  BY <1>1, CasStep, GoodKept, Zenon
<1>3. Room'
  <2>1. Room /\ linked' = linked
    BY <1>1, Zenon DEF IInv, fields
  <2> QED
    BY <2>1, <1>1, Zenon DEF Room, Adders
<1>4. Moves(t, p, op[t], key[t], curr[t], next[t], r, f, a)
  BY <1>1, Zenon DEF Moves, Sets
<1> QED
  BY <1>1, <1>2, <1>3, <1>4, StepDone, Zenon

\* tryMark's cas(): the backlink has been set before.
LEMMA TryCasStep ==
  ASSUME Constants, IInv, NEW t \in Threads, TryCas(t)
  PROVE  IInv'
<1> DEFINE d == del_node(t) x == make_ref(succ[d].ptr, "MARKED")
<1>1. pc[t] = "trycas" /\ pc[t] \in Helping /\ pc[t] # "backlink"
  BY SMT DEF TryCas, Helping
<1>2. d \in Nodes /\ (d # tail => d \in Here) /\ frames[t] # << >> /\ backlink[d] # NULL
  BY <1>1, FrameLeads, Zenon
<1>3. succ[d] \in [ptr : Nodes \cup {NULL}, mark : Marks]
  BY <1>2, Zenon DEF IInv, FieldTypes
<1>4. /\ succ' = succ \/ succ' = [succ EXCEPT ![d] = [succ[d] EXCEPT !.mark = "MARKED"]]
      /\ UNCHANGED <<fields, call, curr, next, frames, after>> /\ ref' = [ref EXCEPT ![t] = NoRef]
      /\ Goto(t, "trycopy")
  BY DEF TryCas
<1>5. d # tail => Leads(d, succ[d].ptr)
  BY <1>2, LinkLeads, Zenon
<1> HIDE DEF d
<1>6. /\ [succ[d] EXCEPT !.mark = "MARKED"] = x /\ x \in [ptr : Nodes \cup {NULL}, mark : Marks]
      /\ x.ptr = succ[d].ptr /\ x.mark = "MARKED"
  BY <1>3, SMT DEF make_ref, Marks
<1> HIDE DEF x
<1>7. Cas(d, x)
  <2>1. x.mark # "FLAGGED"
    BY <1>6, SMT
  <2> QED
    BY <1>2, <1>4, <1>5, <1>6, <2>1, Zenon DEF Cas
<1>8. "trycopy" \in Places /\ Good("trycopy", op[t], key[t], curr[t], next[t], NoRef, frames[t], after[t])
  BY <1>1, <1>2, HelpPlaces, Zenon
<1>9. NoRef \in Refs
  BY SMT DEF NoRef, make_ref, Refs
<1>10. Values("trycopy", op[t], key[t], curr[t], next[t], NoRef, frames[t], after[t])
  BY <1>8, <1>9, Own, Zenon DEF Values
<1>11. /\ Sets(pc, pc', t, "trycopy") /\ Sets(ref, ref', t, NoRef) /\ Sets(frames, frames', t, frames[t])
       /\ Sets(after, after', t, after[t]) /\ UNCHANGED <<fields, call, curr, next>>
  BY <1>4, Zenon DEF Goto, Sets
<1> QED
  BY <1>2, <1>7, <1>8, <1>10, <1>11, CasDone, Zenon

\* tryFlag's cas(): the node that delete has found is not list->tail.
LEMMA FlagCasStep ==
  ASSUME Constants, IInv, NEW t \in Threads, FlagCas(t)
  PROVE  IInv'
<1> DEFINE m == curr[t] x == make_ref(next[t], "FLAGGED")
<1>1. pc[t] = "flagcas" /\ UNCHANGED <<fields, call, curr, next>>
  BY Zenon DEF FlagCas
<1>2. op[t] = "delete" /\ nkey[next[t]] = key[t]
  BY <1>1, OwnCall, Zenon
<1>3. key[t] \in Keys /\ m \in Here /\ nkey[m] < key[t] /\ next[t] \in There
  BY <1>1, SearchPlace, Zenon
<1>4. m \in Nodes /\ m # tail
  BY <1>3, LinkLeads, Zenon
<1>5. CASE succ[m] = make_ref(next[t], "UNMARKED")
  <2>1. succ' = [succ EXCEPT ![m] = [succ[m] EXCEPT !.mark = "FLAGGED"]] /\ helpFlagged(t, m, next[t], "true")
    BY <1>5 DEF FlagCas
  <2>2. [succ[m] EXCEPT !.mark = "FLAGGED"] = x
    BY <1>5, SMT DEF make_ref
  <2>3. next[t] \in Nodes /\ next[t] # tail
    BY <1>2, <1>3, SMT DEF IInv, FieldTypes, Constants, There, Nodes, tail
  <2>4. Leads(m, next[t])
    BY <1>2, <1>3, Zenon DEF Leads, Before
  <2>5. x \in [ptr : Nodes \cup {NULL}, mark : Marks] /\ x.ptr = next[t] /\ x.mark = "FLAGGED" /\ x.mark # "MARKED"
    BY <2>3, SMT DEF make_ref, Marks
  <2>6. /\ Values("backlink", op[t], key[t], curr[t], next[t], NoRef, Append(frames[t], <<m, next[t]>>), "true")
        /\ Good("backlink", op[t], key[t], curr[t], next[t], NoRef, Append(frames[t], <<m, next[t]>>), "true")
    BY <1>1, <1>2, <2>4, HelpFrame, Zenon
  <2>7. /\ Sets(pc, pc', t, "backlink") /\ Sets(ref, ref', t, NoRef)
        /\ Sets(frames, frames', t, Append(frames[t], <<m, next[t]>>)) /\ Sets(after, after', t, "true")
    BY <2>1, Zenon DEF helpFlagged, Goto, Sets
  <2> HIDE DEF x
  <2>8. Cas(m, x)
    BY <1>4, <2>1, <2>2, <2>3, <2>4, <2>5, Zenon DEF Cas
  <2> QED
    BY <1>1, <1>4, <2>6, <2>7, <2>8, CasDone, Zenon
<1>6. CASE succ[m] # make_ref(next[t], "UNMARKED")
  <2>1. Goto(t, "flagcopy") /\ UNCHANGED <<fields, succ, call, curr, next, ref, frames, after>>
    BY <1>6, Zenon DEF FlagCas
  <2>2. "flagcopy" \in Places /\ Good("flagcopy", op[t], key[t], curr[t], next[t], ref[t], frames[t], after[t])
    BY <1>1, <1>2, OwnPlaces, Zenon
  <2> QED
    BY <2>1, <2>2, GotoStep, Zenon
<1> QED
  BY <1>5, <1>6

\* A beginning of a sequence.
LEMMA Prefix ==
  ASSUME NEW S, NEW s \in Seq(S), NEW n \in Nat, n < Len(s), NEW f, f = SubSeq(s, 1, n)
  PROVE  /\ f \in Seq(S) /\ Len(f) = n /\ (f = << >> <=> n = 0)
         /\ \A j \in 1..n : f[j] = s[j]
<1>1. f \in Seq(S)
  BY SMT
<1>2. Len(f) = n
  BY SMT
<1>3. \A j \in 1..n : f[j] = s[j]
  BY SMT
<1>4. f = << >> <=> n = 0
  BY <1>1, <1>2, SMT
<1> QED
  BY <1>1, <1>2, <1>3, <1>4

\* The calls of helpFlagged without the last one.
LEMMA Popped ==
  ASSUME NEW S, NEW s \in Seq(S), s # << >>, NEW f, f = SubSeq(s, 1, Len(s) - 1)
  PROVE  /\ f \in Seq(S) /\ (Len(s) = 1 <=> f = << >>)
         /\ \A j \in 1..Len(f) : j \in 1..Len(s) /\ f[j] = s[j] /\ j # Len(s)
<1> DEFINE n == Len(s) - 1
<1>1. Len(s) = n + 1 /\ n \in Nat /\ n < Len(s)
  BY SMT
<1>2. f = SubSeq(s, 1, n)
  BY Zenon
<1> HIDE DEF n
<1>3. f \in Seq(S) /\ Len(f) = n /\ (f = << >> <=> n = 0) /\ \A j \in 1..n : f[j] = s[j]
  BY <1>1, <1>2, Prefix
<1>4. \A j \in 1..n : j \in 1..(n + 1) /\ j # n + 1
  BY <1>1, SMT
<1>5. n + 1 = 1 <=> n = 0
  BY <1>1, SMT
<1> QED
  BY <1>1, <1>3, <1>4, <1>5, Zenon

\* helpMarked's cas(), and the return from helpMarked and from helpFlagged.
LEMMA HelpReturns ==
  ASSUME Constants, IInv, NEW t \in Threads, pc[t] = "helpcas", NEW p, NEW f,
         IF frames[t] = << >> THEN p = "reload" /\ f = << >>
           ELSE /\ f = SubSeq(frames[t], 1, Len(frames[t]) - 1)
                /\ p = IF Len(frames[t]) = 1 THEN after[t] ELSE "trymarked"
  PROVE  /\ Values(p, op[t], key[t], curr[t], next[t], NoRef, f, after[t])
         /\ Good(p, op[t], key[t], curr[t], next[t], NoRef, f, after[t])
<1>1. /\ Control(pc[t], op[t], key[t], frames[t], after[t])
      /\ Window(pc[t], op[t], key[t], curr[t], next[t], frames[t])
      /\ Frames(pc[t], frames[t])
      /\ Values(pc[t], op[t], key[t], curr[t], next[t], ref[t], frames[t], after[t])
      /\ frames[t] \in Seq(Nodes \X Nodes)
  BY Own, Zenon DEF Good, Values
<1>2. pc[t] \in Help /\ pc[t] \notin {"idle", "next"} /\ pc[t] # "backlink"
  BY SMT DEF Help
<1>3. /\ op[t] # None /\ key[t] \in Keys
      /\ curr[t] \in Here /\ nkey[curr[t]] < key[t] /\ next[t] \in There
      /\ op[t] = "delete" /\ frames[t] # << >> => nkey[next[t]] = key[t]
  BY <1>1, <1>2, Zenon DEF Control, Window
<1>4. /\ f \in Seq(Nodes \X Nodes) /\ (f # << >> => p = "trymarked" /\ frames[t] # << >>)
      /\ \A j \in 1..Len(f) : j \in 1..Len(frames[t]) /\ f[j] = frames[t][j] /\ j # Len(frames[t])
      /\ p = "trymarked" /\ frames[t] # << >> /\ p # after[t] => f # << >>
  <2>1. CASE frames[t] = << >>
    BY <2>1
  <2>2. CASE frames[t] # << >>
    <3>1. /\ f \in Seq(Nodes \X Nodes) /\ (Len(frames[t]) = 1 <=> f = << >>)
          /\ \A j \in 1..Len(f) : j \in 1..Len(frames[t]) /\ f[j] = frames[t][j] /\ j # Len(frames[t])
      <4> DEFINE S == Nodes \X Nodes
      <4>1. frames[t] \in Seq(S) /\ f = SubSeq(frames[t], 1, Len(frames[t]) - 1)
        BY <1>1, <2>2, Zenon
      <4> HIDE DEF S
      <4>2. /\ f \in Seq(S) /\ (Len(frames[t]) = 1 <=> f = << >>)
            /\ \A j \in 1..Len(f) : j \in 1..Len(frames[t]) /\ f[j] = frames[t][j] /\ j # Len(frames[t])
        <5> DEFINE s == frames[t]
        <5>1. s \in Seq(S) /\ s # << >> /\ f = SubSeq(s, 1, Len(s) - 1)
          BY <2>2, <4>1, Zenon
        <5> HIDE DEF s
        <5>2. /\ f \in Seq(S) /\ (Len(s) = 1 <=> f = << >>)
              /\ \A j \in 1..Len(f) : j \in 1..Len(s) /\ f[j] = s[j] /\ j # Len(s)
          BY ONLY <5>1, Popped, SMT
        <5> QED
          BY <5>2, Zenon DEF s
      <4> QED
        BY <4>2, Zenon DEF S
    <3> QED
      BY <2>2, <3>1, Zenon
  <2> QED
    BY <2>1, <2>2
<1>5. /\ frames[t] = << >> => after[t] = "searched" \/ (after[t] = "researched" /\ op[t] = "add")
      /\ frames[t] # << >> => \/ op[t] = "add" /\ after[t] \in {"again", "back"}
                              \/ op[t] = "delete" /\ after[t] \in {"true", "false"}
  BY <1>1, <1>2, Zenon DEF Control
<1>6. /\ p \in Places /\ p \notin {"idle", "next", "searched", "researched", "copy", "addcas"}
      /\ p \notin Help /\ p \notin Copying \cup {"helpcas", "trycas"}
      /\ p \in Adding => op[t] = "add"
      /\ p \in Deleting \cup {"back"} => frames[t] # << >>
      /\ p \in Deleting => op[t] = "delete"
      /\ p = "back" => op[t] \in {"add", "delete"}
      /\ p \in Helping => p = "trymarked" /\ frames[t] # << >> /\ p # after[t]
      /\ p \in Search => frames[t] = << >>
      /\ "trymarked" \in Helping
  BY <1>5, SMT DEF Places, Search, Help, Helping, Copying, Adding, Deleting
<1>7. Control(p, op[t], key[t], f, after[t])
  BY <1>3, <1>4, <1>5, <1>6, Zenon DEF Control
<1>8. Window(p, op[t], key[t], curr[t], next[t], f)
  BY <1>3, <1>4, <1>6, Zenon DEF Window
<1>9. Frames(p, f)
  BY <1>1, <1>2, <1>4, Zenon DEF Frames
<1>10. Loaded(p, curr[t], next[t], f, NoRef)
  BY <1>6, Zenon DEF Loaded
<1>11. NoRef \in Refs
  BY SMT DEF NoRef, make_ref, Refs
<1>12. Values(p, op[t], key[t], curr[t], next[t], NoRef, f, after[t])
  BY <1>1, <1>4, <1>6, <1>11, Zenon DEF Values
<1> QED
  BY <1>7, <1>8, <1>9, <1>10, <1>12, Zenon DEF Good

\* helpMarked's cas(): the link over del_node leads on.
LEMMA HelpCasStep ==
  ASSUME Constants, IInv, NEW t \in Threads, HelpCas(t)
  PROVE  IInv'
<1> DEFINE m == prev_node(t) d == del_node(t) x == make_ref(ref[t].ptr, "UNMARKED")
<1>1. pc[t] = "helpcas" /\ pc[t] \in Helping \cup Help /\ UNCHANGED <<fields, call, curr, next, after>>
  <2>1. pc[t] = "helpcas" /\ UNCHANGED <<fields, call, curr, next, after>>
    BY Zenon DEF HelpCas
  <2> QED
    BY <2>1, SMT DEF Help
<1>2. /\ d = Del(next[t], frames[t]) /\ m \in Here /\ d \in There /\ d \in Nodes
      /\ d # tail => d \in Here
  BY <1>1, FrameLeads, Zenon
<1>3. m \in Nodes /\ m # tail /\ Leads(m, succ[m].ptr) /\ (succ[m].mark = "FLAGGED" => succ[m].ptr # tail)
  BY <1>2, LinkLeads, Zenon
<1>4. d # tail => Leads(d, ref[t].ptr)
  BY <1>1, <1>2, Own, Zenon DEF Good, Loaded
<1>5. /\ succ' = IF succ[m] = make_ref(d, "FLAGGED") THEN [succ EXCEPT ![m] = x] ELSE succ
      /\ ref' = [ref EXCEPT ![t] = NoRef]
      /\ IF frames[t] = << >>
           THEN Goto(t, "reload") /\ UNCHANGED frames
           ELSE /\ frames' = [frames EXCEPT ![t] = SubSeq(frames[t], 1, Len(frames[t]) - 1)]
                /\ Goto(t, IF Len(frames[t]) = 1 THEN after[t] ELSE "trymarked")
  BY DEF HelpCas
<1>6. x.ptr = ref[t].ptr /\ x.mark = "UNMARKED" /\ x.mark # "FLAGGED" /\ x.mark # "MARKED"
  BY SMT DEF make_ref
<1> HIDE DEF m, d
<1>7. Cas(m, x)
  <2>1. CASE succ[m] = make_ref(d, "FLAGGED")
    <3>1. succ[m].ptr = d /\ succ[m].mark = "FLAGGED"
      BY <2>1, SMT DEF make_ref
    <3>2. d # tail /\ Leads(m, d) /\ Leads(d, ref[t].ptr) /\ d \in Here
      BY <1>2, <1>3, <1>4, <3>1, Zenon
    <3>3. Leads(m, ref[t].ptr)
      BY <3>2, LeadsOn, Zenon
    <3>4. ref[t].ptr \in Nodes
      BY <3>3, SMT DEF IInv, FieldTypes, Constants, Leads, There, Nodes, tail
    <3>5. x \in [ptr : Nodes \cup {NULL}, mark : Marks]
      BY <3>4, SMT DEF make_ref, Marks
    <3> HIDE DEF x
    <3> QED
      BY <1>3, <1>5, <1>6, <2>1, <3>3, <3>5, Zenon DEF Cas
  <2>2. CASE succ[m] # make_ref(d, "FLAGGED")
    BY <1>5, <2>2, Zenon DEF Cas
  <2> QED
    BY <2>1, <2>2
<1> HIDE DEF x
<1>8. PICK p, f :
        /\ IF frames[t] = << >> THEN p = "reload" /\ f = << >>
             ELSE /\ f = SubSeq(frames[t], 1, Len(frames[t]) - 1)
                  /\ p = IF Len(frames[t]) = 1 THEN after[t] ELSE "trymarked"
        /\ Sets(pc, pc', t, p) /\ Sets(frames, frames', t, f)
  BY <1>5, Zenon DEF Goto, Sets
<1>9. /\ Values(p, op[t], key[t], curr[t], next[t], NoRef, f, after[t])
      /\ Good(p, op[t], key[t], curr[t], next[t], NoRef, f, after[t])
  BY <1>1, <1>8, HelpReturns, Zenon
<1>10. Sets(ref, ref', t, NoRef) /\ Sets(after, after', t, after[t]) /\ UNCHANGED <<fields, call, curr, next>>
  BY <1>1, <1>5, Zenon DEF Sets
<1> QED
  BY <1>3, <1>7, <1>8, <1>9, <1>10, CasDone, Zenon

\* helpFlagged sets the backlink of del_node.
LEMMA SetBacklinkStep ==
  ASSUME Constants, IInv, NEW t \in Threads, SetBacklink(t)
  PROVE  IInv'
<1> DEFINE m == prev_node(t) d == del_node(t)
<1>1. pc[t] = "backlink" /\ pc[t] \in Helping
  BY SMT DEF SetBacklink, Helping
<1>2. /\ backlink' = [backlink EXCEPT ![d] = m] /\ Goto(t, "trymarked")
      /\ nkey' = nkey /\ linked' = linked /\ succ' = succ /\ op' = op /\ key' = key /\ curr' = curr
      /\ next' = next /\ ref' = ref /\ frames' = frames /\ after' = after
  BY DEF SetBacklink, call
<1>3. FieldTypes /\ Links
  BY Zenon DEF IInv
<1>4. m \in Here /\ d \in There /\ d \in Nodes /\ Leads(m, d) /\ frames[t] # << >>
  BY <1>1, FrameLeads, Zenon
<1>5. /\ m \in Nodes /\ m # NULL /\ Here \subseteq Nodes
      /\ \A n \in (linked + 1)..MaxNodes : n # d /\ n \in Nodes
  BY <1>3, <1>4, SMT DEF FieldTypes, Constants, Here, There, Nodes, NULL, tail
<1>6. d = frames[t][Len(frames[t])][2]
  BY <1>4, Zenon DEF del_node, Frame
<1> HIDE DEF m, d
<1>7. /\ backlink' \in [Nodes -> Nodes \cup {NULL}] /\ backlink'[d] = m
      /\ \A n \in Nodes : n # d => backlink'[n] = backlink[n]
  BY <1>2, <1>3, <1>4, <1>5, Zenon DEF FieldTypes
<1>8. \A i, j : Leads(i, j)' <=> Leads(i, j)
  BY <1>2, Zenon DEF Leads, Here, There, Before
<1>9. FieldTypes'
  BY <1>2, <1>3, <1>7, Zenon DEF FieldTypes
<1>10. Grows
  <2>1. linked <= linked'
    BY <1>2, <1>3, SMT DEF FieldTypes
  <2> QED
    BY <1>2, <1>5, <1>7, <2>1, Zenon DEF Grows
<1>11. Links'
  <2>1. ASSUME NEW n \in Here
        PROVE  /\ Leads(n, succ[n].ptr)
               /\ succ[n].mark = "FLAGGED" => succ[n].ptr # tail
               /\ backlink'[n] # NULL => Leads(backlink'[n], n)
               /\ succ[n].mark = "MARKED" => backlink'[n] # NULL
    <3>1. CASE n = d
      BY <1>3, <1>4, <1>5, <1>7, <3>1, Zenon DEF Links
    <3>2. CASE n # d
      BY <1>3, <1>5, <1>7, <3>2, Zenon DEF Links, IsMarked
    <3> QED
      BY <3>1, <3>2
  <2>2. \A n \in (linked + 1)..MaxNodes : backlink'[n] = NULL
    BY <1>3, <1>5, <1>7, Zenon DEF Links
  <2> QED
    BY <1>2, <1>3, <1>8, <2>1, <2>2, Zenon DEF Links, Here, IsMarked
<1>12. /\ Control(pc[t], op[t], key[t], frames[t], after[t])
       /\ Window(pc[t], op[t], key[t], curr[t], next[t], frames[t])
       /\ Frames(pc[t], frames[t]) /\ Loaded(pc[t], curr[t], next[t], frames[t], ref[t])
       /\ Values(pc[t], op[t], key[t], curr[t], next[t], ref[t], frames[t], after[t])
  BY Own, Zenon DEF Good
<1>13. /\ "trymarked" \in Helping /\ "trymarked" \in Places
       /\ "trymarked" \notin {"idle", "next", "back", "searched", "researched", "copy", "addcas"}
       /\ "trymarked" \notin Adding \cup Deleting \cup Search \cup Help
       /\ "trymarked" \notin Copying \cup {"helpcas", "trycas"}
       /\ pc[t] \notin {"idle", "next"} /\ pc[t] \notin Copying \cup {"helpcas", "trycas"}
  BY <1>1, SMT DEF Helping, Places, Adding, Deleting, Search, Help, Copying
<1>14. Good("trymarked", op[t], key[t], curr[t], next[t], ref[t], frames[t], after[t])'
  <2>1. Control("trymarked", op[t], key[t], frames[t], after[t])'
    BY <1>2, <1>4, <1>12, <1>13, Zenon DEF Control
  <2>2. Window("trymarked", op[t], key[t], curr[t], next[t], frames[t])'
    BY <1>2, <1>4, <1>12, <1>13, Zenon DEF Window, Here, There
  <2>3. Frames("trymarked", frames[t])'
    <3>1. ASSUME NEW j \in 1..Len(frames[t])
          PROVE  Leads(frames[t][j][1], frames[t][j][2]) /\ backlink'[frames[t][j][2]] # NULL
      <4>1. /\ Leads(frames[t][j][1], frames[t][j][2])
            /\ j # Len(frames[t]) => backlink[frames[t][j][2]] # NULL
        BY <1>12, Zenon DEF Frames
      <4>2. frames[t][j][2] \in Nodes
        BY <4>1, <1>3, LinkedNodes, Zenon DEF Leads
      <4> QED
        BY <1>5, <1>6, <1>7, <4>1, <4>2, Zenon
    <3> QED
      BY <1>2, <1>8, <3>1, Zenon DEF Frames
  <2>4. Loaded("trymarked", curr[t], next[t], frames[t], ref[t])'
    BY <1>2, <1>12, <1>13, Zenon DEF Loaded
  <2> QED
    BY <2>1, <2>2, <2>3, <2>4, Zenon DEF Good
<1>15. Values("trymarked", op[t], key[t], curr[t], next[t], ref[t], frames[t], after[t])
  BY <1>12, <1>13, Zenon DEF Values
<1>16. Moves(t, "trymarked", op[t], key[t], curr[t], next[t], ref[t], frames[t], after[t])
  BY <1>2, Zenon DEF Moves, Sets, Goto
<1>17. Room'
  BY <1>2, Zenon DEF IInv, Room, Adders
<1> QED
  BY <1>2, <1>9, <1>10, <1>11, <1>14, <1>15, <1>16, <1>17, StepDone, Zenon

\* add links its node, before the nodes with the same key.
LEMMA AddLinkStep ==
  ASSUME Constants, IInv, NEW t \in Threads, AddLink(t)
  PROVE  IInv'
<1> DEFINE n == linked + 1 m == curr[t] q == next[t] k == key[t]
           y == make_ref(q, "UNMARKED") x == make_ref(n, "UNMARKED")
<1>1. /\ pc[t] = "addcas" /\ linked' = n /\ nkey' = [nkey EXCEPT ![n] = k]
      /\ succ' = [succ EXCEPT ![n] = y, ![m] = x] /\ backlink' = backlink
      /\ Return(t, TRUE) /\ UNCHANGED <<ref, frames>>
  BY Zenon DEF AddLink
<1>2. /\ pc[t] # "idle" /\ pc[t] \in Adding /\ pc[t] \notin Helping \cup Help /\ pc[t] \notin {"idle", "next"}
      /\ pc[t] \notin Copying \cup {"helpcas", "trycas"}
  BY <1>1, SMT DEF Adding, Helping, Help, Copying
<1>3. op[t] = "add" /\ ref[t] = NoRef /\ frames[t] = << >>
  BY <1>2, Own, Zenon DEF Good, Control, Loaded
<1>4. k \in Keys /\ m \in Here /\ nkey[m] < k /\ q \in There /\ k <= nkey[q]
  BY <1>1, <1>2, Own, Zenon DEF Good, Control, Window
<1>5. FieldTypes /\ Links /\ Room
  BY Zenon DEF IInv
<1>6. linked < MaxNodes /\ linked \in Nat /\ MaxNodes \in Nat
  <2>1. IsFiniteSet(Adders) /\ t \in Adders
    BY <1>3, FS_Subset, Zenon DEF Adders, Constants
  <2>2. Cardinality(Adders) \in Nat /\ Cardinality(Adders) # 0
    BY <2>1, FS_CardinalityType, FS_EmptySet, Zenon
  <2>3. linked \in Nat /\ MaxNodes \in Nat
    BY <1>5, SMT DEF FieldTypes, Constants
  <2> QED
    BY <1>5, <2>2, <2>3, SMT DEF Room
<1>7. /\ n \in Nodes /\ n # tail /\ n \notin Here /\ m \in Nodes /\ m # tail /\ m # n /\ q \in Nodes
      /\ tail \in Nodes /\ Here \subseteq Nodes /\ n \in 0..MaxNodes /\ n \in (linked + 1)..MaxNodes
      /\ Here' = Here \cup {n} /\ (q = tail \/ (q \in 1..linked /\ q < n)) /\ There \subseteq There'
      /\ n \in There'
  BY <1>1, <1>4, <1>6, SMT DEF Here, There, Nodes, tail
<1>8. /\ k \in Int /\ k < MaxKey /\ MaxKey \in Int /\ nkey[m] \in Int /\ nkey[q] \in Int /\ nkey[tail] = MaxKey
      /\ n \in Int /\ q \in Int
  BY <1>4, <1>5, <1>6, <1>7, SMT DEF FieldTypes, Constants, Nodes
<1>9. /\ y \in [ptr : Nodes \cup {NULL}, mark : Marks] /\ y.ptr = q /\ y.mark = "UNMARKED"
      /\ x \in [ptr : Nodes \cup {NULL}, mark : Marks] /\ x.ptr = n /\ x.mark = "UNMARKED"
  BY <1>7, SMT DEF make_ref, Marks
<1>10. k < nkey[q] \/ (k = nkey[q] /\ n > q)
  BY <1>4, <1>7, <1>8, SMT
<1>11. \A i \in 1..n : i = n \/ i \in 1..linked
  BY <1>6, SMT
<1>12. linked <= linked'
  BY <1>1, <1>6, SMT
<1>13. \A i \in (n + 1)..MaxNodes : i \in (linked + 1)..MaxNodes
  BY <1>6, SMT
<1>14. head \in Here
  BY <1>6, SMT DEF head, Here
<1> HIDE DEF n, m, q, k, y, x
<1>15. /\ succ'[n] = y /\ succ'[m] = x /\ \A i \in Nodes : i # n /\ i # m => succ'[i] = succ[i]
       /\ succ' \in [Nodes -> [ptr : Nodes \cup {NULL}, mark : Marks]]
  <2>1. DOMAIN succ = Nodes /\ succ \in [Nodes -> [ptr : Nodes \cup {NULL}, mark : Marks]]
    BY <1>5, Zenon DEF FieldTypes
  <2> DEFINE R == [ptr : Nodes \cup {NULL}, mark : Marks]
  <2>2. succ \in [Nodes -> R] /\ y \in R /\ x \in R
    BY <1>9, <2>1, Zenon
  <2> HIDE DEF R
  <2>3. /\ succ'[n] = y /\ succ'[m] = x /\ \A i \in Nodes : i # n /\ i # m => succ'[i] = succ[i]
        /\ succ' \in [Nodes -> R]
    BY <1>1, <1>7, <2>2, SMT
  <2> QED
    BY <2>3, Zenon DEF R
<1>16. /\ nkey' \in [Nodes -> Int] /\ nkey'[n] = k /\ \A i \in Nodes : i # n => nkey'[i] = nkey[i]
  BY <1>1, <1>5, <1>7, <1>8, SMT DEF FieldTypes
<1>17. FieldTypes'
  <2>1. nkey'[head] = MinKey /\ nkey'[tail] = MaxKey
    BY <1>5, <1>7, <1>14, <1>16, Zenon DEF FieldTypes
  <2>2. \A i \in 1..n : nkey'[i] \in Keys
    <3>1. \A i \in 1..linked : i \in Here /\ nkey[i] \in Keys
      BY <1>5, <1>6, SMT DEF Here, FieldTypes
    <3> QED
      BY <1>4, <1>7, <1>11, <1>16, <3>1, Zenon
  <2> QED
    BY <1>1, <1>5, <1>7, <1>15, <1>16, <2>1, <2>2, Zenon DEF FieldTypes
<1>18. Grows
  BY <1>1, <1>7, <1>12, <1>16, Zenon DEF Grows
<1>19. \A i, j : Leads(i, j) => Leads(i, j)'
  BY <1>5, <1>17, <1>18, LeadsGrow, Zenon
<1>20. nkey'[m] = nkey[m] /\ nkey'[q] = nkey[q] /\ nkey'[n] = k
  <2>1. q # n
    BY <1>7, <1>8, <1>6, SMT
  <2> QED
    BY <1>7, <1>16, <2>1, Zenon
<1>21. ASSUME NEW i \in Here'
       PROVE  /\ Leads(i, succ[i].ptr)'
              /\ succ'[i].mark = "FLAGGED" => succ'[i].ptr # tail
              /\ (backlink[i] # NULL => Leads(backlink[i], i))'
              /\ succ'[i].mark = "MARKED" => backlink'[i] # NULL
  <2>1. CASE i = n
    <3>1. succ'[i].ptr = q /\ succ'[i].mark = "UNMARKED" /\ backlink'[i] = NULL
      BY <1>1, <1>5, <1>7, <1>9, <1>15, <2>1, Zenon DEF Links
    <3>2. q \in There' /\ nkey'[q] = nkey[q] /\ nkey'[i] = k
      BY <1>4, <1>7, <1>20, <2>1, Zenon
    <3>3. Leads(i, succ[i].ptr)'
      BY <1>10, <2>1, <3>1, <3>2, Zenon DEF Leads, Before
    <3> QED
      BY <3>1, <3>3, Zenon
  <2>2. CASE i # n
    <3>1. i \in Here /\ i \in Nodes
      BY <1>7, <2>2, Zenon
    <3>2. (backlink[i] # NULL => Leads(backlink[i], i))'
      BY <1>1, <1>5, <1>19, <3>1, Zenon DEF Links
    <3>3. CASE i = m
      <4>1. succ'[i].ptr = n /\ succ'[i].mark = "UNMARKED"
        BY <1>9, <1>15, <3>3, Zenon
      <4>2. Leads(i, succ[i].ptr)'
        BY <1>4, <1>7, <1>20, <3>3, <4>1, Zenon DEF Leads, Before
      <4> QED
        BY <3>2, <4>1, <4>2, Zenon
    <3>4. CASE i # m
      <4>1. succ'[i] = succ[i]
        BY <1>15, <2>2, <3>1, <3>4, Zenon
      <4> QED
        BY <1>1, <1>5, <1>19, <3>1, <3>2, <4>1, Zenon DEF Links, IsMarked
    <3> QED
      BY <3>3, <3>4
  <2> QED
    BY <2>1, <2>2
<1>22. Links'
  <2>1. succ'[tail].mark # "FLAGGED"
    BY <1>5, <1>7, <1>15, Zenon DEF Links
  <2>2. (\A i \in (linked + 1)..MaxNodes : backlink[i] = NULL)'
    BY <1>1, <1>5, <1>13, Zenon DEF Links
  <2> QED
    BY <1>21, <2>1, <2>2, Zenon DEF Links, IsMarked
<1>23. linked' = linked + 1
  BY <1>1, Zenon DEF n
<1> QED
  BY <1>1, <1>3, <1>17, <1>18, <1>22, <1>23, ReturnStep, Zenon

-----------------------------------------------------------------------------
(* The theorems *)

\* The empty list of init_list.
LEMMA InitInvariant ==
  ASSUME Constants, Init
  PROVE  IInv
<1>1. FieldTypes
  BY SMT DEF Init, init_list, FieldTypes, Constants, Nodes, head, tail, NULL, Marks, make_ref
<1>2. linked = 0 /\ Here = {head} /\ There = {tail} /\ tail \in Nodes /\ head \in Nodes /\ head # tail
  BY SMT DEF Init, init_list, Here, There, head, tail, Nodes, Constants
<1>3. /\ succ[head].ptr = tail /\ succ[head].mark = "UNMARKED" /\ succ[tail].mark = "UNMARKED"
      /\ nkey[head] < nkey[tail] /\ backlink[head] = NULL
  BY <1>2, SMT DEF Init, init_list, make_ref, Constants
<1>4. Links
  <2>1. \A n \in (linked + 1)..MaxNodes : backlink[n] = NULL
    BY SMT DEF Init, init_list, Nodes, Constants
  <2>2. Leads(head, tail)
    BY <1>2, <1>3, Zenon DEF Leads, Before
  <2> QED
    BY <1>2, <1>3, <2>1, <2>2, Zenon DEF Links, IsMarked
<1>5. ThreadTypes
  <2>1. NoRef \in Refs /\ "idle" \in Places /\ << >> \in Seq(Nodes \X Nodes)
    BY SMT DEF NoRef, make_ref, Refs, Places
  <2> QED
    BY <2>1, Zenon DEF Init, ThreadTypes
<1>6. Room
  <2>1. Adders = {}
    BY SMT DEF Init, Adders, Constants
  <2>2. Cardinality(Adders) = 0
    BY <2>1, FS_EmptySet, Zenon
  <2>3. MaxNodes \in Nat
    BY Zenon DEF Constants
  <2> QED
    BY <1>2, <2>2, <2>3, SMT DEF Room
<1>7. Good("idle", None, None, NULL, NULL, NoRef, << >>, None)
  <2>1. /\ "idle" \notin Adding \cup Deleting \cup Helping \cup Search \cup Help
        /\ "idle" \notin Copying \cup {"helpcas", "trycas"}
    BY SMT DEF Adding, Deleting, Helping, Search, Help, Copying
  <2>2. None # "delete"
    BY SMT DEF Constants
  <2>3. Control("idle", None, None, << >>, None)
    BY <2>1, Zenon DEF Control
  <2>4. Window("idle", None, None, NULL, NULL, << >>)
    BY <2>1, <2>2, Zenon DEF Window
  <2>5. Frames("idle", << >>)
    BY SMT DEF Frames
  <2>6. Loaded("idle", NULL, NULL, << >>, NoRef)
    BY <2>1, Zenon DEF Loaded
  <2> QED
    BY <2>3, <2>4, <2>5, <2>6, Zenon DEF Good
<1>8. ASSUME NEW t \in Threads
      PROVE  Good(pc[t], op[t], key[t], curr[t], next[t], ref[t], frames[t], after[t])
  <2>1. /\ pc[t] = "idle" /\ op[t] = None /\ key[t] = None /\ curr[t] = NULL
        /\ next[t] = NULL /\ ref[t] = NoRef /\ frames[t] = << >> /\ after[t] = None
    BY Zenon DEF Init
  <2> QED
    BY <1>7, <2>1, Zenon
<1> QED
  BY <1>1, <1>4, <1>5, <1>6, <1>8, Zenon DEF IInv

\* Every step keeps the invariant.
LEMMA NextInvariant ==
  ASSUME Constants, IInv, [Next]_vars
  PROVE  IInv'
<1>1. CASE UNCHANGED vars
  <2>1. /\ UNCHANGED <<fields, succ>> /\ pc' = pc /\ op' = op /\ key' = key /\ curr' = curr /\ next' = next
        /\ ref' = ref /\ frames' = frames /\ after' = after /\ linked' = linked
    BY <1>1 DEF vars, call, fields
  <2>2. FieldTypes' /\ Links' /\ UNCHANGED fields
    BY <2>1, FieldsKept, Zenon
  <2>3. ThreadTypes' /\ Room'
    BY <2>1, Zenon DEF IInv, ThreadTypes, Room, Adders
  <2>4. ASSUME NEW t \in Threads
        PROVE  Good(pc[t], op[t], key[t], curr[t], next[t], ref[t], frames[t], after[t])'
    BY <2>1, <2>2, GoodKept, Zenon DEF IInv
  <2> QED
    BY <2>2, <2>3, <2>4, Zenon DEF IInv
<1>2. ASSUME NEW t \in Threads, NEW o \in {"add", "delete", "find"}, NEW k \in Keys, Call(t, o, k)
      PROVE  IInv'
  BY <1>2, CallStep, Zenon
<1>3. ASSUME NEW t \in Threads, Step(t)
      PROVE  IInv'
  <2>1. CASE \/ LoadNext(t) \/ LoadMarked(t) \/ LoadCurrMark(t) \/ LoadCurrPtr(t) \/ TestHelp(t) \/ Reload(t)
    BY <2>1, SearchSteps, Zenon
  <2>2. CASE HelpLoad(t) \/ TestMarked(t) \/ TryNext(t)
    BY <2>2, HelpSteps, Zenon
  <2>3. CASE TryCopied(t) \/ AddCopied(t) \/ AddRecopied(t) \/ FlagLoadMark(t) \/ FlagCopied(t)
    BY <2>3, CopySteps, Zenon
  <2>4. CASE \/ AddSearched(t) \/ create_nodeFails(t) \/ AddCasFails(t) \/ AddResearched(t)
             \/ DeleteSearched(t) \/ FlagLoadPtr(t) \/ DeleteReturn(t) \/ FindReturn(t)
    BY <2>4, CallerSteps, Zenon
  <2>5. CASE HelpCas(t)
    BY <2>5, HelpCasStep, Zenon
  <2>6. CASE SetBacklink(t)
    BY <2>6, SetBacklinkStep, Zenon
  <2>7. CASE TryCas(t)
    BY <2>7, TryCasStep, Zenon
  <2>8. CASE FirstWord(t)
    BY <2>8, FirstWordStep, Zenon
  <2>9. CASE AddLink(t)
    BY <2>9, AddLinkStep, Zenon
  <2>10. CASE Back(t)
    BY <2>10, BackStep, Zenon
  <2>11. CASE AddAgain(t)
    BY <2>11, AddAgainStep, Zenon
  <2>12. CASE FlagCas(t)
    BY <2>12, FlagCasStep, Zenon
  <2> QED
    BY <1>3, <2>1, <2>2, <2>3, <2>4, <2>5, <2>6, <2>7, <2>8, <2>9, <2>10, <2>11, <2>12, Zenon DEF Step
<1> QED
  BY <1>1, <1>2, <1>3, Zenon DEF Next

\* The invariant holds in every state of list/LockFreeList.c's functions, however
\* the loads, stores and cas() of the threads interleave.
THEOREM Invariance == Constants => (Spec => []IInv)
<1> SUFFICES ASSUME Constants
             PROVE  Spec => []IInv
  OBVIOUS
<1>1. Init => IInv
  BY InitInvariant, Zenon
<1>2. IInv /\ [Next]_vars => IInv'
  BY NextInvariant, Zenon
<1> QED
  BY <1>1, <1>2, PTL DEF Spec

\* The links of the list lead forward and the backlinks back, and a marked node
\* has a backlink: searchFrom2 and the way back of add and tryFlag never meet a
\* loop of links or a null backlink.
THEOREM LinksLeadOn == Constants => (Spec => []LinksLead)
<1> SUFFICES ASSUME Constants
             PROVE  Spec => []LinksLead
  OBVIOUS
<1>1. IInv => LinksLead
  BY Zenon DEF IInv, Links, LinksLead, Here, Leads
<1>2. Spec => []IInv
  BY Invariance
<1> QED
  BY <1>1, <1>2, PTL
=============================================================================
