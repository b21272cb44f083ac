-------------------------- MODULE CASLockFreeQueue --------------------------
(***************************************************************************)
(* The lock-free queue of queue/CASLockFreeQueue.c (Michael and Scott),    *)
(* one action per access to shared memory.                                 *)
(*                                                                         *)
(* A pointer_t is two machine words.  cmpxchg16b replaces both at once,    *)
(* but `tail = q->tail` and the other copies compile to two loads, and     *)
(* nothing orders or locks them: a copy may hold the pointer of one moment *)
(* and the count of another.  Every such copy is therefore two steps, in   *)
(* either order.  The program counter values carry the line of the code    *)
(* that runs next; line 112 (143) reads q->tail (q->head) twice more,      *)
(* first the count, then the pointer.                                      *)
(*                                                                         *)
(* The build defines no _FREE_: free_node does nothing, and a node is      *)
(* never allocated twice.  Nodes are numbered in the order calloc returns  *)
(* them, 0 is NULL.                                                        *)
(***************************************************************************)
EXTENDS Naturals, Sequences

CONSTANTS
  Threads,    \* the callers of enq and deq
  Values,     \* what they enqueue
  None,       \* no value
  MaxNodes    \* the nodes calloc can return

ASSUME ConstantsAssumption ==
  /\ MaxNodes \in Nat \ {0}
  /\ None \notin Values

NULL == 0
Nodes == 1..MaxNodes
Words == {"ptr", "count"}
Pointer == [ptr : Nodes \cup {NULL}, count : Nat]
NullPointer == [ptr |-> NULL, count |-> 0]

VARIABLES
  head, tail,          \* queue_t
  next, val,           \* the fields of the nodes
  allocated,           \* how many nodes calloc has returned
  pc, got,             \* the next line of a thread; the words of the copy
                       \* under way that it has loaded
  newNode, arg,        \* newNode, and the parameter val, of enq and deq
  lhead, ltail, lnext, \* the local variables head, tail and next
  chain,               \* history: the nodes, in the order they were linked
  sawEmpty             \* history: the threads in deq since a moment at which
                       \* the queue was empty

shared == <<head, tail, next>>
locals == <<newNode, lhead, ltail, lnext>>
memory == <<val, allocated>>
history == <<chain, sawEmpty>>
vars == <<shared, memory, pc, got, arg, locals, history>>

EnqLines == {"105", "109", "110", "112count", "112ptr", "116", "123", "128"}
DeqLines == {"139", "140", "141", "143count", "143ptr", "150", "153", "156", "163"}

\* init_queue: the queue holds one node, the dummy.
Init ==
  /\ head = [ptr |-> 1, count |-> 0]
  /\ tail = [ptr |-> 1, count |-> 0]
  /\ next = [n \in Nodes |-> NullPointer]
  /\ val = [n \in Nodes |-> None]
  /\ allocated = 1
  /\ pc = [t \in Threads |-> "idle"]
  /\ got = [t \in Threads |-> {}]
  /\ arg = [t \in Threads |-> None]
  /\ newNode = [t \in Threads |-> NULL]
  /\ lhead = [t \in Threads |-> NullPointer]
  /\ ltail = [t \in Threads |-> NullPointer]
  /\ lnext = [t \in Threads |-> NullPointer]
  /\ chain = <<1>>
  /\ sawEmpty = {}

-----------------------------------------------------------------------------
(* Steps of any thread *)

Goto(t, from, to) ==
  /\ pc[t] = from
  /\ pc' = [pc EXCEPT ![t] = to]

\* One of the two loads of a copy made at line from; the second one completes it.
LoadWord(t, w, from, to) ==
  /\ pc[t] = from
  /\ w \notin got[t]
  /\ IF got[t] = {} THEN /\ got' = [got EXCEPT ![t] = {w}]
                         /\ UNCHANGED pc
                    ELSE /\ got' = [got EXCEPT ![t] = {}]
                         /\ pc' = [pc EXCEPT ![t] = to]

\* The pointer_t copy after word w of source has been loaded into it.
Loaded(copy, w, source) ==
  [ptr   |-> IF w = "ptr" THEN source.ptr ELSE copy.ptr,
   count |-> IF w = "count" THEN source.count ELSE copy.count]

\* head, tail and next are written again before they are read: what they hold
\* at the start of an iteration, or after the return, does not matter.
Forget(t) ==
  /\ lhead' = [lhead EXCEPT ![t] = NullPointer]
  /\ ltail' = [ltail EXCEPT ![t] = NullPointer]
  /\ lnext' = [lnext EXCEPT ![t] = NullPointer]

\* Mutant: the comparison looks at one of the two words only.
CasOneWord(addr, old, new) == IF addr.count = old.count THEN new ELSE addr

\* The contents of a pointer_t after cas(addr, old, new).
Cas(addr, old, new) == IF addr = old THEN new ELSE addr

\* The queue is empty when q->head is h.
Empty(h) == next[h.ptr].ptr = NULL

-----------------------------------------------------------------------------
(* enq *)

EnqCall(t, v) ==
  /\ Goto(t, "idle", "105")
  /\ arg' = [arg EXCEPT ![t] = v]
  /\ UNCHANGED <<shared, memory, got, locals, history>>

\* create_node returns NULL, and enq false.
CreateNodeFails(t) ==
  /\ Goto(t, "105", "idle")
  /\ arg' = [arg EXCEPT ![t] = None]
  /\ UNCHANGED <<shared, memory, got, locals, history>>

CreateNode(t) ==
  /\ Goto(t, "105", "109")
  /\ allocated < MaxNodes
  /\ allocated' = allocated + 1
  /\ newNode' = [newNode EXCEPT ![t] = allocated + 1]
  /\ val' = [val EXCEPT ![allocated + 1] = arg[t]]
  /\ next' = [next EXCEPT ![allocated + 1] = NullPointer]
  /\ UNCHANGED <<head, tail, got, arg, lhead, ltail, lnext, history>>

\* tail = q->tail
EnqLoadTail(t, w) ==
  /\ LoadWord(t, w, "109", "110")
  /\ ltail' = [ltail EXCEPT ![t] = Loaded(@, w, tail)]
  /\ UNCHANGED <<shared, memory, arg, newNode, lhead, lnext, history>>

\* next = tail.ptr->next
EnqLoadNext(t, w) ==
  /\ LoadWord(t, w, "110", "112count")
  /\ lnext' = [lnext EXCEPT ![t] = Loaded(@, w, next[ltail[t].ptr])]
  /\ UNCHANGED <<shared, memory, arg, newNode, lhead, ltail, history>>

EnqCheckCount(t) ==
  /\ ltail[t].count = tail.count
  /\ Goto(t, "112count", "112ptr")
  /\ UNCHANGED <<shared, memory, got, arg, locals, history>>

EnqCheckPtr(t) ==
  /\ ltail[t].ptr = tail.ptr
  /\ Goto(t, "112ptr", IF lnext[t].ptr = NULL THEN "116" ELSE "123")
  /\ UNCHANGED <<shared, memory, got, arg, locals, history>>

\* cas(&tail.ptr->next, next, <newNode, next.count + 1>): the effect of enq.
EnqLink(t) ==
  /\ Goto(t, "116", "128")
  /\ next[ltail[t].ptr] = lnext[t]
  /\ next' = [next EXCEPT ![ltail[t].ptr] =
                [ptr |-> newNode[t], count |-> lnext[t].count + 1]]
  /\ chain' = Append(chain, newNode[t])
  /\ UNCHANGED <<head, tail, memory, got, arg, locals, sawEmpty>>

\* q->tail has moved, or another thread has linked its node: once more.
EnqRetry(t) ==
  /\ \/ Goto(t, "112count", "109") /\ ltail[t].count # tail.count
     \/ Goto(t, "112ptr", "109") /\ ltail[t].ptr # tail.ptr
     \/ Goto(t, "116", "109") /\ next[ltail[t].ptr] # lnext[t]
  /\ Forget(t)
  /\ UNCHANGED <<shared, memory, got, arg, newNode, history>>

\* Mutant: wait for the other enq instead of helping it.
EnqWait(t) ==
  /\ Goto(t, "123", "109")
  /\ Forget(t)
  /\ UNCHANGED <<shared, memory, got, arg, newNode, history>>

\* cas(&q->tail, tail, <next.ptr, tail.count + 1>): help another enq.
EnqHelp(t) ==
  /\ Goto(t, "123", "109")
  /\ tail' = Cas(tail, ltail[t], [ptr |-> lnext[t].ptr, count |-> ltail[t].count + 1])
  /\ Forget(t)
  /\ UNCHANGED <<head, next, memory, got, arg, newNode, history>>

\* cas(&q->tail, tail, <newNode, tail.count + 1>), and return true.
EnqSwingTail(t) ==
  /\ Goto(t, "128", "idle")
  /\ tail' = Cas(tail, ltail[t], [ptr |-> newNode[t], count |-> ltail[t].count + 1])
  /\ arg' = [arg EXCEPT ![t] = None]
  /\ newNode' = [newNode EXCEPT ![t] = NULL]
  /\ Forget(t)
  /\ UNCHANGED <<head, next, memory, got, history>>

-----------------------------------------------------------------------------
(* deq *)

DeqCall(t) ==
  /\ Goto(t, "idle", "139")
  /\ sawEmpty' = IF Empty(head) THEN sawEmpty \cup {t} ELSE sawEmpty
  /\ UNCHANGED <<shared, memory, got, arg, locals, chain>>

\* head = q->head
DeqLoadHead(t, w) ==
  /\ LoadWord(t, w, "139", "140")
  /\ lhead' = [lhead EXCEPT ![t] = Loaded(@, w, head)]
  /\ UNCHANGED <<shared, memory, arg, newNode, ltail, lnext, history>>

\* tail = q->tail
DeqLoadTail(t, w) ==
  /\ LoadWord(t, w, "140", "141")
  /\ ltail' = [ltail EXCEPT ![t] = Loaded(@, w, tail)]
  /\ UNCHANGED <<shared, memory, arg, newNode, lhead, lnext, history>>

\* next = head.ptr->next
DeqLoadNext(t, w) ==
  /\ LoadWord(t, w, "141", "143count")
  /\ lnext' = [lnext EXCEPT ![t] = Loaded(@, w, next[lhead[t].ptr])]
  /\ UNCHANGED <<shared, memory, arg, newNode, lhead, ltail, history>>

DeqCheckCount(t) ==
  /\ lhead[t].count = head.count
  /\ Goto(t, "143count", "143ptr")
  /\ UNCHANGED <<shared, memory, got, arg, locals, history>>

\* Mutant: tail is not looked at.
DeqCheckPtrHeadOnly(t) ==
  /\ lhead[t].ptr = head.ptr
  /\ lnext[t].ptr # NULL
  /\ Goto(t, "143ptr", "153")
  /\ UNCHANGED <<shared, memory, got, arg, locals, history>>

\* Mutant: an empty queue is not told from a lagging tail.
DeqCheckPtrNoEmpty(t) ==
  /\ lhead[t].ptr = head.ptr
  /\ Goto(t, "143ptr", IF lhead[t].ptr = ltail[t].ptr THEN "150" ELSE "153")
  /\ UNCHANGED <<shared, memory, got, arg, locals, history>>

DeqCheckPtr(t) ==
  /\ lhead[t].ptr = head.ptr
  /\ lhead[t].ptr = ltail[t].ptr => lnext[t].ptr # NULL
  /\ Goto(t, "143ptr", IF lhead[t].ptr = ltail[t].ptr THEN "150" ELSE "153")
  /\ UNCHANGED <<shared, memory, got, arg, locals, history>>

\* The same check, when it ends in return false.
DeqReturnEmpty(t) ==
  /\ lhead[t].ptr = head.ptr
  /\ lhead[t].ptr = ltail[t].ptr /\ lnext[t].ptr = NULL
  /\ Goto(t, "143ptr", "idle")
  /\ arg' = [arg EXCEPT ![t] = None]
  /\ Forget(t)
  /\ sawEmpty' = sawEmpty \ {t}
  /\ UNCHANGED <<shared, memory, got, newNode, chain>>

\* Mutant: next.ptr is installed without the comparison.
DeqHelpStore(t) ==
  /\ Goto(t, "150", "139")
  /\ tail' = [ptr |-> lnext[t].ptr, count |-> lhead[t].count + 1]
  /\ Forget(t)
  /\ UNCHANGED <<head, next, memory, got, arg, newNode, history>>

\* cas(&q->tail, tail, <next.ptr, head.count + 1>): help an enq.  The count is
\* head's, not tail's, as the code has it.
DeqHelp(t) ==
  /\ Goto(t, "150", "139")
  /\ tail' = Cas(tail, ltail[t], [ptr |-> lnext[t].ptr, count |-> lhead[t].count + 1])
  /\ Forget(t)
  /\ UNCHANGED <<head, next, memory, got, arg, newNode, history>>

\* Mutant: the value of the dummy node, head.ptr->val.
DeqLoadValHead(t) ==
  /\ Goto(t, "153", "156")
  /\ arg' = [arg EXCEPT ![t] = val[lhead[t].ptr]]
  /\ UNCHANGED <<shared, memory, got, locals, history>>

\* *val = next.ptr->val
DeqLoadVal(t) ==
  /\ Goto(t, "153", "156")
  /\ arg' = [arg EXCEPT ![t] = val[lnext[t].ptr]]
  /\ UNCHANGED <<shared, memory, got, locals, history>>

\* cas(&q->head, head, <next.ptr, head.count + 1>): the effect of deq.
DeqUnlink(t) ==
  /\ head = lhead[t]
  /\ Goto(t, "156", "163")
  /\ head' = [ptr |-> lnext[t].ptr, count |-> lhead[t].count + 1]
  /\ sawEmpty' = IF Empty(head') THEN {u \in Threads : pc'[u] \in DeqLines \ {"163"}}
                                 ELSE sawEmpty \ {t}
  /\ UNCHANGED <<tail, next, memory, got, arg, locals, chain>>

\* q->head has moved: once more.
DeqRetry(t) ==
  /\ \/ Goto(t, "143count", "139") /\ lhead[t].count # head.count
     \/ Goto(t, "143ptr", "139") /\ lhead[t].ptr # head.ptr
     \/ Goto(t, "156", "139") /\ head # lhead[t]
  /\ Forget(t)
  /\ UNCHANGED <<shared, memory, got, arg, newNode, history>>

\* free_node does nothing; return true.
DeqReturn(t) ==
  /\ Goto(t, "163", "idle")
  /\ arg' = [arg EXCEPT ![t] = None]
  /\ Forget(t)
  /\ UNCHANGED <<shared, memory, got, newNode, history>>

-----------------------------------------------------------------------------
Step(t) ==
  \/ CreateNodeFails(t) \/ CreateNode(t)
  \/ \E w \in Words : EnqLoadTail(t, w) \/ EnqLoadNext(t, w)
  \/ EnqCheckCount(t) \/ EnqCheckPtr(t) \/ EnqRetry(t)
  \/ EnqLink(t) \/ EnqHelp(t) \/ EnqSwingTail(t)
  \/ \E w \in Words : DeqLoadHead(t, w) \/ DeqLoadTail(t, w) \/ DeqLoadNext(t, w)
  \/ DeqCheckCount(t) \/ DeqCheckPtr(t) \/ DeqRetry(t) \/ DeqReturnEmpty(t)
  \/ DeqHelp(t) \/ DeqLoadVal(t) \/ DeqUnlink(t) \/ DeqReturn(t)

Call(t) == DeqCall(t) \/ \E v \in Values : EnqCall(t, v)

Next == \E t \in Threads : Call(t) \/ Step(t)

Spec == Init /\ [][Next]_vars
-----------------------------------------------------------------------------
(* Properties *)

TypeOK ==
  /\ head \in Pointer /\ tail \in Pointer
  /\ next \in [Nodes -> Pointer]
  /\ val \in [Nodes -> Values \cup {None}]
  /\ allocated \in Nodes
  /\ pc \in [Threads -> {"idle"} \cup EnqLines \cup DeqLines]
  /\ got \in [Threads -> {{}, {"ptr"}, {"count"}}]
  /\ arg \in [Threads -> Values \cup {None}]
  /\ newNode \in [Threads -> Nodes \cup {NULL}]
  /\ lhead \in [Threads -> Pointer]
  /\ ltail \in [Threads -> Pointer]
  /\ lnext \in [Threads -> Pointer]
  /\ chain \in Seq(Nodes)
  /\ sawEmpty \in SUBSET Threads

\* Where a node stands in the chain.
Pos(n) == CHOOSE i \in 1..Len(chain) : chain[i] = n

\* The values in the queue: those of the nodes behind head's.
Items == [i \in 1..(Len(chain) - Pos(head.ptr)) |-> val[chain[Pos(head.ptr) + i]]]

AbstractOp(line) ==
  CASE line = "idle" -> "idle"
    [] line = "128" -> "enqed"
    [] line = "163" -> "deqed"
    [] line \in EnqLines \ {"128"} -> "enq"
    [] line \in DeqLines \ {"163"} -> "deq"

Abstract == INSTANCE FIFOQueue WITH
  items    <- Items,
  op       <- [t \in Threads |-> AbstractOp(pc[t])],
  arg      <- [t \in Threads |-> IF pc[t] \in DeqLines \ {"163"} THEN None ELSE arg[t]]

\* enq and deq are linearizable: whatever the interleaving, and whatever torn
\* copies of head, tail and next the threads work with, an enq takes effect at
\* its successful cas of line 116, a deq at its successful cas of line 156 with
\* the oldest value in *val, and deq returns false only if the queue was empty
\* at some moment of the call.
Linearizable == Abstract!Spec

\* The nodes' next fields are the chain: each linked node points to the one
\* linked after it and the last one to NULL, so that head's node is followed by
\* exactly the values not yet dequeued, and no cas ever cuts or forks the list.
NextFollowsChain ==
  /\ \A i, j \in 1..Len(chain) : i # j => chain[i] # chain[j]
  /\ \A i \in 1..Len(chain) :
       next[chain[i]].ptr = IF i = Len(chain) THEN NULL ELSE chain[i + 1]

\* q->head never overtakes q->tail, though deq compares two copies taken at
\* different moments; and q->tail is the last node or the one before it.
HeadBehindTail ==
  \E h, l \in 1..Len(chain) :
    /\ chain[h] = head.ptr
    /\ chain[l] = tail.ptr
    /\ h <= l
    /\ Len(chain) <= l + 1

\* No NULL is dereferenced: not tail.ptr at line 110, not head.ptr at line 141,
\* not tail.ptr at line 116, and not next.ptr at line 153, which deq reaches
\* without testing it when its copies of head and tail differ.
NoNullDereference ==
  \A t \in Threads :
    /\ pc[t] \in {"110", "116"} => ltail[t].ptr # NULL
    /\ pc[t] = "141" => lhead[t].ptr # NULL
    /\ pc[t] = "153" => lnext[t].ptr # NULL

\* q->head and q->tail move along the links, one node at a time and never back:
\* a cas with a stale copy fails, even with the count that line 149 takes from
\* head instead of tail.
EndsFollowLinks ==
  [][/\ head' # head => head'.ptr = next[head.ptr].ptr
     /\ tail' # tail => tail'.ptr = next[tail.ptr].ptr]_vars

-----------------------------------------------------------------------------
(* The inductive invariant behind the properties above *)

Linked(n) == \E i \in 1..Len(chain) : chain[i] = n

\* Node m was linked before node n, or is the same node.
NotAfter(m, n) ==
  \E i, j \in 1..Len(chain) : chain[i] = m /\ chain[j] = n /\ i <= j

\* A copy is under way only at the lines that make one.
Copying == \A t \in Threads : got[t] # {} => pc[t] \in {"109", "110", "139", "140", "141"}

\* The copy under way at line has its ptr word.
HasPtr(t, line) == pc[t] = line /\ "ptr" \in got[t]

\* Thread t is in enq with a node of its own that is not linked yet.
OwnsNode(t) == pc[t] \in {"109", "110", "112count", "112ptr", "116", "123"}

InDeq(t) == pc[t] \in DeqLines \ {"163"}

\* A node is linked once, by the thread that allocated it, and until then no
\* other thread can reach it.
Ownership ==
  /\ \A i \in 1..Len(chain) : chain[i] <= allocated
  /\ \A t \in Threads : OwnsNode(t) =>
       /\ newNode[t] \in 1..allocated
       /\ ~ Linked(newNode[t])
       /\ next[newNode[t]].ptr = NULL
       /\ val[newNode[t]] = arg[t]
       /\ \A u \in Threads : u # t /\ OwnsNode(u) => newNode[u] # newNode[t]

\* What a thread in enq knows of the list from its copies.
EnqView(t) ==
  /\ HasPtr(t, "109") \/ pc[t] \in {"110", "112count", "112ptr", "116", "123", "128"}
       => NotAfter(ltail[t].ptr, tail.ptr)
  /\ HasPtr(t, "110") \/ pc[t] \in {"112count", "112ptr", "116", "123"}
       => lnext[t].ptr \in {NULL, next[ltail[t].ptr].ptr}
  /\ pc[t] = "116" => lnext[t].ptr = NULL
  /\ pc[t] = "123" => lnext[t].ptr # NULL
  /\ pc[t] = "128" => newNode[t] # NULL /\ next[ltail[t].ptr].ptr = newNode[t]

\* What a thread in deq knows of the list from its copies.
DeqView(t) ==
  /\ HasPtr(t, "139") \/ pc[t] \in DeqLines \ {"139", "163"}
       => NotAfter(lhead[t].ptr, head.ptr)
  /\ HasPtr(t, "140") \/ pc[t] \in DeqLines \ {"139", "140", "163"}
       => NotAfter(lhead[t].ptr, ltail[t].ptr) /\ NotAfter(ltail[t].ptr, tail.ptr)
  /\ HasPtr(t, "141") \/ pc[t] \in DeqLines \ {"139", "140", "141", "163"} =>
       \/ lnext[t].ptr # NULL /\ lnext[t].ptr = next[lhead[t].ptr].ptr
       \/ lnext[t].ptr = NULL /\ lhead[t].ptr = ltail[t].ptr /\ t \in sawEmpty
  /\ pc[t] \in {"150", "153", "156"} => lnext[t].ptr # NULL
  /\ pc[t] = "150" => lhead[t].ptr = ltail[t].ptr
  /\ pc[t] \in {"153", "156"} => lhead[t].ptr # ltail[t].ptr
  /\ pc[t] = "156" => arg[t] = val[lnext[t].ptr]

\* The threads in deq while the queue is empty have seen it empty.
SawEmpty ==
  /\ \A t \in sawEmpty : InDeq(t)
  /\ \A t \in Threads : InDeq(t) /\ Empty(head) => t \in sawEmpty

\* The copies of q->head and q->tail a thread works with are old at worst: they
\* name nodes of the list, in list order, whatever was torn or has moved since.
IInv ==
  /\ TypeOK
  /\ Len(chain) > 0
  /\ NextFollowsChain
  /\ HeadBehindTail
  /\ Ownership
  /\ Copying
  /\ \A t \in Threads : EnqView(t) /\ DeqView(t)
  /\ SawEmpty

-----------------------------------------------------------------------------
(* Liveness *)

\* The scheduler keeps running thread t; the others may stop for good anywhere.
FairSpec(t) == Spec /\ WF_vars(Step(t))

\* Some call returns.
SomeReturn == \E u \in Threads : pc[u] # "idle" /\ pc'[u] = "idle"

\* Lock-freedom: a thread that keeps running either finishes its call, or calls
\* of other threads keep finishing.
LockFree(t) == []<>(pc[t] = "idle") \/ []<><<SomeReturn>>_vars
=============================================================================
