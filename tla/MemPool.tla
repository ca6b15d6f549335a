------------------------------ MODULE MemPool -------------------------------
(***************************************************************************)
(* The packet pool of mempool.c, with the doubly linked lists of list.h    *)
(* that its buffers are on, as netrecv_thread and process_thread use it:   *)
(* the one takes buffers, the other returns them.                          *)
(*                                                                         *)
(* Every store to a link is a step of its own, because mem_pool_put reads  *)
(* two links before it takes the lock.  The stores of one list operation   *)
(* are done in any order, as a compiler or a processor may do them.        *)
(* mem_pool_clone is part of the pool's interface, though the program      *)
(* does not call it; mem_pool_destroy comes after main's endless loop.     *)
(* A wait returns only when it was signalled; module Pipeline shows what   *)
(* happens otherwise.                                                      *)
(***************************************************************************)
EXTENDS Naturals, Sequences

CONSTANTS
    Memory,         \* the buffers in the order they lie in the pool's memory
    Clones,         \* memory blocks that mem_pool_clone may get from malloc
    FreeHead,       \* the list head mem_pool->free
    UseHead,        \* the list head mem_pool->use
    Null,
    Poison          \* LIST_POISON1 and LIST_POISON2

Buffers == {Memory[i] : i \in 1..Len(Memory)}
Heads == {FreeHead, UseHead}
Nodes == Heads \cup Buffers \cup Clones

ASSUME MemPoolAssumption ==
    /\ Memory \in Seq(Buffers) /\ Memory # <<>>
    /\ \A i, j \in 1..Len(Memory) : Memory[i] = Memory[j] => i = j
    /\ FreeHead # UseHead /\ Null # Poison
    /\ Heads \cap (Buffers \cup Clones) = {} /\ Buffers \cap Clones = {}
    /\ {Null, Poison} \cap Nodes = {}

VARIABLES
    created,    \* how many buffers mem_pool_create has put on the free list
    link,       \* link[<<n, "next">>] and link[<<n, "prev">>] of each list_head n
    stores,     \* the stores of the list operation under way, not yet done
    lock,       \* which thread holds g_poollock: "recv", "proc" or "none"
    getPc,      \* where netrecv_thread is in mem_pool_get
    getNode,    \* its list
    putPc,      \* where process_thread is in mem_pool_put
    putNode,    \* its list
    out,        \* the buffers handed out and not yet given to mem_pool_put
    copies,     \* the clones alive
    free, used  \* history: the entries of the two lists, from the front on

getVars == <<getPc, getNode>>
putVars == <<putPc, putNode>>
lists == <<free, used>>
vars == <<created, link, stores, lock, getVars, putVars, out, copies, lists>>

Fields == {"next", "prev"}

----------------------------------------------------------------------------
\* list.h.  A list operation is a set of stores: locations and their values.

NextOf(l, n) == l[<<n, "next">>]
PrevOf(l, n) == l[<<n, "prev">>]

\* Memory l after the stores ss, each to a location of its own.
StoreAll(l, ss) ==
    [loc \in Nodes \X Fields |->
        IF \E s \in ss : s[1] = loc THEN (CHOOSE s \in ss : s[1] = loc)[2] ELSE l[loc]]

\* INIT_LIST_HEAD of both heads.  Links not set yet hold what malloc left
\* there; nothing reads them.
InitHeads == [loc \in Nodes \X Fields |-> IF loc[1] \in Heads THEN loc[1] ELSE Null]

\* Mutant: the entry behind the new one still points back to the head.
AddWithoutBackLink(l, a, h) ==
    {<< <<a, "next">>, NextOf(l, h) >>, << <<a, "prev">>, h >>, << <<h, "next">>, a >>}

\* list_add: a becomes the first entry of the list with head h.
ListAdd(l, a, h) ==
    {<< <<NextOf(l, h), "prev">>, a >>,
     << <<a, "next">>, NextOf(l, h) >>,
     << <<a, "prev">>, h >>,
     << <<h, "next">>, a >>}

\* list_del: the entries around e point to each other.
ListDel(l, e) ==
    {<< <<NextOf(l, e), "prev">>, PrevOf(l, e) >>,
     << <<PrevOf(l, e), "next">>, NextOf(l, e) >>,
     << <<e, "next">>, Poison >>,
     << <<e, "prev">>, Poison >>}

\* list_empty
ListEmpty(h) == NextOf(link, h) = h

\* What list_add and list_del do to the entries.
Before(a, s) == <<a>> \o s

Without(s, e) ==
    [i \in 1..Len(s) - 1 |-> IF \E j \in 1..i : s[j] = e THEN s[i + 1] ELSE s[i]]

\* A turn of mem_pool_create's loop; the threads start later.
AddBuffer ==
    /\ created < Len(Memory)
    /\ created' = created + 1
    /\ link' = StoreAll(link, ListAdd(link, Memory[created'], FreeHead))
    /\ free' = Before(Memory[created'], free)
    /\ UNCHANGED <<stores, lock, getVars, putVars, out, copies, used>>

\* The thread that holds the lock does a store of its list operation.
StoreLink ==
    /\ \E s \in stores : link' = StoreAll(link, {s}) /\ stores' = stores \ {s}
    /\ UNCHANGED <<created, lock, getVars, putVars, out, copies, lists>>

----------------------------------------------------------------------------
\* mem_pool_get: lock, list_del of the first free buffer, list_add to the used
\* ones, unlock.

\* Mutant: the last free buffer is taken.
TakeLast ==
    /\ lock' = "recv"
    /\ getNode' = PrevOf(link, FreeHead)
    /\ stores' = ListDel(link, getNode')
    /\ free' = Without(free, getNode')
    /\ getPc' = "unlink"

TakeFirst ==
    /\ lock' = "recv"
    /\ getNode' = NextOf(link, FreeHead)
    /\ stores' = ListDel(link, getNode')
    /\ free' = Without(free, getNode')
    /\ getPc' = "unlink"

\* Mutant: the free list is taken to have a buffer.
GetWithoutTest ==
    /\ getPc = "call" /\ lock = "none" /\ created = Len(Memory)
    /\ TakeFirst
    /\ UNCHANGED <<created, link, putVars, out, copies, used>>

\* pthread_cond_wait releases the lock as it begins to wait.
Get ==
    /\ getPc = "call" /\ lock = "none" /\ created = Len(Memory)
    /\ IF ListEmpty(FreeHead)
       THEN getPc' = "wait" /\ UNCHANGED <<lock, getNode, stores, free>>
       ELSE TakeFirst
    /\ UNCHANGED <<created, link, putVars, out, copies, used>>

GetAfterWait ==
    /\ getPc = "woken" /\ lock = "none"
    /\ TakeFirst
    /\ UNCHANGED <<created, link, putVars, out, copies, used>>

LinkAsUsed ==
    /\ getPc = "unlink" /\ stores = {}
    /\ stores' = ListAdd(link, getNode, UseHead)
    /\ used' = Before(getNode, used)
    /\ getPc' = "link"
    /\ UNCHANGED <<created, link, lock, getNode, putVars, out, copies, free>>

Got ==
    /\ getPc = "link" /\ stores = {}
    /\ lock' = "none"
    /\ getPc' = "call"
    /\ out' = out \cup {getNode}
    /\ UNCHANGED <<created, link, stores, getNode, putVars, copies, lists>>

----------------------------------------------------------------------------
\* mem_pool_clone.

\* Mutant: the clone gets the links of what it is a clone of.
SameLinks(c, n) == {<< <<c, f>>, link[<<n, f>>] >> : f \in Fields}

\* A clone has null links, by which mem_pool_put knows it.
NoLinks(c, n) == {<< <<c, f>>, Null >> : f \in Fields}

\* A malloc that fails changes nothing.
Clone ==
    /\ putPc = "call"
    /\ \E n \in out \cup copies, c \in Clones \ copies :
         /\ link' = StoreAll(link, NoLinks(c, n))
         /\ copies' = copies \cup {c}
    /\ UNCHANGED <<created, stores, lock, getVars, putVars, out, lists>>

----------------------------------------------------------------------------
\* mem_pool_put: test for a clone, then lock, list_del from the used buffers,
\* list_add to the free ones, signal, unlock.

\* No caller passes a null pool or node.
CallPut ==
    /\ putPc = "call"
    /\ putNode' \in out \cup copies
    /\ out' = out \ {putNode'}
    /\ putPc' = "testPrev"
    /\ UNCHANGED <<created, link, stores, lock, getVars, copies, lists>>

\* The test reads both links without the lock.
TestPrev ==
    /\ putPc = "testPrev"
    /\ putPc' = IF PrevOf(link, putNode) = Null THEN "testNext" ELSE "lock"
    /\ UNCHANGED <<created, link, stores, lock, getVars, putNode, out, copies, lists>>

TestNext ==
    /\ putPc = "testNext"
    /\ putPc' = IF NextOf(link, putNode) = Null THEN "free" ELSE "lock"
    /\ UNCHANGED <<created, link, stores, lock, getVars, putNode, out, copies, lists>>

\* A clone goes back to malloc.
FreeClone ==
    /\ putPc = "free"
    /\ copies' = copies \ {putNode}
    /\ putPc' = "call"
    /\ UNCHANGED <<created, link, stores, lock, getVars, putNode, out, lists>>

LockToPut ==
    /\ putPc = "lock" /\ lock = "none"
    /\ lock' = "proc"
    /\ stores' = ListDel(link, putNode)
    /\ used' = Without(used, putNode)
    /\ putPc' = "unlink"
    /\ UNCHANGED <<created, link, getVars, putNode, out, copies, free>>

LinkAsFree ==
    /\ putPc = "unlink" /\ stores = {}
    /\ stores' = ListAdd(link, putNode, FreeHead)
    /\ free' = Before(putNode, free)
    /\ putPc' = "link"
    /\ UNCHANGED <<created, link, lock, getVars, putNode, out, copies, used>>

Put ==
    /\ putPc = "link" /\ stores = {}
    /\ getPc' = IF getPc = "wait" THEN "woken" ELSE getPc
    /\ lock' = "none"
    /\ putPc' = "call"
    /\ UNCHANGED <<created, link, stores, getNode, putNode, out, copies, lists>>

----------------------------------------------------------------------------
Init ==
    /\ created = 0
    /\ link = InitHeads
    /\ stores = {}
    /\ lock = "none"
    /\ getPc = "call" /\ getNode = Null
    /\ putPc = "call" /\ putNode = Null
    /\ out = {}
    /\ copies = {}
    /\ free = <<>> /\ used = <<>>

Next ==
    \/ AddBuffer
    \/ StoreLink
    \/ Get \/ GetAfterWait \/ LinkAsUsed \/ Got
    \/ Clone
    \/ CallPut \/ TestPrev \/ TestNext \/ FreeClone \/ LockToPut \/ LinkAsFree \/ Put

Spec == Init /\ [][Next]_vars

----------------------------------------------------------------------------
TypeOK ==
    /\ created \in 0..Len(Memory)
    /\ link \in [Nodes \X Fields -> Nodes \cup {Null, Poison}]
    /\ stores \in SUBSET ((Nodes \X Fields) \X (Nodes \cup {Null, Poison}))
    /\ lock \in {"none", "recv", "proc"}
    /\ getPc \in {"call", "wait", "woken", "unlink", "link"}
    /\ getNode \in Buffers \cup {Null}
    /\ putPc \in {"call", "testPrev", "testNext", "free", "lock", "unlink", "link"}
    /\ putNode \in Buffers \cup Clones \cup {Null}
    /\ out \in SUBSET Buffers
    /\ copies \in SUBSET Clones
    /\ free \in Seq(Buffers) /\ used \in Seq(Buffers)

\* The i-th node of the ring that the list with head h and entries s forms.
At(h, s, i) == IF i \in 1..Len(s) THEN s[i] ELSE h

\* Read in l, forward and backward, the list with head h has the entries s.
ListIs(l, h, s) ==
    \A i \in 0..Len(s) :
        /\ NextOf(l, At(h, s, i)) = At(h, s, i + 1)
        /\ PrevOf(l, At(h, s, i + 1)) = At(h, s, i)

\* No entry twice.
Distinct(s) == \A i, j \in 1..Len(s) : s[i] = s[j] => i = j

Entries(s) == {s[i] : i \in 1..Len(s)}

\* What the two lists are when nobody is changing them: forward and backward
\* their entries are those that list_add and list_del should have left, and
\* every buffer of the pool is on one of them once.
ListsIntact ==
    lock = "none" =>
        /\ ListIs(link, FreeHead, free) /\ ListIs(link, UseHead, used)
        /\ Distinct(free) /\ Distinct(used)
        /\ Entries(free) \cap Entries(used) = {}
        /\ Entries(free) \cup Entries(used) = {Memory[i] : i \in 1..created}

\* The test for a clone is right although it reads the links of a used buffer
\* while netrecv_thread may be linking a new neighbour to it: only clones are
\* given to free, only buffers of the pool are put on its list.
CloneTestIsRight ==
    /\ putPc \in {"testNext", "free"} => putNode \in Clones
    /\ putPc \in {"lock", "unlink", "link"} => putNode \in Buffers

\* The pool starts full, with the last buffer in memory on top.
Full == [i \in 1..Len(Memory) |-> Memory[Len(Memory) + 1 - i]]

Stack == IF created < Len(Memory) THEN Full ELSE free

\* A buffer is out from list_del in mem_pool_get to list_add in mem_pool_put.
OutOfPool ==
    out \cup (IF getPc \in {"unlink", "link"} THEN {getNode} ELSE {})
        \cup (IF putPc \notin {"call", "link"} /\ putNode \in Buffers THEN {putNode} ELSE {})

Pool == INSTANCE BufferStack WITH Initial <- Full, stack <- Stack, out <- OutOfPool

\* The linked lists under their lock are a stack: mem_pool_get hands out the
\* buffer returned last, and nobody has it already.
ImplementsStack == Pool!Spec
=============================================================================
