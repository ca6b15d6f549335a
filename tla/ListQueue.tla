----------------------------- MODULE ListQueue ------------------------------
(***************************************************************************)
(* The list queue of queue.c: MyList nodes on the heap, linked from first  *)
(* to last, one mutex and one condition variable.  A step is one critical  *)
(* section, except that list_queue_flush takes one step per node, with the *)
(* mutex held throughout.  The queue is as main leaves it, with            *)
(* abort_request cleared; module Pipeline has the time before.             *)
(***************************************************************************)
EXTENDS Integers, Sequences, FiniteSets

CONSTANTS
    Nodes,      \* places on the heap for a MyList
    Packets,
    Consumers,  \* threads that call list_queue_get
    Null

ASSUME QueueAssumption ==
    /\ IsFiniteSet(Nodes) /\ Null \notin Nodes
    /\ IsFiniteSet(Consumers) /\ Consumers # {}
    /\ Null \notin Packets

VARIABLES
    first, last, num, abort_request,
    node,       \* node[n]: the MyList at n
    allocated,  \* the nodes malloc has returned and free has not got back
    pc,         \* pc[c]: outside of get, waiting in it, or woken
    flushing,   \* a thread is in list_queue_flush, with the mutex
    cursor,     \* its pkt
    answer,     \* what the last call of put or get returned
    chain       \* history: the nodes from first to last

vars == <<first, last, num, abort_request, node, allocated, pc, flushing, cursor, answer, chain>>

Answer(call, ret, pkt) == [call |-> call, ret |-> ret, pkt |-> pkt]

Waiting == {c \in Consumers : pc[c] = "wait"}
Woken == {c \in Consumers : pc[c] = "woken"}

\* Whatever a freed node holds, nobody may rely on it.
Freed == [pkt |-> Null, next |-> Null]

\* Mutant: the signal gets lost.
NoSignal == UNCHANGED pc

\* pthread_cond_signal wakes one waiter, if there is one.
Signal ==
    IF Waiting = {} THEN UNCHANGED pc
    ELSE \E c \in Waiting : pc' = [pc EXCEPT ![c] = "woken"]

----------------------------------------------------------------------------
\* list_queue_put

\* The stores of list_queue_put_private.
Link(n, p) ==
    /\ node' = [m \in Nodes |-> IF m = n THEN [pkt |-> p, next |-> Null]
                                ELSE IF m = last THEN [node[m] EXCEPT !.next = n]
                                ELSE node[m]]
    /\ first' = IF last = Null THEN n ELSE first
    /\ last' = n

Put(p) ==
    /\ ~flushing /\ ~abort_request
    /\ \E n \in Nodes \ allocated :
         /\ Link(n, p)
         /\ allocated' = allocated \cup {n}
         /\ chain' = Append(chain, n)
    /\ num' = num + 1
    /\ Signal
    /\ answer' = Answer("put", 0, p)
    /\ UNCHANGED <<abort_request, flushing, cursor>>

\* abort_request is set, or malloc fails.
PutFails ==
    /\ ~flushing
    /\ answer' = Answer("put", -1, Null)
    /\ UNCHANGED <<first, last, num, abort_request, node, allocated, pc, flushing, cursor, chain>>

----------------------------------------------------------------------------
\* list_queue_get: one pass of its loop by consumer c.

GetAborted(c) ==
    /\ abort_request
    /\ pc' = [pc EXCEPT ![c] = "out"]
    /\ answer' = Answer("get", -1, Null)
    /\ UNCHANGED <<first, last, num, abort_request, node, allocated, flushing, cursor, chain>>

\* Mutant: last keeps pointing to the node that is freed.
UnlinkFirstOnly == first' = node[first].next /\ UNCHANGED last

UnlinkFirst ==
    /\ first' = node[first].next
    /\ last' = IF first' = Null THEN Null ELSE last

TakeFirst(c) ==
    /\ ~abort_request /\ first # Null
    /\ UnlinkFirst
    /\ num' = num - 1
    /\ answer' = Answer("get", 1, node[first].pkt)
    /\ allocated' = allocated \ {first}
    /\ node' = [node EXCEPT ![first] = Freed]
    /\ chain' = Tail(chain)
    /\ pc' = [pc EXCEPT ![c] = "out"]
    /\ UNCHANGED <<abort_request, flushing, cursor>>

FindNothing(c) ==
    /\ ~abort_request /\ first = Null
    /\ pc' = [pc EXCEPT ![c] = "out"]
    /\ answer' = Answer("get", 0, Null)
    /\ UNCHANGED <<first, last, num, abort_request, node, allocated, flushing, cursor, chain>>

\* Mutant: an abort is noticed only together with a packet.
WaitThroughAbort(c) ==
    /\ first = Null
    /\ pc' = [pc EXCEPT ![c] = "wait"]
    /\ UNCHANGED <<first, last, num, abort_request, node, allocated, flushing, cursor, answer, chain>>

Wait(c) ==
    /\ ~abort_request /\ first = Null
    /\ pc' = [pc EXCEPT ![c] = "wait"]
    /\ UNCHANGED <<first, last, num, abort_request, node, allocated, flushing, cursor, answer, chain>>

\* A call with or without block.
Call(c) ==
    /\ pc[c] = "out" /\ ~flushing
    /\ GetAborted(c) \/ TakeFirst(c) \/ FindNothing(c) \/ Wait(c)

\* pthread_cond_wait returns in a call with block.
Resume(c) ==
    /\ pc[c] = "woken" /\ ~flushing
    /\ GetAborted(c) \/ TakeFirst(c) \/ Wait(c)

\* POSIX allows it to return without a signal.
SpuriousWakeup(c) ==
    /\ pc[c] = "wait"
    /\ pc' = [pc EXCEPT ![c] = "woken"]
    /\ UNCHANGED <<first, last, num, abort_request, node, allocated, flushing, cursor, answer, chain>>

----------------------------------------------------------------------------
\* list_queue_flush, which list_queue_destroy calls too

FlushStart ==
    /\ ~flushing
    /\ flushing' = TRUE
    /\ cursor' = first
    /\ UNCHANGED <<first, last, num, abort_request, node, allocated, pc, answer, chain>>

\* Mutant: the next node is read from the one that was freed.
FreeAndAdvance ==
    /\ node' = [node EXCEPT ![cursor] = Freed]
    /\ cursor' = node'[cursor].next

AdvanceAndFree ==
    /\ cursor' = node[cursor].next
    /\ node' = [node EXCEPT ![cursor] = Freed]

FlushNode ==
    /\ flushing /\ cursor # Null
    /\ AdvanceAndFree
    /\ allocated' = allocated \ {cursor}
    /\ chain' = Tail(chain)
    /\ UNCHANGED <<first, last, num, abort_request, pc, flushing, answer>>

\* Mutant: num keeps counting the packets that are gone.
EmptyWithoutNum == first' = Null /\ last' = Null /\ UNCHANGED num

Empty == first' = Null /\ last' = Null /\ num' = 0

FlushEnd ==
    /\ flushing /\ cursor = Null
    /\ Empty
    /\ flushing' = FALSE
    /\ UNCHANGED <<abort_request, node, allocated, pc, cursor, answer, chain>>

----------------------------------------------------------------------------
Abort ==
    /\ ~flushing
    /\ abort_request' = TRUE
    /\ Signal
    /\ UNCHANGED <<first, last, num, node, allocated, flushing, cursor, answer, chain>>

Init ==
    /\ first = Null /\ last = Null /\ num = 0
    /\ abort_request = FALSE
    /\ node = [n \in Nodes |-> Freed]
    /\ allocated = {}
    /\ pc = [c \in Consumers |-> "out"]
    /\ flushing = FALSE /\ cursor = Null
    /\ answer = Answer("none", 0, Null)
    /\ chain = <<>>

Flush == FlushStart \/ FlushNode \/ FlushEnd

Next ==
    \/ \E p \in Packets : Put(p)
    \/ PutFails
    \/ \E c \in Consumers : Call(c) \/ Resume(c) \/ SpuriousWakeup(c)
    \/ Flush
    \/ Abort

Spec == Init /\ [][Next]_vars

\* A thread that was woken gets the mutex, and one that has it releases it.
Fairness ==
    /\ \A c \in Consumers : WF_vars(Resume(c))
    /\ WF_vars(FlushNode \/ FlushEnd)

FairSpec == Spec /\ Fairness

----------------------------------------------------------------------------
TypeOK ==
    /\ first \in Nodes \cup {Null} /\ last \in Nodes \cup {Null} /\ cursor \in Nodes \cup {Null}
    /\ num \in 0..Cardinality(Nodes)
    /\ abort_request \in BOOLEAN /\ flushing \in BOOLEAN
    /\ node \in [Nodes -> [pkt : Packets \cup {Null}, next : Nodes \cup {Null}]]
    /\ allocated \in SUBSET Nodes
    /\ pc \in [Consumers -> {"out", "wait", "woken"}]
    /\ answer \in [call : {"none", "put", "get"}, ret : -1..1, pkt : Packets \cup {Null}]
    /\ chain \in Seq(Nodes)

\* The nodes in use are those of the chain, each once, and the pointers lead
\* from the first to the last of them, each with a packet: none is leaked, none
\* is reached after free, not even half-way through a flush.
ListIntact ==
    /\ allocated = {chain[i] : i \in 1..Len(chain)}
    /\ \A i, j \in 1..Len(chain) : chain[i] = chain[j] => i = j
    /\ \A i \in 1..Len(chain) :
         /\ node[chain[i]].pkt \in Packets
         /\ node[chain[i]].next = IF i = Len(chain) THEN Null ELSE chain[i + 1]
    /\ IF flushing
       THEN cursor = IF chain = <<>> THEN Null ELSE chain[1]
       ELSE /\ num = Len(chain)
            /\ first = IF chain = <<>> THEN Null ELSE chain[1]
            /\ last = IF chain = <<>> THEN Null ELSE chain[Len(chain)]

\* When someone waits, as many others are on their way as there are packets
\* for them, although every put signals one thread only and others may take
\* the packet first.
SignalsCover ==
    ~flushing /\ ~abort_request /\ Waiting # {} => Cardinality(Woken) >= num

\* list_queue_abort signals once: a single consumer never stays in its wait, of
\* several one does not.
AbortReachesOne == abort_request => Waiting # Consumers

\* The packets a caller may still get: what is being flushed is already gone.
Contents == IF flushing THEN <<>> ELSE [i \in 1..Len(chain) |-> node[chain[i]].pkt]

Queue == INSTANCE PacketQueue WITH
    items <- Contents, aborted <- abort_request, calling <- Waiting \cup Woken

\* Callers see a first-in first-out queue with abort, whose waiting getters are
\* served while there are packets.
ImplementsQueue == Queue!FairSpec
=============================================================================
