----------------------------- MODULE RingQueue ------------------------------
(***************************************************************************)
(* The ring queue of queue.c with one producer and one consumer.  Nobody   *)
(* in the program calls it; its interface asks the producer for            *)
(* ring_queue_peek_writable, filling the packet, ring_queue_push, and the  *)
(* consumer for ring_queue_peek_readable, using the packet,                *)
(* ring_queue_pull, over and over.  The test of abort_request behind the   *)
(* wait, the packets and the indexes are used without the mutex, so these  *)
(* are steps of their own.  abort_request is clear at first, as main       *)
(* clears the list queue's.                                                *)
(***************************************************************************)
EXTENDS Integers, Sequences

CONSTANTS
    MaxSize,    \* max_size
    Packets,
    Null        \* the packet of a place that memset has cleared

\* ring_queue_init gives max_size an upper bound only; with none, both wait.
ASSUME RingAssumption == MaxSize \in Nat \ {0} /\ Null \notin Packets

VARIABLES
    queue, rindex, windex, size, abort_request,
    ppc, cpc,   \* where the producer and the consumer are
    out         \* the packet the consumer used last

vars == <<queue, rindex, windex, size, abort_request, ppc, cpc, out>>

Places == 0..MaxSize - 1

\* Mutant: the index runs on into the unused part of the array.
Forward(i) == i + 1

\* ++index, and back to the start at max_size.
Advance(i) == IF i + 1 = MaxSize THEN 0 ELSE i + 1

\* Mutant: no signal.
NoSignal(p, c) == ppc' = p /\ cpc' = c

\* pthread_cond_signal wakes one waiter; both wait on the same condition.  The
\* caller goes on to p or c, whichever of the two it is.
Signal(p, c) ==
    IF p # "wait" /\ c # "wait" THEN ppc' = p /\ cpc' = c
    ELSE \/ p = "wait" /\ ppc' = "woken" /\ cpc' = c
         \/ c = "wait" /\ ppc' = p /\ cpc' = "woken"

----------------------------------------------------------------------------
\* The producer.

\* Mutant: one packet more is let in.
RoomForMore == size <= MaxSize

HasRoom == size < MaxSize

\* ring_queue_peek_writable up to its unlock, or one more turn of its loop.
PeekWritable ==
    /\ ppc \in {"out", "woken"}
    /\ ppc' = IF ~HasRoom /\ ~abort_request THEN "wait" ELSE "test"
    /\ UNCHANGED <<queue, rindex, windex, size, abort_request, cpc, out>>

\* It returns NULL, or the place to fill.
TestAbortWriting ==
    /\ ppc = "test"
    /\ ppc' = IF abort_request THEN "out" ELSE "fill"
    /\ UNCHANGED <<queue, rindex, windex, size, abort_request, cpc, out>>

Fill ==
    /\ ppc = "fill"
    /\ \E p \in Packets : queue' = [queue EXCEPT ![windex] = p]
    /\ ppc' = "push"
    /\ UNCHANGED <<rindex, windex, size, abort_request, cpc, out>>

\* ring_queue_push before its lock
AdvanceWriting ==
    /\ ppc = "push"
    /\ windex' = Advance(windex)
    /\ ppc' = "pushed"
    /\ UNCHANGED <<queue, rindex, size, abort_request, cpc, out>>

Push ==
    /\ ppc = "pushed"
    /\ size' = size + 1
    /\ Signal("out", cpc)
    /\ UNCHANGED <<queue, rindex, windex, abort_request, out>>

----------------------------------------------------------------------------
\* The consumer.

PeekReadable ==
    /\ cpc \in {"out", "woken"}
    /\ cpc' = IF size <= 0 /\ ~abort_request THEN "wait" ELSE "test"
    /\ UNCHANGED <<queue, rindex, windex, size, abort_request, ppc, out>>

\* Mutant: the place is returned without another look at abort_request.
ReadDespiteAbort ==
    /\ cpc = "test"
    /\ cpc' = "use"
    /\ UNCHANGED <<queue, rindex, windex, size, abort_request, ppc, out>>

TestAbortReading ==
    /\ cpc = "test"
    /\ cpc' = IF abort_request THEN "out" ELSE "use"
    /\ UNCHANGED <<queue, rindex, windex, size, abort_request, ppc, out>>

Use ==
    /\ cpc = "use"
    /\ out' = queue[rindex]
    /\ cpc' = "pull"
    /\ UNCHANGED <<queue, rindex, windex, size, abort_request, ppc>>

\* ring_queue_pull before its lock
AdvanceReading ==
    /\ cpc = "pull"
    /\ rindex' = Advance(rindex)
    /\ cpc' = "pulled"
    /\ UNCHANGED <<queue, windex, size, abort_request, ppc, out>>

Pull ==
    /\ cpc = "pulled"
    /\ size' = size - 1
    /\ Signal(ppc, "out")
    /\ UNCHANGED <<queue, rindex, windex, abort_request, out>>

----------------------------------------------------------------------------
\* Mutant: the queue is aborted without a signal.
AbortSilently ==
    /\ abort_request' = TRUE
    /\ UNCHANGED <<queue, rindex, windex, size, ppc, cpc, out>>

\* ring_queue_signal
Abort ==
    /\ abort_request' = TRUE
    /\ Signal(ppc, cpc)
    /\ UNCHANGED <<queue, rindex, windex, size, out>>

\* POSIX allows a wait to return without a signal.
SpuriousWakeup ==
    /\ \/ ppc = "wait" /\ ppc' = "woken" /\ UNCHANGED cpc
       \/ cpc = "wait" /\ cpc' = "woken" /\ UNCHANGED ppc
    /\ UNCHANGED <<queue, rindex, windex, size, abort_request, out>>

Init ==
    /\ queue = [i \in Places |-> Null]
    /\ rindex = 0 /\ windex = 0 /\ size = 0
    /\ abort_request = FALSE
    /\ ppc = "out" /\ cpc = "out"
    /\ out = Null

Producer == PeekWritable \/ TestAbortWriting \/ Fill \/ AdvanceWriting \/ Push
Consumer == PeekReadable \/ TestAbortReading \/ Use \/ AdvanceReading \/ Pull

Next == Producer \/ Consumer \/ Abort \/ SpuriousWakeup

Spec == Init /\ [][Next]_vars

\* The consumer runs when it can; so does the producer, except that it may never
\* have anything to fill a packet with.
Fairness ==
    /\ WF_vars(Consumer)
    /\ WF_vars(PeekWritable \/ TestAbortWriting \/ AdvanceWriting \/ Push)

FairSpec == Spec /\ Fairness

----------------------------------------------------------------------------
TypeOK ==
    /\ queue \in [Places -> Packets \cup {Null}]
    /\ rindex \in Places /\ windex \in Places
    /\ size \in 0..MaxSize
    /\ abort_request \in BOOLEAN
    /\ ppc \in {"out", "wait", "woken", "test", "fill", "push", "pushed"}
    /\ cpc \in {"out", "wait", "woken", "test", "use", "pull", "pulled"}
    /\ out \in Packets \cup {Null}

\* The producer never writes the packet the consumer is using, although neither
\* holds the mutex then and an abort may come at any moment.
PlacesApart == ppc = "fill" /\ cpc \in {"use", "pull"} => windex # rindex

\* Nobody sleeps on beside a packet, a free place or an abort, although all
\* share one condition and each event signals it once.
NobodyOversleeps ==
    /\ ppc = "wait" => size = MaxSize /\ ~abort_request
    /\ cpc = "wait" => size = 0 /\ ~abort_request

\* A producer that waits for a place is let go.
ProducerResumes == ppc = "wait" ~> (ppc = "fill" \/ abort_request)

\* The packets pushed and not used: those counted, without the one that has been
\* used and not counted off yet.
Queued == IF cpc \in {"pull", "pulled"} THEN size - 1 ELSE size

Oldest == IF cpc = "pull" THEN Advance(rindex) ELSE rindex

\* The place i packets behind the oldest one.
Place(i) == IF Oldest + i >= MaxSize THEN Oldest + i - MaxSize ELSE Oldest + i

Items == [i \in 1..Queued |-> queue[Place(i - 1)]]

Fifo == INSTANCE BoundedQueue WITH items <- Items, aborted <- abort_request

\* One producer and one consumer see a bounded first-in first-out queue, and
\* what is pushed is pulled until the queue is aborted.
ImplementsFifo == Fifo!FairSpec
=============================================================================
