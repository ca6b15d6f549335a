-------------------------- MODULE RingQueueProofs ---------------------------
(***************************************************************************)
(* Theorems about RingQueue, for every size of the ring.                   *)
(***************************************************************************)
EXTENDS RingQueue, TLAPS

----------------------------------------------------------------------------
\* Where the two threads may be, and how far the producer is ahead.

\* What each thread saw under the mutex still holds when it acts on it: only the
\* other one changes size, and in its favour.
Stages ==
    /\ ppc \in {"fill", "push", "pushed"} => size < MaxSize
    /\ ppc = "test" => size < MaxSize \/ abort_request
    /\ cpc \in {"use", "pull", "pulled"} => size > 0
    /\ cpc = "test" => size > 0 \/ abort_request

\* The distance from rindex to windex, each of which is ahead of size for a
\* moment.
Distance ==
    (IF cpc = "pulled" THEN size - 1 ELSE size) + (IF ppc = "pushed" THEN 1 ELSE 0)

Wrap(i) == IF i >= MaxSize THEN i - MaxSize ELSE i

IndexesAgree == windex = Wrap(rindex + Distance)

\* There are packets in all places the consumer may look at.
PlacesFilled ==
    /\ \A i \in 0..Distance - 1 : queue[Wrap(rindex + i)] \in Packets
    /\ ppc = "push" => queue[windex] \in Packets

RInv == TypeOK /\ Stages /\ NobodyOversleeps /\ IndexesAgree /\ PlacesFilled

\* What a signal does to the two threads.
LEMMA SignalStep ==
    ASSUME NEW p, NEW c, Signal(p, c)
    PROVE  /\ p # "wait" => ppc' = p
           /\ c # "wait" => cpc' = c
           /\ p = "wait" => ppc' \in {"wait", "woken"}
           /\ c = "wait" => cpc' \in {"wait", "woken"}
           /\ p = "wait" /\ c # "wait" => ppc' = "woken"
           /\ c = "wait" /\ p # "wait" => cpc' = "woken"
  BY DEF Signal

\* There is room for something.
LEMMA Size == MaxSize \in Nat \ {0}
  BY RingAssumption

\* The empty ring satisfies the invariant.
LEMMA InitRInv == Init => RInv
<1> SUFFICES ASSUME Init PROVE RInv
  OBVIOUS
<1>1. TypeOK
  <2>1. 0 \in Places /\ 0 \in 0..MaxSize
    BY Size DEF Places
  <2>2. abort_request \in BOOLEAN
    BY Zenon DEF Init
  <2> QED
    BY <2>1, <2>2 DEF Init, TypeOK
<1>2. Stages /\ NobodyOversleeps
  BY DEF Init, Stages, NobodyOversleeps
<1>3. IndexesAgree /\ PlacesFilled
  BY Size DEF Init, IndexesAgree, PlacesFilled, Distance, Wrap
<1> QED
  BY <1>1, <1>2, <1>3 DEF RInv

\* Steps in which a thread only moves on, without an index, the size or a packet.
LEMMA MovesOn ==
    ASSUME RInv,
           queue' = queue, rindex' = rindex, windex' = windex, size' = size, out' = out,
           abort_request' \in BOOLEAN,
           ppc' \in {"out", "wait", "woken", "test", "fill", "push", "pushed"},
           cpc' \in {"out", "wait", "woken", "test", "use", "pull", "pulled"},
           ppc' = "pushed" <=> ppc = "pushed", ppc' = "push" => ppc = "push",
           cpc' = "pulled" <=> cpc = "pulled",
           Stages', NobodyOversleeps'
    PROVE  RInv'
<1>1. Distance' = Distance
  BY DEF Distance
<1>2. TypeOK'
  BY DEF RInv, TypeOK
<1>3. IndexesAgree' /\ PlacesFilled'
  BY <1>1 DEF RInv, IndexesAgree, PlacesFilled, Wrap
<1> QED
  BY <1>2, <1>3 DEF RInv

\* The peeks, the tests and the waits.
LEMMA PeeksKeepRInv ==
    ASSUME RInv, \/ PeekWritable \/ TestAbortWriting \/ PeekReadable \/ TestAbortReading
                 \/ SpuriousWakeup \/ UNCHANGED vars
    PROVE  RInv'
<1>1. /\ size \in 0..MaxSize /\ abort_request \in BOOLEAN
      /\ ppc \in {"out", "wait", "woken", "test", "fill", "push", "pushed"}
      /\ cpc \in {"out", "wait", "woken", "test", "use", "pull", "pulled"}
      /\ Stages /\ NobodyOversleeps
  BY DEF RInv, TypeOK
<1>2. CASE PeekWritable
  <2>1. Stages' /\ NobodyOversleeps'
    BY <1>1, <1>2, Size DEF PeekWritable, HasRoom, Stages, NobodyOversleeps
  <2> QED
    BY <1>1, <1>2, <2>1, MovesOn DEF PeekWritable
<1>3. CASE TestAbortWriting
  <2>1. Stages' /\ NobodyOversleeps'
    BY <1>1, <1>3 DEF TestAbortWriting, Stages, NobodyOversleeps
  <2> QED
    BY <1>1, <1>3, <2>1, MovesOn DEF TestAbortWriting
<1>4. CASE PeekReadable
  <2>1. Stages' /\ NobodyOversleeps'
    BY <1>1, <1>4, Size DEF PeekReadable, Stages, NobodyOversleeps
  <2> QED
    BY <1>1, <1>4, <2>1, MovesOn DEF PeekReadable
<1>5. CASE TestAbortReading
  <2>1. Stages' /\ NobodyOversleeps'
    BY <1>1, <1>5 DEF TestAbortReading, Stages, NobodyOversleeps
  <2> QED
    BY <1>1, <1>5, <2>1, MovesOn DEF TestAbortReading
<1>6. CASE SpuriousWakeup
  <2>1. Stages' /\ NobodyOversleeps'
    BY <1>1, <1>6 DEF SpuriousWakeup, Stages, NobodyOversleeps
  <2> QED
    BY <1>1, <1>6, <2>1, MovesOn DEF SpuriousWakeup
<1>7. CASE UNCHANGED vars
  <2>1. Stages' /\ NobodyOversleeps'
    BY <1>1, <1>7 DEF vars, Stages, NobodyOversleeps
  <2> QED
    BY <1>1, <1>7, <2>1, MovesOn DEF vars
<1> QED
  BY <1>2, <1>3, <1>4, <1>5, <1>6, <1>7

\* ring_queue_signal wakes the one who waits.
LEMMA AbortKeepsRInv == ASSUME RInv, Abort PROVE RInv'
<1>1. /\ size \in 0..MaxSize
      /\ ppc \in {"out", "wait", "woken", "test", "fill", "push", "pushed"}
      /\ cpc \in {"out", "wait", "woken", "test", "use", "pull", "pulled"}
      /\ Stages /\ NobodyOversleeps
  BY DEF RInv, TypeOK
<1>2. ~ (ppc = "wait" /\ cpc = "wait")
  BY <1>1, Size DEF NobodyOversleeps
<1>3. /\ IF ppc = "wait" THEN ppc' = "woken" ELSE ppc' = ppc
      /\ IF cpc = "wait" THEN cpc' = "woken" ELSE cpc' = cpc
  BY <1>2, SignalStep DEF Abort
<1>4. Stages' /\ NobodyOversleeps'
  BY <1>1, <1>3 DEF Abort, Stages, NobodyOversleeps
<1> QED
  BY <1>1, <1>3, <1>4, MovesOn DEF Abort

----------------------------------------------------------------------------
\* The steps that use a place or an index.

\* What the indexes and the distance are.
LEMMA Ranges ==
    ASSUME RInv
    PROVE  /\ MaxSize \in Nat \ {0}
           /\ rindex \in 0..MaxSize - 1 /\ windex \in 0..MaxSize - 1
           /\ size \in 0..MaxSize /\ Distance \in 0..MaxSize
           /\ windex = Wrap(rindex + Distance)
<1>1. /\ rindex \in 0..MaxSize - 1 /\ windex \in 0..MaxSize - 1 /\ size \in 0..MaxSize
  BY DEF RInv, TypeOK, Places
<1>2. Distance \in 0..MaxSize
  BY <1>1, Size DEF RInv, Distance, Stages
<1> QED
  BY <1>1, <1>2, Size DEF RInv, IndexesAgree

\* While the producer has a place to fill, none of the queued packets is in it.
LEMMA FreePlace ==
    ASSUME RInv, ppc \in {"fill", "push"}
    PROVE  /\ Distance < MaxSize
           /\ \A i \in 0..Distance - 1 : Wrap(rindex + i) # windex
<1>1. Distance < MaxSize
  BY Ranges DEF RInv, Stages, Distance
<1> QED
  BY <1>1, Ranges DEF Wrap

\* Filling a packet.
LEMMA FillKeepsRInv == ASSUME RInv, Fill PROVE RInv'
<1>1. PICK p \in Packets : queue' = [queue EXCEPT ![windex] = p]
  BY DEF Fill
<1>2. /\ ppc = "fill" /\ ppc' = "push"
      /\ UNCHANGED <<rindex, windex, size, abort_request, cpc, out>>
  BY DEF Fill
<1>3. queue \in [Places -> Packets \cup {Null}] /\ windex \in Places
  BY DEF RInv, TypeOK
<1>4. TypeOK'
  BY <1>1, <1>2, <1>3 DEF RInv, TypeOK
<1>5. Stages' /\ NobodyOversleeps'
  BY <1>2 DEF RInv, Stages, NobodyOversleeps
<1>6. Distance' = Distance
  BY <1>2 DEF Distance
<1>7. IndexesAgree'
  BY <1>2, <1>6 DEF RInv, IndexesAgree, Wrap
<1>8. PlacesFilled'
  <2>1. \A i \in 0..Distance - 1 : queue'[Wrap(rindex + i)] = queue[Wrap(rindex + i)]
    <3>1. \A i \in 0..Distance - 1 : Wrap(rindex + i) \in Places /\ Wrap(rindex + i) # windex
      BY <1>2, FreePlace, Ranges DEF Wrap, Places
    <3> QED
      BY <1>1, <1>3, <3>1
  <2>2. queue'[windex] \in Packets
    BY <1>1, <1>3
  <2> QED
    BY <1>2, <1>6, <2>1, <2>2 DEF RInv, PlacesFilled, Wrap
<1> QED
  BY <1>4, <1>5, <1>7, <1>8 DEF RInv

\* The first part of ring_queue_push.
LEMMA AdvanceWritingKeepsRInv == ASSUME RInv, AdvanceWriting PROVE RInv'
<1>1. /\ ppc = "push" /\ ppc' = "pushed" /\ windex' = Advance(windex)
      /\ UNCHANGED <<queue, rindex, size, abort_request, cpc, out>>
  BY DEF AdvanceWriting
<1>2. Distance < MaxSize /\ Distance' = Distance + 1
  BY <1>1, FreePlace, Ranges DEF Distance
<1>3. TypeOK'
  BY <1>1, Ranges DEF RInv, TypeOK, Places, Advance
<1>4. Stages' /\ NobodyOversleeps'
  BY <1>1 DEF RInv, Stages, NobodyOversleeps
<1>5. IndexesAgree'
  BY <1>1, <1>2, Ranges DEF IndexesAgree, Wrap, Advance
<1>6. PlacesFilled'
  <2>1. ASSUME NEW i \in 0..Distance' - 1 PROVE queue'[Wrap(rindex + i)] \in Packets
    <3>1. CASE i = Distance
      BY <1>1, <3>1, Ranges DEF RInv, PlacesFilled
    <3>2. CASE i # Distance
      <4>1. i \in 0..Distance - 1
        BY <1>2, <3>2, Ranges
      <4> QED
        BY <1>1, <4>1 DEF RInv, PlacesFilled
    <3> QED
      BY <3>1, <3>2
  <2> QED
    BY <1>1, <2>1 DEF PlacesFilled, Wrap
<1> QED
  BY <1>3, <1>4, <1>5, <1>6 DEF RInv

\* The second part, under the mutex.
LEMMA PushKeepsRInv == ASSUME RInv, Push PROVE RInv'
<1>1. /\ ppc = "pushed" /\ size' = size + 1 /\ Signal("out", cpc)
      /\ UNCHANGED <<queue, rindex, windex, abort_request, out>>
  BY DEF Push
<1>2. ppc' = "out" /\ IF cpc = "wait" THEN cpc' = "woken" ELSE cpc' = cpc
  BY <1>1, SignalStep
<1>3. size < MaxSize /\ size \in 0..MaxSize
  BY <1>1, Ranges DEF RInv, Stages
<1>4. Distance' = Distance
  BY <1>1, <1>2, <1>3, Size DEF Distance
<1>5. TypeOK'
  BY <1>1, <1>2, <1>3, Size DEF RInv, TypeOK
<1>6. Stages' /\ NobodyOversleeps'
  BY <1>1, <1>2, <1>3, Size DEF RInv, Stages, NobodyOversleeps
<1>7. IndexesAgree' /\ PlacesFilled'
  BY <1>1, <1>2, <1>4 DEF RInv, IndexesAgree, PlacesFilled, Wrap
<1> QED
  BY <1>5, <1>6, <1>7 DEF RInv

\* Using a packet.
LEMMA UseKeepsRInv == ASSUME RInv, Use PROVE RInv'
<1>1. /\ cpc = "use" /\ cpc' = "pull" /\ out' = queue[rindex]
      /\ UNCHANGED <<queue, rindex, windex, size, abort_request, ppc>>
  BY DEF Use
<1>2. TypeOK'
  BY <1>1 DEF RInv, TypeOK
<1>3. Stages' /\ NobodyOversleeps'
  BY <1>1 DEF RInv, Stages, NobodyOversleeps
<1>4. Distance' = Distance
  BY <1>1 DEF Distance
<1>5. IndexesAgree' /\ PlacesFilled'
  BY <1>1, <1>4 DEF RInv, IndexesAgree, PlacesFilled, Wrap
<1> QED
  BY <1>2, <1>3, <1>5 DEF RInv

\* The first part of ring_queue_pull.
LEMMA AdvanceReadingKeepsRInv == ASSUME RInv, AdvanceReading PROVE RInv'
<1>1. /\ cpc = "pull" /\ cpc' = "pulled" /\ rindex' = Advance(rindex)
      /\ UNCHANGED <<queue, windex, size, abort_request, ppc, out>>
  BY DEF AdvanceReading
<1>2. size > 0
  BY <1>1 DEF RInv, Stages
<1>3. Distance' = Distance - 1 /\ Distance > 0
  BY <1>1, <1>2, Ranges DEF Distance
<1>4. TypeOK'
  BY <1>1, Ranges DEF RInv, TypeOK, Places, Advance
<1>5. Stages' /\ NobodyOversleeps'
  BY <1>1, <1>2 DEF RInv, Stages, NobodyOversleeps
<1>6. IndexesAgree'
  BY <1>1, <1>3, Ranges DEF IndexesAgree, Wrap, Advance
<1>7. PlacesFilled'
  <2>1. ASSUME NEW i \in 0..Distance' - 1 PROVE queue'[Wrap(rindex' + i)] \in Packets
    <3>1. i + 1 \in 0..Distance - 1 /\ Wrap(rindex' + i) = Wrap(rindex + (i + 1))
      BY <1>1, <1>3, Ranges DEF Wrap, Advance
    <3> QED
      BY <1>1, <3>1 DEF RInv, PlacesFilled
  <2> QED
    BY <1>1, <2>1 DEF RInv, PlacesFilled, Wrap
<1> QED
  BY <1>4, <1>5, <1>6, <1>7 DEF RInv

\* The second part, under the mutex.
LEMMA PullKeepsRInv == ASSUME RInv, Pull PROVE RInv'
<1>1. /\ cpc = "pulled" /\ size' = size - 1 /\ Signal(ppc, "out")
      /\ UNCHANGED <<queue, rindex, windex, abort_request, out>>
  BY DEF Pull
<1>2. cpc' = "out" /\ IF ppc = "wait" THEN ppc' = "woken" ELSE ppc' = ppc
  BY <1>1, SignalStep
<1>3. size > 0 /\ size \in 0..MaxSize
  BY <1>1, Ranges DEF RInv, Stages
<1>4. Distance' = Distance
  BY <1>1, <1>2, <1>3, Size DEF Distance
<1>5. TypeOK'
  BY <1>1, <1>2, <1>3, Size DEF RInv, TypeOK
<1>6. Stages' /\ NobodyOversleeps'
  BY <1>1, <1>2, <1>3, Size DEF RInv, Stages, NobodyOversleeps
<1>7. IndexesAgree' /\ PlacesFilled'
  BY <1>1, <1>2, <1>4 DEF RInv, IndexesAgree, PlacesFilled, Wrap
<1> QED
  BY <1>5, <1>6, <1>7 DEF RInv

\* The invariant always holds.
THEOREM RingInvariance == Spec => []RInv
<1>1. RInv /\ [Next]_vars => RInv'
  BY PeeksKeepRInv, AbortKeepsRInv, FillKeepsRInv, AdvanceWritingKeepsRInv, PushKeepsRInv,
     UseKeepsRInv, AdvanceReadingKeepsRInv, PullKeepsRInv DEF Next, Producer, Consumer
<1> QED
  BY <1>1, InitRInv, PTL DEF Spec

\* Every variable keeps its type; the indexes stay in the ring and size between
\* zero and max_size, although three separate steps change them.
THEOREM RingTypeCorrect == Spec => []TypeOK
<1>1. RInv => TypeOK
  BY DEF RInv
<1> QED
  BY <1>1, RingInvariance, PTL

\* The producer never fills the packet that the consumer is using.
THEOREM PlacesStayApart == Spec => []PlacesApart
<1>1. RInv => PlacesApart
  <2> SUFFICES ASSUME RInv, ppc = "fill", cpc \in {"use", "pull"} PROVE windex # rindex
    BY DEF PlacesApart
  <2>1. 0 < Distance /\ Distance < MaxSize
    BY Ranges DEF RInv, Stages, Distance
  <2> QED
    BY <2>1, Ranges DEF Wrap
<1> QED
  BY <1>1, RingInvariance, PTL

\* Neither thread sleeps beside what it waits for, nor through an abort.
THEOREM WaitsEnd == Spec => []NobodyOversleeps
<1>1. RInv => NobodyOversleeps
  BY DEF RInv
<1> QED
  BY <1>1, RingInvariance, PTL

----------------------------------------------------------------------------
\* The refinement.

ItemsListed ==
    /\ Items \in Seq(Packets)
    /\ Len(Items) = Queued
    /\ \A i \in 1..Queued : Items[i] = queue[Place(i - 1)]

\* How many packets there are, the first of them, and where they all are.
LEMMA QueuedRanges ==
    ASSUME RInv
    PROVE  /\ Queued \in 0..MaxSize /\ Oldest \in 0..MaxSize - 1
           /\ \A i \in 0..Queued - 1 : queue[Place(i)] \in Packets
<1>1. Queued \in 0..MaxSize /\ Oldest \in 0..MaxSize - 1
  BY Ranges DEF RInv, Stages, Queued, Oldest, Advance
<1>2. ASSUME NEW i \in 0..Queued - 1 PROVE queue[Place(i)] \in Packets
  <2>1. CASE cpc = "pull"
    <3>1. i + 1 \in 0..Distance - 1 /\ Place(i) = Wrap(rindex + (i + 1))
      BY <1>1, <2>1, Ranges DEF Queued, Oldest, Advance, Distance, Place, Wrap
    <3> QED
      BY <3>1 DEF RInv, PlacesFilled
  <2>2. CASE cpc # "pull"
    <3>1. i \in 0..Distance - 1 /\ Place(i) = Wrap(rindex + i)
      BY <1>1, <2>2, Ranges DEF Queued, Oldest, Distance, Place, Wrap
    <3> QED
      BY <3>1 DEF RInv, PlacesFilled
  <2> QED
    BY <2>1, <2>2
<1> QED
  BY <1>1, <1>2

\* The packets in the ring, as a sequence.
LEMMA ItemsAre == RInv => ItemsListed
<1> SUFFICES ASSUME RInv PROVE ItemsListed
  OBVIOUS
<1>1. Queued \in Nat /\ \A i \in 1..Queued : i - 1 \in 0..Queued - 1
  BY QueuedRanges, Size
<1>2. \A i \in 1..Queued : queue[Place(i - 1)] \in Packets
  BY <1>1, QueuedRanges
<1> QED
  BY <1>1, <1>2 DEF ItemsListed, Items

\* In the next state too.
LEMMA ItemsNext == RInv' => ItemsListed'
  BY ItemsAre, PTL

\* The same places with the same packets.
LEMMA ItemsKept ==
    ASSUME RInv, RInv', Queued' = Queued, Oldest' = Oldest,
           \A i \in 0..Queued - 1 : queue'[Place(i)] = queue[Place(i)]
    PROVE  Items' = Items
<1>1. \A i \in 1..Queued : i - 1 \in 0..Queued - 1 /\ Place(i - 1)' = Place(i - 1)
  BY QueuedRanges, Size DEF Place
<1> QED
  BY <1>1, ItemsAre, ItemsNext DEF ItemsListed

\* ring_queue_push counts the packet that has been filled.
LEMMA PushAppends ==
    ASSUME RInv, RInv', Push
    PROVE  Fifo!Next
<1>1. /\ ppc = "pushed" /\ size' = size + 1 /\ Signal("out", cpc)
      /\ UNCHANGED <<queue, rindex, windex, abort_request, out>>
  BY DEF Push
<1>2. cpc' = cpc \/ (cpc = "wait" /\ cpc' = "woken")
  <2>1. IF cpc = "wait" THEN cpc' = "woken" ELSE cpc' = cpc
    BY <1>1, SignalStep
  <2> QED
    BY <2>1
<1>3. Queued' = Queued + 1 /\ Oldest' = Oldest /\ Queued < MaxSize
  BY <1>1, <1>2, Ranges DEF RInv, Stages, Queued, Oldest
<1> DEFINE p == queue[Place(Queued)]
           longer == Append(Items, p)
<1>4. \A i \in 1..Queued + 1 : Items'[i] = queue[Place(i - 1)]
  BY <1>1, <1>3, ItemsNext, QueuedRanges DEF ItemsListed, Place
<1>5. Queued \in Nat /\ Items \in Seq(Packets) /\ Len(Items) = Queued
  BY ItemsAre, QueuedRanges, Size DEF ItemsListed
<1>6. Items' \in Seq(Packets) /\ Len(Items') = Queued + 1
  BY <1>3, ItemsNext DEF ItemsListed
<1>7. p \in Packets
  <2>1. Queued + 1 \in 1..Queued + 1 /\ (Queued + 1) - 1 = Queued
    BY <1>5
  <2>2. Items'[Queued + 1] = p
    BY <1>4, <2>1
  <2> QED
    BY <1>5, <1>6, <2>2
<1>8. Items' = longer
  <2>1. /\ longer \in Seq(Packets) /\ Len(longer) = Queued + 1
        /\ \A i \in 1..Queued : longer[i] = Items[i]
        /\ longer[Queued + 1] = p
    BY <1>5, <1>7
  <2>2. \A i \in 1..Queued : Items'[i] = longer[i]
    BY <1>4, <1>5, <2>1, ItemsAre DEF ItemsListed
  <2>3. Items'[Queued + 1] = longer[Queued + 1]
    BY <1>4, <1>5, <2>1
  <2> HIDE DEF longer
  <2>4. \A i \in 1..Queued + 1 : Items'[i] = longer[i]
    BY <1>5, <2>2, <2>3
  <2> QED
    BY <1>5, <1>6, <2>1, <2>4
<1>9. Fifo!Push(p)
  BY <1>1, <1>3, <1>5, <1>8 DEF Fifo!Push
<1> QED
  BY <1>7, <1>9 DEF Fifo!Next

\* Using a packet takes it from the queue.
LEMMA UsePulls ==
    ASSUME RInv, RInv', Use
    PROVE  Fifo!Next
<1>1. /\ cpc = "use" /\ cpc' = "pull" /\ out' = queue[rindex]
      /\ UNCHANGED <<queue, rindex, windex, size, abort_request, ppc>>
  BY DEF Use
<1>2. /\ Queued \in Nat \ {0} /\ Queued' = Queued - 1 /\ Oldest = rindex
      /\ Place(0) = rindex
      /\ \A i \in 1..Queued - 1 : Place(i - 1)' = Place(i)
  BY <1>1, Ranges DEF RInv, Stages, Queued, Oldest, Place, Advance
<1>3. /\ Items \in Seq(Packets) /\ Len(Items) = Queued
      /\ \A i \in 1..Queued : Items[i] = queue[Place(i - 1)]
  BY ItemsAre DEF ItemsListed
<1>4. /\ Items' \in Seq(Packets) /\ Len(Items') = Queued - 1
      /\ \A i \in 1..Queued - 1 : Items'[i] = queue[Place(i)]
  BY <1>1, <1>2, ItemsNext DEF ItemsListed
<1>5. Items # <<>> /\ Head(Items) = queue[rindex]
  <2>1. 1 \in 1..Queued /\ 1 - 1 = 0
    BY <1>2
  <2>2. Items[1] = queue[rindex]
    BY <1>2, <1>3, <2>1
  <2> QED
    BY <1>2, <1>3, <2>2
<1> DEFINE rest == Tail(Items)
<1>6. Items' = rest
  <2>1. /\ rest \in Seq(Packets) /\ Len(rest) = Queued - 1
        /\ \A i \in 1..Queued - 1 : rest[i] = Items[i + 1]
    BY <1>2, <1>3, <1>5
  <2>2. \A i \in 1..Queued - 1 : Items[i + 1] = queue[Place(i)]
    BY <1>2, <1>3
  <2> HIDE DEF rest
  <2> QED
    BY <1>2, <1>4, <2>1, <2>2
<1>7. Fifo!Pull
  BY <1>1, <1>5, <1>6 DEF Fifo!Pull
<1> QED
  BY <1>7 DEF Fifo!Next

\* Nobody outside notices the other steps.
LEMMA OthersStutter ==
    ASSUME RInv, RInv', [Next]_vars, ~Push, ~Use, ~Abort
    PROVE  UNCHANGED Fifo!vars
<1>1. /\ size \in 0..MaxSize
      /\ ppc \in {"out", "wait", "woken", "test", "fill", "push", "pushed"}
      /\ cpc \in {"out", "wait", "woken", "test", "use", "pull", "pulled"}
  BY DEF RInv, TypeOK
<1>2. CASE Fill
  <2>1. /\ ppc = "fill" /\ UNCHANGED <<rindex, windex, size, abort_request, cpc, out>>
        /\ \E p \in Packets : queue' = [queue EXCEPT ![windex] = p]
    BY <1>2 DEF Fill
  <2>2. Queued' = Queued /\ Oldest' = Oldest
    BY <2>1 DEF Queued, Oldest
  <2>3. ASSUME NEW i \in 0..Queued - 1 PROVE queue'[Place(i)] = queue[Place(i)]
    <3>1. Place(i) \in Places
      BY QueuedRanges, Size DEF Place, Places
    <3>2. Place(i) # windex
      <4>1. CASE cpc = "pull"
        <5>1. i + 1 \in 0..Distance - 1 /\ Place(i) = Wrap(rindex + (i + 1))
          BY <4>1, <2>1, Ranges DEF Queued, Oldest, Advance, Distance, Place, Wrap
        <5> QED
          BY <2>1, <5>1, FreePlace
      <4>2. CASE cpc # "pull"
        <5>1. i \in 0..Distance - 1 /\ Place(i) = Wrap(rindex + i)
          BY <4>2, <2>1, Ranges DEF Queued, Oldest, Distance, Place, Wrap
        <5> QED
          BY <2>1, <5>1, FreePlace
      <4> QED
        BY <4>1, <4>2
    <3> QED
      BY <2>1, <3>1, <3>2 DEF RInv, TypeOK
  <2>4. Items' = Items
    BY <2>2, <2>3, ItemsKept
  <2> QED
    BY <2>1, <2>4 DEF Fifo!vars
<1>3. CASE AdvanceReading
  <2>1. /\ cpc = "pull" /\ cpc' = "pulled" /\ rindex' = Advance(rindex)
        /\ UNCHANGED <<queue, size, abort_request, out>>
    BY <1>3 DEF AdvanceReading
  <2>2. Queued' = Queued /\ Oldest' = Oldest
    BY <2>1 DEF Queued, Oldest
  <2>3. Items' = Items
    BY <2>1, <2>2, ItemsKept
  <2> QED
    BY <2>1, <2>3 DEF Fifo!vars
<1>4. CASE Pull
  <2>1. /\ cpc = "pulled" /\ size' = size - 1 /\ Signal(ppc, "out")
        /\ UNCHANGED <<queue, rindex, abort_request, out>>
    BY <1>4 DEF Pull
  <2>2. cpc' = "out"
    BY <2>1, SignalStep
  <2>3. Queued' = Queued /\ Oldest' = Oldest
    BY <2>1, <2>2 DEF Queued, Oldest
  <2>4. Items' = Items
    BY <2>1, <2>3, ItemsKept
  <2> QED
    BY <2>1, <2>4 DEF Fifo!vars
<1>5. CASE \/ PeekWritable \/ TestAbortWriting \/ AdvanceWriting
           \/ PeekReadable \/ TestAbortReading \/ SpuriousWakeup \/ UNCHANGED vars
  <2>1. /\ UNCHANGED <<queue, rindex, size, abort_request, out>>
        /\ cpc \in {"pull", "pulled"} \/ cpc' \in {"pull", "pulled"} => cpc' = cpc
    BY <1>1, <1>5 DEF PeekWritable, TestAbortWriting, AdvanceWriting, PeekReadable,
       TestAbortReading, SpuriousWakeup, vars
  <2>2. Queued' = Queued /\ Oldest' = Oldest
    BY <2>1 DEF Queued, Oldest
  <2>3. Items' = Items
    BY <2>1, <2>2, ItemsKept
  <2> QED
    BY <2>1, <2>3 DEF Fifo!vars
<1> QED
  BY <1>2, <1>3, <1>4, <1>5 DEF Next, Producer, Consumer

\* An abort leaves the packets alone.
LEMMA AbortAborts ==
    ASSUME RInv, RInv', Abort
    PROVE  Fifo!Next
<1>1. abort_request' = TRUE /\ UNCHANGED <<queue, rindex, size, out>> /\ Signal(ppc, cpc)
  BY DEF Abort
<1>2. cpc' = cpc \/ (cpc = "wait" /\ cpc' \in {"wait", "woken"})
  BY <1>1, SignalStep
<1>3. Queued' = Queued /\ Oldest' = Oldest
  BY <1>1, <1>2 DEF Queued, Oldest
<1>4. Items' = Items
  BY <1>1, <1>3, ItemsKept
<1> QED
  BY <1>1, <1>4 DEF Fifo!Next, Fifo!Abort

\* Safety of the refinement: with its indexes moved outside the mutex, its
\* unlocked fills, uses and tests, the ring is a bounded first-in first-out
\* queue for one producer and one consumer.
THEOREM RingRefinement == Spec => Fifo!Spec
<1>1. Init => Items = <<>> /\ ~abort_request
  <2> SUFFICES ASSUME Init PROVE Items = <<>> /\ ~abort_request
    OBVIOUS
  <2>1. Queued = 0
    BY DEF Init, Queued
  <2>2. ItemsListed
    BY InitRInv, ItemsAre
  <2> QED
    BY <2>1, <2>2 DEF Init, ItemsListed
<1>2. RInv /\ RInv' /\ [Next]_vars => [Fifo!Next]_(Fifo!vars)
  <2> SUFFICES ASSUME RInv, RInv', [Next]_vars PROVE [Fifo!Next]_(Fifo!vars)
    OBVIOUS
  <2> QED
    BY PushAppends, UsePulls, AbortAborts, OthersStutter
<1> QED
  BY <1>1, <1>2, RingInvariance, PTL DEF Spec, Fifo!Spec
=============================================================================
