------------------------- MODULE PipelineRefinement -------------------------
(***************************************************************************)
(* The pipeline implements the bounded pipe of module PacketPipe, for      *)
(* every number of buffers: its initial states are the pipe's, and each of *)
(* its steps is a step of the pipe or leaves it alone.  list_queue_put is  *)
(* where a frame enters or is lost, the call of mainprocess where it       *)
(* leaves.                                                                 *)
(***************************************************************************)
EXTENDS PipelineProofs, FiniteSetTheorems

----------------------------------------------------------------------------
\* The frames in the pipe, where the processing thread has one and where not.

HandedShape ==
    /\ Handed \in Seq(Buffers)
    /\ procPc # "parse" => Handed = queue
    /\ procPc = "parse" => /\ Len(Handed) = Len(queue) + 1
                           /\ Handed[1] = procPkt
                           /\ \A i \in 1..Len(queue) : Handed[i + 1] = queue[i]

\* What Handed is, element by element.
LEMMA HandedIsSeq == IInv => HandedShape
<1> SUFFICES ASSUME IInv PROVE HandedShape
  OBVIOUS
<1> USE DEF HandedShape
<1>1. queue \in Seq(Buffers) /\ Len(queue) \in Nat
  BY DEF IInv, TypeOK
<1>2. CASE procPc = "parse"
  <2>1. <<procPkt>> \in Seq(Buffers) /\ Len(<<procPkt>>) = 1 /\ <<procPkt>>[1] = procPkt
    BY <1>2 DEF IInv, HeldIsBuffer
  <2>2. Handed = <<procPkt>> \o queue
    BY <1>2 DEF Handed
  <2>3. /\ Handed \in Seq(Buffers) /\ Len(Handed) = 1 + Len(queue)
        /\ \A i \in 1..(1 + Len(queue)) :
             Handed[i] = IF i <= 1 THEN <<procPkt>>[i] ELSE queue[i - 1]
    BY <1>1, <2>1, <2>2, ConcatProperties
  <2> HIDE DEF Handed
  <2>4. Handed[1] = procPkt
    BY <1>1, <2>1, <2>3
  <2>5. ASSUME NEW i \in 1..Len(queue) PROVE Handed[i + 1] = queue[i]
    <3>1. i + 1 \in 1..(1 + Len(queue)) /\ ~(i + 1 <= 1) /\ (i + 1) - 1 = i
      BY <1>1
    <3> QED
      BY <2>3, <3>1
  <2> QED
    BY <1>1, <1>2, <2>3, <2>4, <2>5
<1>3. CASE procPc # "parse"
  <2>1. Handed = << >> \o queue
    BY <1>3 DEF Handed
  <2> QED
    BY <1>1, <1>3, <2>1, ConcatEmptySeq
<1> QED
  BY <1>2, <1>3

InFlightShape ==
    /\ InFlight \in Seq(Parsed)
    /\ Len(InFlight) = Len(Handed)
    /\ \A i \in 1..Len(Handed) : InFlight[i] = FrameIn(Handed[i])

\* What the pipe holds, element by element.
LEMMA InFlightIsSeq == IInv => InFlightShape
<1> SUFFICES ASSUME IInv PROVE InFlightShape
  OBVIOUS
<1> USE DEF InFlightShape
<1>1. Handed \in Seq(Buffers) /\ Len(Handed) \in Nat
  BY HandedIsSeq DEF HandedShape
<1>2. \A b \in Buffers : FrameIn(b) \in Parsed
  BY DEF IInv, TypeOK, FrameIn, Meta, Parsed
<1>3. \A i \in 1..Len(Handed) : FrameIn(Handed[i]) \in Parsed
  BY <1>1, <1>2
<1> QED
  BY <1>1, <1>3 DEF InFlight

\* The pipe never holds more frames than there are buffers: each has one, and
\* the capture thread holds another while it hands one over.
LEMMA PipeHasRoom == IInv /\ recvPc = "put" => Len(Handed) < Cardinality(Buffers)
<1> SUFFICES ASSUME IInv, recvPc = "put" PROVE Len(Handed) < Cardinality(Buffers)
  OBVIOUS
<1> DEFINE n == Len(Handed)
           others == Buffers \ {recvPkt}
<1>1. HandedShape
  BY HandedIsSeq
<1>2. n \in Nat /\ DOMAIN Handed = 1..n /\ queue \in Seq(Buffers)
  BY <1>1 DEF HandedShape, IInv, TypeOK
<1>3. /\ recvPkt \in Buffers
      /\ IsInjective(queue) /\ recvPkt \notin Range(queue)
      /\ procPc = "parse" => procPkt \notin Range(queue) \cup {recvPkt}
  BY DEF IInv, StartupOrder, HeldIsBuffer, OneOwner, RecvHolds, ProcHolds
<1>4. Handed \in Injection(1..n, others)
  <2>1. CASE procPc # "parse"
    <3>1. Handed = queue
      BY <1>1, <2>1 DEF HandedShape
    <3>2. \A i \in 1..n : queue[i] \in others
      BY <1>2, <1>3, <3>1 DEF Range
    <3> QED
      BY <1>2, <1>3, <3>1, <3>2 DEF Injection
  <2>2. CASE procPc = "parse"
    <3>1. /\ Len(queue) \in Nat /\ n = Len(queue) + 1 /\ DOMAIN queue = 1..Len(queue)
          /\ Handed[1] = procPkt
          /\ \A i \in 1..Len(queue) : Handed[i + 1] = queue[i]
      BY <1>1, <1>2, <2>2 DEF HandedShape
    <3>2. ASSUME NEW i \in 1..n, i # 1
          PROVE  i - 1 \in 1..Len(queue) /\ Handed[i] = queue[i - 1]
      <4>1. i - 1 \in 1..Len(queue) /\ (i - 1) + 1 = i
        BY <3>1, <3>2
      <4> QED
        BY <3>1, <4>1
    <3>3. ASSUME NEW i \in 1..n PROVE Handed[i] \in others
      <4>1. CASE i = 1
        BY <1>3, <2>2, <3>1, <4>1 DEF IInv, HeldIsBuffer
      <4>2. CASE i # 1
        BY <1>2, <1>3, <3>1, <3>2, <4>2 DEF Range
      <4> QED
        BY <4>1, <4>2
    <3>4. ASSUME NEW i \in 1..n, NEW j \in 1..n, Handed[i] = Handed[j]
          PROVE  i = j
      <4>1. CASE i # 1 /\ j # 1
        <5>1. queue[i - 1] = queue[j - 1] /\ i - 1 \in DOMAIN queue /\ j - 1 \in DOMAIN queue
          BY <3>1, <3>2, <3>4, <4>1
        <5>2. i - 1 = j - 1
          BY <1>3, <5>1 DEF IsInjective
        <5> QED
          BY <5>2
      <4>2. \A k \in 1..n : k # 1 => Handed[k] # procPkt
        BY <1>3, <2>2, <3>1, <3>2 DEF Range
      <4> QED
        BY <3>1, <3>4, <4>1, <4>2
    <3>5. Handed \in [1..n -> others]
      <4>1. Handed \in [1..n -> Buffers]
        BY <1>1, LenProperties DEF HandedShape
      <4> HIDE DEF n, others
      <4> QED
        BY <3>3, <4>1
    <3> QED
      BY <1>2, <3>4, <3>5 DEF Injection, IsInjective
  <2> QED
    BY <2>1, <2>2
<1>5. IsFiniteSet(others) /\ Cardinality(others) = Cardinality(Buffers) - 1
  BY <1>3, PipelineAssumption, FS_RemoveElement
<1>6. Cardinality(1..n) = n
  <2>1. Cardinality(1..n) = IF 1 > n THEN 0 ELSE n - 1 + 1
    <3>1. 1 \in Int /\ n \in Int
      BY <1>2
    <3> HIDE DEF n
    <3> QED
      BY <3>1, FS_Interval
  <2> QED
    BY <1>2, <2>1
<1>7. n <= Cardinality(Buffers) - 1
  BY <1>4, <1>5, <1>6, FS_Injection
<1> QED
  BY <1>2, <1>7, PipelineAssumption, FS_CardinalityType

----------------------------------------------------------------------------
\* The shapes hold in the next state too.
LEMMA ShapesNext == IInv' => HandedShape' /\ InFlightShape'
<1>1. IInv => HandedShape /\ InFlightShape
  BY HandedIsSeq, InFlightIsSeq
<1> QED
  BY <1>1, PTL

\* The pipe is the same when the same frames are in it, wherever they are.
LEMMA SameFrames ==
    ASSUME IInv, IInv', Len(Handed') = Len(Handed),
           \A i \in 1..Len(Handed) : FrameIn(Handed[i])' = FrameIn(Handed[i])
    PROVE  InFlight' = InFlight
<1>1. InFlightShape /\ InFlightShape'
  BY InFlightIsSeq, ShapesNext
<1>2. /\ InFlight \in Seq(Parsed) /\ InFlight' \in Seq(Parsed)
      /\ Len(InFlight') = Len(InFlight)
      /\ \A i \in 1..Len(InFlight') : InFlight'[i] = InFlight[i]
  BY <1>1 DEF InFlightShape
<1> QED
  BY <1>2, SeqEqual

\* The steps that neither take a frame in nor let one out.
LEMMA SameBuffers ==
    ASSUME IInv, IInv', UNCHANGED contents, Handed' = Handed
    PROVE  InFlight' = InFlight
  BY SameFrames DEF FrameIn, contents

\* Nor do writes to a buffer that is not in the pipe.
LEMMA FramesStay ==
    ASSUME IInv, IInv', UNCHANGED <<queue, procPc, procPkt>>,
           \A i \in DOMAIN queue : bytes'[queue[i]] = bytes[queue[i]] /\ meta'[queue[i]] = meta[queue[i]],
           procPc = "parse" => bytes'[procPkt] = bytes[procPkt] /\ meta'[procPkt] = meta[procPkt]
    PROVE  InFlight' = InFlight
<1>1. Handed' = Handed
  BY DEF Handed
<1>2. /\ HandedShape /\ Len(queue) \in Nat /\ DOMAIN queue = 1..Len(queue)
  BY HandedIsSeq DEF IInv, TypeOK
<1>3. ASSUME NEW i \in 1..Len(Handed)
      PROVE  bytes'[Handed[i]] = bytes[Handed[i]] /\ meta'[Handed[i]] = meta[Handed[i]]
  <2>1. CASE procPc # "parse"
    <3>1. Handed = queue
      BY <1>2, <2>1 DEF HandedShape
    <3>2. i \in DOMAIN queue
      BY <1>2, <1>3, <3>1
    <3> QED
      BY <3>1, <3>2
  <2>2. CASE procPc = "parse"
    <3>1. CASE i = 1
      BY <1>2, <2>2, <3>1 DEF HandedShape
    <3>2. CASE i # 1
      <4>1. i - 1 \in 1..Len(queue) /\ (i - 1) + 1 = i
        BY <1>2, <1>3, <2>2, <3>2 DEF HandedShape
      <4>2. Handed[i] = queue[i - 1]
        BY <1>2, <2>2, <4>1 DEF HandedShape
      <4> QED
        BY <1>2, <4>1, <4>2
    <3> QED
      BY <3>1, <3>2
  <2> QED
    BY <2>1, <2>2
<1>4. \A i \in 1..Len(Handed) : FrameIn(Handed[i])' = FrameIn(Handed[i])
  BY <1>1, <1>3 DEF FrameIn
<1> QED
  BY <1>1, <1>4, SameFrames

----------------------------------------------------------------------------
\* list_queue_put takes a frame in ...
LEMMA EnqueueAccepts ==
    ASSUME IInv, IInv', InOrder, PutPacket, Enqueue
    PROVE  Pipe!Accept
<1> DEFINE n == Len(Handed)
           frame == FrameIn(recvPkt)
<1>1. /\ HandedShape /\ HandedShape' /\ InFlightShape /\ InFlightShape'
      /\ n \in Nat /\ n < Cardinality(Buffers)
  BY HandedIsSeq, InFlightIsSeq, ShapesNext, PipeHasRoom DEF PutPacket, HandedShape
<1>2. /\ recvPc = "put" /\ recvPc' = "get" /\ recvPkt \in Buffers
      /\ UNCHANGED <<bytes, meta, captured, parsed, procPkt, lost>>
      /\ procPc' = "parse" <=> procPc = "parse"
  BY DEF PutPacket, Enqueue, SignalQueue, contents, IInv, HeldIsBuffer
<1>3. /\ Len(queue) \in Nat /\ Len(queue') = Len(queue) + 1
      /\ \A i \in 1..Len(queue) : queue'[i] = queue[i]
      /\ queue'[Len(queue) + 1] = recvPkt
  BY <1>2 DEF Enqueue, IInv, TypeOK
<1>4. /\ Len(Handed') = n + 1
      /\ \A i \in 1..n : Handed'[i] = Handed[i]
      /\ Handed'[n + 1] = recvPkt
  <2>1. CASE procPc # "parse"
    BY <1>1, <1>2, <1>3, <2>1 DEF HandedShape
  <2>2. CASE procPc = "parse"
    <3>1. /\ n = Len(queue) + 1 /\ Len(Handed') = Len(queue) + 2
          /\ Handed'[1] = Handed[1]
          /\ \A i \in 1..Len(queue) : Handed'[i + 1] = Handed[i + 1]
          /\ Handed'[(Len(queue) + 1) + 1] = recvPkt
      <4>1. /\ Len(Handed') = Len(queue') + 1
            /\ Handed'[1] = procPkt
            /\ \A i \in 1..(Len(queue) + 1) : Handed'[i + 1] = queue'[i]
        BY <1>1, <1>2, <1>3, <2>2 DEF HandedShape
      <4>2. Len(queue) + 1 \in 1..(Len(queue) + 1)
        BY <1>3
      <4>3. /\ n = Len(queue) + 1 /\ Handed[1] = procPkt
            /\ \A i \in 1..Len(queue) : Handed[i + 1] = queue[i]
        BY <1>1, <2>2 DEF HandedShape
      <4>4. Handed'[(Len(queue) + 1) + 1] = recvPkt
        BY <1>3, <4>1, <4>2
      <4>5. \A i \in 1..Len(queue) : Handed'[i + 1] = Handed[i + 1]
        BY <1>3, <4>1, <4>3
      <4> QED
        BY <1>3, <4>1, <4>3, <4>4, <4>5
    <3>2. ASSUME NEW i \in 1..n PROVE Handed'[i] = Handed[i]
      <4>1. i = 1 \/ (i - 1 \in 1..Len(queue) /\ (i - 1) + 1 = i)
        BY <1>3, <3>1
      <4> QED
        BY <3>1, <4>1
    <3> QED
      BY <1>3, <3>1, <3>2
  <2> QED
    BY <2>1, <2>2
<1>5. frame \in Parsed
  BY <1>2 DEF FrameIn, Parsed, Meta, IInv, TypeOK
<1>6. InFlight' = Append(InFlight, frame)
  <2>1. /\ Append(InFlight, frame) \in Seq(Parsed)
        /\ Len(Append(InFlight, frame)) = n + 1
        /\ \A i \in 1..n : Append(InFlight, frame)[i] = FrameIn(Handed[i])
        /\ Append(InFlight, frame)[n + 1] = frame
    BY <1>1, <1>5, AppendProperties DEF InFlightShape
  <2>2. /\ InFlight' \in Seq(Parsed)
        /\ Len(InFlight') = n + 1
        /\ \A i \in 1..(n + 1) : InFlight'[i] = FrameIn(Handed[i])'
    BY <1>1, <1>4 DEF InFlightShape
  <2>3. /\ \A i \in 1..n : InFlight'[i] = FrameIn(Handed[i])
        /\ InFlight'[n + 1] = frame
    BY <1>1, <1>2, <1>4, <2>2 DEF FrameIn
  <2> HIDE DEF frame, n
  <2>4. \A i \in 1..(n + 1) : InFlight'[i] = Append(InFlight, frame)[i]
    BY <1>1, <2>1, <2>3
  <2> QED
    BY <2>1, <2>2, <2>4, SeqEqual
<1>7. Seen \in Int /\ Seen' = Seen + 1 /\ captured = Seen + 1
  BY <1>2, PipelineAssumption DEF Seen, IInv, TypeOK
<1>8. frame = [bytes |-> Seen + 1, of |-> Seen + 1, len |-> meta[recvPkt].len]
  BY <1>2, <1>7 DEF FrameIn, InOrder, ReceivedInOrder
<1>9. meta[recvPkt].len \in Lens
  BY <1>2 DEF IInv, TypeOK, Meta
<1>10. Len(InFlight) < Cardinality(Buffers)
  BY <1>1 DEF InFlightShape
<1> QED
  BY <1>2, <1>6, <1>7, <1>8, <1>9, <1>10 DEF Pipe!Accept

\* ... or loses it, ...
LEMMA RefusalLoses ==
    ASSUME IInv, IInv', PutPacket, RefuseToEnqueue
    PROVE  Pipe!Lose
<1>1. /\ recvPc = "put" /\ recvPc' = "get" /\ recvPkt \in Buffers \ lost
      /\ UNCHANGED <<contents, queue, procPc, procPkt, parsed>>
      /\ lost' = lost \cup {recvPkt}
  BY DEF PutPacket, RefuseToEnqueue, contents, IInv, StartupOrder, HeldIsBuffer,
         OneOwner, RecvHolds
<1>2. Cardinality(lost) < MaxFailures
  BY DEF PutPacket, RefuseToEnqueue, IInv, StartupOrder
<1>3. Cardinality(lost') = Cardinality(lost) + 1
  <2>1. IsFiniteSet(lost)
    BY PipelineAssumption, FS_Subset DEF IInv, TypeOK
  <2> QED
    BY <1>1, <2>1, FS_AddElement
<1>4. Seen' = Seen + 1
  BY <1>1, PipelineAssumption DEF contents, Seen, IInv, TypeOK
<1>5. InFlight' = InFlight
  BY <1>1, SameBuffers DEF Handed
<1> QED
  BY <1>1, <1>2, <1>3, <1>4, <1>5 DEF Pipe!Lose

\* ... and the parser lets it out.
LEMMA ParseDelivers ==
    ASSUME IInv, IInv', InOrder, ParsePacket
    PROVE  Pipe!Deliver
<1>1. /\ HandedShape /\ HandedShape' /\ InFlightShape /\ InFlightShape'
  BY HandedIsSeq, InFlightIsSeq, ShapesNext
<1>2. procPkt # Null /\ procPc = "parse" /\ meta[procPkt].action = Push /\ Push # Drop
  BY PipelineAssumption
     DEF ParsePacket, IInv, HeldIsBuffer, InOrder, ProcessedInOrder, Push, Drop
<1>3. /\ procPc' = "release"
      /\ UNCHANGED <<contents, recvPc, queue, procPkt, lost>>
  BY <1>2 DEF ParsePacket
<1>4. parsed' = IF meta[procPkt].len # 0 THEN Append(parsed, FrameIn(procPkt)) ELSE parsed
  BY <1>2 DEF ParsePacket
<1>5. /\ Len(queue) \in Nat /\ Handed' = queue /\ Len(Handed) = Len(queue) + 1
      /\ Handed[1] = procPkt
      /\ \A i \in 1..Len(queue) : Handed[i + 1] = queue[i]
  BY <1>1, <1>2, <1>3 DEF HandedShape, IInv, TypeOK
<1>6. /\ InFlight \in Seq(Parsed) /\ Len(InFlight) = Len(queue) + 1
      /\ InFlight # << >>
      /\ Head(InFlight) = FrameIn(procPkt)
  <2>1. InFlight \in Seq(Parsed) /\ Len(InFlight) = Len(queue) + 1
    BY <1>1, <1>5 DEF InFlightShape
  <2>2. InFlight[1] = FrameIn(procPkt)
    BY <1>1, <1>5 DEF InFlightShape
  <2> QED
    BY <1>5, <2>1, <2>2
<1>7. InFlight' = Tail(InFlight)
  <2>1. /\ Tail(InFlight) \in Seq(Parsed) /\ Len(Tail(InFlight)) = Len(queue)
        /\ \A i \in 1..Len(queue) : Tail(InFlight)[i] = InFlight[i + 1]
    BY <1>5, <1>6, HeadTailProperties
  <2>2. \A i \in 1..Len(queue) : InFlight[i + 1] = FrameIn(queue[i])
    <3> SUFFICES ASSUME NEW i \in 1..Len(queue) PROVE InFlight[i + 1] = FrameIn(queue[i])
      OBVIOUS
    <3>1. i + 1 \in 1..Len(Handed)
      BY <1>5
    <3>2. InFlight[i + 1] = FrameIn(Handed[i + 1])
      BY <1>1, <3>1 DEF InFlightShape
    <3> QED
      BY <1>5, <3>2
  <2>3. /\ InFlight' \in Seq(Parsed) /\ Len(InFlight') = Len(queue)
        /\ \A i \in 1..Len(queue) : InFlight'[i] = FrameIn(queue[i])
    BY <1>1, <1>3, <1>5 DEF InFlightShape, FrameIn, contents
  <2>4. \A i \in 1..Len(queue) : InFlight'[i] = Tail(InFlight)[i]
    BY <2>1, <2>2, <2>3
  <2> QED
    BY <2>1, <2>3, <2>4, SeqEqual
<1>8. FrameIn(procPkt).len = meta[procPkt].len
  BY DEF FrameIn
<1>9. parsed' = IF Head(InFlight).len = 0 THEN parsed ELSE Append(parsed, Head(InFlight))
  BY <1>4, <1>6, <1>8
<1>10. UNCHANGED <<Seen, Cardinality(lost)>>
  BY <1>3 DEF Seen, contents
<1> QED
  BY <1>6, <1>7, <1>9, <1>10 DEF Pipe!Deliver

----------------------------------------------------------------------------
\* Every other step leaves the pipe alone.

PipeUnchanged == UNCHANGED <<Seen, Cardinality(lost), InFlight, parsed>>

\* A frame received is not in the pipe before list_queue_put.
LEMMA ReceiveStutters ==
    ASSUME IInv, IInv', ReceiveFrame
    PROVE  PipeUnchanged
<1>1. PICK len \in Lens :
        meta' = [meta EXCEPT ![recvPkt] = [of |-> captured + 1, len |-> len, action |-> Push]]
  BY DEF ReceiveFrame, Describe
<1>2. /\ recvPc = "recv" /\ recvPc' = "put" /\ captured' = captured + 1
      /\ bytes' = [bytes EXCEPT ![recvPkt] = captured + 1]
      /\ UNCHANGED <<queue, procPc, procPkt, lost, parsed>>
  BY DEF ReceiveFrame
<1>3. InFlight' = InFlight
  BY <1>1, <1>2, WritesElsewhere, FramesStay
<1>4. Seen' = Seen
  BY <1>2, PipelineAssumption DEF Seen, IInv, TypeOK
<1> QED
  BY <1>2, <1>3, <1>4 DEF PipeUnchanged

\* A dropped frame never enters the pipe.
LEMMA DropStutters ==
    ASSUME IInv, IInv', DropFrame
    PROVE  PipeUnchanged
<1>1. PICK m : meta' = [meta EXCEPT ![recvPkt] = m]
  <2>1. CASE UNCHANGED meta
    <3>1. meta' = [meta EXCEPT ![recvPkt] = meta[recvPkt]]
      BY <2>1 DEF IInv, TypeOK
    <3> QED
      BY <3>1
  <2> QED
    BY <2>1 DEF DropFrame
<1>2. /\ recvPc = "recv" /\ recvPc' = "recv"
      /\ bytes' = [bytes EXCEPT ![recvPkt] = 0]
      /\ UNCHANGED <<captured, queue, procPc, procPkt, lost, parsed>>
  BY DEF DropFrame
<1>3. InFlight' = InFlight
  BY <1>1, <1>2, WritesElsewhere, FramesStay
<1> QED
  BY <1>2, <1>3 DEF PipeUnchanged, Seen

\* A packet that the processing thread takes stays in the pipe: it moves from
\* the head of the queue to the front of Handed.
LEMMA GetStutters ==
    ASSUME IInv, IInv', GetPacket
    PROVE  PipeUnchanged
<1>1. /\ ~abort /\ procPc = "get"
      /\ UNCHANGED <<contents, recvPc, lost, parsed>>
  BY DEF GetPacket, IInv, StartupOrder
<1>2. HandedShape /\ HandedShape' /\ Handed = queue
  BY <1>1, HandedIsSeq, ShapesNext DEF HandedShape
<1>3. CASE queue # << >> /\ queue' = Tail(queue) /\ procPkt' = Head(queue) /\ procPc' = "parse"
  <2>1. /\ queue \in Seq(Buffers) /\ Len(queue) \in Nat /\ Len(queue) > 0
        /\ Len(queue') = Len(queue) - 1
        /\ \A i \in 1..(Len(queue) - 1) : queue'[i] = queue[i + 1]
        /\ procPkt' = queue[1]
    BY <1>3 DEF IInv, TypeOK
  <2>2. /\ Handed' \in Seq(Buffers) /\ Len(Handed') = Len(queue)
        /\ Handed'[1] = queue[1]
        /\ \A i \in 1..(Len(queue) - 1) : Handed'[i + 1] = queue[i + 1]
    BY <1>2, <1>3, <2>1 DEF HandedShape
  <2>3. ASSUME NEW i \in 1..Len(queue) PROVE Handed'[i] = queue[i]
    <3>1. i = 1 \/ (i - 1 \in 1..(Len(queue) - 1) /\ (i - 1) + 1 = i)
      BY <2>1
    <3> QED
      BY <2>2, <3>1
  <2>4. Handed' = Handed
    BY <1>2, <2>1, <2>2, <2>3, SeqEqual
  <2> QED
    BY <1>1, <2>4, SameBuffers DEF PipeUnchanged, Seen, contents
<1>4. CASE procPc' = "wait" /\ UNCHANGED <<queue, procPkt>>
  <2>1. Handed' = Handed
    BY <1>1, <1>4 DEF Handed
  <2> QED
    BY <1>1, <2>1, SameBuffers DEF PipeUnchanged, Seen, contents
<1> QED
  BY <1>1, <1>3, <1>4 DEF GetPacket

\* Steps that move no frame, whatever the processing thread does.
LEMMA OthersStutter ==
    ASSUME IInv, IInv', UNCHANGED <<contents, queue, lost, parsed>>,
           recvPc' = "put" <=> recvPc = "put",
           procPc # "parse", procPc' # "parse"
    PROVE  PipeUnchanged
<1>1. Handed' = Handed
  BY DEF Handed
<1> QED
  BY <1>1, SameBuffers DEF PipeUnchanged, Seen, contents

\* Steps of the other thread or of main that move no frame.
LEMMA IdleProcessorStutters ==
    ASSUME IInv, IInv', UNCHANGED <<contents, queue, lost, parsed, procPc, procPkt>>,
           recvPc' = "put" <=> recvPc = "put"
    PROVE  PipeUnchanged
<1>1. Handed' = Handed
  BY DEF Handed
<1> QED
  BY <1>1, SameBuffers DEF PipeUnchanged, Seen, contents

----------------------------------------------------------------------------
\* The pipe starts empty.
LEMMA InitPipe == Init => Pipe!Init
<1> SUFFICES ASSUME Init PROVE Pipe!Init
  OBVIOUS
<1>1. InFlight = << >>
  <2>1. Handed = << >>
    BY DEF Init, Handed
  <2> QED
    BY <2>1 DEF InFlight
<1>2. Cardinality(lost) = 0
  BY FS_EmptySet DEF Init
<1> QED
  BY <1>1, <1>2 DEF Init, Seen, Pipe!Init

\* Every step of the pipeline is a step of the pipe or leaves it alone.
LEMMA StepPipe == IInv /\ IInv' /\ InOrder /\ [Next]_vars => [Pipe!Next]_Pipe!vars
<1> SUFFICES ASSUME IInv, IInv', InOrder, [Next]_vars
             PROVE  Pipe!Next \/ PipeUnchanged
  BY DEF Pipe!vars, PipeUnchanged
<1>1. CASE Main
  <2>1. CASE CreatePoolAndQueue
    BY <2>1, OthersStutter DEF CreatePoolAndQueue, PoolCreate, QueueInit, IInv, StartupOrder
  <2>2. CASE OpenNetwork \/ EnableQueue
    BY <2>2, IdleProcessorStutters DEF OpenNetwork, EnableQueue
  <2>3. CASE SpawnRecv
    BY <2>3, IdleProcessorStutters DEF SpawnRecv, IInv, StartupOrder
  <2>4. CASE SpawnProc
    BY <2>4, OthersStutter DEF SpawnProc, IInv, StartupOrder
  <2> QED
    BY <1>1, <2>1, <2>2, <2>3, <2>4 DEF Main
<1>2. CASE GetBuffer \/ GetBufferAfterWait
  BY <1>2, IdleProcessorStutters DEF GetBuffer, GetBufferAfterWait, TakeFreeBuffer, startup
<1>3. CASE PutPacket
  BY <1>3, EnqueueAccepts, RefusalLoses DEF PutPacket, Pipe!Next
<1>4. CASE ReleaseBuffer
  BY <1>4, OthersStutter DEF ReleaseBuffer, SignalPool
<1>5. ASSUME NEW cond \in SpuriousWakeups, SpuriousWakeup(cond) PROVE PipeUnchanged
  <2>1. CASE cond = "pool"
    BY <1>5, <2>1, IdleProcessorStutters DEF SpuriousWakeup
  <2>2. CASE cond = "queue"
    BY <1>5, <2>2, OthersStutter DEF SpuriousWakeup
  <2> QED
    BY <2>1, <2>2, PipelineAssumption
<1>6. CASE UNCHANGED vars
  BY <1>6, IdleProcessorStutters DEF vars, contents
<1>7. CASE ReceiveFrame \/ DropFrame
  BY <1>7, ReceiveStutters, DropStutters
<1>8. CASE GetPacket
  BY <1>8, GetStutters
<1>9. CASE ParsePacket
  BY <1>9, ParseDelivers DEF Pipe!Next
<1>10. CASE Receiver
  BY <1>2, <1>3, <1>7, <1>10 DEF Receiver
<1>11. CASE Processor
  BY <1>4, <1>8, <1>9, <1>11 DEF Processor
<1> QED
  BY <1>1, <1>5, <1>6, <1>10, <1>11 DEF Next, Exited

\* Safety of the refinement: whatever the threads, the pool, the queue and
\* their locks do, frames leave in the order they came in, once and unchanged,
\* and are lost only to failed mallocs.
THEOREM Refinement == Spec => Pipe!Spec
<1>1. IInv /\ IInv' /\ InOrder /\ [Next]_vars => [Pipe!Next]_Pipe!vars
  BY StepPipe
<1> QED
  BY <1>1, InitPipe, Invariance, OrderInvariance, PTL DEF Spec, Pipe!Spec
=============================================================================
