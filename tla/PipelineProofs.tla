--------------------------- MODULE PipelineProofs ---------------------------
(***************************************************************************)
(* Theorems about Pipeline, for every number of buffers and frames.        *)
(***************************************************************************)
EXTENDS Pipeline, TLAPS, SequenceTheorems, FunctionTheorems

----------------------------------------------------------------------------
\* The inductive invariant.

\* main starts the threads one after the other, after the queue is enabled.
StartupOrder ==
    /\ mainPc = "create" => lost = {}
    /\ mainPc \notin {"spawnProc", "asleep"} => recvPc = "off"
    /\ mainPc # "asleep" => procPc = "off"
    /\ recvPc = "off" => lost = {} /\ queue = << >>
    /\ abort => mainPc \in {"open", "enable", "exited"}

\* A thread that uses a packet has one of the pool's.
HeldIsBuffer ==
    /\ recvPc \in {"recv", "put"} => recvPkt \in Buffers
    /\ procPc \in {"parse", "release"} => procPkt \in Buffers
    /\ procPc # "crashed"

IInv == TypeOK /\ StartupOrder /\ HeldIsBuffer /\ OneOwner /\ NoLostWakeup

\* A capture thread that was signalled finds a free buffer: it is the only one
\* that takes them.
WokenFindsBuffer ==
    /\ recvPc = "woken" => free # {}
    /\ recvPc # "corrupted"
    /\ recvPkt # PoolHead

\* The frames on their way, newest first: in the capture thread's hands, on
\* the queue, in the processing thread's hands, parsed.
ReceivedInOrder ==
    recvPc = "put" => /\ captured > 0
                      /\ bytes[recvPkt] = captured
                      /\ meta[recvPkt].of = captured
                      /\ meta[recvPkt].action = Push

QueuedInOrder ==
    \A i \in DOMAIN queue :
        /\ bytes[queue[i]] \in 1..captured
        /\ meta[queue[i]].of = bytes[queue[i]]
        /\ meta[queue[i]].action = Push
        /\ recvPc = "put" => bytes[queue[i]] < captured
        /\ \A j \in DOMAIN queue : i < j => bytes[queue[i]] < bytes[queue[j]]

ProcessedInOrder ==
    procPc = "parse" =>
        /\ bytes[procPkt] \in 1..captured
        /\ meta[procPkt].of = bytes[procPkt]
        /\ meta[procPkt].action = Push
        /\ recvPc = "put" => bytes[procPkt] < captured
        /\ \A i \in DOMAIN queue : bytes[procPkt] < bytes[queue[i]]

ParsedBefore ==
    \A k \in DOMAIN parsed :
        /\ recvPc = "put" => parsed[k].bytes < captured
        /\ \A i \in DOMAIN queue : parsed[k].bytes < bytes[queue[i]]
        /\ procPc = "parse" => parsed[k].bytes < bytes[procPkt]

InOrder ==
    ReceivedInOrder /\ QueuedInOrder /\ ProcessedInOrder /\ ParsedBefore /\ ParsedInOrder

----------------------------------------------------------------------------
\* Sequences as queues without repetition.

\* Appending a new element adds it to the range and repeats nothing.
LEMMA AppendRange ==
    ASSUME NEW S, NEW s \in Seq(S), NEW e \in S
    PROVE  /\ Range(Append(s, e)) = Range(s) \cup {e}
           /\ IsInjective(s) /\ e \notin Range(s) => IsInjective(Append(s, e))
<1> DEFINE t == Append(s, e)
<1>1. /\ DOMAIN s = 1..Len(s) /\ DOMAIN t = 1..(Len(s) + 1) /\ Len(s) \in Nat
      /\ \A i \in 1..Len(s) : t[i] = s[i]
      /\ t[Len(s) + 1] = e
  OBVIOUS
<1> HIDE DEF t
<1>2. Range(t) = Range(s) \cup {e}
  BY <1>1 DEF Range
<1>3. IsInjective(s) /\ e \notin Range(s) => IsInjective(t)
  BY <1>1 DEF Range, IsInjective
<1> QED
  BY <1>2, <1>3 DEF t

\* Taking the head leaves the other elements, the head not among them.
LEMMA TailRange ==
    ASSUME NEW S, NEW s \in Seq(S), s # << >>
    PROVE  /\ Head(s) \in S /\ Tail(s) \in Seq(S)
           /\ Range(s) = Range(Tail(s)) \cup {Head(s)}
           /\ IsInjective(s) => Head(s) \notin Range(Tail(s)) /\ IsInjective(Tail(s))
<1> DEFINE t == Tail(s)
<1>1. /\ Len(s) \in Nat /\ Len(s) > 0
      /\ DOMAIN s = 1..Len(s) /\ DOMAIN t = 1..(Len(s) - 1)
      /\ \A i \in 1..(Len(s) - 1) : t[i] = s[i + 1]
      /\ Head(s) = s[1]
      /\ Head(s) \in S /\ t \in Seq(S)
  OBVIOUS
<1> HIDE DEF t
<1>2. Range(s) = Range(t) \cup {Head(s)}
  <2>1. ASSUME NEW i \in 1..Len(s) PROVE s[i] \in Range(t) \cup {Head(s)}
    <3>1. CASE i = 1
      BY <1>1, <3>1
    <3>2. CASE i # 1
      <4>1. i - 1 \in 1..(Len(s) - 1) /\ s[i] = t[i - 1]
        BY <1>1, <3>2
      <4> QED
        BY <1>1, <4>1 DEF Range
    <3> QED
      BY <3>1, <3>2
  <2>2. ASSUME NEW i \in 1..(Len(s) - 1) PROVE t[i] \in Range(s)
    <3>1. i + 1 \in 1..Len(s) /\ t[i] = s[i + 1]
      BY <1>1
    <3> QED
      BY <1>1, <3>1 DEF Range
  <2>3. Head(s) \in Range(s)
    BY <1>1 DEF Range
  <2> QED
    BY <1>1, <2>1, <2>2, <2>3 DEF Range
<1>3. IsInjective(s) => Head(s) \notin Range(t) /\ IsInjective(t)
  <2> SUFFICES ASSUME IsInjective(s)
               PROVE  Head(s) \notin Range(t) /\ IsInjective(t)
    OBVIOUS
  <2>1. ASSUME NEW i \in 1..(Len(s) - 1) PROVE Head(s) # t[i]
    <3>1. i + 1 \in 1..Len(s) /\ 1 \in 1..Len(s) /\ i + 1 # 1
      BY <1>1
    <3> QED
      BY <1>1, <3>1 DEF IsInjective
  <2>2. ASSUME NEW i \in 1..(Len(s) - 1), NEW j \in 1..(Len(s) - 1), t[i] = t[j]
        PROVE  i = j
    <3>1. i + 1 \in 1..Len(s) /\ j + 1 \in 1..Len(s) /\ s[i + 1] = s[j + 1]
      BY <1>1, <2>2
    <3>2. i + 1 = j + 1
      BY <1>1, <3>1 DEF IsInjective
    <3> QED
      BY <3>2
  <2> QED
    BY <1>1, <2>1, <2>2 DEF Range, IsInjective
<1> QED
  BY <1>1, <1>2, <1>3 DEF t

----------------------------------------------------------------------------
\* The invariant holds at the start and every step keeps it.

\* Before main has created the pool nothing is held or queued.
LEMMA InitIInv == Init => IInv
<1> SUFFICES ASSUME Init PROVE IInv
  OBVIOUS
<1>1. TypeOK
  <2>1. bytes \in [Buffers -> 0..MaxFrames] /\ captured \in 0..MaxFrames
    BY PipelineAssumption DEF Init
  <2>2. meta \in [Buffers -> Meta]
    BY DEF Init, Meta
  <2>3. queue \in Seq(Buffers) /\ parsed \in Seq(Parsed)
    BY DEF Init
  <2> QED
    BY <2>1, <2>2, <2>3 DEF Init, TypeOK
<1>2. StartupOrder /\ HeldIsBuffer /\ OneOwner /\ NoLostWakeup
  BY DEF Init, StartupOrder, HeldIsBuffer, OneOwner, NoLostWakeup
<1> QED
  BY <1>1, <1>2 DEF IInv

\* Start-up: only the creation of the pool moves buffers.
LEMMA MainKeepsIInv == IInv /\ Main => IInv'
<1> SUFFICES ASSUME IInv, Main PROVE IInv'
  OBVIOUS
<1> USE DEF IInv, TypeOK, StartupOrder, HeldIsBuffer, NoLostWakeup,
            startup, contents
<1>1. CASE CreatePoolAndQueue
  <2>1. OneOwner'
    BY <1>1 DEF CreatePoolAndQueue, PoolCreate, QueueInit, OneOwner, RecvHolds, ProcHolds, IsInjective, Range
  <2> QED
    BY <1>1, <2>1 DEF CreatePoolAndQueue, PoolCreate, QueueInit
<1>2. CASE OpenNetwork
  BY <1>2 DEF OpenNetwork, OneOwner, RecvHolds, ProcHolds
<1>3. CASE EnableQueue
  BY <1>3 DEF EnableQueue, OneOwner, RecvHolds, ProcHolds
<1>4. CASE SpawnRecv
  BY <1>4 DEF SpawnRecv, OneOwner, RecvHolds, ProcHolds
<1>5. CASE SpawnProc
  BY <1>5 DEF SpawnProc, OneOwner, RecvHolds, ProcHolds
<1> QED
  BY <1>1, <1>2, <1>3, <1>4, <1>5 DEF Main

\* A buffer moves from the free list to the thread to the queue, or is lost.
LEMMA ReceiverKeepsIInv == IInv /\ Receiver => IInv'
<1> SUFFICES ASSUME IInv, Receiver PROVE IInv'
  OBVIOUS
<1> USE DEF IInv, StartupOrder, HeldIsBuffer, NoLostWakeup, startup, contents
<1>1. CASE GetBuffer
  <2>1. CASE TakeFreeBuffer
    <3>1. PICK b \in free : free' = free \ {b} /\ recvPkt' = b /\ recvPc' = "recv"
      BY <2>1 DEF TakeFreeBuffer
    <3>2. TypeOK'
      BY <1>1, <3>1 DEF GetBuffer, TypeOK
    <3>3. OneOwner'
      BY <1>1, <3>1 DEF GetBuffer, OneOwner, RecvHolds, ProcHolds, TypeOK
    <3> QED
      BY <1>1, <3>1, <3>2, <3>3 DEF GetBuffer, TypeOK
  <2>2. CASE free = {} /\ recvPc' = "wait" /\ UNCHANGED <<free, recvPkt>>
    BY <1>1, <2>2 DEF GetBuffer, TypeOK, OneOwner, RecvHolds, ProcHolds
  <2> QED
    BY <1>1, <2>1, <2>2 DEF GetBuffer
<1>2. CASE GetBufferAfterWait
  <2>1. CASE TakeFreeBuffer
    <3>1. PICK b \in free : free' = free \ {b} /\ recvPkt' = b /\ recvPc' = "recv"
      BY <2>1 DEF TakeFreeBuffer
    <3>2. TypeOK'
      BY <1>2, <3>1 DEF GetBufferAfterWait, TypeOK
    <3>3. OneOwner'
      BY <1>2, <3>1 DEF GetBufferAfterWait, OneOwner, RecvHolds, ProcHolds, TypeOK
    <3> QED
      BY <1>2, <3>1, <3>2, <3>3 DEF GetBufferAfterWait, TypeOK
  <2>2. CASE free = {} /\ recvPkt' = PoolHead /\ recvPc' = "corrupted" /\ UNCHANGED free
    BY <1>2, <2>2 DEF GetBufferAfterWait, TypeOK, OneOwner, RecvHolds, ProcHolds
  <2> QED
    BY <1>2, <2>1, <2>2 DEF GetBufferAfterWait
<1>3. CASE ReceiveFrame
  <2>1. TypeOK'
    <3>1. captured + 1 \in 0..MaxFrames /\ captured + 1 \in Nat
      BY <1>3, PipelineAssumption DEF ReceiveFrame, TypeOK
    <3>2. bytes' \in [Buffers -> 0..MaxFrames]
      BY <1>3, <3>1 DEF ReceiveFrame, TypeOK
    <3>3. meta' \in [Buffers -> Meta]
      BY <1>3, <3>1 DEF ReceiveFrame, Describe, TypeOK, Meta, Push
    <3> QED
      BY <1>3, <3>1, <3>2, <3>3 DEF ReceiveFrame, TypeOK
  <2>2. OneOwner'
    BY <1>3 DEF ReceiveFrame, OneOwner, RecvHolds, ProcHolds
  <2> QED
    BY <1>3, <2>1, <2>2 DEF ReceiveFrame, TypeOK
<1>4. CASE DropFrame
  <2>1. TypeOK'
    <3>1. bytes' \in [Buffers -> 0..MaxFrames]
      BY <1>4, PipelineAssumption DEF DropFrame, TypeOK
    <3>2. meta[recvPkt].action \in {Push, Drop}
      BY <1>4 DEF DropFrame, TypeOK, Meta
    <3>3. \A len \in Lens :
            [of |-> 0, len |-> len, action |-> meta[recvPkt].action] \in Meta
      BY <3>2 DEF Meta
    <3>4. meta' \in [Buffers -> Meta]
      BY <1>4, <3>3 DEF DropFrame, TypeOK
    <3> QED
      BY <1>4, <3>1, <3>4 DEF DropFrame, TypeOK
  <2>2. OneOwner'
    BY <1>4 DEF DropFrame, OneOwner, RecvHolds, ProcHolds
  <2> QED
    BY <1>4, <2>1, <2>2 DEF DropFrame, TypeOK
<1>5. CASE PutPacket
  <2>1. recvPkt \in Buffers /\ recvPkt \notin Range(queue) /\ mainPc # "create"
    BY <1>5 DEF PutPacket, OneOwner, RecvHolds
  <2>2. CASE Enqueue
    <3>1. /\ queue' = Append(queue, recvPkt)
          /\ Range(queue') = Range(queue) \cup {recvPkt}
          /\ IsInjective(queue')
      BY <1>5, <2>1, <2>2, AppendRange DEF Enqueue, TypeOK, OneOwner
    <3>2. TypeOK'
      BY <1>5, <2>1, <2>2, <3>1 DEF PutPacket, Enqueue, SignalQueue, TypeOK
    <3>3. ProcHolds' = ProcHolds
      BY <1>5, <2>2 DEF PutPacket, Enqueue, SignalQueue, ProcHolds
    <3>4. OneOwner'
      BY <1>5, <2>1, <2>2, <3>1, <3>3 DEF PutPacket, Enqueue, OneOwner, RecvHolds
    <3> QED
      BY <1>5, <2>2, <3>1, <3>2, <3>4 DEF PutPacket, Enqueue, SignalQueue, TypeOK
  <2>3. CASE RefuseToEnqueue
    <3>1. TypeOK'
      BY <1>5, <2>1, <2>3 DEF PutPacket, RefuseToEnqueue, TypeOK
    <3>2. OneOwner'
      BY <1>5, <2>1, <2>3 DEF PutPacket, RefuseToEnqueue, OneOwner, RecvHolds, ProcHolds
    <3> QED
      BY <1>5, <2>3, <3>1, <3>2 DEF PutPacket, RefuseToEnqueue, TypeOK
  <2> QED
    BY <1>5, <2>2, <2>3 DEF PutPacket
<1> QED
  BY <1>1, <1>2, <1>3, <1>4, <1>5 DEF Receiver

\* A buffer moves from the queue to the thread to the free list.
LEMMA ProcessorKeepsIInv == IInv /\ Processor => IInv'
<1> SUFFICES ASSUME IInv, Processor PROVE IInv'
  OBVIOUS
<1> USE DEF IInv, StartupOrder, HeldIsBuffer, NoLostWakeup, startup, contents
<1>1. CASE GetPacket
  <2>1. ~abort /\ mainPc # "create"
    BY <1>1 DEF GetPacket
  <2>2. CASE queue # << >> /\ queue' = Tail(queue) /\ procPkt' = Head(queue) /\ procPc' = "parse"
    <3>1. /\ procPkt' \in Buffers /\ queue' \in Seq(Buffers)
          /\ Range(queue) = Range(queue') \cup {procPkt'}
          /\ procPkt' \notin Range(queue') /\ IsInjective(queue')
      BY <2>1, <2>2, TailRange DEF TypeOK, OneOwner
    <3>2. TypeOK'
      BY <1>1, <2>2, <3>1 DEF GetPacket, TypeOK
    <3>3. OneOwner'
      BY <1>1, <2>1, <2>2, <3>1 DEF GetPacket, OneOwner, RecvHolds, ProcHolds
    <3> QED
      BY <1>1, <2>2, <3>1, <3>2, <3>3 DEF GetPacket, TypeOK
  <2>3. CASE queue = << >> /\ procPc' = "wait" /\ UNCHANGED <<queue, procPkt>>
    BY <1>1, <2>1, <2>3 DEF GetPacket, TypeOK, OneOwner, RecvHolds, ProcHolds
  <2> QED
    BY <1>1, <2>1, <2>2, <2>3 DEF GetPacket
<1>2. CASE ParsePacket
  <2>1. procPkt \in Buffers /\ procPkt # Null
    BY <1>2, PipelineAssumption DEF ParsePacket
  <2>2. FrameIn(procPkt) \in Parsed
    BY <2>1 DEF FrameIn, TypeOK, Meta, Parsed
  <2>3. TypeOK'
    <3>1. parsed' \in {parsed, Append(parsed, FrameIn(procPkt))}
      BY <1>2, <2>1 DEF ParsePacket
    <3>2. parsed' \in Seq(Parsed)
      BY <2>2, <3>1 DEF TypeOK
    <3> QED
      BY <1>2, <2>1, <3>2 DEF ParsePacket, TypeOK
  <2>4. OneOwner'
    BY <1>2, <2>1 DEF ParsePacket, OneOwner, RecvHolds, ProcHolds
  <2> QED
    BY <1>2, <2>1, <2>3, <2>4 DEF ParsePacket, TypeOK
<1>3. CASE ReleaseBuffer
  <2>1. RecvHolds' = RecvHolds
    BY <1>3 DEF ReleaseBuffer, SignalPool, RecvHolds
  <2>2. TypeOK'
    BY <1>3 DEF ReleaseBuffer, SignalPool, TypeOK
  <2>3. OneOwner'
    BY <1>3, <2>1 DEF ReleaseBuffer, OneOwner, ProcHolds
  <2> QED
    BY <1>3, <2>2, <2>3 DEF ReleaseBuffer, SignalPool, TypeOK
<1> QED
  BY <1>1, <1>2, <1>3 DEF Processor

\* Every step keeps the invariant; a wakeup moves no buffer.
LEMMA StepKeepsIInv == IInv /\ [Next]_vars => IInv'
<1> SUFFICES ASSUME IInv, [Next]_vars PROVE IInv'
  OBVIOUS
<1>1. ASSUME NEW cond \in SpuriousWakeups, SpuriousWakeup(cond) PROVE IInv'
  BY <1>1 DEF SpuriousWakeup, IInv, TypeOK, StartupOrder, HeldIsBuffer, OneOwner,
              NoLostWakeup, RecvHolds, ProcHolds, startup, contents
<1>2. CASE UNCHANGED vars
  BY <1>2 DEF vars, startup, contents, IInv, TypeOK, StartupOrder, HeldIsBuffer,
              OneOwner, NoLostWakeup, RecvHolds, ProcHolds
<1> QED
  BY <1>1, <1>2, MainKeepsIInv, ReceiverKeepsIInv, ProcessorKeepsIInv DEF Next, Exited

\* Every reachable state satisfies the invariant.
THEOREM Invariance == Spec => []IInv
  BY InitIInv, StepKeepsIInv, PTL DEF Spec

----------------------------------------------------------------------------
\* What follows from the invariant.

\* Every variable keeps its type.
THEOREM TypeCorrect == Spec => []TypeOK
  BY Invariance, PTL DEF IInv

\* Every buffer is in exactly one place, whatever the threads do, whichever
\* mallocs fail and whichever waits return early.
THEOREM Ownership == Spec => []OneOwner
  BY Invariance, PTL DEF IInv

\* No thread waits for something that is there.
THEOREM WakeupsReachWaiters == Spec => []NoLostWakeup
  BY Invariance, PTL DEF IInv

\* The threads wait for each other only when failed mallocs have used up the
\* pool: with no buffer free, held or queued, all are lost.
THEOREM NoDeadlock == Spec => []NoMutualWait
<1>1. Range(<< >>) = {}
  BY DEF Range
<1>2. IInv => NoMutualWait
  BY <1>1 DEF IInv, StartupOrder, NoLostWakeup, OneOwner, NoMutualWait, RecvHolds,
              ProcHolds
<1> QED
  BY <1>2, Invariance, PTL

\* process_thread never reads a null packet.
THEOREM PacketsArePresent == Spec => []NoNullPacket
<1>1. IInv => NoNullPacket
  BY PipelineAssumption DEF IInv, HeldIsBuffer, NoNullPacket
<1> QED
  BY <1>1, Invariance, PTL

\* No packet changes while it is queued or parsed: the only writes are those of
\* eth_recv, into a buffer that the capture thread owns.
THEOREM HandoverFreezes == Spec => HandedOverIsFrozen
<1> DEFINE Frozen == \A b \in Range(queue) \cup ProcHolds :
                        bytes'[b] = bytes[b] /\ meta'[b] = meta[b]
<1>1. ASSUME IInv, [Next]_vars PROVE [Frozen]_vars
  <2>1. CASE ReceiveFrame \/ DropFrame
    <3>1. recvPkt \notin Range(queue) \cup ProcHolds
      BY <1>1, <2>1 DEF ReceiveFrame, DropFrame, IInv, StartupOrder, OneOwner, RecvHolds
    <3>2. Range(queue) \cup ProcHolds \subseteq Buffers
      BY <1>1, <2>1 DEF ReceiveFrame, DropFrame, IInv, StartupOrder, OneOwner
    <3>3. \A b \in Buffers \ {recvPkt} : bytes'[b] = bytes[b] /\ meta'[b] = meta[b]
      BY <1>1, <2>1 DEF ReceiveFrame, DropFrame, IInv, TypeOK
    <3> QED
      BY <3>1, <3>2, <3>3
  <2>2. CASE UNCHANGED <<bytes, meta>>
    BY <2>2
  <2>3. UNCHANGED <<bytes, meta>> \/ ReceiveFrame \/ DropFrame
    BY <1>1 DEF Next, Main, CreatePoolAndQueue, PoolCreate, QueueInit, OpenNetwork, EnableQueue, SpawnRecv,
                SpawnProc, Receiver, GetBuffer, GetBufferAfterWait, PutPacket,
                Processor, GetPacket, ParsePacket, ReleaseBuffer, SpuriousWakeup,
                Exited, vars, contents
  <2> QED
    BY <2>1, <2>2, <2>3
<1>2. IInv /\ [Next]_vars => [Frozen]_vars
  BY <1>1
<1> QED
  BY <1>2, Invariance, PTL DEF Spec, HandedOverIsFrozen

----------------------------------------------------------------------------
\* The wait of mem_pool_get, where the platform has no spurious wakeups.

\* No thread waits at the start.
LEMMA InitWoken == Init => WokenFindsBuffer
  BY PipelineAssumption DEF Init, WokenFindsBuffer

\* Only the capture thread takes buffers, and it is the one that was woken.
LEMMA StepKeepsWoken ==
    ASSUME "pool" \notin SpuriousWakeups
    PROVE  IInv /\ WokenFindsBuffer /\ [Next]_vars => WokenFindsBuffer'
<1> SUFFICES ASSUME IInv, WokenFindsBuffer, [Next]_vars PROVE WokenFindsBuffer'
  OBVIOUS
<1> USE DEF WokenFindsBuffer
<1>1. CASE Main
  BY <1>1 DEF IInv, StartupOrder, Main, CreatePoolAndQueue, PoolCreate, QueueInit, OpenNetwork, EnableQueue,
              SpawnRecv, SpawnProc
<1>2. CASE GetBuffer
  BY <1>2, PipelineAssumption DEF GetBuffer, TakeFreeBuffer, IInv, TypeOK
<1>3. CASE GetBufferAfterWait
  BY <1>3, PipelineAssumption DEF GetBufferAfterWait, TakeFreeBuffer, IInv, TypeOK
<1>4. CASE ReceiveFrame \/ DropFrame \/ PutPacket
  BY <1>4 DEF ReceiveFrame, DropFrame, PutPacket
<1>5. CASE GetPacket \/ ParsePacket
  BY <1>5 DEF GetPacket, ParsePacket
<1>6. CASE ReleaseBuffer
  BY <1>6 DEF ReleaseBuffer, SignalPool
<1>7. ASSUME NEW cond \in SpuriousWakeups, SpuriousWakeup(cond)
      PROVE  WokenFindsBuffer'
  BY <1>7 DEF SpuriousWakeup
<1>8. CASE UNCHANGED vars
  BY <1>8 DEF vars
<1> QED
  BY <1>1, <1>2, <1>3, <1>4, <1>5, <1>6, <1>7, <1>8
     DEF Next, Receiver, Processor, Exited

\* If the pool's wait returns only after a signal, mem_pool_get never unlinks
\* the head of an empty free list: the signal comes with a buffer, and nobody
\* else takes buffers.
THEOREM ListDelIsSafe ==
    ASSUME "pool" \notin SpuriousWakeups
    PROVE  Spec => []ListDelGetsAnElement
<1>1. WokenFindsBuffer => ListDelGetsAnElement
  BY DEF WokenFindsBuffer, ListDelGetsAnElement
<1>2. IInv /\ WokenFindsBuffer /\ [Next]_vars => WokenFindsBuffer'
  BY StepKeepsWoken
<1> QED
  BY <1>1, <1>2, InitWoken, Invariance, PTL DEF Spec

----------------------------------------------------------------------------
\* Frames are parsed in the order they were captured.

\* Nothing has been captured at the start.
LEMMA InitInOrder == Init => InOrder
  BY DEF Init, InOrder, ReceivedInOrder, QueuedInOrder, ProcessedInOrder,
         ParsedBefore, ParsedInOrder

\* Steps that touch no frame on its way.
LEMMA OthersKeepOrder ==
    ASSUME IInv, InOrder, UNCHANGED <<contents, parsed>>,
           queue' = queue \/ queue' = << >>,
           recvPc' # "put" \/ UNCHANGED <<recvPc, recvPkt>>,
           procPc' # "parse" \/ UNCHANGED <<procPc, procPkt>>
    PROVE  InOrder'
<1> USE DEF contents
<1>1. ReceivedInOrder' /\ ProcessedInOrder'
  BY DEF InOrder, ReceivedInOrder, ProcessedInOrder
<1>2. QueuedInOrder'
  BY DEF InOrder, QueuedInOrder
<1>3. ParsedBefore'
  BY DEF InOrder, ParsedBefore
<1>4. ParsedInOrder'
  BY DEF InOrder, ParsedInOrder
<1> QED
  BY <1>1, <1>2, <1>3, <1>4 DEF InOrder

\* eth_recv writes only to the buffer it was given.
LEMMA WritesElsewhere ==
    ASSUME IInv, recvPc = "recv", NEW n, NEW m,
           bytes' = [bytes EXCEPT ![recvPkt] = n],
           meta' = [meta EXCEPT ![recvPkt] = m]
    PROVE  /\ \A i \in DOMAIN queue : /\ bytes'[queue[i]] = bytes[queue[i]]
                                     /\ meta'[queue[i]] = meta[queue[i]]
           /\ procPc = "parse" => /\ bytes'[procPkt] = bytes[procPkt]
                                  /\ meta'[procPkt] = meta[procPkt]
<1>1. recvPkt \notin Range(queue) \cup ProcHolds /\ recvPkt \in Buffers
  BY DEF IInv, StartupOrder, HeldIsBuffer, OneOwner, RecvHolds
<1>2. \A i \in DOMAIN queue : queue[i] \in Buffers \ {recvPkt}
  BY <1>1 DEF Range, IInv, TypeOK
<1>3. procPc = "parse" => procPkt \in Buffers \ {recvPkt}
  BY <1>1 DEF ProcHolds, IInv, HeldIsBuffer
<1> QED
  BY <1>1, <1>2, <1>3 DEF IInv, TypeOK

\* The frame received has the highest number so far.
LEMMA ReceiveKeepsOrder == IInv /\ InOrder /\ ReceiveFrame => InOrder'
<1> SUFFICES ASSUME IInv, InOrder, ReceiveFrame PROVE InOrder'
  OBVIOUS
<1>1. PICK len \in Lens :
        meta' = [meta EXCEPT ![recvPkt] = [of |-> captured + 1, len |-> len, action |-> Push]]
  BY DEF ReceiveFrame, Describe
<1>2. /\ recvPc = "recv" /\ recvPc' = "put" /\ captured' = captured + 1
      /\ bytes' = [bytes EXCEPT ![recvPkt] = captured + 1]
      /\ UNCHANGED <<queue, procPc, procPkt, recvPkt, parsed>>
  BY DEF ReceiveFrame
<1>3. captured \in Nat /\ recvPkt \in Buffers
  BY <1>2, PipelineAssumption DEF IInv, TypeOK, HeldIsBuffer
<1>4. /\ \A i \in DOMAIN queue : /\ bytes'[queue[i]] = bytes[queue[i]]
                                /\ meta'[queue[i]] = meta[queue[i]]
      /\ procPc = "parse" => /\ bytes'[procPkt] = bytes[procPkt]
                             /\ meta'[procPkt] = meta[procPkt]
  BY <1>1, <1>2, WritesElsewhere
<1>5. ReceivedInOrder'
  BY <1>1, <1>2, <1>3 DEF ReceivedInOrder, IInv, TypeOK
<1>6. QueuedInOrder'
  BY <1>2, <1>3, <1>4 DEF InOrder, QueuedInOrder
<1>7. ProcessedInOrder'
  BY <1>2, <1>3, <1>4 DEF InOrder, ProcessedInOrder
<1>8. ParsedInOrder'
  BY <1>2, <1>3 DEF InOrder, ParsedInOrder
<1>9. ParsedBefore'
  BY <1>2, <1>3, <1>4 DEF InOrder, ParsedBefore, ParsedInOrder
<1> QED
  BY <1>5, <1>6, <1>7, <1>8, <1>9 DEF InOrder

\* A dropped frame touches only the capture thread's own buffer.
LEMMA DropKeepsOrder == IInv /\ InOrder /\ DropFrame => InOrder'
<1> SUFFICES ASSUME IInv, InOrder, DropFrame PROVE InOrder'
  OBVIOUS
<1>1. PICK m : meta' = [meta EXCEPT ![recvPkt] = m]
  <2>1. CASE UNCHANGED meta
    <3>1. meta' = [meta EXCEPT ![recvPkt] = meta[recvPkt]]
      BY <2>1 DEF IInv, TypeOK
    <3> QED
      BY <3>1
  <2> QED
    BY <2>1 DEF DropFrame
<1>2. /\ recvPc = "recv" /\ recvPc' = "recv"
      /\ bytes' = [bytes EXCEPT ![recvPkt] = 0]
      /\ UNCHANGED <<captured, queue, procPc, procPkt, recvPkt, parsed>>
  BY DEF DropFrame
<1>3. /\ \A i \in DOMAIN queue : /\ bytes'[queue[i]] = bytes[queue[i]]
                                /\ meta'[queue[i]] = meta[queue[i]]
      /\ procPc = "parse" => /\ bytes'[procPkt] = bytes[procPkt]
                             /\ meta'[procPkt] = meta[procPkt]
  BY <1>1, <1>2, WritesElsewhere
<1>4. ReceivedInOrder'
  BY <1>2 DEF ReceivedInOrder
<1>5. QueuedInOrder'
  BY <1>2, <1>3 DEF InOrder, QueuedInOrder
<1>6. ProcessedInOrder'
  BY <1>2, <1>3 DEF InOrder, ProcessedInOrder
<1>7. ParsedBefore' /\ ParsedInOrder'
  BY <1>2, <1>3 DEF InOrder, ParsedBefore, ParsedInOrder
<1> QED
  BY <1>4, <1>5, <1>6, <1>7 DEF InOrder

\* The frame put on the queue is newer than every frame on it.
LEMMA PutKeepsOrder == IInv /\ InOrder /\ PutPacket => InOrder'
<1> SUFFICES ASSUME IInv, InOrder, PutPacket PROVE InOrder'
  OBVIOUS
<1> USE DEF contents
<1>1. /\ recvPc = "put" /\ recvPc' = "get" /\ UNCHANGED <<contents, procPkt, parsed>>
      /\ procPc' # "parse" \/ procPc' = procPc
  BY DEF PutPacket, Enqueue, RefuseToEnqueue, SignalQueue
<1>2. CASE Enqueue
  <2>1. /\ DOMAIN queue = 1..Len(queue) /\ Len(queue) \in Nat
        /\ DOMAIN queue' = 1..(Len(queue) + 1)
        /\ \A i \in 1..Len(queue) : queue'[i] = queue[i]
        /\ queue'[Len(queue) + 1] = recvPkt
    BY <1>2 DEF Enqueue, IInv, TypeOK, HeldIsBuffer
  <2>2. captured \in Nat /\ captured > 0 /\ bytes[recvPkt] = captured
        /\ meta[recvPkt].of = captured /\ meta[recvPkt].action = Push
    BY <1>1, PipelineAssumption DEF InOrder, ReceivedInOrder, IInv, TypeOK
  <2>3. QueuedInOrder'
    BY <1>1, <2>1, <2>2 DEF InOrder, QueuedInOrder
  <2>4. ProcessedInOrder'
    BY <1>1, <2>1, <2>2 DEF InOrder, ProcessedInOrder
  <2>5. ParsedBefore' /\ ParsedInOrder'
    BY <1>1, <2>1, <2>2 DEF InOrder, ParsedBefore, ParsedInOrder
  <2> QED
    BY <1>1, <2>3, <2>4, <2>5 DEF InOrder, ReceivedInOrder
<1>3. CASE RefuseToEnqueue
  BY <1>1, <1>3, OthersKeepOrder DEF RefuseToEnqueue
<1> QED
  BY <1>2, <1>3 DEF PutPacket

\* The frame taken from the queue is older than every frame left on it.
LEMMA GetKeepsOrder == IInv /\ InOrder /\ GetPacket => InOrder'
<1> SUFFICES ASSUME IInv, InOrder, GetPacket PROVE InOrder'
  OBVIOUS
<1> USE DEF contents
<1>1. ~abort /\ UNCHANGED <<contents, recvPc, recvPkt, parsed>>
  BY DEF GetPacket, IInv, StartupOrder
<1>2. CASE queue # << >> /\ queue' = Tail(queue) /\ procPkt' = Head(queue) /\ procPc' = "parse"
  <2>1. /\ DOMAIN queue = 1..Len(queue) /\ Len(queue) \in Nat /\ Len(queue) > 0
        /\ DOMAIN queue' = 1..(Len(queue) - 1)
        /\ \A i \in 1..(Len(queue) - 1) : queue'[i] = queue[i + 1]
        /\ procPkt' = queue[1]
    BY <1>2 DEF IInv, TypeOK
  <2>2. ASSUME NEW i \in DOMAIN queue'
        PROVE  i \in Nat /\ i + 1 \in DOMAIN queue /\ 1 < i + 1 /\ queue'[i] = queue[i + 1]
    BY <2>1
  <2>3. 1 \in DOMAIN queue
    BY <2>1
  <2>4. QueuedInOrder'
    <3> SUFFICES ASSUME NEW i \in DOMAIN queue'
                 PROVE  /\ bytes[queue'[i]] \in 1..captured
                        /\ meta[queue'[i]].of = bytes[queue'[i]]
                        /\ meta[queue'[i]].action = Push
                        /\ recvPc = "put" => bytes[queue'[i]] < captured
                        /\ \A j \in DOMAIN queue' :
                             i < j => bytes[queue'[i]] < bytes[queue'[j]]
      BY <1>1 DEF QueuedInOrder
    <3>1. ASSUME NEW j \in DOMAIN queue', i < j
          PROVE  bytes[queue'[i]] < bytes[queue'[j]]
      <4>1. i + 1 < j + 1
        BY <2>2, <3>1
      <4> QED
        BY <2>2, <4>1 DEF InOrder, QueuedInOrder
    <3> QED
      BY <2>2, <3>1 DEF InOrder, QueuedInOrder
  <2>5. ProcessedInOrder'
    <3>1. /\ bytes[queue[1]] \in 1..captured
          /\ meta[queue[1]].of = bytes[queue[1]]
          /\ meta[queue[1]].action = Push
          /\ recvPc = "put" => bytes[queue[1]] < captured
      BY <2>3 DEF InOrder, QueuedInOrder
    <3>2. \A i \in DOMAIN queue' : bytes[queue[1]] < bytes[queue'[i]]
      BY <2>2, <2>3 DEF InOrder, QueuedInOrder
    <3> QED
      BY <1>1, <2>1, <3>1, <3>2 DEF ProcessedInOrder
  <2>6. ParsedBefore'
    <3>1. ASSUME NEW k \in DOMAIN parsed
          PROVE  /\ recvPc = "put" => parsed[k].bytes < captured
                 /\ \A i \in DOMAIN queue' : parsed[k].bytes < bytes[queue'[i]]
                 /\ parsed[k].bytes < bytes[queue[1]]
      BY <2>2, <2>3 DEF InOrder, ParsedBefore
    <3> QED
      BY <1>1, <2>1, <3>1 DEF ParsedBefore
  <2>7. ParsedInOrder'
    BY <1>1 DEF InOrder, ParsedInOrder
  <2> QED
    BY <1>1, <2>4, <2>5, <2>6, <2>7 DEF InOrder, ReceivedInOrder
<1>3. CASE procPc' = "wait" /\ UNCHANGED <<queue, procPkt>>
  BY <1>1, <1>3, OthersKeepOrder
<1> QED
  BY <1>1, <1>2, <1>3 DEF GetPacket

\* The frame parsed is newer than every frame parsed before.
LEMMA ParseKeepsOrder == IInv /\ InOrder /\ ParsePacket => InOrder'
<1> SUFFICES ASSUME IInv, InOrder, ParsePacket PROVE InOrder'
  OBVIOUS
<1> USE DEF contents
<1>1. /\ procPc = "parse" /\ procPc' = "release"
      /\ UNCHANGED <<contents, recvPc, recvPkt, queue, procPkt>>
      /\ \/ parsed' = parsed
         \/ meta[procPkt].len # 0 /\ parsed' = Append(parsed, FrameIn(procPkt))
  <2>1. procPkt # Null
    BY PipelineAssumption DEF ParsePacket, IInv, HeldIsBuffer
  <2>2. /\ procPc = "parse" /\ procPc' = "release"
        /\ UNCHANGED <<contents, recvPc, recvPkt, queue, procPkt>>
    BY <2>1 DEF ParsePacket
  <2>3. parsed' = IF meta[procPkt].len # 0 /\ meta[procPkt].action # Drop
                  THEN Append(parsed, FrameIn(procPkt)) ELSE parsed
    BY <2>1 DEF ParsePacket
  <2> QED
    BY <2>2, <2>3
<1>2. ReceivedInOrder' /\ QueuedInOrder' /\ ProcessedInOrder'
  BY <1>1 DEF InOrder, ReceivedInOrder, QueuedInOrder, ProcessedInOrder
<1>3. CASE parsed' = parsed
  BY <1>1, <1>2, <1>3 DEF InOrder, ParsedBefore, ParsedInOrder
<1>4. CASE meta[procPkt].len # 0 /\ parsed' = Append(parsed, FrameIn(procPkt))
  <2>1. /\ DOMAIN parsed = 1..Len(parsed) /\ Len(parsed) \in Nat
        /\ DOMAIN parsed' = 1..(Len(parsed) + 1)
        /\ \A k \in 1..Len(parsed) : parsed'[k] = parsed[k]
        /\ parsed'[Len(parsed) + 1] = FrameIn(procPkt)
    BY <1>4 DEF IInv, TypeOK
  <2> DEFINE new == parsed'[Len(parsed) + 1]
  <2>2. /\ new.bytes = bytes[procPkt] /\ new.of = meta[procPkt].of /\ new.len # 0
    BY <1>4, <2>1 DEF FrameIn
  <2>3. /\ new.bytes \in 1..captured /\ new.of = new.bytes
        /\ recvPc = "put" => new.bytes < captured
        /\ \A i \in DOMAIN queue : new.bytes < bytes[queue[i]]
        /\ \A k \in 1..Len(parsed) : parsed[k].bytes < new.bytes
    BY <1>1, <2>1, <2>2 DEF InOrder, ProcessedInOrder, ParsedBefore
  <2> HIDE DEF new
  <2>4. ParsedBefore'
    <3> SUFFICES ASSUME NEW k \in DOMAIN parsed'
                 PROVE  /\ recvPc = "put" => parsed'[k].bytes < captured
                        /\ \A i \in DOMAIN queue : parsed'[k].bytes < bytes[queue[i]]
      BY <1>1 DEF ParsedBefore
    <3>1. CASE k = Len(parsed) + 1
      BY <2>3, <3>1 DEF new
    <3>2. CASE k \in 1..Len(parsed)
      BY <2>1, <3>2 DEF InOrder, ParsedBefore
    <3> QED
      BY <2>1, <3>1, <3>2
  <2>5. ParsedInOrder'
    <3> SUFFICES ASSUME NEW k \in DOMAIN parsed'
                 PROVE  /\ parsed'[k].bytes \in 1..captured
                        /\ parsed'[k].of = parsed'[k].bytes
                        /\ parsed'[k].len # 0
                        /\ \A j \in DOMAIN parsed' :
                             k < j => parsed'[k].bytes < parsed'[j].bytes
      BY <1>1 DEF ParsedInOrder
    <3>1. CASE k = Len(parsed) + 1
      BY <2>1, <2>2, <2>3, <3>1 DEF new
    <3>2. CASE k \in 1..Len(parsed)
      BY <2>1, <2>3, <3>2 DEF InOrder, ParsedInOrder, new
    <3> QED
      BY <2>1, <3>1, <3>2
  <2> QED
    BY <1>2, <2>4, <2>5 DEF InOrder
<1> QED
  BY <1>1, <1>3, <1>4

\* Every step keeps frames in order; the steps not above move no frame.
LEMMA StepKeepsOrder == IInv /\ InOrder /\ [Next]_vars => InOrder'
<1> SUFFICES ASSUME IInv, InOrder, [Next]_vars PROVE InOrder'
  OBVIOUS
<1> USE DEF startup, contents
<1>1. CASE Main
  BY <1>1, OthersKeepOrder DEF IInv, StartupOrder, Main, CreatePoolAndQueue, PoolCreate, QueueInit, OpenNetwork,
     EnableQueue, SpawnRecv, SpawnProc
<1>2. CASE GetBuffer \/ GetBufferAfterWait
  BY <1>2, OthersKeepOrder DEF GetBuffer, GetBufferAfterWait, TakeFreeBuffer
<1>3. CASE ReleaseBuffer
  BY <1>3, OthersKeepOrder DEF ReleaseBuffer, SignalPool
<1>4. ASSUME NEW cond \in SpuriousWakeups, SpuriousWakeup(cond) PROVE InOrder'
  BY <1>4, OthersKeepOrder DEF SpuriousWakeup
<1>5. CASE UNCHANGED vars
  BY <1>5, OthersKeepOrder DEF vars
<1> QED
  BY <1>1, <1>2, <1>3, <1>4, <1>5, ReceiveKeepsOrder, DropKeepsOrder, PutKeepsOrder,
     GetKeepsOrder, ParseKeepsOrder DEF Next, Receiver, Processor, Exited

\* Frames on their way never overtake each other.
THEOREM OrderInvariance == Spec => []InOrder
<1>1. IInv /\ InOrder /\ [Next]_vars => InOrder'
  BY StepKeepsOrder
<1> QED
  BY <1>1, InitInOrder, Invariance, PTL DEF Spec

\* The parser sees the target's frames in the order they were captured, each
\* with its own metadata, although their buffers are used again and again.
THEOREM OrderPreserved == Spec => []ParsedInOrder
<1>1. InOrder => ParsedInOrder
  BY DEF InOrder
<1> QED
  BY <1>1, OrderInvariance, PTL
=============================================================================
