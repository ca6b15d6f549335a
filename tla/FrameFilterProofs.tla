------------------------- MODULE FrameFilterProofs --------------------------
(***************************************************************************)
(* Theorems about FrameFilter, for every set of frames.                    *)
(***************************************************************************)
EXTENDS FrameFilter, TLAPS

\* An unsigned short is a natural number below 2^16.
LEMMA U16Bounds == \A n \in U16 : n \in Nat /\ n < 65536
  BY DEF U16

LEMMA U16Has == \A n \in Int : 0 <= n /\ n < 65536 => n \in U16
  BY DEF U16

\* The length field of an accepted frame, where no wrap occurs: the unsigned
\* short of ip_recv holds the payload's length.
LEMMA LengthFits ==
    ASSUME NEW f \in Frame, WellFormed(f)
    PROVE  /\ (f.totLen - Headers(f)) % 65536 = f.totLen - Headers(f)
           /\ Headers(f) \in Nat
<1>1. /\ f.ihl \in 0..15 /\ f.doff \in 0..15 /\ f.totLen \in U16
      /\ Headers(f) <= f.totLen
  BY DEF Frame, WellFormed
<1>2. Headers(f) \in Nat
  BY <1>1 DEF Headers
<1>3. f.totLen \in Nat /\ f.totLen < 65536
  BY <1>1, U16Bounds
<1>4. f.totLen - Headers(f) \in Nat /\ f.totLen - Headers(f) < 65536
  BY <1>1, <1>2, <1>3
<1>5. \A n \in Nat : n < 65536 => n % 65536 = n
  OBVIOUS
<1> QED
  BY <1>2, <1>4, <1>5

\* What a step leaves behind when eth_recv returns 0.
PushedLast ==
    /\ frame \in Frames
    /\ ret = 0 => Pushed(frame) /\ pkt = Describe(frame)

\* The description in the packet is that of the last frame handed over.
LEMMA DescribedLast == Spec => []PushedLast
<1>1. Init => PushedLast
  BY DEF Init, PushedLast
<1>2. PushedLast /\ [Next]_vars => PushedLast'
  BY DEF PushedLast, Next, RecvFails, RecvFrame, Pushed, IsTarget, Describe, Headers, vars
<1> QED
  BY <1>1, <1>2, PTL DEF Spec

\* Of every well-formed frame exactly the TCP payload is handed over.
THEOREM PayloadIsExact == Spec => []PayloadExact
<1>1. PushedLast => PayloadExact
  <2> SUFFICES ASSUME PushedLast, ret = 0, WellFormed(frame)
               PROVE  /\ pkt.data = 14 + 4 * frame.ihl + 4 * frame.doff
                      /\ pkt.data + pkt.len = 14 + frame.totLen
                      /\ pkt.data + pkt.len <= frame.bytes
    BY DEF PayloadExact
  <2>1. frame \in Frame
    BY FilterAssumption DEF PushedLast
  <2>2. /\ frame.ihl \in 0..15 /\ frame.doff \in 0..15 /\ frame.totLen \in U16
        /\ frame.bytes \in 0..TRY_RECV_LEN
    BY <2>1 DEF Frame
  <2>3. /\ pkt.data = 14 + Headers(frame)
        /\ pkt.len = frame.totLen - Headers(frame)
        /\ Headers(frame) \in Nat
    BY <2>1, LengthFits DEF PushedLast, Describe, ETH_HEAD_LEN
  <2>4. Headers(frame) = 4 * frame.ihl + 4 * frame.doff
    BY DEF Headers
  <2>5. 14 + frame.totLen <= frame.bytes
    BY DEF WellFormed, ETH_HEAD_LEN
  <2> QED
    BY <2>2, <2>3, <2>4, <2>5, U16Bounds DEF TRY_RECV_LEN
<1> QED
  BY <1>1, DescribedLast, PTL

\* The target is the second endpoint of every key that sess_must_find_node
\* looks up.
THEOREM TargetComesSecond == Spec => []TargetIsSecond
<1>1. PushedLast => TargetIsSecond
  <2> SUFFICES ASSUME PushedLast, ret = 0
               PROVE  [ip |-> TargetIp, port |-> TargetPort]
                        = pkt.key[IF pkt.dir = "REQUEST" THEN 2 ELSE 1]
    BY DEF TargetIsSecond
  <2>1. frame.src \in Endpoint /\ frame.dst \in Endpoint
    BY FilterAssumption DEF PushedLast, Frame
  <2>2. pkt.key = <<frame.src, frame.dst>>
    BY DEF PushedLast, Describe
  <2>3. CASE IsTarget(frame.src)
    <3>1. pkt.dir = "RESPONSE"
      BY <2>3 DEF PushedLast, Describe
    <3> QED
      BY <2>1, <2>2, <2>3, <3>1 DEF IsTarget, Endpoint
  <2>4. CASE ~IsTarget(frame.src)
    <3>1. pkt.dir = "REQUEST" /\ IsTarget(frame.dst)
      BY <2>4 DEF PushedLast, Describe, Pushed
    <3> QED
      BY <2>1, <2>2, <3>1 DEF IsTarget, Endpoint
  <2> QED
    BY <2>3, <2>4
<1> QED
  BY <1>1, DescribedLast, PTL

----------------------------------------------------------------------------
\* What TypeOK says of the packet, and that it is a record.
PacketOK(q) ==
    /\ q = [data |-> q.data, len |-> q.len, key |-> q.key, dir |-> q.dir]
    /\ q.data \in -1..ETH_HEAD_LEN + 120 /\ q.len \in U16 \cup {-1}
    /\ q.dir \in {"REQUEST", "RESPONSE", "frame"}

FInv == frame \in Frames /\ ret \in {0, 1} /\ PacketOK(pkt)

\* A description has these types.
LEMMA DescriptionType == ASSUME NEW f \in Frame PROVE PacketOK(Describe(f))
<1>1. f.ihl \in 0..15 /\ f.doff \in 0..15 /\ f.totLen \in U16
  BY DEF Frame
<1>2. Headers(f) \in 0..120
  BY <1>1 DEF Headers
<1>3. f.totLen - Headers(f) \in Int
  BY <1>1, <1>2, U16Bounds
<1> DEFINE h == Headers(f)
           x == f.totLen - h
           r == IF IsTarget(f.src) THEN "RESPONSE" ELSE "REQUEST"
           k == <<f.src, f.dst>>
<1>4. Describe(f) = [data |-> ETH_HEAD_LEN + h, len |-> x % 65536, key |-> k, dir |-> r]
  BY DEF Describe
<1>5. h \in 0..120 /\ x \in Int /\ r \in {"REQUEST", "RESPONSE"}
  BY <1>2, <1>3
<1> HIDE DEF h, x, r, k
<1>6. x % 65536 \in Int /\ 0 <= x % 65536 /\ x % 65536 < 65536
  BY <1>5
<1>7. ETH_HEAD_LEN + h \in -1..ETH_HEAD_LEN + 120 /\ x % 65536 \in U16
  BY <1>5, <1>6, U16Has DEF ETH_HEAD_LEN
<1> DEFINE d == ETH_HEAD_LEN + h
           l == x % 65536
<1> HIDE DEF d, l
<1>8. Describe(f) = [data |-> d, len |-> l, key |-> k, dir |-> r]
  BY <1>4 DEF d, l
<1>9. d \in -1..ETH_HEAD_LEN + 120 /\ l \in U16 \cup {-1}
  BY <1>7 DEF d, l
<1> QED
  BY <1>5, <1>8, <1>9 DEF PacketOK

\* So has what a frame leaves that is dropped.
LEMMA ReceivedType == ASSUME NEW f, PacketOK(pkt) PROVE PacketOK(Received(f))
<1> DEFINE d == IF f.bytes > DATA_AT THEN -1 ELSE pkt.data
           l == IF f.bytes > LEN_AT THEN -1 ELSE pkt.len
           r == IF f.bytes > DIR_AT THEN "frame" ELSE pkt.dir
<1>1. Received(f) = [data |-> d, len |-> l, key |-> pkt.key, dir |-> r]
  BY DEF Received
<1>2. /\ d \in -1..ETH_HEAD_LEN + 120 /\ l \in U16 \cup {-1}
      /\ r \in {"REQUEST", "RESPONSE", "frame"}
  <2>1. -1 \in -1..ETH_HEAD_LEN + 120
    BY DEF ETH_HEAD_LEN
  <2> QED
    BY <2>1 DEF PacketOK
<1> HIDE DEF d, l, r
<1> QED
  BY <1>1, <1>2 DEF PacketOK

\* Every variable keeps its type; what recvfrom and recv_set_pack_info leave in
\* the packet's fields fits them.
THEOREM FilterTypeCorrect == Spec => []TypeOK
<1>1. Init => FInv
  <2> SUFFICES ASSUME Init PROVE FInv
    OBVIOUS
  <2>1. 0 \in -1..ETH_HEAD_LEN + 120 /\ 0 \in U16
    BY U16Has DEF ETH_HEAD_LEN
  <2> QED
    BY <2>1 DEF Init, FInv, PacketOK
<1>2. FInv /\ [Next]_vars => FInv'
  <2> SUFFICES ASSUME FInv, [Next]_vars PROVE FInv'
    OBVIOUS
  <2>1. CASE RecvFails \/ UNCHANGED vars
    BY <2>1 DEF RecvFails, vars, FInv
  <2>2. ASSUME NEW f \in Frames, RecvFrame(f) PROVE FInv'
    <3>1. f \in Frame /\ frame' = f /\ ret' \in {0, 1}
      BY <2>2, FilterAssumption DEF RecvFrame
    <3>2. pkt' = Describe(f) \/ pkt' = Received(f)
      BY <2>2 DEF RecvFrame
    <3>3. PacketOK(Describe(f)) /\ PacketOK(Received(f))
      BY <3>1, DescriptionType, ReceivedType DEF FInv
    <3>4. PacketOK(pkt')
      BY <3>2, <3>3
    <3> QED
      BY <3>1, <3>4 DEF FInv
  <2> QED
    BY <2>1, <2>2 DEF Next
<1>3. FInv => TypeOK
  BY DEF FInv, PacketOK, TypeOK
<1> QED
  BY <1>1, <1>2, <1>3, PTL DEF Spec
=============================================================================
