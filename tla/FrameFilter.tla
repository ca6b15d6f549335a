---------------------------- MODULE FrameFilter ----------------------------
(***************************************************************************)
(* The capture side of network.c: eth_recv receives an Ethernet frame into *)
(* a packet, drops it unless it is TCP over IPv4 to or from the target,    *)
(* and describes it otherwise.  A frame is what its headers say and how    *)
(* many bytes of it there are.  The packet keeps its description from one  *)
(* call to the next, as the reused buffers of the pool do.                 *)
(***************************************************************************)
EXTENDS Integers

CONSTANTS
    Frames,         \* the frames on the interface
    TargetIp,       \* g_target_ip
    TargetPort,     \* g_target_port
    NoEndpoint      \* the endpoints of a packet before its first frame

ETH_HEAD_LEN == 14
TRY_RECV_LEN == 1518

\* Where the fields behind buf, of MAX_PACKET_SIZE = 1500 bytes, are in a struct
\* Packet with pointers of eight bytes.
DATA_AT == 1504
LEN_AT == 1512
DIR_AT == 1516

\* unsigned short
U16 == {n \in Nat : n < 65536}

Endpoint == [ip : Nat, port : U16]

\* ihl and doff count words of four bytes and have four bits.
Frame == [ether : {"ip", "other"}, version : 0..15, protocol : {"tcp", "other"},
          src : Endpoint, dst : Endpoint, ihl : 0..15, doff : 0..15, totLen : U16,
          bytes : 0..TRY_RECV_LEN]

ASSUME FilterAssumption == Frames \subseteq Frame

VARIABLES
    pkt,        \* the fields of struct Packet behind buf
    frame,      \* the last frame that filled buf (history)
    ret         \* what eth_recv returned

vars == <<pkt, frame, ret>>

----------------------------------------------------------------------------
\* Mutant: an IP header is taken to have no options.
HeadersWithoutOptions(f) == 20 + 4 * f.doff

\* Bytes of the IP and the TCP header.
Headers(f) == 4 * f.ihl + 4 * f.doff

\* Mutant: the target is known by its address alone.
IsTargetHost(endpoint) == endpoint.ip = TargetIp

IsTarget(endpoint) == endpoint.ip = TargetIp /\ endpoint.port = TargetPort

\* proc_incoming_pack and ip_recv return RESULT_PUSH.
Pushed(f) ==
    /\ f.ether = "ip" /\ f.version = 4 /\ f.protocol = "tcp"
    /\ IsTarget(f.src) \/ IsTarget(f.dst)

\* Mutant: ip_recv computes the length in an int.
DescribeSigned(f) ==
    [data |-> ETH_HEAD_LEN + Headers(f),
     len  |-> f.totLen - Headers(f),
     key  |-> <<f.src, f.dst>>,
     dir  |-> IF IsTarget(f.src) THEN "RESPONSE" ELSE "REQUEST"]

\* recv_set_pack_info, with the length from ip_recv's unsigned short.
Describe(f) ==
    [data |-> ETH_HEAD_LEN + Headers(f),
     len  |-> (f.totLen - Headers(f)) % 65536,
     key  |-> <<f.src, f.dst>>,
     dir  |-> IF IsTarget(f.src) THEN "RESPONSE" ELSE "REQUEST"]

\* A frame longer than buf goes on into the fields behind it, of which -1 and
\* "frame" stand for the bytes of a frame.
Received(f) ==
    [data |-> IF f.bytes > DATA_AT THEN -1 ELSE pkt.data,
     len  |-> IF f.bytes > LEN_AT THEN -1 ELSE pkt.len,
     key  |-> pkt.key,
     dir  |-> IF f.bytes > DIR_AT THEN "frame" ELSE pkt.dir]

\* recvfrom fails.
RecvFails == ret' = 1 /\ UNCHANGED <<pkt, frame>>

RecvFrame(f) ==
    /\ frame' = f
    /\ \/ Pushed(f) /\ pkt' = Describe(f) /\ ret' = 0
       \/ ~Pushed(f) /\ pkt' = Received(f) /\ ret' = 1

Init ==
    /\ pkt = [data |-> 0, len |-> 0, key |-> <<NoEndpoint, NoEndpoint>>, dir |-> "REQUEST"]
    /\ frame \in Frames
    /\ ret = 1

Next == RecvFails \/ \E f \in Frames : RecvFrame(f)

Spec == Init /\ [][Next]_vars

----------------------------------------------------------------------------
\* A frame whose headers are whole and whose lengths agree.
WellFormed(f) ==
    /\ f.ihl >= 5 /\ f.doff >= 5
    /\ Headers(f) <= f.totLen
    /\ ETH_HEAD_LEN + f.totLen <= f.bytes

TypeOK ==
    /\ frame \in Frames
    /\ pkt.data \in -1..ETH_HEAD_LEN + 120
    /\ pkt.len \in U16 \cup {-1}
    /\ pkt.dir \in {"REQUEST", "RESPONSE", "frame"}
    /\ ret \in {0, 1}

\* What eth_recv hands over of a well-formed frame is its TCP payload: it
\* begins behind both headers, options included, ends with the IP packet,
\* whatever the Ethernet padding, and lies within the bytes received
\* (ip_recv, recv_set_pack_info).
PayloadExact ==
    ret = 0 /\ WellFormed(frame) =>
        /\ pkt.data = 14 + 4 * frame.ihl + 4 * frame.doff
        /\ pkt.data + pkt.len = 14 + frame.totLen
        /\ pkt.data + pkt.len <= frame.bytes

\* The direction and the key of a packet agree: when sess_must_find_node has
\* swapped a response's endpoints the target is always the second one, its
\* port included; traffic of the target's to itself counts as responses.
TargetIsSecond ==
    LET target == [ip |-> TargetIp, port |-> TargetPort]
    IN  ret = 0 => target = pkt.key[IF pkt.dir = "REQUEST" THEN 2 ELSE 1]
=============================================================================
