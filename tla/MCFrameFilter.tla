--------------------------- MODULE MCFrameFilter ----------------------------
(* Model-checking instances of FrameFilter. *)
EXTENDS FrameFilter

\* The target, its other port, its port on another host, a client.
Endpoints == [ip : {1, 2}, port : {1521, 40000}]

\* Headers with and without options; no payload, one that fills the frame, one
\* that fills it beyond buf; padded to the shortest Ethernet frame or not.
FramesOf(src, dst) ==
    {[ether |-> "ip", version |-> 4, protocol |-> "tcp", src |-> src, dst |-> dst,
      ihl |-> ihl, doff |-> doff, totLen |-> 4 * (ihl + doff) + payload,
      bytes |-> 14 + 4 * (ihl + doff) + payload + padding] :
        ihl \in {5, 6, 15}, doff \in {5, 8, 15}, payload \in {0, 1, 1366, 1378},
        padding \in {0, 6}}

\* What the filter drops, up to the longest, and lengths that do not agree with
\* the headers.
OddFrames(f) ==
    {[f EXCEPT !.ether = "other"], [f EXCEPT !.version = 6],
     [f EXCEPT !.protocol = "other"], [f EXCEPT !.totLen = 0],
     [f EXCEPT !.totLen = 39], [f EXCEPT !.totLen = 65535]}
      \cup {[f EXCEPT !.ether = "other", !.bytes = n] : n \in {1504, 1512, 1516, 1518}}

MCFrames ==
    LET plain(src, dst) == CHOOSE f \in FramesOf(src, dst) : f.bytes = 54
        client == [ip |-> 2, port |-> 40000]
        target == [ip |-> 1, port |-> 1521]
    IN  FramesOf(client, target) \cup FramesOf(target, client)
          \cup {plain(src, dst) : src \in Endpoints, dst \in Endpoints}
          \cup OddFrames(plain(client, target)) \cup OddFrames(plain(target, client))
=============================================================================
