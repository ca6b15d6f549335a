----------------------------- MODULE PacketPipe -----------------------------
(***************************************************************************)
(* What the capture thread, the buffer pool, the list queue and the        *)
(* processing thread promise together, with all four taken away: frames    *)
(* enter a bounded pipe in the order they are captured, and each one       *)
(* leaves it exactly once, in that order, unchanged.  A frame with a TCP   *)
(* payload is parsed as it leaves; one without is dropped silently.  A     *)
(* frame may be lost on its way in, but only a bounded number of times.    *)
(* Module Pipeline implements this specification.                          *)
(***************************************************************************)
EXTENDS Integers, Sequences

CONSTANTS
    Capacity,   \* how many frames the pipe holds at most, at least 1
    Lens,       \* the payload lengths a frame can have, a set of naturals
    MaxLost     \* how many frames may be lost on their way in, a natural

VARIABLES
    seen,       \* the number of frames that entered the pipe or were lost
    lost,       \* how many of them were lost
    inflight,   \* the frames inside the pipe, oldest first
    parsed      \* the frames the parser was called with, oldest first

vars == <<seen, lost, inflight, parsed>>

\* bytes: the frame whose bytes the buffer holds; of: the frame its metadata
\* (data, len, dir, key) describes; both are the frame's number on the wire.
Frame == [bytes : Nat, of : Nat, len : Lens]

TypeOK ==
    /\ seen \in Nat
    /\ lost \in 0..MaxLost
    /\ inflight \in Seq(Frame)
    /\ parsed \in Seq(Frame)

Init ==
    /\ seen = 0
    /\ lost = 0
    /\ inflight = << >>
    /\ parsed = << >>

\* The next frame on the wire enters, its metadata matching its bytes.
Accept ==
    /\ Len(inflight) < Capacity
    /\ seen' = seen + 1
    /\ \E len \in Lens :
         inflight' = Append(inflight, [bytes |-> seen + 1, of |-> seen + 1, len |-> len])
    /\ UNCHANGED <<lost, parsed>>

Lose ==
    /\ lost < MaxLost
    /\ lost' = lost + 1
    /\ seen' = seen + 1
    /\ UNCHANGED <<inflight, parsed>>

\* The oldest frame leaves; the parser sees it if it carries a payload.
Deliver ==
    /\ inflight # << >>
    /\ inflight' = Tail(inflight)
    /\ parsed' = IF Head(inflight).len = 0 THEN parsed
                                           ELSE Append(parsed, Head(inflight))
    /\ UNCHANGED <<seen, lost>>

Next == Accept \/ Lose \/ Deliver

Spec == Init /\ [][Next]_vars

\* Every frame that entered leaves in the end.
FairSpec == Spec /\ WF_vars(Deliver)
=============================================================================
