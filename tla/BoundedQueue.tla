---------------------------- MODULE BoundedQueue ----------------------------
(***************************************************************************)
(* What the ring queue promises one producer and one consumer: a first-in  *)
(* first-out queue with room for MaxSize packets that can be aborted.      *)
(***************************************************************************)
EXTENDS Integers, Sequences

CONSTANTS Packets, MaxSize

VARIABLES
    items,      \* the packets pushed and not pulled
    out,        \* the packet pulled last
    aborted

vars == <<items, out, aborted>>

Push(p) ==
    /\ Len(items) < MaxSize
    /\ items' = Append(items, p)
    /\ UNCHANGED <<out, aborted>>

Pull ==
    /\ items # <<>>
    /\ out' = Head(items)
    /\ items' = Tail(items)
    /\ UNCHANGED aborted

Abort ==
    /\ aborted' = TRUE
    /\ UNCHANGED <<items, out>>

Next == (\E p \in Packets : Push(p)) \/ Pull \/ Abort

\* Until the queue is aborted, what was pushed is pulled.
PullInTime == ~aborted /\ Pull

\* The queue starts empty; out is whatever it was.
Spec == items = <<>> /\ ~aborted /\ [][Next]_vars

FairSpec == Spec /\ WF_vars(PullInTime)
=============================================================================
