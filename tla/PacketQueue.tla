---------------------------- MODULE PacketQueue -----------------------------
(***************************************************************************)
(* What the list queue promises its callers: a first-in first-out queue of *)
(* packets whose getters may wait, and that can be emptied and aborted.    *)
(***************************************************************************)
EXTENDS Integers, Sequences

CONSTANTS Packets, Consumers, Null

VARIABLES
    items,      \* the packets in the queue
    aborted,
    calling,    \* the consumers that wait for a packet
    answer      \* what the last call of put or get returned

vars == <<items, aborted, calling, answer>>

Answer(call, ret, pkt) == [call |-> call, ret |-> ret, pkt |-> pkt]

Put(p) ==
    /\ ~aborted
    /\ items' = Append(items, p)
    /\ answer' = Answer("put", 0, p)
    /\ UNCHANGED <<aborted, calling>>

\* The queue is aborted, or there is no memory.
Refuse ==
    /\ answer' = Answer("put", -1, Null)
    /\ UNCHANGED <<items, aborted, calling>>

Take(c) ==
    /\ ~aborted /\ items # <<>>
    /\ items' = Tail(items)
    /\ calling' = calling \ {c}
    /\ answer' = Answer("get", 1, Head(items))
    /\ UNCHANGED aborted

FindNothing(c) ==
    /\ ~aborted /\ items = <<>> /\ c \notin calling
    /\ answer' = Answer("get", 0, Null)
    /\ UNCHANGED <<items, aborted, calling>>

Block(c) ==
    /\ ~aborted /\ items = <<>>
    /\ calling' = calling \cup {c}
    /\ UNCHANGED <<items, aborted, answer>>

GiveUp(c) ==
    /\ aborted
    /\ calling' = calling \ {c}
    /\ answer' = Answer("get", -1, Null)
    /\ UNCHANGED <<items, aborted>>

Flush ==
    /\ items' = <<>>
    /\ UNCHANGED <<aborted, calling, answer>>

Abort ==
    /\ aborted' = TRUE
    /\ UNCHANGED <<items, calling, answer>>

Init ==
    /\ items = <<>>
    /\ aborted = FALSE
    /\ calling = {}
    /\ answer = Answer("none", 0, Null)

Next ==
    \/ \E p \in Packets : Put(p)
    \/ Refuse
    \/ \E c \in Consumers : Take(c) \/ FindNothing(c) \/ Block(c) \/ GiveUp(c)
    \/ Flush
    \/ Abort

Spec == Init /\ [][Next]_vars

\* While there are packets, those who wait for one get them.
Served == \E c \in calling : Take(c)

FairSpec == Spec /\ WF_vars(Served)
=============================================================================
