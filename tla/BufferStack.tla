---------------------------- MODULE BufferStack -----------------------------
(***************************************************************************)
(* What the packet pool promises: a stack of buffers.  A buffer is handed  *)
(* out when it is on top and nobody has it, and may come back once;        *)
(* between the two it is out.  Module MemPool implements this              *)
(* specification with two linked lists.                                    *)
(***************************************************************************)
EXTENDS Sequences

CONSTANT Initial    \* the buffers of the pool, top first, without repetition

VARIABLES
    stack,          \* the buffers in the pool, top first
    out             \* the buffers handed out and not returned

vars == <<stack, out>>

Init ==
    /\ stack = Initial
    /\ out = {}

Pop ==
    /\ stack # <<>> /\ Head(stack) \notin out
    /\ stack' = Tail(stack)
    /\ out' = out \cup {Head(stack)}

Push(b) ==
    /\ b \in out
    /\ stack' = <<b>> \o stack
    /\ out' = out \ {b}

Next == Pop \/ \E b \in out : Push(b)

Spec == Init /\ [][Next]_vars
=============================================================================
