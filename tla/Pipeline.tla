------------------------------ MODULE Pipeline ------------------------------
(***************************************************************************)
(* The threads of tnsparser and what they share (main.c, with the packet   *)
(* pool of mempool.c and the list queue of queue.c).                       *)
(*                                                                         *)
(*   main            creates the pool and the queue, opens the interface,  *)
(*                   lets the queue run, starts the two threads, sleeps    *)
(*   netrecv_thread  takes a buffer from the pool, receives a frame into   *)
(*                   it, puts it on the queue                              *)
(*   process_thread  takes a buffer from the queue, parses it, returns it  *)
(*                   to the pool                                           *)
(*                                                                         *)
(* One action is one critical section of g_poollock or of the queue's      *)
(* mutex, or the code of one thread between two of them.  A thread blocked *)
(* in pthread_cond_wait is at pc "wait"; a signal or a spurious wakeup     *)
(* moves it to the point where it competes for the mutex again.  The two   *)
(* lists of the pool are the sets free and Buffers \ free here: which free *)
(* buffer is handed out makes no difference to anyone.                     *)
(***************************************************************************)
EXTENDS Integers, Sequences, FiniteSets, Functions

CONSTANTS
    Buffers,            \* the MAX_PKTPOOL_SIZE packet buffers of g_pktpool
    PoolHead,           \* the list head mem_pool->free itself, no buffer
    Null,               \* process_thread's pkt before its first packet
    Lens,               \* payload lengths of captured frames
    MaxFrames,          \* bound: frames captured in a behaviour
    MaxFailures,        \* bound: failed mallocs in list_queue_put_private
    SpuriousWakeups     \* the conditions, of {"pool", "queue"}, whose wait
                        \* may return without a signal

ASSUME PipelineAssumption ==
    /\ IsFiniteSet(Buffers) /\ Buffers # {}
    /\ PoolHead \notin Buffers \cup {Null}
    /\ Null \notin Buffers
    /\ Lens \subseteq Nat /\ 0 \in Lens
    /\ MaxFrames \in Nat
    /\ MaxFailures \in Nat
    /\ SpuriousWakeups \subseteq {"pool", "queue"}

VARIABLES
    mainPc,     \* where main is
    recvPc,     \* where netrecv_thread is
    procPc,     \* where process_thread is
    free,       \* the buffers on mem_pool->free
    queue,      \* the buffers on lqr, first to last
    abort,      \* lqr.abort_request
    recvPkt,    \* netrecv_thread's pkt
    procPkt,    \* process_thread's pkt
    bytes,      \* bytes[b]: number of the frame in b->buf, 0 for anything else
    meta,       \* meta[b]: the fields of b that recv_set_pack_info sets
    captured,   \* how many frames of the target were received so far
    lost,       \* buffers whose list_queue_put failed (history)
    parsed      \* the frames mainprocess was called with (history)

startup == <<mainPc, abort>>
contents == <<bytes, meta, captured>>
vars == <<mainPc, recvPc, procPc, free, queue, abort, recvPkt, procPkt,
          bytes, meta, captured, lost, parsed>>

Push == "RESULT_PUSH"
Drop == "RESULT_DROP"

\* of: the frame that data, len, dir and key describe, 0 for none.
Meta == [of : Nat, len : Lens, action : {Push, Drop}]

----------------------------------------------------------------------------
\* Mutants: mem_pool_put and list_queue_put_private without their signal.
NoPoolSignal == UNCHANGED recvPc
NoQueueSignal == UNCHANGED procPc

\* A signal wakes the thread waiting on the condition, if there is one.
SignalPool == recvPc' = IF recvPc = "wait" THEN "woken" ELSE recvPc
SignalQueue == procPc' = IF procPc = "wait" THEN "get" ELSE procPc

\* main, before it goes to sleep for good.

\* Mutant: mem_pool_create's loop runs once too often.
PoolOneTooMany == free' = Buffers \cup {PoolHead}

\* mem_pool_create: every buffer is on the free list.
PoolCreate == free' = Buffers

\* list_queue_init leaves the queue aborted.
QueueInit == queue' = << >> /\ abort' = TRUE

CreatePoolAndQueue ==
    /\ mainPc = "create"
    /\ PoolCreate
    /\ QueueInit
    /\ mainPc' = "open"
    /\ UNCHANGED <<recvPc, procPc, recvPkt, procPkt, contents, lost, parsed>>

\* eth_open exits the process when it gets no socket.
OpenNetwork ==
    /\ mainPc = "open"
    /\ mainPc' \in {"enable", "exited"}
    /\ UNCHANGED <<recvPc, procPc, free, queue, abort, recvPkt, procPkt,
                   contents, lost, parsed>>

\* Mutant: main forgets that list_queue_init leaves the queue aborted.
LeaveQueueAborted ==
    /\ mainPc = "enable"
    /\ mainPc' = "spawnRecv"
    /\ UNCHANGED <<recvPc, procPc, free, queue, abort, recvPkt, procPkt,
                   contents, lost, parsed>>

EnableQueue ==
    /\ mainPc = "enable"
    /\ abort' = FALSE
    /\ mainPc' = "spawnRecv"
    /\ UNCHANGED <<recvPc, procPc, free, queue, recvPkt, procPkt,
                   contents, lost, parsed>>

SpawnRecv ==
    /\ mainPc = "spawnRecv"
    /\ recvPc' = "get"
    /\ mainPc' = "spawnProc"
    /\ UNCHANGED <<procPc, free, queue, abort, recvPkt, procPkt,
                   contents, lost, parsed>>

SpawnProc ==
    /\ mainPc = "spawnProc"
    /\ procPc' = "get"
    /\ mainPc' = "asleep"
    /\ UNCHANGED <<recvPc, free, queue, abort, recvPkt, procPkt,
                   contents, lost, parsed>>

----------------------------------------------------------------------------
\* netrecv_thread.

TakeFreeBuffer ==
    \E b \in free :
        /\ free' = free \ {b}
        /\ recvPkt' = b
        /\ recvPc' = "recv"

\* mem_pool_get: take the first free buffer, or wait for one.
GetBuffer ==
    /\ recvPc = "get"
    /\ \/ TakeFreeBuffer
       \/ /\ free = {}
          /\ recvPc' = "wait"
          /\ UNCHANGED <<free, recvPkt>>
    /\ UNCHANGED <<startup, procPc, queue, procPkt, contents, lost, parsed>>

\* mem_pool_get after its wait: an if, not a while, so free->next is taken
\* whatever the list holds now; on an empty list it is the list head itself.
GetBufferAfterWait ==
    /\ recvPc = "woken"
    /\ IF free # {} THEN TakeFreeBuffer
                    ELSE /\ recvPkt' = PoolHead
                         /\ recvPc' = "corrupted"
                         /\ UNCHANGED free
    /\ UNCHANGED <<startup, procPc, queue, procPkt, contents, lost, parsed>>

\* Mutant: only the length of the frame is noted.
DescribeLengthOnly(b, frame, len) ==
    [of |-> meta[b].of, len |-> len, action |-> Push]

\* recv_set_pack_info for the frame in buffer b.
Describe(b, frame, len) == [of |-> frame, len |-> len, action |-> Push]

\* eth_recv returns 0: a frame to or from the target was received into the
\* buffer and described (module FrameFilter).  Of a frame longer than buf the
\* description replaces the bytes behind buf; bytes stands for those in buf.
ReceiveFrame ==
    /\ recvPc = "recv"
    /\ captured < MaxFrames
    /\ captured' = captured + 1
    /\ bytes' = [bytes EXCEPT ![recvPkt] = captured + 1]
    /\ \E len \in Lens :
         meta' = [meta EXCEPT ![recvPkt] = Describe(recvPkt, captured + 1, len)]
    /\ recvPc' = "put"
    /\ UNCHANGED <<startup, procPc, free, queue, recvPkt, procPkt, lost, parsed>>

\* eth_recv returns 1 for a frame it drops: its bytes are in the buffer, and
\* when they are more than MAX_PACKET_SIZE (TRY_RECV_LEN is larger) also in
\* the fields behind buf.  The thread sleeps and tries again.
DropFrame ==
    /\ recvPc = "recv"
    /\ bytes' = [bytes EXCEPT ![recvPkt] = 0]
    /\ \/ UNCHANGED meta
       \/ \E len \in Lens :
            meta' = [meta EXCEPT ![recvPkt] =
                       [of |-> 0, len |-> len, action |-> meta[recvPkt].action]]
    /\ UNCHANGED <<startup, recvPc, procPc, free, queue, recvPkt, procPkt,
                   captured, lost, parsed>>

\* Mutant: a new packet becomes the first of the queue.
EnqueueFirst ==
    /\ ~abort
    /\ queue' = <<recvPkt>> \o queue
    /\ SignalQueue
    /\ UNCHANGED lost

\* list_queue_put_private returns 0.
Enqueue ==
    /\ ~abort
    /\ queue' = Append(queue, recvPkt)
    /\ SignalQueue
    /\ UNCHANGED lost

\* list_queue_put_private returns -1: aborted, or no memory for the MyList.
\* netrecv_thread does not look at the result, so the buffer is forgotten.
RefuseToEnqueue ==
    /\ abort \/ Cardinality(lost) < MaxFailures
    /\ lost' = lost \cup {recvPkt}
    /\ UNCHANGED <<queue, procPc>>

\* Mutant: netrecv_thread receives into the buffer it has just handed over.
PutAndKeep ==
    /\ recvPc = "put"
    /\ Enqueue \/ RefuseToEnqueue
    /\ recvPc' = "recv"
    /\ UNCHANGED <<startup, free, recvPkt, procPkt, contents, parsed>>

PutPacket ==
    /\ recvPc = "put"
    /\ Enqueue \/ RefuseToEnqueue
    /\ recvPc' = "get"
    /\ UNCHANGED <<startup, free, recvPkt, procPkt, contents, parsed>>

----------------------------------------------------------------------------
\* process_thread.

\* Mutant: list_queue_get leaves the packet on the queue.
PeekPacket ==
    /\ procPc = "get"
    /\ queue # << >>
    /\ procPkt' = Head(queue)
    /\ procPc' = "parse"
    /\ UNCHANGED <<startup, recvPc, free, queue, recvPkt, contents, lost, parsed>>

\* list_queue_get with block = 1; its result is ignored, so after an abort the
\* thread goes on with the pkt it has.
GetPacket ==
    /\ procPc = "get"
    /\ IF abort
       THEN procPc' = "parse" /\ UNCHANGED <<queue, procPkt>>
       ELSE \/ /\ queue # << >>
               /\ queue' = Tail(queue)
               /\ procPkt' = Head(queue)
               /\ procPc' = "parse"
            \/ /\ queue = << >>
               /\ procPc' = "wait"
               /\ UNCHANGED <<queue, procPkt>>
    /\ UNCHANGED <<startup, recvPc, free, recvPkt, contents, lost, parsed>>

\* What mainprocess is called with for buffer b.
FrameIn(b) == [bytes |-> bytes[b], of |-> meta[b].of, len |-> meta[b].len]

\* The body of the loop up to mem_pool_put: the first pkt->len on a null pkt
\* ends the process.
ParsePacket ==
    /\ procPc = "parse"
    /\ IF procPkt = Null
       THEN procPc' = "crashed" /\ UNCHANGED parsed
       ELSE /\ parsed' = IF meta[procPkt].len # 0 /\ meta[procPkt].action # Drop
                         THEN Append(parsed, FrameIn(procPkt))
                         ELSE parsed
            /\ procPc' = "release"
    /\ UNCHANGED <<startup, recvPc, free, queue, recvPkt, procPkt, contents, lost>>

\* Mutant: mem_pool_put puts the buffer on the list it was on.
ReturnToUseList ==
    /\ procPc = "release"
    /\ SignalPool
    /\ procPc' = "get"
    /\ UNCHANGED <<startup, free, queue, recvPkt, procPkt, contents, lost, parsed>>

\* mem_pool_put.  A buffer of the pool always has list links, so the test for
\* a clone fails (module MemPool).
ReleaseBuffer ==
    /\ procPc = "release"
    /\ free' = free \cup {procPkt}
    /\ SignalPool
    /\ procPc' = "get"
    /\ UNCHANGED <<startup, queue, recvPkt, procPkt, contents, lost, parsed>>

----------------------------------------------------------------------------
\* pthread_cond_wait may return although nobody signalled.
SpuriousWakeup(cond) ==
    /\ \/ cond = "pool" /\ recvPc = "wait" /\ recvPc' = "woken" /\ UNCHANGED procPc
       \/ cond = "queue" /\ procPc = "wait" /\ procPc' = "get" /\ UNCHANGED recvPc
    /\ UNCHANGED <<startup, free, queue, recvPkt, procPkt, contents, lost, parsed>>

\* eth_open called exit(0): nothing happens any more.
Exited == mainPc = "exited" /\ UNCHANGED vars

Init ==
    /\ mainPc = "create"
    /\ recvPc = "off"
    /\ procPc = "off"
    /\ free = {}
    /\ queue = << >>
    /\ abort = FALSE
    /\ recvPkt = Null
    /\ procPkt = Null
    /\ bytes = [b \in Buffers |-> 0]
    \* the pool's memory comes from malloc, so its fields hold anything
    /\ meta \in [Buffers -> [of : {0}, len : Lens, action : {Push, Drop}]]
    /\ captured = 0
    /\ lost = {}
    /\ parsed = << >>

Main == CreatePoolAndQueue \/ OpenNetwork \/ EnableQueue \/ SpawnRecv \/ SpawnProc
Receiver == GetBuffer \/ GetBufferAfterWait \/ ReceiveFrame \/ DropFrame \/ PutPacket
Processor == GetPacket \/ ParsePacket \/ ReleaseBuffer

Next ==
    \/ Main
    \/ Receiver
    \/ Processor
    \/ \E cond \in SpuriousWakeups : SpuriousWakeup(cond)
    \/ Exited

Spec == Init /\ [][Next]_vars

(***************************************************************************)
(* The kernel runs every runnable thread in the end and no critical        *)
(* section is long, so each step a thread can take on its own happens.     *)
(* Nothing makes a frame arrive, so receiving is not fair.                 *)
(***************************************************************************)
FairSpec ==
    /\ Spec
    /\ WF_vars(Main)
    /\ WF_vars(GetBuffer) /\ WF_vars(GetBufferAfterWait) /\ WF_vars(PutPacket)
    /\ WF_vars(Processor)

----------------------------------------------------------------------------
\* Who has a buffer: the capture thread from mem_pool_get to list_queue_put,
\* the processing thread from list_queue_get to mem_pool_put.
RecvHolds == IF recvPc \in {"recv", "put"} THEN {recvPkt} ELSE {}
ProcHolds == IF procPc \in {"parse", "release"} THEN {procPkt} ELSE {}

\* What mainprocess can be called with.
Parsed == [bytes : 0..MaxFrames, of : Nat, len : Lens]

TypeOK ==
    /\ mainPc \in {"create", "open", "enable", "spawnRecv", "spawnProc", "asleep", "exited"}
    /\ recvPc \in {"off", "get", "wait", "woken", "recv", "put", "corrupted"}
    /\ procPc \in {"off", "get", "wait", "parse", "release", "crashed"}
    /\ free \subseteq Buffers
    /\ queue \in Seq(Buffers)
    /\ abort \in BOOLEAN
    /\ recvPkt \in Buffers \cup {Null, PoolHead}
    /\ procPkt \in Buffers \cup {Null}
    /\ bytes \in [Buffers -> 0..MaxFrames]
    /\ meta \in [Buffers -> Meta]
    /\ captured \in 0..MaxFrames
    /\ lost \subseteq Buffers
    /\ parsed \in Seq(Parsed)

\* Once the pool exists every buffer is in exactly one place: free, held by
\* the capture thread, queued (once), held by the processing thread, or lost
\* to a failed list_queue_put.  Both threads and both locks take part in it;
\* it fails if a buffer is returned twice, returned before it was parsed,
\* queued while still in use, or dropped on the floor.
OneOwner ==
    mainPc # "create" =>
      /\ IsInjective(queue)
      /\ free \cup RecvHolds \cup Range(queue) \cup ProcHolds \cup lost = Buffers
      /\ free \cap (RecvHolds \cup Range(queue) \cup ProcHolds \cup lost) = {}
      /\ RecvHolds \cap (Range(queue) \cup ProcHolds \cup lost) = {}
      /\ Range(queue) \cap (ProcHolds \cup lost) = {}
      /\ ProcHolds \cap lost = {}

\* mem_pool_get unlinks an element of the free list, never the head of an
\* empty one (list.h says of list_del: "@entry: the element to delete from
\* the list").  The wait in mem_pool_get does not test the list again, so this
\* rests on who else takes buffers and on why the wait returned.
ListDelGetsAnElement == recvPkt # PoolHead

\* A thread waits only for something that is not there: no signal was lost
\* between its test and its wait, and no other step invalidated its reason.
NoLostWakeup ==
    /\ recvPc = "wait" => free = {}
    /\ procPc = "wait" => queue = << >>

\* The two threads never wait for each other, unless failed mallocs have
\* used up the pool.
NoMutualWait == recvPc = "wait" /\ procPc = "wait" => lost = Buffers

\* process_thread ignores the result of list_queue_get, so it relies on main
\* clearing abort_request before it starts: it never reads a null pkt.
NoNullPacket == procPc = "parse" => procPkt # Null

\* The parser sees frames of the target only, each with its own metadata, in
\* the order they were captured and never one without payload, however often
\* their buffers are reused.
ParsedInOrder ==
    \A i \in DOMAIN parsed :
        /\ parsed[i].bytes \in 1..captured
        /\ parsed[i].of = parsed[i].bytes
        /\ parsed[i].len # 0
        /\ \A j \in DOMAIN parsed : i < j => parsed[i].bytes < parsed[j].bytes

\* From list_queue_put to mem_pool_put nobody writes to a buffer: a packet is
\* parsed as it was queued.
HandedOverIsFrozen ==
    [][\A b \in Range(queue) \cup ProcHolds :
          bytes'[b] = bytes[b] /\ meta'[b] = meta[b]]_vars

\* A capture thread that waits for a buffer gets one.
CaptureResumes == recvPc = "wait" ~> recvPc = "recv"

\* A queued buffer comes back to the pool.
BuffersComeBack == \A b \in Buffers : b \in Range(queue) ~> b \in free

\* The buffers between list_queue_put and the parser, oldest first.
Handed == (IF procPc = "parse" THEN <<procPkt>> ELSE << >>) \o queue

InFlight == [i \in 1..Len(Handed) |-> FrameIn(Handed[i])]

\* A frame counts as seen when list_queue_put has taken or refused it.
Seen == IF recvPc = "put" THEN captured - 1 ELSE captured

\* The pipeline implements the bounded pipe.
Pipe == INSTANCE PacketPipe WITH
          Capacity <- Cardinality(Buffers),
          MaxLost  <- MaxFailures,
          seen     <- Seen,
          lost     <- Cardinality(lost),
          inflight <- InFlight

\* Frames leave the pipeline as they entered it: once, in order, unchanged,
\* and in the end (queue.c and mempool.c under main.c's two threads).
ImplementsPipe == Pipe!FairSpec
=============================================================================
