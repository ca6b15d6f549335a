# TNSParser in TLA+

TNSParser listens on a network interface, picks out the TCP packets of one
Oracle server, and prints connection parameters, login results and SQL that it
finds in the TNS messages. It is a small multi-threaded C program (`src/src/`);
this directory specifies it, model-checks it with TLC and proves part of it with
TLAPS. Source references are to files in `src/src/`.

## 1. Inventory

| Component | Source | State | Operations |
|---|---|---|---|
| Threads and start-up | `main.c`, `common.h` | `network`, `g_pktpool`, `lqr`, each thread's `pkt` | `main`, `netrecv_thread`, `process_thread` |
| Packet pool | `mempool.c` | two linked lists of 32 buffers, `g_poollock`, `g_poolcond` | `mem_pool_create/get/put/clone/destroy` |
| Linked lists | `list.h` | `next`/`prev` of every node | `INIT_LIST_HEAD`, `list_add`, `list_del`, `list_empty` |
| List queue | `queue.c` 1-113 | `first_node`, `last_node`, `abort_request`, mutex, condition | `init/put/get/flush/abort/destroy` |
| Ring queue | `queue.c` 115-204 | ring of pointers, two indexes, lock | `ring_queue_*`, called by nobody |
| Frame capture and filter | `network.c` | `g_target_ip/port`, the packet being filled | `eth_open`, `eth_recv` |
| Socket input | `socket.c` | a file descriptor | system calls |
| Session table | `session.c` | `g_sess_arry[32]` | `sess_init`, `sess_must_find_node` |
| TNS parser | `process.c`, `oracle_tns.c` | the session of the packet, heap | `mainprocess`, `TNS_protocol_parse`, one handler per message type, one per data id and version |
| Connect-data conversion | `oracle_tns.c` 41-105 | a text buffer | `parse_connect_data_to_json` |
| Visible-run scan | `oracle_tns.c` 107-141 | none | `parse_continuous_visible_characters` |
| cJSON | `cJSON.c` | a heap of tree nodes | vendored library |
| Utilities | `util.c` | none | hex dumps, type names |

How they interact:

    interface --> eth_recv --> netrecv_thread --list_queue_put--> lqr
                                   ^                                |
                            mem_pool_get                     list_queue_get
                                   |                                v
                              g_pktpool <--mem_pool_put-- process_thread
                                                                    |
                                     mainprocess --> sess_must_find_node
                                          |
                                 TNS_protocol_parse --> handlers --> stdout

The two threads share the pool (`g_poollock`, `g_poolcond`), the queue (its own
mutex and condition) and the contents of the buffers, which no lock protects:
what keeps them apart is that a buffer has one owner at a time. The session
table and the parser belong to `process_thread` alone.

What is hard here, and what makes each part correct:

* **Buffers go round two threads and two locks.** Each must be in exactly one
  place, must not be written between the hand-over and the parse, and must come
  back. Threads must not wait beside what they wait for, nor for each other.
* **Waits may return unsignalled**; `mem_pool_get` uses `if`, `list_queue_get`
  a loop.
* **Results are ignored**: `list_queue_put`'s (a failed `malloc` loses the
  buffer), `list_queue_get`'s (an aborted queue would yield a null packet).
* **Buffers are reused**: the description of a packet must be the one of its
  bytes, never of an earlier frame.
* **`mem_pool_put` reads links without the lock** to recognise a clone, while
  the other thread may be linking a neighbour.
* **The list queue signals one thread per packet and per abort**, although
  another may come first, and frees its nodes while `first`, `last` and `num`
  still speak of them.
* **The ring queue's indexes move outside its lock**, its packets are filled and
  used there, and `abort_request` is read again after the unlock.
* **Header arithmetic in 16 bits**: the payload is where the headers say, also
  when a frame runs over the fields behind the buffer.
* **Packets of many connections, both ways, share a table** that, because of a
  stray semicolon (`session.c:53`), only ever uses entry 0. A packet must be
  parsed with the session of its own connection, nothing may be attributed to
  the wrong side, and a conversation that was heard must be decoded under its own
  version, also when packets are lost or captured twice.
* **Handlers give up half-way** and must not follow null pointers.
* **Text is converted character by character without a stack, and the bound that
  is tested never moves**: the JSON must nest, and fits only as far as the caller's
  size does; the scan of a message reads eight bytes past it.

`PROJECT.json` lists these hazards with their lines and the properties for each.

## 2. Modules

| Module | What it is |
|---|---|
| `Pipeline` | main, the two threads, the pool as a set of free buffers, the queue as a sequence |
| `PacketPipe` | abstract: a bounded FIFO of frames, with bounded loss at its entry |
| `MemPool` | the pool down to single stores to list links |
| `BufferStack` | abstract: a stack of buffers that may be out |
| `ListQueue` | the list queue with its nodes on the heap, several consumers, flush and abort |
| `PacketQueue` | abstract: a FIFO queue with abort whose waiting getters are served |
| `RingQueue` | the ring queue with its unlocked accesses |
| `BoundedQueue` | abstract: a bounded FIFO queue |
| `FrameFilter` | `eth_recv`: filter, header arithmetic, description of the packet |
| `SessionTable` | `g_sess_arry` and `sess_must_find_node` |
| `TnsSession` | extends `SessionTable`: `mainprocess`, the handlers, the conversations |
| `ConnectionSessions` | abstract: a session of its own for each connection, which a new connection may cost it |
| `ConnectDescriptor` | what a descriptor is: a tree of named values and lists, in its notation and in JSON |
| `HandlerText` | extends `ConnectDescriptor`: the two conversions of text, a loop turn at a time |
| `PipelineProofs`, `PipelineRefinement`, `MemPoolProofs`, `ListQueueProofs`, `RingQueueProofs`, `FrameFilterProofs`, `TnsProofs`, `HandlerTextProofs` | theorems |
| `MCPipeline`, `MCMemPool`, `MCListQueue`, `MCRingQueue`, `MCFrameFilter`, `MCTnsSession`, `MCHandlerText` | instances for TLC |

How they fit together: `Pipeline` uses the pool and the queue as the abstract
`BufferStack` and `PacketQueue` promise them (which free buffer is taken makes no
difference to the threads), and `MemPool` and `ListQueue` show that the code keeps
the promises. What `Pipeline` hands to `mainprocess` is one frame after the
other in wire order, some of them lost (`PacketPipe`); that is the environment
of `TnsSession`, whose `Unseen` is a packet that `PacketPipe` lost. No module runs
the two at once: the parser runs in one thread only and touches nothing of the
pipeline but the buffer in hand, which `HandedOverIsFrozen` keeps still.

### Pipeline

One action is one critical section, or what a thread does between two.
`recvPc` and `procPc` are where the threads are; "wait" is inside
`pthread_cond_wait`, "woken" is behind the pool's wait (where the code does not
test again), while a queue wakeup goes back to "get" (where it does).
`CreatePoolAndQueue`, `OpenNetwork`, `EnableQueue`, `SpawnRecv`, `SpawnProc` are
`main`; `GetBuffer`, `GetBufferAfterWait`, `ReceiveFrame`, `DropFrame`,
`PutPacket` are `netrecv_thread`; `GetPacket`, `ParsePacket`, `ReleaseBuffer` are
`process_thread`. A frame is its number on the wire: `bytes[b]` is the number
of the frame whose bytes are in the buffer and `meta[b].of` the number of the
frame that `data`, `len`, `dir` and `key` describe. They are set apart so that
they can disagree. `malloc` leaves `meta` arbitrary. Nothing after `main`'s
endless loop runs, so there is no teardown.

`ImplementsPipe` maps the pipeline to `PacketPipe`: a frame enters (or is lost)
at `list_queue_put`, is in the pipe while on the queue or in `process_thread`'s
hands before the parse, and leaves at the call of `mainprocess`.

### MemPool

`link` is the memory: a value for the `next` and the `prev` of every node. A list
operation is the set of its stores, carried out one at a time in any order by
the thread holding the lock (`StoreLink`), so that the unlocked reads `TestPrev`
and `TestNext` see every mixture. `mem_pool_create` is a step per turn of its loop
(`AddBuffer`); nobody else is there yet. `mem_pool_clone` is included as an
operation of the pool although the program does not call it: it is the reason
for the unlocked test. Clones are made and returned by the processing thread. A
wait returns only when signalled here; what happens otherwise is a question for
`Pipeline`. `free` and `used` are history variables: what the two lists should
hold after each `list_add` and `list_del`. `ListsIntact` compares the links with
them, and `ImplementsStack` compares them with `BufferStack`.

### ListQueue

A step is one critical section; `list_queue_flush` (which `list_queue_destroy`
calls) takes a step per node with the mutex held. Several threads may call
`list_queue_get`, with or without `block`, because the interface lets them;
`pc` says who is in a wait and who was woken. `pthread_cond_wait` may return
without a signal. `malloc` fails when no node is left, and at any other
time. A freed node loses its contents, so that a pointer followed afterwards
shows. `chain` is a history variable, the nodes that should be linked; `answer` is
what the last call returned. The queue starts as `main` leaves it, with
`abort_request` cleared; `Pipeline` has the time before.

### RingQueue

Nobody calls these functions, so the model follows the interface's names: a
producer that peeks, fills and pushes, a consumer that peeks, uses and pulls.
What the code does outside the mutex is a step of its own: the test of
`abort_request` behind the wait, the move of the index, the filling and the
use of a packet. `ring_queue_init` bounds `max_size` from above only; the model
asks for at least 1 (with 0 both sides wait for ever). One producer and one
consumer: two producers would both fill the place at `windex`, which the
functions do nothing against. Both sides wait on one condition and every signal wakes
one; it never wakes the wrong one because the two never wait at once
(part of `NobodyOversleeps`).

### FrameFilter

A frame is its header fields and the number of bytes received. Lengths are
computed as in the code, the result in an `unsigned short` (`% 65536`).
`TRY_RECV_LEN` (1518) exceeds `MAX_PACKET_SIZE` (1500), so a longer frame goes
on into the fields behind `buf`: padding, `data` at 1504, `len` at 1512 and the low
bytes of `dir` at 1516, in a struct with pointers of eight bytes. `Received`
overwrites those the frame reaches. A frame that is then dropped leaves them so;
for an accepted one the description overwrites them, and with them the end of a long
frame's bytes: the payload's last bytes are not what was received. `PayloadExact`
claims the place of the payload only; no document says what the program wants of
such frames. Frames too short for their headers, which would be judged by bytes of
the frame before, are left out: Ethernet pads frames to 60 bytes, beyond the
headers without options.

### SessionTable and TnsSession

`MustFind` is `sess_must_find_node` as it runs: the block behind
`if (tmp->state == STAT_CLOSE);` does not depend on the test and leaves the loop
in its first iteration. Hence entry 0 is claimed, and the code that compares
ages and resets the oldest entry is unreachable; `update_time` is therefore
left out. A claimed entry keeps the version it had.

A step of `TnsSession` is one call of `mainprocess` for a packet: the session is
found, `cur_dir` noted, the packet parsed. A packet is reduced to what handlers
test (type, whether the TNS length is the TCP payload's, a length around the
two bounds, version, kind of connect descriptor, data id and sub-id). `last`
says what came of the last one: which version it was looked up under and what
was printed for whom. The text and the tree that `tns_connect_handle` leaves on the
heap are left out, as nothing reads them again.

`ConnectionSessions` says what a table of sessions is for: a packet is parsed with
the session of its own connection as that connection's last packet left it, and
touches no other session, except that a session made for a new connection may cost
one other connection its own. `ImplementsSessions` maps a connection's session to the
entries with its key, so two entries for one connection, a lookup that finds
another's entry or an entry changed by another's packet violate it. Which
connection has to give way is not promised there: that is `EmptySlotFirst`, which the code
does not keep (section 5). With the semicolon gone the table would keep both.

`wire` is the environment, any number of conversations at once. For each it says
how far the two ends are, the version its CONNECT offered, the one they agreed on,
`heard`: the parser got the ACCEPT and no other connection's packet since, and
`again`: its own CONNECT was parsed once more after that. CONNECT, RESEND, ACCEPT
and REFUSE may get lost on their way to the parser (`Unseen`, `Close`), ACCEPT,
CONNECT and DATA may come again, the CONNECT also after the ACCEPT, DATA may come in
pieces (`whole = FALSE`). Assumed: CONNECT, RESEND, ACCEPT and REFUSE fit one TCP
segment each, packets of one conversation are otherwise not reordered, and the end
of a conversation carries no TNS packet.

`DecodedAsNegotiated` and `OpenIsTracked` are claimed while `heard`: with one usable
entry, another connection's packet takes it away. They name the versions
and the states the entry may have (`KnownVersions`, `KnownStates`): what the ACCEPT
settled, and after a CONNECT that came again also what that offered, because
`tns_connect_handle` overwrites both. That the negotiated version stays all the
same is `NegotiatedVersionStays`, which the code does not keep (section 5).

### HandlerText

The variables are the locals of `parse_connect_data_to_json` and
`parse_continuous_visible_characters`, a step is one turn of their loops. Of the
second, only which characters are visible matters. It reads
`message + TNS_HEAD_LEN` bytes, because `tns_data_handle` moves the pointer past the
header but not the length; the bytes behind the message are arbitrary. `WriteText`
is the `snprintf` of `tns_313_OCI` and `tns_313_RS`. What `tns_314_*` print with a plain `%s`
is not modelled.

The conversion is called for any connect data but none: for `Descriptors`, whose
JSON is specified, and for `OtherTexts`, of which neither code nor document says what
their JSON should be, only that it must fit. A text of one character ends in a
character that is behind it in the packet (`LastChars`). `TextFits` says that the JSON
of a descriptor of more than four characters fits its allocation; `TextInBounds`,
the same of all connect data, does not hold: `(a=)` leaves no place for the zero
(section 5).

What the JSON should be is in `ConnectDescriptor`. A descriptor is a set of nodes,
each of which has its places in the text (parentheses and `=`) and in the JSON;
`IsDescriptor` says of every node and its neighbours what stands at those places,
without recursion. `TextAssumption` asks it of every member of `Descriptors`.
`MCHandlerText` enumerates trees and computes text, JSON and nodes with recursive
operators, so TLC, which evaluates the assumption, compares the two definitions.

## 3. Runs

| Run | Shows | Distinct states |
|---|---|---|
| `Pipeline` | ownership, frozen hand-over, order, no lost wakeup, no mutual wait, no null packet; a waiting capture thread gets a buffer, buffers come back, refinement of `PacketPipe` with its fairness | 241,760 |
| `MemPool` | lists whole, clone test right, refinement of `BufferStack` | 15,616 |
| `ListQueue` | nodes and pointers whole, also half-way through a flush, signals cover the packets, an abort reaches a waiter, refinement of `PacketQueue` with its fairness | 13,116 |
| `RingQueue` | unlocked accesses apart, nobody oversleeps, the producer goes on, refinement of `BoundedQueue` | 7,022 |
| `FrameFilter` | place of the payload, direction and key agree, every sequence of kinds of frame | 2,495 |
| `TnsSession` | each packet parsed with its own connection's session (refinement of `ConnectionSessions`), sender named rightly, decoded under a version of its own conversation, exactly one entry for one that was heard, with lost and repeated packets | 19,131 |
| `HandlerText` | the JSON is the descriptor's and fits for more than four characters, the last longest visible run is found, what is printed of it | 88,542 |
| `SpuriousPool`, `EmptySlot`, `RepeatedConnect`, `ConnectText`, `ConnectLookups` | the code does not do what a line of it says, section 5 | stop at the counterexample |

Bounds, and why they are enough:

* `Pipeline`: 3 buffers, 4 frames, 2 failed mallocs. Three buffers is the
  least number with one in each thread's hands and one on the queue; an empty
  pool, a full pool and a queue of three are reached too. Four frames make a
  buffer be reused. Two failures leave one buffer for both threads. No
  symmetry, because of the liveness properties.
* `MemPool`: 3 buffers and 1 clone. A list operation touches an entry and two
  neighbours, and with three buffers the neighbours are heads, buffers or the
  same node; the unlocked test meets each store of the other thread.
* `ListQueue`: 3 nodes, 2 packets, 3 consumers: a list with a first, an inner and
  a last node, a full heap, a consumer that waits, one that is woken and one that
  comes between.
* `RingQueue`: 3 places, 2 packets: the ring runs full and empty at every position
  of its indexes.
* `FrameFilter`: headers with no options, some and the most; payloads of zero
  and one byte, one that fills the frame and one that fills it past `buf`;
  padding; endpoints that share only the address or the port with the target;
  every reason to drop; lengths smaller than the headers and the largest; dropped
  frames that reach none, one, two or all of the fields behind `buf`.
  `pkt` and `frame` remember one frame, so every ordered pair of frames occurs.
* `TnsSession`: 2 clients, table of 2 entries. Two entries
  tell the first from the others, an open one from a closed one (the proofs cover
  every size), two clients are an entry's owner and its previous owner.
* `HandlerText`: descriptors of up to three levels with up to two members each, with
  empty values too, alone or with a zero behind. Names are not empty. Other texts: a
  blank in front, two zeros behind, a `=` in a value, one that is cut off, two
  roots, one character. Messages of 3 to 8 bytes. `TNS_HEAD_LEN = 3` and
  `Capacity = 6` stand for 8 and for 128 or 1024: runs shorter and longer than
  both occur. The theorems of section 4 have no such bounds.

Deadlock is checked in every run. `Exited` (no socket) and `Crashed` (a null
pointer was followed) are the states in which the process has ended.

Fairness:

* `Pipeline!FairSpec`: weak fairness of `Main`, `GetBuffer`, `GetBufferAfterWait`,
  `PutPacket` and `Processor`. The kernel runs every runnable thread, no critical
  section blocks inside, and each mutex is contended by two threads that both
  return to waiting or to other work; between two of its acquisitions the other
  thread has to act, so weak fairness is enough. Nothing is assumed about
  frames arriving (`ReceiveFrame`, `DropFrame`) or about spurious wakeups.
  `CaptureResumes` says that the wait ends in a buffer. With all buffers lost to
  failed mallocs it would not; the bound on failures (`MaxFailures` smaller than
  the number of buffers) is an assumption of the run.
* `ListQueue!FairSpec`: a woken consumer gets the mutex, and a flush goes on.
  Nothing is assumed about calls of put, get or abort.
* `RingQueue!FairSpec`: the consumer goes on whenever it can, and so does the
  producer inside the functions; it need not ever fill a packet, and nothing is
  assumed about aborts.

## 4. Proofs

For every value of the constants:

* **Pipeline** (`PipelineProofs`). The inductive invariant `IInv` is `TypeOK`
  with `StartupOrder` (no thread runs before main reached its `pthread_create`,
  and `abort_request` is clear by then), `HeldIsBuffer` (what a thread holds is a
  buffer), `OneOwner` and `NoLostWakeup`. `OneOwner` alone is not inductive: that
  `ReleaseBuffer` returns a buffer needs `procPkt # Null`, which needs the queue not
  aborted, which needs the order in which main starts things. One lemma per
  thread, one step per action. From it `TypeCorrect`, `Ownership`,
  `WakeupsReachWaiters`, `NoDeadlock`, `PacketsArePresent` and `HandoverFreezes`.
  `InOrder` adds that the frames on their way, from the capture thread's hands
  through the queue to those already parsed, stay in the order of their numbers; it
  gives `OrderPreserved`. `WokenFindsBuffer` gives `ListDelIsSafe`, **assuming
  that the pool's wait has no spurious wakeups** (the run `SpuriousPool` shows the
  assumption is needed): the signal comes with a buffer and only the woken
  thread takes buffers.
* **Its refinement** (`PipelineRefinement`): `Spec => Pipe!Spec`, the safety part of
  `ImplementsPipe`. `HandedShape` and `InFlightShape` say what the mapped
  sequence is element by element; then one lemma per kind of step.
* **MemPool** (`MemPoolProofs`), for any number of buffers and clones. `ListsIntact`
  says nothing while the lock is held, so it is not inductive. `MInv` speaks of
  `Settled` instead, the memory as it will be when the stores under way are
  done: no single store changes it (`SettledStays`), and `list_add` and
  `list_del` act on it as if they were atomic (`AddToRing`, `DelFromRing`, and
  `AddElsewhere`, `DelElsewhere` for the other list). To these come where each
  buffer is (`EachOnce`, `Holding`) and that a buffer's links are never null at
  any moment while a clone's always are (`LinksTell`), which is why the
  unlocked test is right. `PoolTypeCorrect`, `CloneTestRight`, `ListsStayIntact`, and
  `StackRefinement`, the whole of `ImplementsStack`.
* **ListQueue** (`ListQueueProofs`), for any number of nodes, packets and consumers:
  `IInv` is `TypeOK`, `ListIntact` and `NodeCount` (as many nodes on the heap as on
  the list, which bounds `num`). `SignalsCover` is inductive on top of it, by counting
  woken consumers against packets. From them
  `QueueTypeCorrect`, `ListStaysIntact`, `SignalsSuffice`, `AbortIsNoticed` and
  `QueueRefinement`, the safety part of `ImplementsQueue`.
* **RingQueue** (`RingQueueProofs`), for any size. `RInv` adds to the type and to
  `NobodyOversleeps` what each thread knows at its place (`Stages`), that the
  indexes are apart by `size` but for the moments in which one of them is ahead
  of it (`Distance`, `IndexesAgree`), and that there are packets where the consumer
  will look (`PlacesFilled`). `RingTypeCorrect`, `PlacesStayApart`, `WaitsEnd`, and
  `RingRefinement`, the safety part of `ImplementsFifo`.
* **FrameFilter** (`FrameFilterProofs`): `FilterTypeCorrect`, `PayloadIsExact` and
  `TargetComesSecond`, for every set of frames. The core is that the 16-bit
  length does not wrap for a well-formed frame, whatever its options.
* **TnsSession** (`TnsProofs`), for any number of clients and entries. `TableInv`
  says that every entry but the first is closed and that the table is well
  typed. It is inductive because a lookup with a client's key never matches a
  zeroed key. `OneUsableEntry` states it; `SenderIsNamed` and `SessionTypeCorrect`
  rest on it. That a conversation that was heard owns entry 0 with a version and a
  state of its own (`HeardInv`: the ACCEPT's, or the repeated CONNECT's) is what
  `NegotiatedVersionUsed` and `OpenConversationTracked` need besides.
  `SessionsRefinement` is the whole of `ImplementsSessions`: a lookup
  returns the connection's session or one made for it (`FoundIsPromised`), storing it
  takes the entry from at most one other (`StoredForOne`), `ParsedIsPromised` has a
  case per kind of packet, and every step of the environment that reaches the
  parser is one of its packets (`PacketParses`).
* **HandlerText** (`HandlerTextProofs`), for texts and messages of any length and
  buffers of any size: `TInv` holds the loop invariant of the scan (`Scanned`: the run
  under way, and the last of the longest runs before it), which gives `LongestRunFound` and
  `MessagePrinted`; `TextTypeCorrect` bounds every local. `MessagePrinted` says when the
  text printed starts in the message (a run there is longer than a header)
  and when it is all in it (nothing behind the message is visible); otherwise the
  bytes behind may win.
  The conversion is proved for descriptors of any depth and width. Its invariant `Converts`
  says where in the tree the loop is after `r` characters of text and `l` of JSON:
  in a node's name or in its value, before the first node of a list or before
  the next one, before the end of a list, or behind the root (`AtNode`), with `r` and
  `l` at that stage's places and what is written so far a prefix of the JSON. Each stage fixes
  the characters around `r`, hence the piece appended (`PieceMatches`), and leads to another
  (`FromName`, `FromBefore`, ... `FromListEnd`). No stack is needed because
  a parenthesis's neighbours tell whether it ends a value or a list, and whether another
  member follows. `ConversionInvariance`, then `JsonIsRight`. `JsonHasRoom` adds that
  every stage has `l <= 2 * r + 1` (`RoomAt`). The stages' own bounds are finer
  (`Slack`): a node in a list has written one character less than the root
  would have, which is what a value that is empty needs. For the root alone nothing is
  left over, hence the four characters, and the bound is sharp: `ConnectText`.

Only model-checked: liveness (`CaptureResumes`, `BuffersComeBack`,
`ProducerResumes`, the fairness of `ImplementsPipe`, `ImplementsQueue` and
`ImplementsFifo`), which TLAPS does not do here, and that the trees of `MCHandlerText`,
defined by recursion, are what `ConnectDescriptor` says. Every safety property of
every passing run is a theorem.

## 5. What the code does and its text does not say

Each is a run that TLC ends with a counterexample; `PROJECT.json` has the quotes.

* `SpuriousPool`: after an unsignalled return of its wait, `mem_pool_get` unlinks
  the head of the empty list and hands out the list head as if it were a buffer.
* `EmptySlot`: an unknown connection takes the first entry even when that is in
  use and others are closed.
* `RepeatedConnect`: a CONNECT that TCP sends again and that is captured after the
  ACCEPT brings back the version it offered, and the DATA that follows is looked up
  under that one.
* `ConnectText`: the JSON of `(a=)` and its zero need one place more than the two per
  character that are allocated; the test meant to stop it always passes, because
  `strcat` does not move `q`.
* `ConnectLookups`: a missing CONNECT_DATA or CID makes the next lookup follow a null pointer.

Two more can be read off the code and have no run: `tns_connect_handle` deletes neither
the tree of `cJSON_Parse` nor the text it was made from (`cJSON.h:65`, "Call
cJSON_Delete when finished."), and `eth_recv` returns 0 or 1 where `network.h:35-37`
says a length or a negative number.

Also open is what becomes of a buffer whose `list_queue_put` fails (`main.c:45`): the
model counts it as lost, and no document says what should happen.

## 6. Not modelled, and what is left

Not modelled, and why:

* `socket.c` and `util.c`: system calls and printing, no state of the program.
* cJSON's inside: a vendored library. `TnsSession` has what the program sees of it.
* `mem_pool_destroy`, `ring_queue_destroy` and whatever else comes after `main`'s
  endless loop: nothing reaches it. The rest of `list.h`: nothing uses it.
* Argument parsing in `main`, text that is printed, `update_time` (nothing that
  runs reads it), IP fragments (the filter does not look at them either).
* The bytes of a frame behind `buf` as payload: see FrameFilter; the hazard at `network.c:147`
  has no property.
* The order of packets of one TCP conversation, and its retransmissions of
  part of a segment: the program does not look at sequence numbers.

Left, in this order:

1. The `tns_314_*` handlers' text: where their `%s` ends depends on the bytes behind
   the message.
2. cJSON's list and tree operations that the program uses, as far as a test of
   `tns_connect_handle` would need them.
3. One module with `Pipeline` and `TnsSession` together, replacing the argument in
   section 2 by a refinement of the sessions' environment.
