----------------------------- MODULE TnsProofs ------------------------------
(***************************************************************************)
(* Theorems about TnsSession, for every number of clients and session      *)
(* entries.                                                                *)
(***************************************************************************)
EXTENDS TnsSession, TLAPS

----------------------------------------------------------------------------
\* The session table: only its first entry is ever used.

OnlyFirstEntry == \A i \in Slots \ {0} : sess[i] = ClosedSession

TableInv == sess \in [Slots -> Session] /\ OnlyFirstEntry

\* A conversation with a CONNECT has offered a version.
Conversation ==
    {conversation \in [phase : {"idle", "connecting", "resend", "open"},
                       offered : {0} \cup Versions, version : {0} \cup Versions,
                       heard : BOOLEAN, again : BOOLEAN] :
       conversation.phase \in {"connecting", "open"} => conversation.offered \in Versions}

Conversations == wire \in [Clients -> Conversation]

Dirs == {REQUEST, RESPONSE}

\* The session that a packet of c's connection is parsed with.
Found(c, dir) == [MustFind(KeyOf(c)) EXCEPT !.cur_dir = dir]

\* The table has a first entry.
LEMMA FirstSlot == 0 \in Slots
  BY SessionAssumption DEF Slots

\* A closed session is a session.
LEMMA ClosedIsSession == ClosedSession \in Session
  BY DEF ClosedSession, Session, LinkStates

\* Every lookup ends at the first entry and gives the packet's key.
LEMMA FindsFirst ==
    ASSUME TableInv, NEW c \in Clients, NEW dir \in Dirs
    PROVE  /\ NodeIndex(KeyOf(c)) = 0
           /\ Found(c, dir) \in Session
           /\ Found(c, dir).key = KeyOf(c)
           /\ Found(c, dir).cur_dir = dir
           /\ Found(c, dir).version = sess[0].version
           /\ sess[0].key = KeyOf(c) => Found(c, dir).state = sess[0].state
<1>1. \A i \in Slots \ {0} : sess[i].key # KeyOf(c)
  BY TnsAssumption DEF TableInv, OnlyFirstEntry, ClosedSession, KeyOf
<1>2. Matching(KeyOf(c)) \in {{}, {0}}
  BY <1>1 DEF Matching
<1>3. NodeIndex(KeyOf(c)) = 0
  <2>1. Min({0}) = 0
    BY DEF Min
  <2> QED
    BY <1>2, <2>1 DEF NodeIndex
<1>4. sess[0] \in Session
  BY FirstSlot DEF TableInv
<1>5. CASE Matching(KeyOf(c)) # {}
  <2>1. MustFind(KeyOf(c)) = sess[0]
    BY <1>3, <1>5 DEF MustFind
  <2>2. sess[0].key = KeyOf(c)
    BY <1>2, <1>5 DEF Matching
  <2> QED
    BY <1>3, <1>4, <2>1, <2>2 DEF Found, Session, Dirs
<1>6. CASE Matching(KeyOf(c)) = {}
  <2>1. MustFind(KeyOf(c)) = [sess[0] EXCEPT !.key = KeyOf(c), !.state = "STAT_INIT"]
    BY <1>3, <1>6 DEF MustFind
  <2>2. sess[0].key # KeyOf(c)
    BY <1>6, FirstSlot DEF Matching
  <2> QED
    BY <1>3, <1>4, <2>1, <2>2 DEF Found, Session, Dirs, LinkStates
<1> QED
  BY <1>5, <1>6

\* Both directions of a connection have one key.
LEMMA OneKey ==
    ASSUME NEW c, NEW dir \in Dirs
    PROVE  SessKey(IF dir = REQUEST THEN <<c, Server>> ELSE <<Server, c>>, dir) = KeyOf(c)
  BY DEF SessKey, KeyOf, Dirs, REQUEST, RESPONSE

\* mainprocess stores the parsed session in the first entry.
LEMMA MainProcessOnFirst ==
    ASSUME TableInv, NEW c \in Clients, NEW dir \in Dirs, NEW p, MainProcess(c, dir, p)
    PROVE  /\ sess' = [sess EXCEPT ![0] = Parse(Found(c, dir), p)]
           /\ last' = [conn |-> c, dir |-> dir, said |-> Report(Found(c, dir), p),
                       as |-> IF Dispatched(p) THEN Found(c, dir).version
                                               ELSE NotDispatched]
<1> DEFINE skey == IF dir = REQUEST THEN <<c, Server>> ELSE <<Server, c>>
<1> DEFINE key == SessKey(skey, dir)
<1>1. key = KeyOf(c)
  BY OneKey
<1>2. /\ sess' = [sess EXCEPT ![NodeIndex(key)] = Parse([MustFind(key) EXCEPT !.cur_dir = dir], p)]
      /\ last' = [conn |-> c, dir |-> dir, said |-> Report([MustFind(key) EXCEPT !.cur_dir = dir], p),
                  as |-> IF Dispatched(p) THEN [MustFind(key) EXCEPT !.cur_dir = dir].version
                                          ELSE NotDispatched]
  BY Zenon DEF MainProcess
<1> HIDE DEF key
<1>3. [MustFind(key) EXCEPT !.cur_dir = dir] = Found(c, dir)
  BY <1>1, Zenon DEF Found
<1>4. NodeIndex(key) = 0
  BY <1>1, FindsFirst
<1>5. sess' = [sess EXCEPT ![0] = Parse(Found(c, dir), p)]
  BY <1>2, <1>3, <1>4, Zenon
<1>6. last' = [conn |-> c, dir |-> dir, said |-> Report(Found(c, dir), p),
               as |-> IF Dispatched(p) THEN Found(c, dir).version
                                       ELSE NotDispatched]
  BY <1>2, <1>3, Zenon
<1> QED
  BY <1>5, <1>6

\* A handler changes the version and the state of its session, nothing else.
LEMMA ParseType ==
    ASSUME NEW s \in Session, NEW p \in Payload
    PROVE  /\ Parse(s, p) \in Session
           /\ Parse(s, p).key = s.key
           /\ Parse(s, p).cur_dir = s.cur_dir
  BY DEF Parse, ConnectHandle, AcceptHandle, RefuseHandle, DataHandle, Session,
         LinkStates, LoginStates, Payload

----------------------------------------------------------------------------
\* Every packet but an unseen one goes through mainprocess.

\* The payload the others are made from is one.
LEMMA PlainIsPayload == Plain \in Payload
  BY DEF Plain, Payload, Lengths, Versions, Ids, Subs

\* The steps in which the parser does nothing.
Silent(c) == Unseen(c) \/ Close(c)

\* After p the conversation may count as heard if p is its ACCEPT, or if it was
\* heard before and p does not touch the version or is its own CONNECT again.
KeepsHeard(c, p, conversation) ==
    conversation.heard =>
        \/ /\ p.type = "ACCEPT" /\ p.whole = TRUE /\ p.len > TNS_HEAD_LEN
           /\ conversation.version = p.version
        \/ p.type \in {"DATA", "other"} /\ conversation = wire[c]
        \/ /\ p.type = "CONNECT" /\ p.version = wire[c].offered
           /\ conversation = [wire[c] EXCEPT !.again = TRUE]

Parsed(c, dir, p) ==
    /\ MainProcess(c, dir, p)
    /\ p.type = "CONNECT" => dir = REQUEST
    /\ p.type \in {"ACCEPT", "REFUSE"} => dir = RESPONSE
    /\ \E conversation \in Conversation :
         Heard(c, conversation) /\ KeepsHeard(c, p, conversation)

\* What Heard makes of the conversations.
LEMMA HeardStep ==
    ASSUME Conversations, NEW c \in Clients, NEW conversation \in Conversation,
           Heard(c, conversation)
    PROVE  /\ Conversations'
           /\ wire'[c] = conversation
           /\ \A d \in Clients \ {c} : wire'[d].heard = FALSE
  BY DEF Conversations, Conversation, Heard

\* A silent step is about one conversation, which is not heard after it.
LEMMA SilentStep ==
    ASSUME Conversations, NEW c \in Clients, Silent(c)
    PROVE  /\ UNCHANGED <<sess, last, crashed>>
           /\ Conversations'
           /\ wire'[c].heard = FALSE
           /\ \A d \in Clients \ {c} : wire'[d] = wire[d]
<1>1. ASSUME NEW conversation \in Conversation, conversation.heard = FALSE,
             wire' = [wire EXCEPT ![c] = conversation]
      PROVE  /\ Conversations'
             /\ wire'[c].heard = FALSE
             /\ \A d \in Clients \ {c} : wire'[d] = wire[d]
  BY <1>1 DEF Conversations
<1>2. CASE Close(c)
  BY <1>1, <1>2 DEF Close, Idle, Conversation
<1>3. CASE Unseen(c)
  <2>1. /\ \A v \in Versions : Connecting(v) \in Conversation /\ Connecting(v).heard = FALSE
        /\ Resending \in Conversation /\ Resending.heard = FALSE
    BY DEF Connecting, Resending, Idle, Conversation
  <2>2. wire[c].phase = "connecting" => wire[c].offered \in Versions
    BY DEF Conversations, Conversation
  <2>3. wire[c].phase = "connecting" => \A v \in Versions : Opened(c, v, FALSE) \in Conversation
    BY <2>2 DEF Opened, Conversation
  <2>4. \A v : Opened(c, v, FALSE).heard = FALSE
    BY DEF Opened
  <2> QED
    BY <1>1, <1>3, <2>1, <2>3, <2>4 DEF Unseen
<1>4. UNCHANGED <<sess, last, crashed>>
  BY DEF Silent, Unseen, Close
<1> QED
  BY <1>2, <1>3, <1>4 DEF Silent

\* Every other step of a conversation parses some payload.
LEMMA PacketParses ==
    ASSUME Conversations, NEW c \in Clients, Packet(c)
    PROVE  Silent(c) \/ \E dir \in Dirs, p \in Payload : Parsed(c, dir, p)
<1>0. wire[c] \in Conversation
  BY DEF Conversations
<1>1. CASE Connect(c)
  <2> DEFINE Sent(v, d) == [Plain EXCEPT !.type = "CONNECT", !.version = v, !.descr = d]
  <2> DEFINE next(v) == IF wire[c].phase = "open" THEN [wire[c] EXCEPT !.again = wire[c].heard]
                                                ELSE Connecting(v)
  <2>1. PICK v \in Offers(c), d \in Descriptors \cup {"none"} :
          MainProcess(c, REQUEST, Sent(v, d)) /\ Heard(c, next(v))
    BY <1>1, Zenon DEF Connect
  <2>2. wire[c].phase = "open" => v = wire[c].offered
    BY <2>1 DEF Offers
  <2>3. v \in Versions
    BY <1>0, <2>1 DEF Offers, Conversation
  <2>4. Sent(v, d) \in Payload /\ Sent(v, d).type = "CONNECT" /\ Sent(v, d).version = v
    BY <2>3, PlainIsPayload DEF Payload
  <2>5. next(v) \in Conversation
    BY <1>0, <2>3 DEF Connecting, Idle, Conversation
  <2>6. next(v).heard => /\ wire[c].phase = "open"
                         /\ next(v) = [wire[c] EXCEPT !.again = TRUE]
    BY <1>0 DEF Connecting, Idle, Conversation
  <2> HIDE DEF Sent, next
  <2>7. KeepsHeard(c, Sent(v, d), next(v))
    BY <2>2, <2>4, <2>6 DEF KeepsHeard
  <2>8. Parsed(c, REQUEST, Sent(v, d))
    BY <2>1, <2>4, <2>5, <2>7 DEF Parsed
  <2> QED
    BY <2>4, <2>8 DEF Dirs
<1>2. CASE Resend(c)
  <2> DEFINE Sent(l) == [Plain EXCEPT !.type = "RESEND", !.len = l]
  <2>1. PICK l \in Lengths : MainProcess(c, RESPONSE, Sent(l))
    BY <1>2 DEF Resend
  <2>2. Sent(l) \in Payload /\ Sent(l).type = "RESEND"
    BY PlainIsPayload DEF Payload
  <2>3. Heard(c, Resending)
    BY <1>2 DEF Resend
  <2>4. Resending \in Conversation /\ Resending.heard = FALSE
    BY DEF Resending, Idle, Conversation
  <2> HIDE DEF Sent
  <2>5. Parsed(c, RESPONSE, Sent(l))
    BY <2>1, <2>2, <2>3, <2>4 DEF Parsed, KeepsHeard
  <2> QED
    BY <2>2, <2>5 DEF Dirs
<1>3. CASE Accept(c)
  <2> DEFINE Sent(v) == [Plain EXCEPT !.type = "ACCEPT", !.version = v]
  <2>1. PICK v \in Versions : MainProcess(c, RESPONSE, Sent(v)) /\ Heard(c, Opened(c, v, TRUE))
    BY <1>3 DEF Accept
  <2>0. wire[c].offered \in Versions
    BY <1>0, <1>3 DEF Accept, Conversation
  <2>2. /\ Sent(v) \in Payload /\ Sent(v).type = "ACCEPT" /\ Sent(v).version = v
        /\ Sent(v).whole = Plain.whole /\ Sent(v).len = Plain.len
    BY PlainIsPayload DEF Payload
  <2>3. Plain.whole = TRUE /\ Plain.len > TNS_HEAD_LEN
    BY DEF Plain, TNS_HEAD_LEN
  <2>4. Opened(c, v, TRUE) \in Conversation /\ Opened(c, v, TRUE).version = v
    BY <2>0 DEF Opened, Conversation
  <2> HIDE DEF Sent
  <2>5. KeepsHeard(c, Sent(v), Opened(c, v, TRUE))
    BY <2>2, <2>3, <2>4 DEF KeepsHeard
  <2>6. Parsed(c, RESPONSE, Sent(v))
    BY <2>1, <2>2, <2>4, <2>5 DEF Parsed
  <2> QED
    BY <2>2, <2>6 DEF Dirs
<1>4. CASE Refuse(c)
  <2> DEFINE sent == [Plain EXCEPT !.type = "REFUSE"]
  <2>1. MainProcess(c, RESPONSE, sent) /\ Heard(c, Idle)
    BY <1>4 DEF Refuse
  <2>2. sent \in Payload /\ sent.type = "REFUSE"
    BY PlainIsPayload DEF Payload
  <2>3. Idle \in Conversation /\ Idle.heard = FALSE
    BY DEF Idle, Conversation
  <2> HIDE DEF sent
  <2>4. Parsed(c, RESPONSE, sent)
    BY <2>1, <2>2, <2>3 DEF Parsed, KeepsHeard
  <2> QED
    BY <2>2, <2>4 DEF Dirs
<1>5. ASSUME NEW dir \in Dirs, Data(c, dir)
      PROVE  \E p \in Payload : Parsed(c, dir, p)
  <2>1. \A id \in Ids, sub \in Subs :
          Message(id, sub) \in Payload /\ Message(id, sub).type = "DATA"
    BY PlainIsPayload DEF Message, Payload
  <2>2. \A whole \in BOOLEAN, len \in Lengths :
          Piece(whole, len) \in Payload /\ Piece(whole, len).type = "DATA"
    BY PlainIsPayload DEF Piece, Payload
  <2>3. PICK p \in Payload : p.type = "DATA" /\ MainProcess(c, dir, p)
    BY <1>5, <2>1, <2>2, Zenon DEF Data
  <2>4. Heard(c, wire[c])
    BY <1>5 DEF Data
  <2> QED
    BY <1>0, <2>3, <2>4 DEF Parsed, KeepsHeard
<1>6. ASSUME NEW dir \in Dirs, Unhandled(c, dir)
      PROVE  \E p \in Payload : Parsed(c, dir, p)
  <2>1. Plain.type = "other"
    BY DEF Plain
  <2>2. MainProcess(c, dir, Plain) /\ Heard(c, wire[c])
    BY <1>6 DEF Unhandled
  <2> QED
    BY <1>0, <2>1, <2>2, PlainIsPayload DEF Parsed, KeepsHeard
<1> QED
  BY <1>1, <1>2, <1>3, <1>4, <1>5, <1>6 DEF Packet, Dirs, Silent

\* A packet puts its own session, and nothing else, into the first entry.
LEMMA FirstEntryTaken ==
    ASSUME TableInv, NEW c \in Clients, NEW dir \in Dirs, NEW p \in Payload,
           MainProcess(c, dir, p)
    PROVE  /\ TableInv'
           /\ sess'[0] = Parse(Found(c, dir), p)
           /\ sess'[0].key = KeyOf(c)
           /\ \A i \in Slots \ {0} : sess'[i] = sess[i]
<1>1. sess' = [sess EXCEPT ![0] = Parse(Found(c, dir), p)]
  BY MainProcessOnFirst
<1>2. Parse(Found(c, dir), p) \in Session /\ Parse(Found(c, dir), p).key = KeyOf(c)
  BY FindsFirst, ParseType
<1> QED
  BY <1>1, <1>2, FirstSlot DEF TableInv, OnlyFirstEntry

\* The table starts closed, and no conversation is open.
LEMMA TableInit == Init => TableInv /\ Conversations
<1>1. Init => TableInv
  BY ClosedIsSession DEF Init, SessInit, TableInv, OnlyFirstEntry
<1>2. Init => Conversations
  BY DEF Init, Idle, Conversation, Conversations
<1> QED
  BY <1>1, <1>2

\* Every packet changes the first entry only, and one conversation.
LEMMA TableStep ==
    TableInv /\ Conversations /\ [Next]_vars => TableInv' /\ Conversations'
<1> SUFFICES ASSUME TableInv, Conversations, [Next]_vars
             PROVE  TableInv' /\ Conversations'
  OBVIOUS
<1>1. ASSUME NEW c \in Clients, Packet(c) PROVE TableInv' /\ Conversations'
  <2>1. CASE Silent(c)
    BY <2>1, SilentStep DEF TableInv, OnlyFirstEntry
  <2>2. CASE \E dir \in Dirs, p \in Payload : Parsed(c, dir, p)
    BY <2>2, FirstEntryTaken, HeardStep DEF Parsed
  <2> QED
    BY <1>1, <2>1, <2>2, PacketParses
<1>2. CASE UNCHANGED vars
  BY <1>2 DEF vars, TableInv, OnlyFirstEntry, Conversations
<1> QED
  BY <1>1, <1>2 DEF Next, Crashed

\* Only the first of the MAX_SESS_NODE entries of g_sess_arry is ever used.
THEOREM OneUsableEntry == Spec => [](TableInv /\ Conversations)
<1> QED
  BY TableInit, TableStep, PTL DEF Spec

----------------------------------------------------------------------------
\* The handlers name the sender by the session's direction.
LEMMA ReportFollowsDirection ==
    ASSUME NEW s, NEW p, s.cur_dir \in Dirs
    PROVE  /\ Report(s, p) \in {"client platform", "client version"} => s.cur_dir = REQUEST
           /\ Report(s, p) \in {"server platform", "server version"} => s.cur_dir = RESPONSE
           /\ Report(s, p) = "parameters" => p.type = "CONNECT"
<1> DEFINE Follows(said) ==
             /\ said \in {"client platform", "client version"} => s.cur_dir = REQUEST
             /\ said \in {"server platform", "server version"} => s.cur_dir = RESPONSE
             /\ said # "parameters"
<1>1. Follows(Report313(s, p))
  BY DEF Report313, Dirs
<1>2. Follows(Report314(s, p))
  BY DEF Report314, Dirs
<1>3. CASE ParsesDescriptor(p) /\ p.descr \in {"noCid", "complete"}
  BY <1>3 DEF Report, ParsesDescriptor, Dispatched
<1>4. CASE ~(ParsesDescriptor(p) /\ p.descr \in {"noCid", "complete"})
  BY <1>1, <1>2, <1>4 DEF Report
<1> QED
  BY <1>3, <1>4

\* What is printed as the client's comes from the client and what is printed
\* as the server's from the server (tns_31x_SP, tns_31x_SNS), for any number
\* of conversations: mainprocess notes the direction before it parses, and
\* only a CONNECT prints parameters.
THEOREM SenderIsNamed == Spec => []ReportNamesSender
<1>1. Init => ReportNamesSender
  BY DEF Init, ReportNamesSender
<1>2. TableInv /\ Conversations /\ ReportNamesSender /\ [Next]_vars => ReportNamesSender'
  <2> SUFFICES ASSUME TableInv, Conversations, ReportNamesSender, [Next]_vars
               PROVE  ReportNamesSender'
    OBVIOUS
  <2>1. ASSUME NEW c \in Clients, Packet(c) PROVE ReportNamesSender'
    <3>1. CASE Silent(c)
      BY <3>1, SilentStep DEF ReportNamesSender
    <3>2. ASSUME NEW dir \in Dirs, NEW p \in Payload,
                 MainProcess(c, dir, p), p.type = "CONNECT" => dir = REQUEST
          PROVE  ReportNamesSender'
      <4>1. last'.dir = dir /\ last'.said = Report(Found(c, dir), p)
        BY <3>2, MainProcessOnFirst
      <4>2. Found(c, dir).cur_dir = dir
        BY FindsFirst
      <4> QED
        BY <3>2, <4>1, <4>2, ReportFollowsDirection DEF ReportNamesSender
    <3> QED
      BY <2>1, <3>1, <3>2, PacketParses DEF Parsed
  <2>2. CASE UNCHANGED vars
    BY <2>2 DEF vars, ReportNamesSender
  <2> QED
    BY <2>1, <2>2 DEF Next, Crashed
<1> QED
  BY <1>1, <1>2, OneUsableEntry, PTL DEF Spec

----------------------------------------------------------------------------
\* Type correctness.

LastOK == /\ last.conn \in Clients \cup {NoEndpoint}
          /\ last.as \in {NotDispatched, 0} \cup Versions

\* Only tns_connect_handle writes crashed, the value of a test.
LEMMA CrashStep ==
    ASSUME crashed \in BOOLEAN, NEW c \in Clients, Packet(c)
    PROVE  crashed' \in BOOLEAN
<1>1. CASE Connect(c)
  BY <1>1, Zenon DEF Connect, LookUp
<1> QED
  BY <1>1 DEF Packet, Resend, Accept, Refuse, Data, Unhandled, Unseen, Close

\* The record of the last packet is well formed.
LEMMA LastStep ==
    ASSUME TableInv, Conversations, LastOK, NEW c \in Clients, Packet(c)
    PROVE  LastOK'
<1>1. CASE Silent(c)
  BY <1>1, SilentStep DEF LastOK
<1>2. ASSUME NEW dir \in Dirs, NEW p \in Payload, MainProcess(c, dir, p)
      PROVE  LastOK'
  <2>1. last'.conn = c /\ last'.as \in {NotDispatched, Found(c, dir).version}
    BY <1>2, MainProcessOnFirst
  <2>2. Found(c, dir).version \in {0} \cup Versions
    BY FindsFirst DEF Session
  <2> QED
    BY <2>1, <2>2 DEF LastOK
<1> QED
  BY <1>1, <1>2, PacketParses DEF Parsed

\* Every variable keeps its type, for every number of clients and entries.
THEOREM SessionTypeCorrect == Spec => []TypeOK
<1> DEFINE Inv == TableInv /\ Conversations /\ crashed \in BOOLEAN /\ LastOK
<1>1. Init => Inv
  <2> SUFFICES ASSUME Init PROVE Inv
    OBVIOUS
  <2>1. LastOK
    BY DEF Init, LastOK
  <2>2. crashed \in BOOLEAN
    BY Zenon DEF Init
  <2> QED
    BY <2>1, <2>2, TableInit
<1>2. Inv /\ [Next]_vars => Inv'
  <2> SUFFICES ASSUME Inv, [Next]_vars PROVE Inv'
    OBVIOUS
  <2>1. ASSUME NEW c \in Clients, Packet(c) PROVE crashed' \in BOOLEAN /\ LastOK'
    BY <2>1, CrashStep, LastStep
  <2>2. ASSUME UNCHANGED vars PROVE crashed' \in BOOLEAN /\ LastOK'
    BY <2>2 DEF vars, LastOK
  <2>3. TableInv' /\ Conversations'
    BY TableStep
  <2> QED
    BY <2>1, <2>2, <2>3 DEF Next, Crashed
<1>3. Inv => TypeOK
  BY DEF TypeOK, TableInv, Conversations, Conversation, LastOK
<1> QED
  BY <1>1, <1>2, <1>3, PTL DEF Spec

----------------------------------------------------------------------------
(***************************************************************************)
(* Conversations that are heard.  The table keeps one session, so it can   *)
(* be right only about the connection it heard last; the first entry       *)
(* belongs to that conversation from its ACCEPT on.                        *)
(***************************************************************************)
Tracked(c) ==
    /\ sess[0].key = KeyOf(c)
    /\ sess[0].version \in KnownVersions(c)
    /\ sess[0].state \in KnownStates(c)

HeardInv ==
    /\ \A c \in Clients : wire[c].heard => Tracked(c)
    /\ last.as # NotDispatched => last.conn \in Clients
    /\ DecodedAsNegotiated

\* Parsing a data or an unhandled packet keeps the version, and the state or STAT_DATA.
LEMMA ParseKeepsVersion ==
    ASSUME NEW s \in Session, NEW p \in Payload, p.type \in {"DATA", "other"}
    PROVE  /\ Parse(s, p).version = s.version
           /\ Parse(s, p).state \in {s.state, "STAT_DATA", "stat_loging_in"}
  BY DEF Parse, DataHandle, Session

\* The ACCEPT sets the version and the state, whatever the session was.
LEMMA ParseAccept ==
    ASSUME NEW s \in Session, NEW p \in Payload,
           p.type = "ACCEPT", p.whole = TRUE, p.len > TNS_HEAD_LEN
    PROVE  Parse(s, p).version = p.version /\ Parse(s, p).state = "STAT_ACCEPT"
<1>1. HasBody(p)
  BY DEF HasBody
<1>2. Parse(s, p) = AcceptHandle(s, p)
  BY Zenon DEF Parse
<1>3. Parse(s, p) = [s EXCEPT !.version = p.version, !.state = "STAT_ACCEPT"]
  BY <1>1, <1>2, Zenon DEF AcceptHandle
<1> QED
  BY <1>3 DEF Session

\* The CONNECT does the same, unless it carries no descriptor.
LEMMA ParseConnect ==
    ASSUME NEW s \in Session, NEW p \in Payload, p.type = "CONNECT"
    PROVE  \/ Parse(s, p) = s
           \/ Parse(s, p).version = p.version /\ Parse(s, p).state = "STAT_CONNECT"
<1>1. Parse(s, p) \in {s, ConnectHandle(s, p)}
  BY Zenon DEF Parse
<1>2. ConnectHandle(s, p) \in {s, [s EXCEPT !.version = p.version, !.state = "STAT_CONNECT"]}
  BY Zenon DEF ConnectHandle
<1> QED
  BY <1>1, <1>2 DEF Session

\* The step that parses p for c keeps c tracked if c counts as heard, and no
\* other conversation does.
LEMMA ParsedIsTracked ==
    ASSUME TableInv, Conversations, HeardInv,
           NEW c \in Clients, NEW dir \in Dirs, NEW p \in Payload, Parsed(c, dir, p)
    PROVE  HeardInv'
<1>1. PICK conversation \in Conversation :
        Heard(c, conversation) /\ KeepsHeard(c, p, conversation)
  BY DEF Parsed
<1>2. wire'[c] = conversation /\ \A d \in Clients \ {c} : wire'[d].heard = FALSE
  BY <1>1, HeardStep
<1>3. /\ Found(c, dir) \in Session
      /\ Found(c, dir).version = sess[0].version
      /\ sess[0].key = KeyOf(c) => Found(c, dir).state = sess[0].state
  BY FindsFirst
<1>4. MainProcess(c, dir, p)
  BY DEF Parsed
<1>5. sess'[0] = Parse(Found(c, dir), p) /\ sess'[0].key = KeyOf(c)
  BY <1>4, FirstEntryTaken
<1>6. last'.conn = c /\ (last'.as # NotDispatched
                          => p.type = "DATA" /\ last'.as = Found(c, dir).version)
  BY <1>4, MainProcessOnFirst DEF Dispatched
<1>7. ASSUME wire'[c].heard, p.type = "ACCEPT" PROVE Tracked(c)'
  <2>1. p.whole = TRUE /\ p.len > TNS_HEAD_LEN /\ conversation.version = p.version
    BY <1>1, <1>2, <1>7 DEF KeepsHeard
  <2>2. sess'[0].version = p.version /\ sess'[0].state = "STAT_ACCEPT"
    BY <1>3, <1>5, <1>7, <2>1, ParseAccept
  <2> QED
    BY <1>2, <1>5, <2>1, <2>2 DEF Tracked, KnownVersions, KnownStates
<1>8. ASSUME wire[c].heard
      PROVE  /\ Found(c, dir).version \in KnownVersions(c)
             /\ Found(c, dir).state \in KnownStates(c)
  <2>1. Tracked(c)
    BY <1>8 DEF HeardInv
  <2> QED
    BY <1>3, <2>1 DEF Tracked
<1>9. ASSUME wire'[c].heard, p.type \in {"DATA", "other"}
      PROVE  Tracked(c)' /\ Found(c, dir).version \in KnownVersions(c)'
  <2>1. conversation = wire[c]
    BY <1>1, <1>2, <1>9 DEF KeepsHeard
  <2>2. KnownVersions(c)' = KnownVersions(c) /\ KnownStates(c)' = KnownStates(c)
    BY <1>2, <2>1 DEF KnownVersions, KnownStates
  <2>3. /\ Found(c, dir).version \in KnownVersions(c)
        /\ Found(c, dir).state \in KnownStates(c)
    BY <1>2, <1>8, <1>9, <2>1
  <2>4. /\ sess'[0].version = Found(c, dir).version
        /\ sess'[0].state \in {Found(c, dir).state, "STAT_DATA", "stat_loging_in"}
    BY <1>3, <1>5, <1>9, ParseKeepsVersion
  <2>5. sess'[0].state \in KnownStates(c)
    BY <2>3, <2>4 DEF KnownStates
  <2> QED
    BY <1>5, <2>2, <2>3, <2>4, <2>5 DEF Tracked
<1>10. ASSUME wire'[c].heard, p.type \notin {"ACCEPT", "DATA", "other"} PROVE Tracked(c)'
  <2>1. /\ p.type = "CONNECT" /\ p.version = wire[c].offered
        /\ conversation = [wire[c] EXCEPT !.again = TRUE]
    BY <1>1, <1>2, <1>10 DEF KeepsHeard
  <2>2. wire[c] \in Conversation
    BY DEF Conversations
  <2>3. /\ wire'[c].version = wire[c].version /\ wire'[c].offered = wire[c].offered
        /\ wire'[c].heard = wire[c].heard /\ wire'[c].again
    BY <1>2, <2>1, <2>2 DEF Conversation
  <2>4. /\ Found(c, dir).version \in KnownVersions(c)
        /\ Found(c, dir).state \in KnownStates(c)
    BY <1>8, <1>10, <2>3
  <2>5. KnownVersions(c) \subseteq KnownVersions(c)' /\ p.version \in KnownVersions(c)'
    BY <2>1, <2>3 DEF KnownVersions
  <2>6. KnownStates(c) \subseteq KnownStates(c)' /\ "STAT_CONNECT" \in KnownStates(c)'
    BY <2>3 DEF KnownStates
  <2>7. \/ sess'[0] = Found(c, dir)
        \/ sess'[0].version = p.version /\ sess'[0].state = "STAT_CONNECT"
    BY <1>3, <1>5, <2>1, ParseConnect
  <2> QED
    BY <1>5, <2>4, <2>5, <2>6, <2>7 DEF Tracked
<1>11. \A d \in Clients : wire'[d].heard => Tracked(d)'
  BY <1>2, <1>7, <1>9, <1>10
<1>12. DecodedAsNegotiated'
  BY <1>6, <1>9 DEF DecodedAsNegotiated
<1> QED
  BY <1>6, <1>11, <1>12 DEF HeardInv

\* A step without a packet leaves the table and the other conversations alone.
LEMMA SilentIsTracked ==
    ASSUME Conversations, HeardInv, NEW c \in Clients, Silent(c)
    PROVE  HeardInv'
<1>1. /\ sess' = sess /\ last' = last
      /\ wire'[c].heard = FALSE
      /\ \A d \in Clients \ {c} : wire'[d] = wire[d]
  BY SilentStep
<1>2. \A d \in Clients : wire'[d].heard => Tracked(d)'
  BY <1>1 DEF HeardInv, Tracked, KnownVersions, KnownStates
<1>3. DecodedAsNegotiated'
  BY <1>1 DEF HeardInv, DecodedAsNegotiated, KnownVersions
<1> QED
  BY <1>1, <1>2, <1>3 DEF HeardInv

\* The invariant on the heard conversation always holds.
LEMMA HeardInvariance == Spec => [](TableInv /\ HeardInv)
<1>1. Init => HeardInv
  <2>1. Init => \A c \in Clients : wire[c].heard = FALSE
    BY DEF Init, Idle
  <2>2. Init => last.as = NotDispatched
    BY DEF Init
  <2> QED
    BY <2>1, <2>2 DEF HeardInv, DecodedAsNegotiated
<1>2. TableInv /\ Conversations /\ HeardInv /\ [Next]_vars => HeardInv'
  <2> SUFFICES ASSUME TableInv, Conversations, HeardInv, [Next]_vars
               PROVE  HeardInv'
    OBVIOUS
  <2>1. ASSUME NEW c \in Clients, Packet(c) PROVE HeardInv'
    BY <2>1, PacketParses, ParsedIsTracked, SilentIsTracked
  <2>2. CASE UNCHANGED vars
    BY <2>2 DEF vars, HeardInv, Tracked, DecodedAsNegotiated, KnownVersions, KnownStates
  <2> QED
    BY <2>1, <2>2 DEF Next, Crashed
<1> QED
  BY <1>1, <1>2, OneUsableEntry, PTL DEF Spec

\* A data message is looked up under the version that its own conversation's
\* ACCEPT negotiated (msg_data_id_handle) if the ACCEPT was parsed and no other
\* connection's packet since, whatever was lost or interleaved before.  A CONNECT
\* of its own that is parsed once more may bring back the version it offered, and
\* no other version.
THEOREM NegotiatedVersionUsed == Spec => []DecodedAsNegotiated
<1>1. HeardInv => DecodedAsNegotiated
  BY DEF HeardInv
<1> QED
  BY <1>1, HeardInvariance, PTL

\* Such a conversation has exactly one entry of g_sess_arry, found from both
\* directions.  It is past ACCEPT and knows the version, or, after a CONNECT that
\* came again, what that set.
THEOREM OpenConversationTracked == Spec => []OpenIsTracked
<1>1. TableInv /\ HeardInv => OpenIsTracked
  <2> SUFFICES ASSUME TableInv, HeardInv, NEW c \in Clients, wire[c].heard
               PROVE  /\ Matching(KeyOf(c)) = {0}
                      /\ sess[0].version \in KnownVersions(c)
                      /\ sess[0].state \in KnownStates(c)
    BY FirstSlot DEF OpenIsTracked
  <2>1. Tracked(c)
    BY DEF HeardInv
  <2>2. \A i \in Slots \ {0} : sess[i].key # KeyOf(c)
    BY TnsAssumption DEF TableInv, OnlyFirstEntry, ClosedSession, KeyOf
  <2> QED
    BY <2>1, <2>2, FirstSlot DEF Tracked, Matching
<1> QED
  BY <1>1, HeardInvariance, PTL

----------------------------------------------------------------------------
(***************************************************************************)
(* The refinement.  As every lookup ends at entry 0, at most one           *)
(* connection has a session: the one whose key the entry has.  A packet of *)
(* that connection finds it, and one of another connection makes a session *)
(* and costs that connection its own; what the handler then does is one of *)
(* the actions of ConnectionSessions.                                      *)
(***************************************************************************)

\* The sessions that the table stands for.
SessionOf == [c \in Clients |-> {Seen(sess[i]) : i \in Matching(KeyOf(c))}]

\* The connection whose key entry 0 has is the only one with a session.
LEMMA OneOwner ==
    ASSUME TableInv, NEW c \in Clients
    PROVE  SessionOf[c] = IF sess[0].key = KeyOf(c) THEN {Seen(sess[0])} ELSE {}
<1>1. \A i \in Slots \ {0} : sess[i].key # KeyOf(c)
  BY TnsAssumption DEF TableInv, OnlyFirstEntry, ClosedSession, KeyOf
<1>2. Matching(KeyOf(c)) = IF sess[0].key = KeyOf(c) THEN {0} ELSE {}
  BY <1>1, FirstSlot DEF Matching
<1> QED
  BY <1>2 DEF SessionOf

\* What a lookup finds is the connection's session or one made for it.
LEMMA FoundIsPromised ==
    ASSUME TableInv, NEW c \in Clients, NEW dir \in Dirs
    PROVE  Seen(Found(c, dir)) \in Of!Found(c, dir)
<1>1. NodeIndex(KeyOf(c)) = 0
  BY FindsFirst
<1>2. sess[0] \in Session
  BY FirstSlot DEF TableInv
<1>3. CASE sess[0].key = KeyOf(c)
  <2>1. Matching(KeyOf(c)) # {}
    BY <1>3, FirstSlot DEF Matching
  <2>2. Found(c, dir) = [sess[0] EXCEPT !.cur_dir = dir]
    BY <1>1, <2>1 DEF MustFind, Found
  <2>3. SessionOf[c] = {Seen(sess[0])}
    BY <1>3, OneOwner
  <2>4. Seen(Found(c, dir)) = [Seen(sess[0]) EXCEPT !.cur_dir = dir]
    BY <1>2, <2>2 DEF Seen, Session
  <2> QED
    BY <2>3, <2>4 DEF Of!Found, SessionOf
<1>4. CASE sess[0].key # KeyOf(c)
  <2>1. SessionOf[c] = {}
    BY <1>4, OneOwner
  <2>2. Matching(KeyOf(c)) = {}
    BY <1>4, TnsAssumption
       DEF TableInv, OnlyFirstEntry, ClosedSession, KeyOf, Matching
  <2>3. Found(c, dir) = [sess[0] EXCEPT !.key = KeyOf(c), !.state = "STAT_INIT", !.cur_dir = dir]
    BY <1>1, <2>2 DEF MustFind, Found
  <2>4. Seen(Found(c, dir)) = [state |-> "STAT_INIT", version |-> sess[0].version, cur_dir |-> dir]
    BY <1>2, <2>3 DEF Seen, Session
  <2>5. sess[0].version \in {0} \cup Of!Versions
    BY <1>2 DEF Session, Versions, Of!Versions
  <2> QED
    BY <2>1, <2>4, <2>5 DEF Of!Found, Of!Made, SessionOf
<1> QED
  BY <1>3, <1>4

\* Storing a session for c in entry 0 takes the entry from whoever had it.
LEMMA StoredForOne ==
    ASSUME TableInv, NEW c \in Clients, NEW dir \in Dirs, NEW p \in Payload,
           MainProcess(c, dir, p)
    PROVE  Of!Leaves(c, Seen(sess'[0]))
<1>1. TableInv' /\ sess'[0].key = KeyOf(c)
  BY FirstEntryTaken
<1>2. SessionOf' = [d \in Clients |-> IF d = c THEN {Seen(sess'[0])} ELSE {}]
  <2>1. \A d \in Clients : KeyOf(d)' = KeyOf(d) /\ (KeyOf(d) = KeyOf(c) <=> d = c)
    BY DEF KeyOf
  <2>2. \A i \in Slots \ {0}, d \in Clients : sess'[i].key # KeyOf(d)
    BY <1>1, TnsAssumption DEF TableInv, OnlyFirstEntry, ClosedSession, KeyOf
  <2>3. \A d \in Clients : Matching(KeyOf(d))' = IF d = c THEN {0} ELSE {}
    BY <1>1, <2>1, <2>2, FirstSlot DEF Matching
  <2>4. \A i \in Slots : Seen(sess[i])' = Seen(sess'[i])
    BY DEF Seen
  <2> QED
    BY <2>3, <2>4, FirstSlot DEF SessionOf
<1>3. \A d \in Clients : SessionOf[d] = IF sess[0].key = KeyOf(d) THEN {Seen(sess[0])} ELSE {}
  BY OneOwner
<1>4. CASE SessionOf[c] # {}
  <2>1. sess[0].key = KeyOf(c)
    BY <1>3, <1>4
  <2>2. \A d \in Clients \ {c} : SessionOf[d] = {}
    BY <1>3, <2>1 DEF KeyOf
  <2>3. SessionOf' = [SessionOf EXCEPT ![c] = {Seen(sess'[0])}]
    BY <1>2, <2>2 DEF SessionOf
  <2> QED
    BY <1>4, <2>3 DEF Of!Leaves, SessionOf
<1>5. CASE SessionOf[c] = {}
  <2>1. PICK lost \in Clients : \A d \in Clients \ {lost} : SessionOf[d] = {}
    BY <1>3 DEF KeyOf
  <2>2. SessionOf' = [SessionOf EXCEPT ![lost] = {}, ![c] = {Seen(sess'[0])}]
    BY <1>2, <2>1 DEF SessionOf
  <2> QED
    BY <1>5, <2>2 DEF Of!Leaves, SessionOf
<1> QED
  BY <1>4, <1>5

\* What is printed of a message, and when it is a login.
LEMMA ReportIsSaying ==
    ASSUME NEW s \in Session, NEW p \in Payload, Dispatched(p), s.cur_dir \in Dirs
    PROVE  /\ Report(s, p) \in Of!Sayings(s.version, s.cur_dir)
           /\ Report(s, p) = "login" <=> StartsLogin(s, p)
<1>1. ~ParsesDescriptor(p)
  BY DEF Dispatched, ParsesDescriptor
<1>2. CASE s.version = 313
  <2>1. Report(s, p) = Report313(s, p)
    BY <1>1, <1>2 DEF Report
  <2>2. Report313(s, p) \in Of!Sayings(313, s.cur_dir)
    BY DEF Report313, Of!Sayings, Of!Side, Of!Requests, REQUEST, Payload
  <2>3. Report313(s, p) = "login" <=> p.id = "OCI" /\ p.sub = "73"
    BY DEF Report313, Payload
  <2> QED
    BY <1>2, <2>1, <2>2, <2>3 DEF StartsLogin
<1>3. CASE s.version = 314
  <2>1. Report(s, p) = Report314(s, p)
    BY <1>1, <1>3 DEF Report
  <2>2. Report314(s, p) \in Of!Sayings(314, s.cur_dir)
    BY DEF Report314, Of!Sayings, Of!Side, Of!Requests, REQUEST, Payload
  <2>3. Report314(s, p) # "login"
    BY DEF Report314, Payload
  <2> QED
    BY <1>3, <2>1, <2>2, <2>3 DEF StartsLogin
<1>4. CASE s.version \notin {313, 314}
  <2>1. Report(s, p) = "nothing"
    BY <1>1, <1>4 DEF Report
  <2> QED
    BY <1>4, <2>1 DEF Of!Sayings, StartsLogin
<1> QED
  BY <1>2, <1>3, <1>4

\* A packet that is no message is not looked up, and only a descriptor prints.
LEMMA NoMessage ==
    ASSUME NEW s, NEW p, ~Dispatched(p)
    PROVE  /\ Report(s, p) \in {"nothing", "parameters"}
           /\ Report(s, p) = "parameters" => ParsesDescriptor(p)
  BY DEF Report

\* What is seen of a session with another version and state.
LEMMA SeenUpdate ==
    ASSUME NEW s \in Session, NEW v, NEW link
    PROVE  Seen([s EXCEPT !.version = v, !.state = link])
             = [state |-> link, version |-> v, cur_dir |-> s.cur_dir]
<1> DEFINE u == [s EXCEPT !.version = v, !.state = link]
<1>1. u.version = v /\ u.state = link /\ u.cur_dir = s.cur_dir
  BY DEF Session
<1> HIDE DEF u
<1>2. Seen(u) = [state |-> link, version |-> v, cur_dir |-> s.cur_dir]
  BY <1>1 DEF Seen
<1> QED
  BY <1>2 DEF u

\* Every packet does what ConnectionSessions lets it.
LEMMA ParsedIsPromised ==
    ASSUME TableInv, NEW c \in Clients, NEW dir \in Dirs, NEW p \in Payload, Parsed(c, dir, p)
    PROVE  Of!Next
<1> DEFINE s == Found(c, dir)
           t == Seen(s)
           said == Report(s, p)
<1>1. MainProcess(c, dir, p)
  BY DEF Parsed
<1>2. /\ sess'[0] = Parse(s, p)
      /\ last' = [conn |-> c, dir |-> dir, said |-> said,
                  as |-> IF Dispatched(p) THEN s.version ELSE NotDispatched]
  BY <1>1, MainProcessOnFirst, FirstEntryTaken
<1>3. s \in Session /\ s.cur_dir = dir
  BY FindsFirst
<1>4. t \in Of!Found(c, dir) /\ dir \in Of!Directions
  BY FoundIsPromised DEF Dirs, REQUEST, RESPONSE, Of!Directions, Of!Requests, Of!Responses
<1>5. Of!Leaves(c, Seen(Parse(s, p)))
  BY <1>1, <1>2, StoredForOne
<1>6. ~Dispatched(p) => /\ Of!Says(c, dir, said, Of!None)
                        /\ said \in {"nothing", "parameters"}
                        /\ said = "parameters" => ParsesDescriptor(p)
  BY <1>2, NoMessage DEF Of!Says, Of!None, NotDispatched
<1> HIDE DEF s, said
<1>7. ASSUME ~Dispatched(p), ~ParsesDescriptor(p), Parse(s, p) = s PROVE Of!Next
  <2>1. Of!Passes(c, dir, t)
    BY <1>5, <1>6, <1>7 DEF Of!Passes
  <2> QED
    BY <1>4, <2>1 DEF Of!Next
<1>8. CASE ~p.whole
  <2>1. Parse(s, p) = s /\ ~Dispatched(p) /\ ~ParsesDescriptor(p)
    BY <1>8 DEF Parse, Dispatched, ParsesDescriptor
  <2> QED
    BY <1>7, <2>1
<1>9. CASE p.whole /\ p.type = "CONNECT"
  <2>1. ~Dispatched(p) /\ Parse(s, p) = ConnectHandle(s, p)
    BY <1>9 DEF Dispatched, Parse
  <2>2. CASE ParsesDescriptor(p)
    <3>1. Parse(s, p) = [s EXCEPT !.version = p.version, !.state = "STAT_CONNECT"]
      BY <2>1, <2>2 DEF ConnectHandle
    <3>2. Seen(Parse(s, p)) = [state |-> "STAT_CONNECT", version |-> p.version, cur_dir |-> t.cur_dir]
      <4>1. t.cur_dir = s.cur_dir
        BY DEF Seen
      <4> QED
        BY <1>3, <3>1, <4>1, SeenUpdate
    <3>3. dir = Of!Requests /\ p.version \in Of!Versions
      BY <1>9 DEF Parsed, Payload, Versions, Of!Versions, REQUEST, Of!Requests
    <3>4. Of!Connects(c, t)
      BY <1>5, <1>6, <2>1, <3>2, <3>3 DEF Of!Connects
    <3> QED
      BY <1>4, <3>3, <3>4 DEF Of!Next
  <2>3. CASE ~ParsesDescriptor(p)
    BY <1>7, <2>1, <2>3 DEF ConnectHandle
  <2> QED
    BY <2>2, <2>3
<1>10. CASE p.whole /\ p.type = "ACCEPT"
  <2>1. ~Dispatched(p) /\ ~ParsesDescriptor(p) /\ Parse(s, p) = AcceptHandle(s, p)
    BY <1>10 DEF Dispatched, ParsesDescriptor, Parse
  <2>2. CASE HasBody(p)
    <3>1. Parse(s, p) = [s EXCEPT !.version = p.version, !.state = "STAT_ACCEPT"]
      BY <2>1, <2>2 DEF AcceptHandle
    <3>2. Seen(Parse(s, p)) = [state |-> "STAT_ACCEPT", version |-> p.version, cur_dir |-> t.cur_dir]
      <4>1. t.cur_dir = s.cur_dir
        BY DEF Seen
      <4> QED
        BY <1>3, <3>1, <4>1, SeenUpdate
    <3>3. dir = Of!Responses /\ p.version \in Of!Versions
      BY <1>10 DEF Parsed, Payload, Versions, Of!Versions, RESPONSE, Of!Responses
    <3>4. said = "nothing"
      BY <1>6, <2>1
    <3>5. Of!IsAccepted(c, t)
      BY <1>5, <1>6, <2>1, <3>2, <3>3, <3>4 DEF Of!IsAccepted
    <3> QED
      BY <1>4, <3>3, <3>5 DEF Of!Next
  <2>3. CASE ~HasBody(p)
    BY <1>7, <2>1, <2>3 DEF AcceptHandle
  <2> QED
    BY <2>2, <2>3
<1>11. CASE p.whole /\ p.type = "REFUSE"
  <2>1. ~Dispatched(p) /\ ~ParsesDescriptor(p) /\ Parse(s, p) = RefuseHandle(s, p)
    BY <1>11 DEF Dispatched, ParsesDescriptor, Parse
  <2>2. CASE HasBody(p)
    <3>1. Parse(s, p) = [s EXCEPT !.state = "STAT_REFUSE"]
      BY <2>1, <2>2 DEF RefuseHandle
    <3>2. Seen(Parse(s, p)) = [t EXCEPT !.state = "STAT_REFUSE"]
      BY <1>3, <3>1 DEF Seen, Session
    <3>3. dir = Of!Responses
      BY <1>11 DEF Parsed, RESPONSE, Of!Responses
    <3>4. said = "nothing"
      BY <1>6, <2>1
    <3>5. Of!IsRefused(c, t)
      BY <1>5, <1>6, <2>1, <3>2, <3>3, <3>4 DEF Of!IsRefused
    <3> QED
      BY <1>4, <3>3, <3>5 DEF Of!Next
  <2>3. CASE ~HasBody(p)
    BY <1>7, <2>1, <2>3 DEF RefuseHandle
  <2> QED
    BY <2>2, <2>3
<1>12. CASE p.whole /\ p.type = "DATA"
  <2>1. ~ParsesDescriptor(p) /\ Parse(s, p) = DataHandle(s, p)
    BY <1>12 DEF ParsesDescriptor, Parse
  <2>2. CASE Dispatched(p)
    <3>1. HasBody(p)
      BY <2>2 DEF Dispatched, HasBody, TNS_HEAD_LEN, OFFSET_TNS_DATA_OFFSET, Payload, Lengths
    <3>2. said \in Of!Sayings(s.version, dir) /\ (said = "login" <=> StartsLogin(s, p))
      BY <1>3, <2>2, ReportIsSaying DEF said
    <3>3. Parse(s, p) = [s EXCEPT !.state = IF said = "login" THEN "stat_loging_in"
                                                               ELSE "STAT_DATA"]
      BY <2>1, <3>1, <3>2 DEF DataHandle
    <3>4. Seen(Parse(s, p)) = [t EXCEPT !.state = IF said = "login" THEN "stat_loging_in"
                                                                     ELSE "STAT_DATA"]
      BY <1>3, <3>3 DEF Seen, Session
    <3>5. Of!Says(c, dir, said, s.version)
      BY <1>2, <2>2 DEF Of!Says
    <3>6. t.version = s.version
      BY DEF Seen
    <3> HIDE DEF t
    <3>7. Of!SendsMessage(c, dir, t)
      BY <1>5, <3>2, <3>4, <3>5, <3>6 DEF Of!SendsMessage
    <3> QED
      BY <1>4, <3>7 DEF Of!Next
  <2>3. CASE ~Dispatched(p) /\ HasBody(p)
    <3>1. Parse(s, p) = [s EXCEPT !.state = "STAT_DATA"]
      BY <2>1, <2>3 DEF DataHandle, StartsLogin
    <3>2. Seen(Parse(s, p)) = [t EXCEPT !.state = "STAT_DATA"]
      BY <1>3, <3>1 DEF Seen, Session
    <3>3. said = "nothing"
      BY <1>6, <2>1, <2>3
    <3>4. Of!SendsData(c, dir, t)
      BY <1>5, <1>6, <2>3, <3>2, <3>3 DEF Of!SendsData
    <3> QED
      BY <1>4, <3>4 DEF Of!Next
  <2>4. CASE ~Dispatched(p) /\ ~HasBody(p)
    BY <1>7, <2>1, <2>4 DEF DataHandle
  <2> QED
    BY <2>2, <2>3, <2>4
<1>13. CASE p.whole /\ p.type \in {"RESEND", "other"}
  <2>1. ~Dispatched(p) /\ ~ParsesDescriptor(p) /\ Parse(s, p) = s
    BY <1>13 DEF Dispatched, ParsesDescriptor, Parse
  <2> QED
    BY <1>7, <2>1
<1> QED
  BY <1>8, <1>9, <1>10, <1>11, <1>12, <1>13 DEF Payload

\* However large g_sess_arry is and however the packets of both directions of any
\* number of connections interleave, each is parsed with the session of its own
\* connection, as that connection left it, or with a new one, which may cost
\* another connection its session; no session is changed or doubled otherwise
\* (sess_must_find_node, mainprocess).
THEOREM SessionsRefinement == Spec => ImplementsSessions
<1>1. Init => Of!Init
  <2> SUFFICES ASSUME Init PROVE Of!Init
    OBVIOUS
  <2>1. sess[0].key = <<NoEndpoint, NoEndpoint>>
    BY FirstSlot DEF Init, SessInit, ClosedSession
  <2>2. \A c \in Clients : SessionOf[c] = {}
    BY <2>1, TableInit, OneOwner, TnsAssumption DEF KeyOf
  <2>3. SessionOf = [c \in Clients |-> {}]
    BY <2>2 DEF SessionOf
  <2> QED
    BY <2>3 DEF Init, Of!Init, SessionOf, REQUEST, Of!Requests, NotDispatched, Of!None
<1>2. TableInv /\ Conversations /\ [Next]_vars => [Of!Next]_(Of!vars)
  <2> SUFFICES ASSUME TableInv, Conversations, [Next]_vars PROVE [Of!Next]_(Of!vars)
    OBVIOUS
  <2>1. ASSUME UNCHANGED <<sess, last>> PROVE UNCHANGED Of!vars
    BY <2>1 DEF Of!vars, Matching, Seen, KeyOf
  <2>2. ASSUME NEW c \in Clients, Packet(c) PROVE [Of!Next]_(Of!vars)
    <3>1. CASE Silent(c)
      BY <2>1, <3>1, SilentStep
    <3> QED
      BY <2>2, <3>1, PacketParses, ParsedIsPromised
  <2>3. CASE UNCHANGED vars
    BY <2>1, <2>3 DEF vars
  <2> QED
    BY <2>2, <2>3 DEF Next, Crashed
<1> QED
  BY <1>1, <1>2, OneUsableEntry, PTL DEF Spec, ImplementsSessions, Of!Spec
=============================================================================
