----------------------------- MODULE TnsSession -----------------------------
(***************************************************************************)
(* The parser: mainprocess (process.c), which finds the session of a       *)
(* packet, and TNS_protocol_parse with the message handlers it dispatches  *)
(* to (oracle_tns.c), which update the session and print what they find.   *)
(* Packets come from TNS conversations between clients and the monitored   *)
(* server; the variable wire is that environment.  A packet may reach the  *)
(* parser twice, as TCP sends it again, or not at all, because the         *)
(* interface or the queue of module Pipeline had no room for it.           *)
(*                                                                         *)
(* A step is one call of mainprocess; process_thread makes them one at a   *)
(* time.  Payload bytes are reduced to what the handlers test.  The text   *)
(* and the tree that tns_connect_handle allocates and never frees are left *)
(* out, as nothing reads them again.                                       *)
(***************************************************************************)
EXTENDS SessionTable

CONSTANTS
    Clients,        \* client endpoints, one conversation at a time each
    Server          \* g_target_ip:g_target_port

ASSUME TnsAssumption ==
    /\ Server \notin Clients
    /\ NoEndpoint \notin Clients \cup {Server}

VARIABLES
    wire,       \* wire[c]: c's conversation, and whether it was heard alone
    last,       \* the last packet parsed: whose, which way, and what came of it
    crashed     \* tns_connect_handle has followed a null pointer

vars == <<sess, wire, last, crashed>>

TNS_HEAD_LEN == 8
OFFSET_TNS_DATA_OFFSET == 4

Versions == {312, 313, 314}

\* last.as of a packet that no table lookup by version was made for.
NotDispatched == -1

\* Lengths around the two bounds the handlers test.
Lengths == {TNS_HEAD_LEN, TNS_HEAD_LEN + OFFSET_TNS_DATA_OFFSET, 64}

\* What a connect descriptor has, as far as tns_connect_handle can tell:
\* text that cJSON_Parse refuses, no DESCRIPTION, a DESCRIPTION without
\* CONNECT_DATA, a CONNECT_DATA without CID, or all of them.
Descriptors == {"unparsable", "noDescription", "noConnectData", "noCid", "complete"}

\* The message ids and sub-ids that are told apart.
Ids == {"SNS", "SP", "OCI", "RS", "other"}
Subs == {"5e", "73", "04", "other"}

\* A payload; whole: the TNS header's length is the TCP payload's.
Payload == [type : {"CONNECT", "ACCEPT", "REFUSE", "DATA", "RESEND", "other"},
            whole : BOOLEAN, len : Lengths, version : Versions,
            descr : Descriptors \cup {"none"},
            id : Ids, sub : Subs]

Plain == [type |-> "other", whole |-> TRUE, len |-> 64, version |-> 312,
          descr |-> "none", id |-> "other", sub |-> "other"]

----------------------------------------------------------------------------
\* The handlers: session s after packet p.

\* Every handler drops a packet that is only a header.
HasBody(p) == p.len > TNS_HEAD_LEN

\* tns_connect_handle returns early when the descriptor is empty.
ParsesDescriptor(p) == p.type = "CONNECT" /\ p.whole /\ HasBody(p) /\ p.descr # "none"

\* tns_data_handle looks for a handler of the message when there can be one.
Dispatched(p) == /\ p.type = "DATA" /\ p.whole
                 /\ p.len > TNS_HEAD_LEN + OFFSET_TNS_DATA_OFFSET

\* tns_313_OCI; tns_314_OCI does not look for logins.
StartsLogin(s, p) == Dispatched(p) /\ s.version = 313 /\ p.id = "OCI" /\ p.sub = "73"

ConnectHandle(s, p) ==
    IF ParsesDescriptor(p)
    THEN [s EXCEPT !.version = p.version, !.state = "STAT_CONNECT"]
    ELSE s

\* Mutant: tns_accept_handle leaves the version CONNECT offered.
AcceptOffered(s, p) ==
    IF HasBody(p) THEN [s EXCEPT !.state = "STAT_ACCEPT"] ELSE s

AcceptHandle(s, p) ==
    IF HasBody(p) THEN [s EXCEPT !.version = p.version, !.state = "STAT_ACCEPT"] ELSE s

RefuseHandle(s, p) ==
    IF HasBody(p) THEN [s EXCEPT !.state = "STAT_REFUSE"] ELSE s

\* tns_data_handle sets STAT_DATA first, so a login lasts until the next
\* message with a body, whatever it is.
DataHandle(s, p) ==
    IF HasBody(p)
    THEN [s EXCEPT !.state = IF StartsLogin(s, p) THEN "stat_loging_in" ELSE "STAT_DATA"]
    ELSE s

\* TNS_protocol_parse: a payload whose length is not the header's is ignored,
\* and so is a type without a handler (RESEND's does nothing).
Parse(s, p) ==
    IF ~p.whole THEN s
    ELSE CASE p.type = "CONNECT" -> ConnectHandle(s, p)
           [] p.type = "ACCEPT"  -> AcceptHandle(s, p)
           [] p.type = "REFUSE"  -> RefuseHandle(s, p)
           [] p.type = "DATA"    -> DataHandle(s, p)
           [] OTHER              -> s

\* What the message handlers print, as the sender's when it matters.
Report313(s, p) ==
    CASE p.id = "RS" -> "result"
      [] p.id = "OCI" /\ p.sub = "5e" -> "sql"
      [] p.id = "OCI" /\ p.sub = "73" -> "login"
      [] p.id = "SP"  -> IF s.cur_dir = REQUEST THEN "client platform" ELSE "server platform"
      [] p.id = "SNS" -> IF s.cur_dir = REQUEST THEN "client version" ELSE "server version"
      [] OTHER -> "nothing"

Report314(s, p) ==
    CASE p.id = "RS" /\ p.sub \in {"5e", "04"} -> "result"
      [] p.id = "OCI" /\ p.sub = "5e" -> "sql"
      [] p.id = "SP"  -> IF s.cur_dir = REQUEST THEN "client platform" ELSE "server platform"
      [] p.id = "SNS" -> IF s.cur_dir = REQUEST THEN "client version" ELSE "server version"
      [] OTHER -> "nothing"

\* msg_data_id_handle chooses by the session's version; CONNECT prints its
\* parameters (SERVICE_NAME before it looks for CID).
Report(s, p) ==
    CASE ParsesDescriptor(p) /\ p.descr \in {"noCid", "complete"} -> "parameters"
      [] Dispatched(p) /\ s.version = 313 -> Report313(s, p)
      [] Dispatched(p) /\ s.version = 314 -> Report314(s, p)
      [] OTHER -> "nothing"

----------------------------------------------------------------------------
\* Mutant: the direction is noted after the packet is parsed.
NoteDirectionLate(c, dir, p) ==
    LET skey  == IF dir = REQUEST THEN <<c, Server>> ELSE <<Server, c>>
        key   == SessKey(skey, dir)
        s     == MustFind(key)
    IN  /\ ~crashed
        /\ sess' = [sess EXCEPT ![NodeIndex(key)] = [Parse(s, p) EXCEPT !.cur_dir = dir]]
        /\ last' = [conn |-> c, dir |-> dir, said |-> Report(s, p),
                    as |-> IF Dispatched(p) THEN s.version ELSE NotDispatched]

\* mainprocess for a packet of client c's connection: find the session, note
\* the direction, parse.
MainProcess(c, dir, p) ==
    LET skey  == IF dir = REQUEST THEN <<c, Server>> ELSE <<Server, c>>
        key   == SessKey(skey, dir)
        s     == [MustFind(key) EXCEPT !.cur_dir = dir]
    IN  /\ ~crashed
        /\ sess' = [sess EXCEPT ![NodeIndex(key)] = Parse(s, p)]
        /\ last' = [conn |-> c, dir |-> dir, said |-> Report(s, p),
                    as |-> IF Dispatched(p) THEN s.version ELSE NotDispatched]

\* The tests for CONNECT_DATA and CID test DESCRIPTION again.
LookUp(p) == crashed' = (ParsesDescriptor(p) /\ p.descr \in {"noConnectData", "noCid"})

----------------------------------------------------------------------------
\* The conversations.

\* offered: the version in the CONNECT; version: what the ACCEPT settled; heard:
\* the ACCEPT was parsed, and no other client's packet since; again: it is
\* heard, and its CONNECT was parsed once more after the ACCEPT.
Idle == [phase |-> "idle", offered |-> 0, version |-> 0, heard |-> FALSE, again |-> FALSE]

\* c's conversation after a packet of it was parsed.
Heard(c, conversation) ==
    wire' = [d \in Clients |-> IF d = c THEN conversation
                                       ELSE [wire[d] EXCEPT !.heard = FALSE, !.again = FALSE]]

Resending == [Idle EXCEPT !.phase = "resend"]
Connecting(offered) == [Idle EXCEPT !.phase = "connecting", !.offered = offered]
Opened(c, version, heard) ==
    [phase |-> "open", offered |-> wire[c].offered, version |-> version,
     heard |-> heard, again |-> FALSE]

\* A CONNECT opens a conversation or repeats the request after a RESEND.  The
\* one TCP sends again is the same, and may be seen as late as after the ACCEPT.
Offers(c) == IF wire[c].phase \in {"idle", "resend"} THEN Versions ELSE {wire[c].offered}

Connect(c) ==
    \E v \in Offers(c), d \in Descriptors \cup {"none"} :
        LET p == [Plain EXCEPT !.type = "CONNECT", !.version = v, !.descr = d]
        IN  /\ MainProcess(c, REQUEST, p)
            /\ LookUp(p)
            /\ Heard(c, IF wire[c].phase = "open" THEN [wire[c] EXCEPT !.again = wire[c].heard]
                                                 ELSE Connecting(v))

Resend(c) ==
    /\ wire[c].phase = "connecting"
    /\ \E l \in Lengths : MainProcess(c, RESPONSE, [Plain EXCEPT !.type = "RESEND", !.len = l])
    /\ Heard(c, Resending)
    /\ UNCHANGED crashed

\* The ACCEPT that is sent again is the same one.
Accept(c) ==
    /\ \E v \in Versions :
         /\ \/ wire[c].phase = "connecting"
            \/ wire[c].phase = "open" /\ wire[c].version = v
         /\ MainProcess(c, RESPONSE, [Plain EXCEPT !.type = "ACCEPT", !.version = v])
         /\ Heard(c, Opened(c, v, TRUE))
    /\ UNCHANGED crashed

Refuse(c) ==
    /\ wire[c].phase = "connecting"
    /\ MainProcess(c, RESPONSE, [Plain EXCEPT !.type = "REFUSE"])
    /\ Heard(c, Idle)
    /\ UNCHANGED crashed

\* DATA: a message, or one too short for any or a TCP segment of a longer packet.
Message(id, sub) == [Plain EXCEPT !.type = "DATA", !.id = id, !.sub = sub]
Piece(whole, len) == [Plain EXCEPT !.type = "DATA", !.whole = whole, !.len = len]

Data(c, dir) ==
    /\ wire[c].phase = "open"
    /\ \/ \E id \in Ids, sub \in Subs : MainProcess(c, dir, Message(id, sub))
       \/ \E whole \in BOOLEAN, len \in Lengths : MainProcess(c, dir, Piece(whole, len))
    /\ Heard(c, wire[c])
    /\ UNCHANGED crashed

\* The message types without a handler: ACK, REDIRECT, ABORT, MARKER, ...
Unhandled(c, dir) ==
    /\ wire[c].phase # "idle"
    /\ MainProcess(c, dir, Plain)
    /\ Heard(c, wire[c])
    /\ UNCHANGED crashed

\* A packet that the parser does not get.
Unseen(c) ==
    /\ \/ /\ wire[c].phase \in {"idle", "resend"}
          /\ \E v \in Versions : wire' = [wire EXCEPT ![c] = Connecting(v)]
       \/ /\ wire[c].phase = "connecting"
          /\ wire' = [wire EXCEPT ![c] = Resending]
       \/ /\ wire[c].phase = "connecting"
          /\ \E v \in Versions : wire' = [wire EXCEPT ![c] = Opened(c, v, FALSE)]
    /\ UNCHANGED <<sess, last, crashed>>

\* A lost REFUSE, or the connection ends; the segments that end it carry no
\* TNS packet.
Close(c) ==
    /\ wire[c].phase # "idle"
    /\ wire' = [wire EXCEPT ![c] = Idle]
    /\ UNCHANGED <<sess, last, crashed>>

Init ==
    /\ SessInit
    /\ wire = [c \in Clients |-> Idle]
    /\ last = [conn |-> NoEndpoint, dir |-> REQUEST, said |-> "nothing", as |-> NotDispatched]
    /\ crashed = FALSE

Packet(c) ==
    \/ Connect(c) \/ Resend(c) \/ Accept(c) \/ Refuse(c)
    \/ \E dir \in {REQUEST, RESPONSE} : Data(c, dir) \/ Unhandled(c, dir)
    \/ Unseen(c) \/ Close(c)

\* The process has ended; only the conversations go on.
Crashed == crashed /\ UNCHANGED vars

Next ==
    \/ \E c \in Clients : Packet(c)
    \/ Crashed

Spec == Init /\ [][Next]_vars

----------------------------------------------------------------------------
KeyOf(c) == <<c, Server>>

\* Every key is a request's, with the client first.
Session == [key : {<<NoEndpoint, NoEndpoint>>} \cup {KeyOf(c) : c \in Clients},
            state : LinkStates \cup LoginStates,
            version : {0} \cup Versions, cur_dir : {REQUEST, RESPONSE}]

TypeOK ==
    /\ sess \in [Slots -> Session]
    /\ wire \in [Clients -> [phase : {"idle", "connecting", "resend", "open"},
                            offered : {0} \cup Versions, version : {0} \cup Versions,
                            heard : BOOLEAN, again : BOOLEAN]]
    /\ last.conn \in Clients \cup {NoEndpoint}
    /\ last.as \in {NotDispatched, 0} \cup Versions
    /\ crashed \in BOOLEAN

\* What the session of a conversation that was heard may hold: what the ACCEPT
\* settled, or what CONNECT left there if it came again.
KnownVersions(c) == {wire[c].version} \cup (IF wire[c].again THEN {wire[c].offered} ELSE {})
KnownStates(c) == {"STAT_ACCEPT", "STAT_DATA", "stat_loging_in"}
                    \cup (IF wire[c].again THEN {"STAT_CONNECT"} ELSE {})

\* A message is looked up under the version its own conversation negotiated if
\* the ACCEPT was parsed and no other connection's packet since: the version
\* comes from that ACCEPT, not from an earlier owner of the entry, from the time
\* before a RESEND, or from an ACCEPT or DATA sent again.  Only its own CONNECT,
\* parsed again after the ACCEPT, may bring back the version that it offered.
DecodedAsNegotiated ==
    last.as # NotDispatched /\ wire[last.conn].heard => last.as \in KnownVersions(last.conn)

\* The version stays the negotiated one also when the CONNECT was seen again
\* after the ACCEPT (README.md:2, "Parse the TNS protocol, extract connection
\* parameters, login results, and sql").
NegotiatedVersionStays ==
    last.as # NotDispatched /\ wire[last.conn].heard => last.as = wire[last.conn].version

\* A conversation that was heard has exactly one entry, found from both
\* directions, and the entry knows the version and that it is past ACCEPT, or,
\* after a CONNECT that came again, what that offered.
OpenIsTracked ==
    \A c \in Clients : wire[c].heard =>
        \E i \in Slots :
            /\ Matching(KeyOf(c)) = {i}
            /\ sess[i].version \in KnownVersions(c)
            /\ sess[i].state \in KnownStates(c)

\* What is printed as the client's comes from the client and what is printed
\* as the server's from the server, although the handlers know the sender
\* only through the session, which other packets use too.
ReportNamesSender ==
    /\ last.said \in {"client platform", "client version", "parameters"} => last.dir = REQUEST
    /\ last.said \in {"server platform", "server version"} => last.dir = RESPONSE

\* A session in use makes room for another only when no entry is closed
\* (session.c:47, "get a empty sess and set the key"; session.c:7, "If the
\* array is full, reset the oldest session").
EmptySlotFirst ==
    [][\A i \in Slots : sess[i].state # "STAT_CLOSE" /\ sess'[i].key # sess[i].key
          => \A j \in Slots : sess[j].state # "STAT_CLOSE"]_vars

\* What ConnectionSessions sees of an entry.
Seen(s) == [state |-> s.state, version |-> s.version, cur_dir |-> s.cur_dir]

Of == INSTANCE ConnectionSessions
        WITH session <- [c \in Clients |-> {Seen(sess[i]) : i \in Matching(KeyOf(c))}]

\* However the packets of both directions of several connections interleave in
\* the one table, each is parsed with the session of its own connection as that
\* connection left it; the session may be lost to a new connection, and with it
\* the next packet starts anew, but never changed or doubled (session.c:5-8).
ImplementsSessions == Of!Spec

\* cJSON_GetObjectItem is called on an object (cJSON.h:78, "Get item "string"
\* from object"), never on the null pointer an earlier lookup returned.
ItemsOfObjects == ~crashed
=============================================================================
