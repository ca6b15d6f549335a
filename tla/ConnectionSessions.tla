------------------------- MODULE ConnectionSessions -------------------------
(***************************************************************************)
(* What the session table is for: each connection has at most one session, *)
(* and a packet is parsed with the session of its own connection, found    *)
(* from both directions and as that connection's last packet left it.  The *)
(* first packet of a connection makes a session, which may cost one other  *)
(* connection its own: the table is finite.  No packet does anything else  *)
(* to the session of another connection.                                   *)
(***************************************************************************)
EXTENDS Integers

CONSTANTS Clients, NoEndpoint

VARIABLES
    session,    \* session[c]: the session of c's connection, a set of at most one
    last        \* the last packet: whose, which way, what was printed, and the
                \* version it was looked up under

vars == <<session, last>>

Requests == "REQUEST"
Responses == "RESPONSE"
Directions == {Requests, Responses}

Versions == {312, 313, 314}
None == -1

\* What a packet finds: the session of its connection, or one made for it.  What
\* version a new one has is not promised.
Made(dir) == {[state |-> "STAT_INIT", version |-> v, cur_dir |-> dir] : v \in {0} \cup Versions}

Found(c, dir) ==
    IF session[c] = {} THEN Made(dir) ELSE {[s EXCEPT !.cur_dir = dir] : s \in session[c]}

\* The packet leaves it as s.
Leaves(c, s) ==
    IF session[c] # {} THEN session' = [session EXCEPT ![c] = {s}]
    ELSE \E lost \in Clients : session' = [session EXCEPT ![lost] = {}, ![c] = {s}]

Says(c, dir, what, version) ==
    last' = [conn |-> c, dir |-> dir, said |-> what, as |-> version]

\* What a message may be found to say, by version and sender.
Side(dir) == IF dir = Requests THEN {"client platform", "client version"}
                               ELSE {"server platform", "server version"}
Sayings(version, dir) ==
    CASE version = 313 -> {"nothing", "result", "sql", "login"} \cup Side(dir)
      [] version = 314 -> {"nothing", "result", "sql"} \cup Side(dir)
      [] OTHER -> {"nothing"}

----------------------------------------------------------------------------
\* What a packet does to the session s it is parsed with.

\* A packet without effect.
Passes(c, dir, s) == Says(c, dir, "nothing", None) /\ Leaves(c, s)

Connects(c, s) ==
    /\ \E what \in {"nothing", "parameters"} : Says(c, Requests, what, None)
    /\ \E v \in Versions : Leaves(c, [state |-> "STAT_CONNECT", version |-> v, cur_dir |-> s.cur_dir])

IsAccepted(c, s) ==
    /\ Says(c, Responses, "nothing", None)
    /\ \E v \in Versions : Leaves(c, [state |-> "STAT_ACCEPT", version |-> v, cur_dir |-> s.cur_dir])

IsRefused(c, s) ==
    /\ Says(c, Responses, "nothing", None)
    /\ Leaves(c, [s EXCEPT !.state = "STAT_REFUSE"])

\* Data too short for a message.
SendsData(c, dir, s) ==
    /\ Says(c, dir, "nothing", None)
    /\ Leaves(c, [s EXCEPT !.state = "STAT_DATA"])

\* The session is logging in when, and as long as, the last message said so.
SendsMessage(c, dir, s) ==
    \E what \in Sayings(s.version, dir) :
        /\ Says(c, dir, what, s.version)
        /\ Leaves(c, [s EXCEPT !.state = IF what = "login" THEN "stat_loging_in" ELSE "STAT_DATA"])

Init ==
    /\ session = [c \in Clients |-> {}]
    /\ last = [conn |-> NoEndpoint, dir |-> Requests, said |-> "nothing", as |-> None]

Next ==
    \E c \in Clients :
        \/ \E s \in Found(c, Requests) : Connects(c, s)
        \/ \E s \in Found(c, Responses) : IsAccepted(c, s) \/ IsRefused(c, s)
        \/ \E dir \in Directions : \E s \in Found(c, dir) :
             Passes(c, dir, s) \/ SendsData(c, dir, s) \/ SendsMessage(c, dir, s)

Spec == Init /\ [][Next]_vars
=============================================================================
