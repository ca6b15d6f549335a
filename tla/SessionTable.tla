---------------------------- MODULE SessionTable ----------------------------
(***************************************************************************)
(* The session table of session.c: g_sess_arry and the only operation on   *)
(* it, sess_must_find_node.  Only process_thread uses it, so there is no   *)
(* locking.  update_time is left out: it is written when a session is      *)
(* found, and read only by code that never runs (see MustFind).            *)
(***************************************************************************)
EXTENDS Integers, FiniteSets, FiniteSetsExt

CONSTANTS
    MAX_SESS_NODE,  \* the number of entries of g_sess_arry
    NoEndpoint      \* the address and port of a zeroed key

ASSUME SessionAssumption == MAX_SESS_NODE \in Nat \ {0}

VARIABLE sess       \* g_sess_arry

Slots == 0..MAX_SESS_NODE - 1

REQUEST == "REQUEST"
RESPONSE == "RESPONSE"

\* The states the code sets; STAT_RESEND is declared and never set.
LinkStates == {"STAT_CLOSE", "STAT_INIT", "STAT_CONNECT", "STAT_ACCEPT",
               "STAT_REFUSE", "STAT_DATA"}
LoginStates == {"stat_loging_in", "stat_login_failed", "stat_login_success"}

\* A key is the pair of endpoints <<sip:sport, dip:dport>>.
ClosedSession == [key |-> <<NoEndpoint, NoEndpoint>>, state |-> "STAT_CLOSE",
                  version |-> 0, cur_dir |-> REQUEST]

\* sess_init
SessInit == sess = [i \in Slots |-> ClosedSession]

\* Mutant: the endpoints of a response are not swapped.
UnswappedKey(skey, dir) == skey

\* Both directions of a connection have the key of its requests.
SessKey(skey, dir) == IF dir = REQUEST THEN skey ELSE <<skey[2], skey[1]>>

Matching(key) == {i \in Slots : sess[i].key = key}

(***************************************************************************)
(* sess_must_find_node: the first entry with the key, or else entry 0.     *)
(* The test for a closed entry is `if (tmp->state == STAT_CLOSE);`: the    *)
(* block behind it does not depend on it and leaves the loop in its first  *)
(* iteration, so neither the comparison of ages nor the reset of the       *)
(* oldest entry is ever reached.  The claimed entry gets a new key and     *)
(* state and keeps everything else.                                        *)
(***************************************************************************)
NodeIndex(key) == IF Matching(key) # {} THEN Min(Matching(key)) ELSE 0

\* Mutant: a claimed entry keeps the key it had.
ClaimWithoutKey(key) ==
    IF Matching(key) # {} THEN sess[NodeIndex(key)]
    ELSE [sess[NodeIndex(key)] EXCEPT !.state = "STAT_INIT"]

MustFind(key) ==
    IF Matching(key) # {} THEN sess[NodeIndex(key)]
    ELSE [sess[NodeIndex(key)] EXCEPT !.key = key, !.state = "STAT_INIT"]
=============================================================================
