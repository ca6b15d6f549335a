---------------------------- MODULE HandlerText -----------------------------
(***************************************************************************)
(* The two conversions of text in oracle_tns.c, a step per turn of their   *)
(* loops: parse_connect_data_to_json, which tns_connect_handle calls for   *)
(* the descriptor in a CONNECT, and parse_continuous_visible_characters,   *)
(* by which the handlers of DATA find an SQL text or a status, with what   *)
(* tns_313_OCI and tns_313_RS then print.  The variables are the locals of *)
(* the call that is running.                                               *)
(***************************************************************************)
EXTENDS ConnectDescriptor

CONSTANTS
    Chars,          \* characters
    Descriptors,    \* descriptors that clients send: [text, json, tree], of
                    \* which the code sees the text
    OtherTexts,     \* other connect data
    Messages,       \* lengths of TNS messages behind their header
    TNS_HEAD_LEN,
    Capacity        \* size of sql_str or sql_res

ASSUME TextAssumption ==
    /\ \A d \in Descriptors :
         d.text \in Seq(Chars) /\ d.json \in Seq(Chars) /\ IsDescriptor(d)
    /\ OtherTexts \subseteq Seq(Chars) \ {<<>>}
    /\ {Brace, EndBrace, ":", Comma, Quote} \subseteq Chars
    /\ Messages \subseteq Nat /\ TNS_HEAD_LEN \in Nat
    /\ Capacity \in Nat \ {0, 1}

VARIABLES
    pc,
    text, i, json,      \* bufin, the loop's i and bufout of the first conversion
    wanted,             \* history: json of the descriptor in text, if it is one
    message,            \* the length of the message in the packet
    visible,            \* visible[k]: bufin[k] of the second is in 0x20..0x7e
    p, tmp, continuous_times, ptr, outlen,
    printed             \* how many characters from ptr on are printed

jsonVars == <<text, i, json, wanted>>
runVars == <<message, visible, p, tmp, continuous_times, ptr, outlen, printed>>
vars == <<pc, jsonVars, runVars>>

----------------------------------------------------------------------------
\* The connect data.

\* Mutant: no place for the zero behind the JSON.
SizeOfText == 2 * Len(text) - 1

\* What tns_connect_handle allocates.
Size == 2 * Len(text)

\* *(p + k), where p is bufin + 1
At(k) == text[k + 2]

\* Mutant: every member opens an object.
OpenForEach(k) == <<Brace, Quote>>

OpenFirst(k) == IF At(k - 1) = ")" THEN <<>> ELSE <<Brace, Quote>>

\* What one turn of the loop appends.
Piece(k) ==
    CASE At(k) = "(" -> OpenFirst(k)
      [] At(k) = "=" -> IF At(k + 1) = "(" THEN <<Quote, ":">> ELSE <<Quote, ":", Quote>>
      [] At(k) = ")" -> (IF At(k - 1) = ")" THEN <<>> ELSE <<Quote>>)
                        \o (IF At(k + 1) = "(" THEN <<Comma, Quote>> ELSE <<EndBrace>>)
      [] At(k) = Zero -> <<>>
      [] OTHER -> <<At(k)>>

\* tns_connect_handle gives it any connect data but none.
CallConvert ==
    /\ pc = "idle" /\ pc' = "open"
    /\ \/ \E d \in Descriptors : text' = d.text /\ wanted' = d.json
       \/ text' \in OtherTexts /\ wanted' = <<>>
    /\ UNCHANGED <<i, json, runVars>>

\* The caller goes on with bufout whether the conversion succeeds or not.
Open ==
    /\ pc = "open"
    /\ IF text[1] = "("
       THEN json' = <<Brace, Quote>> /\ pc' = "convert"
       ELSE pc' = "converted" /\ UNCHANGED json
    /\ UNCHANGED <<text, i, wanted, runVars>>

\* q stays at bufout, so its test compares 2 with the size.
Convert ==
    /\ pc = "convert" /\ i < Len(text) - 2
    /\ json' = IF 2 < Size THEN json \o Piece(i) ELSE json
    /\ i' = i + 1
    /\ UNCHANGED <<pc, text, wanted, runVars>>

\* A text of one character ends with what is behind it in the packet.
LastChars == IF Len(text) = 1 THEN Chars ELSE {At(i)}

Close ==
    /\ pc = "convert" /\ i >= Len(text) - 2
    /\ \E last \in LastChars :
         json' = CASE last # ")" -> json
                   [] last = ")" /\ At(i - 1) = ")" -> Append(json, EndBrace)
                   [] OTHER -> json \o <<Quote, EndBrace>>
    /\ pc' = "converted"
    /\ UNCHANGED <<text, i, wanted, runVars>>

----------------------------------------------------------------------------
\* The longest run of visible characters.

\* The handlers get the message without its header but the length of both.
inlen == message + TNS_HEAD_LEN

CallScan ==
    /\ pc = "idle" /\ pc' = "scan"
    /\ message' \in Messages
    /\ visible' \in [0..message' + TNS_HEAD_LEN - 1 -> BOOLEAN]
    /\ UNCHANGED <<p, tmp, continuous_times, ptr, outlen, printed, jsonVars>>

KeepIfLonger ==
    IF tmp >= continuous_times
    THEN continuous_times' = tmp /\ ptr' = p - tmp
    ELSE UNCHANGED <<continuous_times, ptr>>

ScanVisible ==
    /\ pc = "scan" /\ p < inlen /\ visible[p]
    /\ tmp' = tmp + 1 /\ p' = p + 1
    /\ UNCHANGED <<pc, message, visible, continuous_times, ptr, outlen, printed, jsonVars>>

ScanOther ==
    /\ pc = "scan" /\ p < inlen /\ ~visible[p]
    /\ KeepIfLonger
    /\ tmp' = 0 /\ p' = p + 1
    /\ UNCHANGED <<pc, message, visible, outlen, printed, jsonVars>>

\* Mutant: a run that ends the buffer is forgotten.
ForgetRun == UNCHANGED <<continuous_times, ptr>>

EndRun == IF tmp # 0 THEN KeepIfLonger ELSE UNCHANGED <<continuous_times, ptr>>

\* Mutant: only the characters are counted.
Characters == outlen' = continuous_times'

\* The zero behind the text counts too.
CharactersAndZero == outlen' = continuous_times' + 1

ScanEnd ==
    /\ pc = "scan" /\ p >= inlen
    /\ EndRun
    /\ CharactersAndZero
    /\ pc' = "scanned"
    /\ UNCHANGED <<message, visible, p, tmp, printed, jsonVars>>

\* Mutant: a text that fills the buffer is not cut.
PrintAll == printed' = outlen - 1

\* snprintf writes result_len - 1 characters and a zero.
PrintRun == printed' = (IF outlen < Capacity - 1 THEN outlen ELSE Capacity - 1) - 1

WriteText ==
    /\ pc = "scanned" /\ pc' = "printed"
    /\ PrintRun
    /\ UNCHANGED <<message, visible, p, tmp, continuous_times, ptr, outlen, jsonVars>>

----------------------------------------------------------------------------
\* The handler returns.
Return ==
    /\ pc \in {"converted", "printed"} /\ pc' = "idle"
    /\ text' = <<>> /\ i' = 0 /\ json' = <<>> /\ wanted' = <<>>
    /\ message' = 0 /\ visible' = <<>>
    /\ p' = 0 /\ tmp' = 0 /\ continuous_times' = 0 /\ ptr' = 0
    /\ outlen' = 0 /\ printed' = 0

Init ==
    /\ pc = "idle"
    /\ text = <<>> /\ i = 0 /\ json = <<>> /\ wanted = <<>>
    /\ message = 0 /\ visible = <<>>
    /\ p = 0 /\ tmp = 0 /\ continuous_times = 0 /\ ptr = 0
    /\ outlen = 0 /\ printed = 0

Next ==
    \/ CallConvert \/ Open \/ Convert \/ Close
    \/ CallScan \/ ScanVisible \/ ScanOther \/ ScanEnd \/ WriteText
    \/ Return

Spec == Init /\ [][Next]_vars

----------------------------------------------------------------------------
TypeOK ==
    /\ pc \in {"idle", "open", "convert", "converted", "scan", "scanned", "printed"}
    /\ text \in Seq(Chars) /\ wanted \in Seq(Chars)
    /\ json \in Seq(Chars) /\ i \in 0..Len(text)
    /\ message \in Messages \cup {0}
    /\ pc \in {"scan", "scanned", "printed"} => visible \in [0..inlen - 1 -> BOOLEAN]
    /\ p \in 0..inlen /\ tmp \in 0..inlen
    /\ continuous_times \in 0..inlen /\ ptr \in 0..inlen
    /\ outlen \in 0..inlen + 1 /\ printed \in 0..Capacity - 2

\* From the first piece on the JSON is that of the descriptor as far as it has
\* been read, although each character is judged by its neighbours only.
JsonIsDescriptor ==
    wanted # <<>> =>
        /\ pc = "convert" => \E n \in 1..Len(wanted) : json = SubSeq(wanted, 1, n)
        /\ pc = "converted" => json = wanted

\* The JSON of a descriptor of more than four characters, and the zero behind it,
\* fit what was allocated, two places for a character, though nothing tests it.
TextFits == pc # "idle" /\ wanted # <<>> /\ Len(text) > 4 => Len(json) + 1 <= Size

\* The same of all connect data: what is appended is tested against the size
\* (oracle_tns.c:59, "if ((q - bufout) + 2 < *outlen)").
TextInBounds == pc # "idle" /\ text # <<>> => Len(json) + 1 <= Size

\* The n characters from s on are visible.
Run(s, n) == \A k \in s..s + n - 1 : visible[k]

\* What is found is the last of the longest runs, wherever it ends.
LongestRun ==
    pc \in {"scanned", "printed"} =>
        /\ ptr + continuous_times <= inlen /\ Run(ptr, continuous_times)
        /\ \A s \in 0..inlen - 1 : \A n \in 1..inlen - s :
             Run(s, n) => n < continuous_times \/ (n = continuous_times /\ s <= ptr)

\* What is printed is visible and as long as any run in the message that the
\* buffer has room for.  It starts in the message when the message has a run
\* longer than the bytes scanned behind it, and is all in the message when none
\* of those is visible.
MessageIsPrinted ==
    pc = "printed" =>
        /\ Run(ptr, printed)
        /\ \A s \in 0..message - 1 : \A n \in 1..message - s :
             Run(s, n) => /\ printed >= n \/ printed = Capacity - 2
                          /\ n > TNS_HEAD_LEN => ptr < message
        /\ printed > 0 /\ (\A k \in message..inlen - 1 : ~visible[k])
             => ptr + printed <= message
=============================================================================
