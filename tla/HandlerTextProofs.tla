------------------------- MODULE HandlerTextProofs --------------------------
(***************************************************************************)
(* Theorems about HandlerText: of the scan for messages and buffers of any *)
(* length, of the conversion for descriptors of any size and depth.        *)
(***************************************************************************)
EXTENDS HandlerText, TLAPS, SequenceTheorems

Scans == {"scan", "scanned", "printed"}

\* A call finds its locals at zero.
LocalsReset ==
    /\ pc \notin Scans =>
         p = 0 /\ tmp = 0 /\ continuous_times = 0 /\ ptr = 0 /\ outlen = 0 /\ printed = 0
    /\ pc = "idle" => i = 0

\* The loop invariant: tmp counts the run that ends at p, and of the runs before
\* that one the last of the longest is known.
Scanned ==
    pc = "scan" =>
        /\ tmp <= p /\ Run(p - tmp, tmp)
        /\ tmp < p => ~visible[p - tmp - 1]
        /\ ptr + continuous_times <= p /\ Run(ptr, continuous_times)
        /\ \A s \in 0..p - 1 : \A n \in 1..p - s :
             Run(s, n) => \/ s >= p - tmp
                          \/ n < continuous_times
                          \/ n = continuous_times /\ s <= ptr

\* What is left to do when the scan is over.
Measured ==
    /\ pc \in {"scanned", "printed"} => outlen = continuous_times + 1
    /\ pc = "printed" =>
         printed = IF continuous_times < Capacity - 2 THEN continuous_times ELSE Capacity - 2

TInv == TypeOK /\ LocalsReset /\ Scanned /\ LongestRun /\ Measured

\* The constants.
LEMMA ConstantsAreNumbers ==
    /\ Messages \subseteq Nat /\ TNS_HEAD_LEN \in Nat
    /\ Capacity \in Nat /\ Capacity >= 2 /\ Capacity - 2 \in Nat
<1>1. Messages \subseteq Nat /\ TNS_HEAD_LEN \in Nat /\ Capacity \in Nat \ {0, 1}
  BY TextAssumption
<1> QED
  BY <1>1

\* The characters.
LEMMA Constants ==
    /\ \A d \in Descriptors : d.text \in Seq(Chars) /\ d.json \in Seq(Chars)
    /\ OtherTexts \subseteq Seq(Chars) \ {<<>>}
    /\ Brace \in Chars /\ EndBrace \in Chars /\ ":" \in Chars /\ Comma \in Chars /\ Quote \in Chars
  BY TextAssumption

\* Short sequences.
LEMMA ShortSeq ==
    ASSUME NEW S, NEW a \in S, NEW b \in S, NEW c \in S
    PROVE  <<>> \in Seq(S) /\ <<a>> \in Seq(S) /\ <<a, b>> \in Seq(S) /\ <<a, b, c>> \in Seq(S)
  OBVIOUS

\* The lengths and positions of a scan.
LEMMA Positions ==
    ASSUME TypeOK
    PROVE  /\ message \in Nat /\ inlen \in Nat
           /\ p \in 0..inlen /\ tmp \in 0..inlen
           /\ continuous_times \in 0..inlen /\ ptr \in 0..inlen
           /\ outlen \in 0..inlen + 1 /\ printed \in 0..Capacity - 2
  BY ConstantsAreNumbers DEF TypeOK, inlen

\* Before the first call.
LEMMA InitTInv == Init => TInv
<1> SUFFICES ASSUME Init PROVE TInv
  OBVIOUS
<1>1. inlen \in Nat /\ message = 0
  BY ConstantsAreNumbers DEF Init, inlen
<1>2. Capacity - 2 \in Nat
  BY ConstantsAreNumbers
<1>3. text \in Seq(Chars) /\ wanted \in Seq(Chars) /\ json \in Seq(Chars) /\ Len(text) = 0
  BY DEF Init
<1>4. TypeOK
  BY <1>1, <1>2, <1>3 DEF Init, TypeOK
<1>5. LocalsReset /\ Scanned /\ LongestRun /\ Measured
  BY DEF Init, LocalsReset, Scanned, LongestRun, Measured, Scans
<1> QED
  BY <1>4, <1>5 DEF TInv

\* And so in the next state.
LEMMA InitTInvNext == Init' => TInv'
  BY InitTInv, PTL

----------------------------------------------------------------------------
\* The conversion of connect data.

\* One turn appends characters.
LEMMA PieceType ==
    ASSUME NEW t \in Seq(Chars), text = t, NEW k \in Nat, k < Len(text) - 2
    PROVE  Piece(k) \in Seq(Chars)
<1>1. At(k) \in Chars
  BY DEF At
<1>2. <<>> \in Seq(Chars) /\ <<Quote>> \in Seq(Chars) /\ <<Brace, Quote>> \in Seq(Chars)
  BY Constants, ShortSeq
<1>3. <<Quote, ":">> \in Seq(Chars) /\ <<Quote, ":", Quote>> \in Seq(Chars)
  BY Constants, ShortSeq
<1>4. <<Comma, Quote>> \in Seq(Chars) /\ <<EndBrace>> \in Seq(Chars) /\ <<At(k)>> \in Seq(Chars)
  BY <1>1, Constants, ShortSeq
<1>5. OpenFirst(k) \in Seq(Chars)
  BY <1>2 DEF OpenFirst
<1> DEFINE before == IF At(k - 1) = ")" THEN <<>> ELSE <<Quote>>
           after == IF At(k + 1) = "(" THEN <<Comma, Quote>> ELSE <<EndBrace>>
<1>6. before \in Seq(Chars) /\ after \in Seq(Chars)
  BY <1>2, <1>4
<1>7. before \o after \in Seq(Chars)
  <2> HIDE DEF before, after
  <2> QED
    BY <1>6, ConcatProperties
<1> QED
  BY <1>2, <1>3, <1>4, <1>5, <1>7 DEF Piece

\* Steps that the scan has no part in.
LEMMA ScanUntouched ==
    ASSUME TInv, UNCHANGED runVars, pc \notin Scans,
           pc' \in {"open", "convert", "converted"},
           text' \in Seq(Chars), wanted' \in Seq(Chars), json' \in Seq(Chars),
           i' \in 0..Len(text')
    PROVE  TInv'
<1>1. inlen' = inlen
  BY DEF runVars, inlen
<1>2. TypeOK'
  BY <1>1 DEF TInv, TypeOK, runVars
<1>3. LocalsReset'
  BY DEF TInv, LocalsReset, Scans, runVars
<1>4. Scanned' /\ LongestRun' /\ Measured'
  BY DEF Scanned, LongestRun, Measured
<1> QED
  BY <1>2, <1>3, <1>4 DEF TInv

\* The conversion of connect data.
LEMMA ConversionKeepsTInv ==
    ASSUME TInv, CallConvert \/ Open \/ Convert \/ Close
    PROVE  TInv'
<1>0. UNCHANGED runVars /\ pc \notin Scans
  BY DEF CallConvert, Open, Convert, Close, Scans
<1>1. /\ text \in Seq(Chars) /\ wanted \in Seq(Chars) /\ json \in Seq(Chars)
      /\ i \in 0..Len(text)
  BY DEF TInv, TypeOK
<1>2. Len(text) \in Nat
  BY <1>1
<1>3. CASE CallConvert
  <2>2. text' \in Seq(Chars) /\ wanted' \in Seq(Chars)
    <3>1. CASE \E d \in Descriptors : text' = d.text /\ wanted' = d.json
      BY <3>1, Constants
    <3>2. CASE text' \in OtherTexts /\ wanted' = <<>>
      <4>1. <<>> \in Seq(Chars)
        OBVIOUS
      <4> QED
        BY <3>2, <4>1, Constants
    <3> QED
      BY <1>3, <3>1, <3>2 DEF CallConvert
  <2>3. i' = 0 /\ json' = json /\ pc' = "open"
    BY <1>3 DEF CallConvert, TInv, LocalsReset
  <2>4. i' \in 0..Len(text')
    BY <2>2, <2>3
  <2> QED
    BY <1>0, <1>1, <2>2, <2>3, <2>4, ScanUntouched
<1>4. CASE Open
  <2>1. <<Brace, Quote>> \in Seq(Chars)
    BY Constants, ShortSeq
  <2>2. json' \in Seq(Chars)
    BY <1>1, <1>4, <2>1 DEF Open
  <2> QED
    BY <1>0, <1>1, <1>4, <2>2, ScanUntouched DEF Open
<1>5. CASE Convert
  <2>1. i \in Nat /\ i < Len(text) - 2 /\ i' = i + 1 /\ pc' = "convert"
    BY <1>1, <1>5 DEF Convert
  <2>2. Piece(i) \in Seq(Chars)
    BY <1>1, <2>1, PieceType
  <2>3. json \o Piece(i) \in Seq(Chars)
    BY <1>1, <2>2, ConcatProperties
  <2>4. json' \in Seq(Chars)
    BY <1>1, <1>5, <2>3 DEF Convert
  <2>5. text' = text /\ wanted' = wanted /\ i' \in 0..Len(text)
    BY <1>2, <1>5, <2>1 DEF Convert
  <2> QED
    BY <1>0, <1>1, <2>1, <2>4, <2>5, ScanUntouched
<1>6. CASE Close
  <2>1. <<Quote, EndBrace>> \in Seq(Chars) /\ EndBrace \in Chars
    BY Constants, ShortSeq
  <2>2. json \o <<Quote, EndBrace>> \in Seq(Chars) /\ Append(json, EndBrace) \in Seq(Chars)
    BY <1>1, <2>1, ConcatProperties, AppendProperties
  <2>3. json' \in Seq(Chars)
    <3>1. PICK last \in LastChars :
            json' = CASE last # ")" -> json
                      [] last = ")" /\ At(i - 1) = ")" -> Append(json, EndBrace)
                      [] OTHER -> json \o <<Quote, EndBrace>>
      BY <1>6 DEF Close
    <3> QED
      BY <1>1, <2>2, <3>1
  <2> QED
    BY <1>0, <1>1, <1>6, <2>3, ScanUntouched DEF Close
<1> QED
  BY <1>3, <1>4, <1>5, <1>6

----------------------------------------------------------------------------
\* The scan.

\* What one position tells about the runs before it.
LEMMA RunsEndingHere ==
    ASSUME TypeOK, Scanned, pc = "scan", p < inlen
    PROVE  /\ visible[p] => /\ Run(p - tmp, tmp + 1)
                            /\ \A s \in 0..p : \A n \in 1..p + 1 - s :
                                 Run(s, n) => \/ s >= p - tmp
                                              \/ n < continuous_times
                                              \/ n = continuous_times /\ s <= ptr
           /\ ~visible[p] => \A s \in 0..p : \A n \in 1..p + 1 - s :
                Run(s, n) => s + n <= p
<1>0. inlen \in Nat /\ p \in 0..inlen /\ tmp \in 0..inlen /\ tmp <= p
  BY Positions DEF Scanned
<1>1. ASSUME visible[p] PROVE Run(p - tmp, tmp + 1)
  <2>1. ASSUME NEW k \in p - tmp..(p - tmp) + (tmp + 1) - 1 PROVE visible[k]
    <3>1. k = p \/ k \in p - tmp..(p - tmp) + tmp - 1
      BY <1>0
    <3> QED
      BY <1>1, <3>1 DEF Scanned, Run
  <2> QED
    BY <2>1 DEF Run
<1>2. ASSUME visible[p], NEW s \in 0..p, NEW n \in 1..p + 1 - s, Run(s, n)
      PROVE  s >= p - tmp \/ n < continuous_times \/ (n = continuous_times /\ s <= ptr)
  <2>1. CASE s + n <= p
    <3>1. s \in 0..p - 1 /\ n \in 1..p - s
      BY <1>0, <2>1
    <3> QED
      BY <1>2, <3>1 DEF Scanned
  <2>2. CASE s + n = p + 1
    <3>1. s < p - tmp => p - tmp - 1 \in s..s + n - 1 /\ tmp < p
      BY <1>0, <2>2
    <3> QED
      BY <1>0, <1>2, <3>1 DEF Scanned, Run
  <2> QED
    BY <1>0, <2>1, <2>2
<1>3. ASSUME ~visible[p], NEW s \in 0..p, NEW n \in 1..p + 1 - s, Run(s, n)
      PROVE  s + n <= p
  <2>1. s + n > p => p \in s..s + n - 1
    BY <1>0
  <2> QED
    BY <1>0, <1>3, <2>1 DEF Run
<1> QED
  BY <1>1, <1>2, <1>3

\* Afterwards the longest of all runs that end before p is known.
LEMMA KeptIsLongest ==
    ASSUME TypeOK, Scanned, pc = "scan", KeepIfLonger
    PROVE  /\ continuous_times' \in 0..inlen /\ ptr' \in 0..inlen
           /\ ptr' + continuous_times' <= p
           /\ Run(ptr', continuous_times')
           /\ \A s \in 0..p - 1 : \A n \in 1..p - s :
                Run(s, n) => \/ n < continuous_times'
                             \/ n = continuous_times' /\ s <= ptr'
<1>0. /\ inlen \in Nat /\ p \in 0..inlen /\ tmp \in 0..inlen
      /\ continuous_times \in 0..inlen /\ ptr \in 0..inlen
      /\ tmp <= p /\ ptr + continuous_times <= p
  BY Positions DEF Scanned
<1>1. CASE tmp >= continuous_times
  <2>1. continuous_times' = tmp /\ ptr' = p - tmp
    BY <1>1 DEF KeepIfLonger
  <2>2. ASSUME NEW s \in 0..p - 1, NEW n \in 1..p - s, Run(s, n)
        PROVE  n < tmp \/ (n = tmp /\ s <= p - tmp)
    <3>1. s >= p - tmp \/ n < continuous_times \/ (n = continuous_times /\ s <= ptr)
      BY <2>2 DEF Scanned
    <3> QED
      BY <1>0, <1>1, <3>1
  <2> QED
    BY <1>0, <2>1, <2>2 DEF Scanned
<1>2. CASE tmp < continuous_times
  <2>1. continuous_times' = continuous_times /\ ptr' = ptr
    BY <1>0, <1>2 DEF KeepIfLonger
  <2>2. ASSUME NEW s \in 0..p - 1, NEW n \in 1..p - s, Run(s, n)
        PROVE  n < continuous_times \/ (n = continuous_times /\ s <= ptr)
    <3>1. s >= p - tmp \/ n < continuous_times \/ (n = continuous_times /\ s <= ptr)
      BY <2>2 DEF Scanned
    <3> QED
      BY <1>0, <1>2, <3>1
  <2> QED
    BY <1>0, <2>1, <2>2 DEF Scanned
<1> QED
  BY <1>0, <1>1, <1>2

\* Calling the scan.
LEMMA CallScanKeepsTInv == ASSUME TInv, CallScan PROVE TInv'
<1>1. /\ pc = "idle" /\ pc' = "scan" /\ message' \in Messages
      /\ UNCHANGED <<p, tmp, continuous_times, ptr, outlen, printed, jsonVars>>
  BY DEF CallScan
<1>2. PICK m \in Nat : message' = m
  BY <1>1, ConstantsAreNumbers
<1>6. /\ inlen' \in Nat
      /\ visible' \in [0..inlen' - 1 -> BOOLEAN]
  BY <1>2, ConstantsAreNumbers DEF CallScan, inlen
<1>3. /\ p = 0 /\ tmp = 0 /\ continuous_times = 0 /\ ptr = 0
      /\ outlen = 0 /\ printed = 0 /\ i = 0
  BY <1>1 DEF TInv, LocalsReset, Scans
<1>4. TypeOK'
  <2>1. /\ text' \in Seq(Chars) /\ wanted' \in Seq(Chars) /\ json' \in Seq(Chars)
        /\ i' \in 0..Len(text')
    BY <1>1 DEF TInv, TypeOK, jsonVars
  <2>2. Capacity - 2 \in Nat
    BY ConstantsAreNumbers
  <2>3. PICK l \in Nat : inlen' = l
    BY <1>6
  <2>4. /\ p' \in 0..inlen' /\ tmp' \in 0..inlen' /\ continuous_times' \in 0..inlen'
        /\ ptr' \in 0..inlen' /\ outlen' \in 0..inlen' + 1 /\ printed' \in 0..Capacity - 2
    BY <1>1, <1>3, <2>2, <2>3
  <2> QED
    BY <1>1, <1>6, <2>1, <2>4 DEF TypeOK
<1>5. LocalsReset' /\ Scanned' /\ LongestRun' /\ Measured'
  BY <1>1, <1>3 DEF LocalsReset, Scanned, LongestRun, Measured, Scans, Run
<1> QED
  BY <1>4, <1>5 DEF TInv

\* One more character of a run.
LEMMA ScanVisibleKeepsTInv == ASSUME TInv, ScanVisible PROVE TInv'
<1>1. /\ pc = "scan" /\ pc' = "scan" /\ p < inlen /\ visible[p]
      /\ tmp' = tmp + 1 /\ p' = p + 1
      /\ UNCHANGED <<message, visible, continuous_times, ptr, outlen, printed, jsonVars>>
  BY DEF ScanVisible
<1>2. /\ inlen' = inlen /\ inlen \in Nat /\ p \in 0..inlen /\ tmp \in 0..inlen /\ tmp <= p
      /\ continuous_times \in 0..inlen /\ ptr \in 0..inlen
  BY <1>1, Positions DEF TInv, inlen, Scanned
<1>3. TypeOK'
  BY <1>1, <1>2 DEF TInv, TypeOK, jsonVars
<1>4. Scanned'
  <2>1. p' - tmp' = p - tmp
    BY <1>1, <1>2
  <2>2. Run(p - tmp, tmp + 1)
    BY <1>1, RunsEndingHere DEF TInv
  <2>3. tmp' < p' => ~visible[p - tmp - 1]
    BY <1>1, <1>2 DEF TInv, Scanned
  <2>4. \A s \in 0..p : \A n \in 1..p + 1 - s :
           Run(s, n) => \/ s >= p - tmp
                        \/ n < continuous_times
                        \/ n = continuous_times /\ s <= ptr
    BY <1>1, RunsEndingHere DEF TInv
  <2>5. tmp' <= p' /\ ptr + continuous_times <= p' /\ Run(ptr, continuous_times)
    BY <1>1, <1>2 DEF TInv, Scanned
  <2>6. p' - 1 = p
    BY <1>1, <1>2
  <2> QED
    BY <1>1, <2>1, <2>2, <2>3, <2>4, <2>5, <2>6 DEF Scanned, Run
<1>5. LocalsReset' /\ LongestRun' /\ Measured'
  BY <1>1 DEF LocalsReset, LongestRun, Measured, Scans
<1> QED
  BY <1>3, <1>4, <1>5 DEF TInv

\* A character that ends a run.
LEMMA ScanOtherKeepsTInv == ASSUME TInv, ScanOther PROVE TInv'
<1>1. /\ pc = "scan" /\ pc' = "scan" /\ p < inlen /\ ~visible[p]
      /\ tmp' = 0 /\ p' = p + 1 /\ KeepIfLonger
      /\ UNCHANGED <<message, visible, outlen, printed, jsonVars>>
  BY DEF ScanOther
<1>2. inlen' = inlen /\ inlen \in Nat /\ p \in 0..inlen
  BY <1>1, Positions DEF TInv, inlen
<1>3. /\ continuous_times' \in 0..inlen /\ ptr' \in 0..inlen
      /\ ptr' + continuous_times' <= p /\ Run(ptr', continuous_times')
      /\ \A s \in 0..p - 1 : \A n \in 1..p - s :
           Run(s, n) => n < continuous_times' \/ (n = continuous_times' /\ s <= ptr')
  BY <1>1, KeptIsLongest DEF TInv
<1>4. TypeOK'
  BY <1>1, <1>2, <1>3 DEF TInv, TypeOK, jsonVars
<1>5. Scanned'
  <2>1. PICK c \in 0..inlen, q \in 0..inlen : continuous_times' = c /\ ptr' = q
    BY <1>3
  <2>2. ASSUME NEW s \in 0..p, NEW n \in 1..p + 1 - s, Run(s, n)
        PROVE  n < c \/ (n = c /\ s <= q)
    <3>1. s + n <= p
      BY <1>1, <2>2, RunsEndingHere DEF TInv
    <3>2. s \in 0..p - 1 /\ n \in 1..p - s
      BY <1>2, <3>1
    <3> QED
      BY <1>3, <2>1, <2>2, <3>2
  <2>3. q + c <= p + 1 /\ Run(q, c)
    BY <1>2, <1>3, <2>1
  <2>4. Run(p + 1, 0)
    BY <1>2 DEF Run
  <2>5. /\ 0 <= p + 1 /\ (p + 1) - 0 = p + 1 /\ (p + 1) - 0 - 1 = p /\ (p + 1) - 1 = p
    BY <1>2
  <2> QED
    BY <1>1, <2>1, <2>2, <2>3, <2>4, <2>5 DEF Scanned, Run
<1>6. LocalsReset' /\ LongestRun' /\ Measured'
  BY <1>1 DEF LocalsReset, LongestRun, Measured, Scans
<1> QED
  BY <1>4, <1>5, <1>6 DEF TInv

\* The end of the buffer.
LEMMA ScanEndKeepsTInv == ASSUME TInv, ScanEnd PROVE TInv'
<1>1. /\ pc = "scan" /\ pc' = "scanned" /\ p >= inlen /\ EndRun
      /\ outlen' = continuous_times' + 1
      /\ UNCHANGED <<message, visible, p, tmp, printed, jsonVars>>
  BY DEF ScanEnd, CharactersAndZero
<1>2. /\ inlen' = inlen /\ inlen \in Nat /\ p = inlen /\ tmp \in 0..inlen
      /\ continuous_times \in 0..inlen /\ ptr \in 0..inlen
  BY <1>1, Positions DEF TInv, inlen
<1>3. /\ continuous_times' \in 0..inlen /\ ptr' \in 0..inlen
      /\ ptr' + continuous_times' <= p /\ Run(ptr', continuous_times')
      /\ \A s \in 0..p - 1 : \A n \in 1..p - s :
           Run(s, n) => n < continuous_times' \/ (n = continuous_times' /\ s <= ptr')
  <2>1. CASE tmp # 0
    BY <1>1, <2>1, KeptIsLongest DEF TInv, EndRun
  <2>2. CASE tmp = 0
    <3>1. continuous_times' = continuous_times /\ ptr' = ptr
      BY <1>1, <2>2 DEF EndRun
    <3>2. /\ ptr + continuous_times <= p /\ Run(ptr, continuous_times)
          /\ \A s \in 0..p - 1 : \A n \in 1..p - s :
               Run(s, n) => \/ s >= p - tmp
                            \/ n < continuous_times
                            \/ n = continuous_times /\ s <= ptr
      BY <1>1 DEF TInv, Scanned
    <3>3. \A s \in 0..p - 1 : ~(s >= p - tmp)
      BY <1>2, <2>2
    <3> QED
      BY <1>2, <3>1, <3>2, <3>3
  <2> QED
    BY <2>1, <2>2
<1>4. TypeOK'
  <2>1. outlen' \in 0..inlen + 1
    <3>1. PICK c \in 0..inlen : continuous_times' = c
      BY <1>3
    <3> QED
      BY <1>1, <1>2, <3>1
  <2> QED
    BY <1>1, <1>2, <1>3, <2>1 DEF TInv, TypeOK, jsonVars
<1>5. LongestRun'
  BY <1>1, <1>2, <1>3 DEF LongestRun, Run
<1>6. LocalsReset' /\ Scanned' /\ Measured'
  BY <1>1 DEF LocalsReset, Scanned, Measured, Scans
<1> QED
  BY <1>4, <1>5, <1>6 DEF TInv

\* Printing the run.
LEMMA PrintKeepsTInv == ASSUME TInv, WriteText PROVE TInv'
<1>1. /\ pc = "scanned" /\ pc' = "printed"
      /\ printed' = (IF outlen < Capacity - 1 THEN outlen ELSE Capacity - 1) - 1
      /\ UNCHANGED <<message, visible, p, tmp, continuous_times, ptr, outlen, jsonVars>>
  BY DEF WriteText, PrintRun
<1>2. inlen' = inlen /\ inlen \in Nat /\ continuous_times \in 0..inlen
  BY <1>1, Positions DEF TInv, inlen
<1>3. outlen = continuous_times + 1
  BY <1>1 DEF TInv, Measured
<1>4. printed' = IF continuous_times < Capacity - 2 THEN continuous_times ELSE Capacity - 2
  BY <1>1, <1>2, <1>3, ConstantsAreNumbers
<1>5. printed' \in 0..Capacity - 2
  BY <1>2, <1>4, ConstantsAreNumbers
<1>6. TypeOK'
  BY <1>1, <1>2, <1>5 DEF TInv, TypeOK, jsonVars
<1>7. LongestRun'
  BY <1>1, <1>2 DEF TInv, LongestRun, Run
<1>8. LocalsReset' /\ Scanned' /\ Measured'
  BY <1>1, <1>3, <1>4 DEF LocalsReset, Scanned, Measured, Scans
<1> QED
  BY <1>6, <1>7, <1>8 DEF TInv

\* Returning, and doing nothing.
LEMMA OthersKeepTInv == ASSUME TInv, Return \/ UNCHANGED vars PROVE TInv'
<1>1. CASE Return
  <2>1. Init'
    BY <1>1 DEF Return, Init
  <2>2. Init' => TInv'
    BY InitTInvNext
  <2> QED
    BY <2>1, <2>2
<1>2. CASE UNCHANGED vars
  <2>1. inlen' = inlen
    BY <1>2 DEF vars, runVars, inlen
  <2> QED
    BY <1>2, <2>1 DEF vars, jsonVars, runVars, TInv, TypeOK, LocalsReset, Scanned, LongestRun,
       Measured, Run
<1> QED
  BY <1>1, <1>2

\* The invariant always holds.
THEOREM TextInvariance == Spec => []TInv
<1>1. TInv /\ [Next]_vars => TInv'
  BY ConversionKeepsTInv, CallScanKeepsTInv, ScanVisibleKeepsTInv, ScanOtherKeepsTInv,
     ScanEndKeepsTInv, PrintKeepsTInv, OthersKeepTInv DEF Next
<1> QED
  BY <1>1, InitTInv, PTL DEF Spec

\* Every variable keeps its type; in particular no text is printed that the
\* handler's buffer has no room for.
THEOREM TextTypeCorrect == Spec => []TypeOK
<1>1. TInv => TypeOK
  BY DEF TInv
<1> QED
  BY <1>1, TextInvariance, PTL

\* parse_continuous_visible_characters finds the last of the longest runs.
THEOREM LongestRunFound == Spec => []LongestRun
<1>1. TInv => LongestRun
  BY DEF TInv
<1> QED
  BY <1>1, TextInvariance, PTL

\* What is printed is visible and as long as any run in the message that the
\* buffer has room for.  It starts in the message when the message has a run
\* longer than the bytes scanned behind it, and is all in the message when none
\* of those is visible; else it may be text of theirs.
THEOREM MessagePrinted == Spec => []MessageIsPrinted
<1>1. TInv => MessageIsPrinted
  <2> SUFFICES ASSUME TInv, pc = "printed" PROVE MessageIsPrinted
    BY DEF MessageIsPrinted
  <2>1. /\ message \in Nat /\ inlen = message + TNS_HEAD_LEN /\ TNS_HEAD_LEN \in Nat
        /\ continuous_times \in 0..inlen /\ ptr \in 0..inlen /\ inlen \in Nat
        /\ Capacity - 2 \in Nat
    BY Positions, ConstantsAreNumbers DEF TInv, inlen
  <2>2. printed = IF continuous_times < Capacity - 2 THEN continuous_times ELSE Capacity - 2
    BY DEF TInv, Measured
  <2>3. /\ ptr + continuous_times <= inlen /\ Run(ptr, continuous_times)
        /\ \A s \in 0..inlen - 1 : \A n \in 1..inlen - s :
             Run(s, n) => n < continuous_times \/ (n = continuous_times /\ s <= ptr)
    BY DEF TInv, LongestRun
  <2>4. Run(ptr, printed)
    BY <2>1, <2>2, <2>3 DEF Run
  <2>5. ASSUME NEW s \in 0..message - 1, NEW n \in 1..message - s, Run(s, n)
        PROVE  /\ printed >= n \/ printed = Capacity - 2
               /\ n > TNS_HEAD_LEN => ptr < message
    <3>1. s \in 0..inlen - 1 /\ n \in 1..inlen - s
      BY <2>1
    <3>2. n <= continuous_times
      BY <2>1, <2>3, <2>5, <3>1
    <3> QED
      BY <2>1, <2>2, <2>3, <3>2
  <2>6. ASSUME printed > 0, \A k \in message..inlen - 1 : ~visible[k]
        PROVE  ptr + printed <= message
    <3>1. printed \in Nat /\ ptr + printed <= inlen
      BY <2>1, <2>2, <2>3
    <3>2. ptr + printed - 1 \in ptr..ptr + printed - 1
      BY <2>1, <2>6, <3>1
    <3>3. visible[ptr + printed - 1]
      BY <2>4, <3>2 DEF Run
    <3>4. ptr + printed - 1 \notin message..inlen - 1
      BY <2>6, <3>3
    <3> QED
      BY <2>1, <3>1, <3>4
  <2> QED
    BY <2>4, <2>5, <2>6 DEF MessageIsPrinted
<1> QED
  BY <1>1, TextInvariance, PTL

----------------------------------------------------------------------------
\* What the conversion writes.

\* The JSON so far is a part of j.
IsPrefix(j) == Len(json) <= Len(j) /\ \A k \in 1..Len(json) : json[k] = j[k]

\* A node in a list has one place more than the root.
Slack(n) == IF n.up = 0 THEN 0 ELSE 1

(***************************************************************************)
(* Where the loop is in the tree of descriptor d when r characters have    *)
(* been read and l written: in n's name or value, before a node that is    *)
(* the first of its list or not, before the end of a list, or behind the   *)
(* root.  The last conjunct of each says that two places for every         *)
(* character read have been enough, with what is left over.                *)
(***************************************************************************)
InName(n, r, l) ==
    /\ n.open <= r /\ r < n.eq
    /\ l = n.from + (r - n.open)
    /\ l <= r + n.open - Slack(n)

InValue(d, n, r, l) ==
    /\ InList(d, n) = {}
    /\ n.eq <= r /\ r < n.close
    /\ l = Body(n) + (r - n.eq)
    /\ l <= r + n.open + 2 - Slack(n)

BeforeFirst(d, n, r, l) ==
    /\ r + 1 = n.open /\ d.text[r] = "=" /\ d.json[n.from - 1] = Brace
    /\ l = n.from - 2
    /\ l <= 2 * r - 1

BeforeNext(d, n, r, l) ==
    /\ r + 1 = n.open /\ d.text[r] = ")"
    /\ l = n.from
    /\ l <= 2 * r

BeforeListEnd(d, n, r, l) ==
    /\ InList(d, n) # {}
    /\ r + 1 = n.close /\ d.text[r] = ")"
    /\ l = n.to
    /\ l <= 2 * r - 1

BehindRoot(d, n, r, l) ==
    /\ n.up = 0
    /\ r + 1 = Len(d.text) /\ d.text[r + 1] \notin Brackets
    /\ l = Len(d.json)
    /\ l <= 2 * r

AtNode(d, n, r, l) ==
    \/ InName(n, r, l) \/ InValue(d, n, r, l)
    \/ BeforeFirst(d, n, r, l) \/ BeforeNext(d, n, r, l)
    \/ BeforeListEnd(d, n, r, l) \/ BehindRoot(d, n, r, l)

Converting(d) ==
    /\ text = d.text /\ wanted = d.json
    /\ pc = "open" => i = 0 /\ json = <<>>
    /\ pc = "convert" => /\ i + 1 <= Len(text) - 1
                         /\ IsPrefix(d.json) /\ json # <<>>
                         /\ \E n \in d.tree : AtNode(d, n, i + 1, Len(json))
    /\ pc = "converted" => json = d.json /\ (Len(text) > 4 => Len(json) + 1 <= Size)

\* The loop invariant of the conversion.
Converts ==
    IF pc \in {"open", "convert", "converted"}
    THEN wanted # <<>> => \E d \in Descriptors : Converting(d)
    ELSE json = <<>> /\ wanted = <<>>

\* A descriptor's texts.
LEMMA Texts ==
    ASSUME NEW d \in Descriptors
    PROVE  /\ d.text \in Seq(Chars) /\ Len(d.text) \in Nat /\ Len(d.text) >= 4
           /\ d.json \in Seq(Chars) /\ Len(d.json) \in Nat
           /\ d.text[1] = "(" /\ IsDescriptor(d)
<1>1. d.text \in Seq(Chars) /\ d.json \in Seq(Chars) /\ IsDescriptor(d)
  BY TextAssumption, Zenon
<1>2. PICK n \in d.tree : n.up = 0
  BY <1>1 DEF IsDescriptor, IsTree
<1>3. Named(d, n) /\ IsRoot(d, n) /\ n \in Node(d)
  BY <1>1, <1>2 DEF IsDescriptor, IsTree
<1>4. /\ n.open \in 1..Len(d.text) /\ n.eq \in 1..Len(d.text) /\ n.close \in 1..Len(d.text)
      /\ n.open + 1 < n.eq /\ n.eq < n.close
      /\ d.text[n.open] = "(" /\ n.open = 1
  BY <1>3 DEF Named, IsRoot, Node
<1>5. Len(d.text) \in Nat /\ Len(d.json) \in Nat
  BY <1>1
<1> QED
  BY <1>1, <1>4, <1>5

\* The places of a node.
LEMMA Places ==
    ASSUME NEW d \in Descriptors, NEW n \in d.tree
    PROVE  /\ n.open \in Int /\ n.eq \in Int /\ n.close \in Int /\ n.from \in Int /\ n.to \in Int
           /\ 1 <= n.open /\ n.open + 1 < n.eq /\ n.eq < n.close /\ n.close <= Len(d.text)
           /\ 1 <= n.from /\ n.to <= Len(d.json) /\ n.up \in Nat
           /\ NameLen(n) \in Nat /\ NameLen(n) >= 1 /\ ValueLen(n) \in Nat
           /\ Body(n) = n.from + NameLen(n) + 3
           /\ n.eq = n.open + NameLen(n) + 1 /\ n.close = n.eq + ValueLen(n) + 1
           /\ Named(d, n) /\ (HasValue(d, n) \/ HasList(d, n))
           /\ IF n.up = 0 THEN IsRoot(d, n) ELSE \E m \in d.tree : m.open = n.up
<1>1. /\ n.open \in 1..Len(d.text) /\ n.eq \in 1..Len(d.text) /\ n.close \in 1..Len(d.text)
      /\ n.from \in 1..Len(d.json) /\ n.to \in 1..Len(d.json) /\ n.up \in 0..Len(d.text)
  BY Texts DEF IsDescriptor, Node
<1>2. /\ Named(d, n) /\ (HasValue(d, n) \/ HasList(d, n))
      /\ IF n.up = 0 THEN IsRoot(d, n) ELSE \E m \in d.tree : m.open = n.up
  BY Texts DEF IsDescriptor, IsTree
<1>3. n.open + 1 < n.eq /\ n.eq < n.close
  BY <1>2 DEF Named
<1>4. Len(d.text) \in Nat /\ Len(d.json) \in Nat
  BY Texts
<1> QED
  BY <1>1, <1>2, <1>3, <1>4 DEF NameLen, ValueLen, Body

\* Where they lie in the texts.
LEMMA InText ==
    ASSUME NEW d \in Descriptors, NEW n \in d.tree
    PROVE  /\ n.open \in Int /\ n.close \in Int /\ n.from \in Int /\ n.to \in Int
           /\ Len(d.text) \in Int /\ Len(d.json) \in Int
           /\ 1 <= n.open /\ n.open < n.close /\ n.close <= Len(d.text)
           /\ 1 <= n.from /\ n.from <= Len(d.json) /\ n.to <= Len(d.json)
<1>1. n.from \in 1..Len(d.json)
  BY Texts DEF IsDescriptor, Node
<1>2. Len(d.text) \in Int /\ Len(d.json) \in Int
  BY Texts
<1>3. /\ n.open \in Int /\ n.close \in Int /\ n.from \in Int /\ n.to \in Int
      /\ 1 <= n.open /\ n.open + 1 < n.eq /\ n.eq < n.close /\ n.close <= Len(d.text)
      /\ n.to <= Len(d.json) /\ n.eq \in Int
  BY Places
<1> QED
  BY <1>1, <1>2, <1>3

\* What is not the root is in a list.
LEMMA InsideList ==
    ASSUME NEW d \in Descriptors, NEW n \in d.tree, n.up # 0
    PROVE  \E m \in d.tree : n \in InList(d, m) /\ HasList(d, m)
<1>1. PICK m \in d.tree : m.open = n.up
  BY Places
<1>2. n \in InList(d, m)
  BY <1>1 DEF InList
<1>3. ~HasValue(d, m)
  BY <1>2 DEF HasValue
<1> QED
  BY <1>1, <1>2, <1>3, Places

\* What ends with the text is the root.
LEMMA EndsWithRoot ==
    ASSUME NEW d \in Descriptors, NEW n \in d.tree, n.close = Len(d.text)
    PROVE  n.up = 0
<1> SUFFICES ASSUME n.up # 0 PROVE FALSE
  OBVIOUS
<1>1. PICK m \in d.tree : n \in InList(d, m) /\ HasList(d, m)
  BY InsideList
<1>2. FollowedInList(d, m, n)
  BY <1>1 DEF HasList
<1>3. n.close + 1 = m.close \/ \E next \in InList(d, m) : next.open = n.close + 1
  BY <1>2 DEF FollowedInList
<1>4. n.close + 1 # m.close
  BY Places, Texts
<1>5. PICK next \in InList(d, m) : next.open = n.close + 1
  BY <1>3, <1>4
<1>6. next \in d.tree
  BY DEF InList
<1>7. next.open \in Int /\ next.open < Len(d.text)
  BY <1>6, InText
<1> QED
  BY <1>5, <1>7, InText

\* What is behind a node: the next in its list, the end of its list, or nothing
\* when it is the root.
LEMMA Behind ==
    ASSUME NEW d \in Descriptors, NEW n \in d.tree,
           n.close + 1 <= Len(d.text)
    PROVE  \/ /\ n.up # 0
              /\ d.text[n.close + 1] = "("
              /\ \E m \in d.tree : m.open = n.close + 1 /\ m.from = n.to + 2
              /\ n.to + 2 <= Len(d.json)
              /\ d.json[n.to + 1] = Comma /\ d.json[n.to + 2] = Quote
           \/ /\ d.text[n.close + 1] # "("
              /\ n.to + 1 <= Len(d.json) /\ d.json[n.to + 1] = EndBrace
              /\ \/ n.up # 0 /\ \E m \in d.tree : /\ InList(d, m) # {}
                                                   /\ m.close = n.close + 1 /\ m.to = n.to + 1
                 \/ /\ n.up = 0
                    /\ n.close + 1 = Len(d.text) /\ d.text[n.close + 1] \notin Brackets
                    /\ n.to + 1 = Len(d.json)
<1>1. CASE n.up = 0
  <2>1. /\ n.to + 1 = Len(d.json) /\ d.json[n.to + 1] = EndBrace
        /\ \/ n.close = Len(d.text)
           \/ n.close + 1 = Len(d.text) /\ d.text[n.close + 1] \notin Brackets
    BY <1>1, Places DEF IsRoot
  <2>2. n.close + 1 = Len(d.text) /\ d.text[n.close + 1] \notin Brackets
    <3>1. n.close # Len(d.text)
      BY InText
    <3> QED
      BY <2>1, <3>1
  <2>3. d.text[n.close + 1] # "("
    BY <2>2 DEF Brackets
  <2> QED
    <3>1. n.to \in Int /\ Len(d.json) \in Int
      BY InText
    <3>2. n.to + 1 <= Len(d.json)
      BY <2>1, <3>1
    <3> QED
      BY <1>1, <2>1, <2>2, <2>3, <3>2
<1>2. CASE n.up # 0
  <2>1. PICK m \in d.tree : n \in InList(d, m) /\ HasList(d, m)
    BY <1>2, InsideList
  <2>2. FollowedInList(d, m, n)
    BY <2>1 DEF HasList
  <2>3. CASE n.close + 1 = m.close /\ n.to + 1 = m.to
    <3>1. d.text[m.close] = ")" /\ d.json[m.to] = EndBrace /\ m.to <= Len(d.json)
      BY <2>1, Places DEF Named, HasList
    <3>2. d.text[n.close + 1] # "(" /\ d.json[n.to + 1] = EndBrace /\ n.to + 1 <= Len(d.json)
      BY <2>3, <3>1
    <3> QED
      BY <1>2, <2>1, <2>3, <3>2
  <2>4. CASE /\ d.json[n.to + 1] = Comma
             /\ \E next \in InList(d, m) : next.open = n.close + 1 /\ next.from = n.to + 2
    <3>1. PICK next \in InList(d, m) : next.open = n.close + 1 /\ next.from = n.to + 2
      BY <2>4
    <3>2. next \in d.tree
      BY DEF InList
    <3>3. d.text[next.open] = "(" /\ d.json[next.from] = Quote /\ next.from <= Len(d.json)
      <4>1. Named(d, next) /\ (HasValue(d, next) \/ HasList(d, next))
        BY <3>2, Places
      <4>2. next.from \in 1..Len(d.json)
        BY <3>2, Texts DEF IsDescriptor, Node
      <4> QED
        BY <4>1, <4>2, Texts DEF Named
    <3> QED
      BY <1>2, <2>4, <3>1, <3>2, <3>3
  <2> QED
    BY <2>2, <2>3, <2>4 DEF FollowedInList
<1> QED
  BY <1>1, <1>2

\* Appending what comes next in j.
LEMMA Extend ==
    ASSUME NEW j, j \in Seq(Chars), json \in Seq(Chars), IsPrefix(j),
           NEW piece \in Seq(Chars), json' = json \o piece,
           Len(json) + Len(piece) <= Len(j),
           \A k \in 1..Len(piece) : j[Len(json) + k] = piece[k]
    PROVE  IsPrefix(j)' /\ Len(json') = Len(json) + Len(piece)
<1>1. /\ Len(json) \in Nat /\ Len(piece) \in Nat
      /\ Len(json') = Len(json) + Len(piece)
      /\ \A k \in 1..Len(json) + Len(piece) :
           json'[k] = IF k <= Len(json) THEN json[k] ELSE piece[k - Len(json)]
  BY ConcatProperties
<1>2. ASSUME NEW k \in 1..Len(json) + Len(piece) PROVE json'[k] = j[k]
  <2>1. CASE k <= Len(json)
    BY <1>1, <2>1 DEF IsPrefix
  <2>2. CASE k > Len(json)
    <3>1. k - Len(json) \in 1..Len(piece) /\ Len(json) + (k - Len(json)) = k
      BY <1>1, <2>2
    <3> QED
      BY <1>1, <2>2, <3>1
  <2> QED
    BY <1>1, <2>1, <2>2
<1> QED
  BY <1>1, <1>2 DEF IsPrefix

\* The same for nothing, one, two and three characters.
LEMMA Extend0 ==
    ASSUME NEW j, IsPrefix(j), json \in Seq(Chars), json' = json \o <<>>
    PROVE  IsPrefix(j)' /\ Len(json') = Len(json)
<1>1. json \o <<>> = json
  OBVIOUS
<1> QED
  BY <1>1 DEF IsPrefix

\* One character.
LEMMA Extend1 ==
    ASSUME NEW j, j \in Seq(Chars), json \in Seq(Chars), IsPrefix(j),
           NEW a \in Chars, json' = json \o <<a>>,
           Len(json) + 1 <= Len(j), j[Len(json) + 1] = a
    PROVE  IsPrefix(j)' /\ Len(json') = Len(json) + 1
<1>1. /\ <<a>> \in Seq(Chars) /\ Len(<<a>>) = 1
      /\ \A k \in 1..Len(<<a>>) : j[Len(json) + k] = <<a>>[k]
  OBVIOUS
<1> QED
  BY <1>1, Extend

\* Two characters.
LEMMA Extend2 ==
    ASSUME NEW j, j \in Seq(Chars), json \in Seq(Chars), IsPrefix(j),
           NEW a \in Chars, NEW b \in Chars, json' = json \o <<a, b>>,
           Len(json) + 2 <= Len(j), j[Len(json) + 1] = a, j[Len(json) + 2] = b
    PROVE  IsPrefix(j)' /\ Len(json') = Len(json) + 2
<1>1. /\ <<a, b>> \in Seq(Chars) /\ Len(<<a, b>>) = 2
      /\ \A k \in 1..Len(<<a, b>>) : j[Len(json) + k] = <<a, b>>[k]
  OBVIOUS
<1> QED
  BY <1>1, Extend

\* Three characters.
LEMMA Extend3 ==
    ASSUME NEW j, j \in Seq(Chars), json \in Seq(Chars), IsPrefix(j),
           NEW a \in Chars, NEW b \in Chars, NEW c \in Chars, json' = json \o <<a, b, c>>,
           Len(json) + 3 <= Len(j),
           j[Len(json) + 1] = a, j[Len(json) + 2] = b, j[Len(json) + 3] = c
    PROVE  IsPrefix(j)' /\ Len(json') = Len(json) + 3
<1>1. /\ <<a, b, c>> \in Seq(Chars) /\ Len(<<a, b, c>>) = 3
      /\ \A k \in 1..Len(<<a, b, c>>) : j[Len(json) + k] = <<a, b, c>>[k]
  OBVIOUS
<1> QED
  BY <1>1, Extend

\* How the places of a node lie in texts of lengths lt and lj.
Order(o, e, c, f, t, b, lt, lj) ==
    /\ 1 <= o /\ o + 1 < e /\ e < c /\ c <= lt
    /\ 1 <= f /\ b = f + (e - o) + 2 /\ b <= t /\ t <= lj

\* The places of a node as numbers.
Numbers(d, n, o, e, c, f, t, b, lt, lj, z) ==
    /\ n.open = o /\ n.eq = e /\ n.close = c /\ n.from = f /\ n.to = t
    /\ Body(n) = b /\ NameLen(n) = e - o - 1 /\ ValueLen(n) = c - e - 1
    /\ Len(d.text) = lt /\ Len(d.json) = lj
    /\ Slack(n) = z /\ 0 <= z /\ z <= 1
    /\ Order(o, e, c, f, t, b, lt, lj)

\* Every node has them.
LEMMA NodeNumbers ==
    ASSUME NEW d \in Descriptors, NEW n \in d.tree
    PROVE  \E o, e, c, f, t, b, lt, lj, z \in Int : Numbers(d, n, o, e, c, f, t, b, lt, lj, z)
<1>1. PICK o, e, c, f, t, lt, lj \in Int :
        /\ n.open = o /\ n.eq = e /\ n.close = c /\ n.from = f /\ n.to = t
        /\ Len(d.text) = lt /\ Len(d.json) = lj
  <2>1. /\ n.open \in Int /\ n.eq \in Int /\ n.close \in Int /\ n.from \in Int /\ n.to \in Int
    BY Places
  <2>2. Len(d.text) \in Int /\ Len(d.json) \in Int
    BY InText
  <2> QED
    BY <2>1, <2>2, Zenon
<1>2. 1 <= o /\ o + 1 < e /\ e < c /\ c <= lt /\ 1 <= f /\ t <= lj
  BY <1>1, Places
<1>3. NameLen(n) = e - o - 1 /\ ValueLen(n) = c - e - 1 /\ Body(n) = f + (e - o) + 2
  BY <1>1 DEF NameLen, ValueLen, Body
<1>4. f + (e - o) + 2 <= t
  <2>1. CASE HasValue(d, n)
    <3>1. t = (f + (e - o) + 2) + (c - e - 1) + 1
      BY <1>1, <1>3, <2>1 DEF HasValue
    <3> QED
      BY <1>2, <3>1
  <2>2. CASE HasList(d, n)
    BY <1>1, <1>3, <2>2 DEF HasList
  <2> QED
    BY <2>1, <2>2, Places
<1> DEFINE b == f + (e - o) + 2
           z == Slack(n)
<1>5. b \in Int /\ z \in Int /\ Numbers(d, n, o, e, c, f, t, b, lt, lj, z)
  BY <1>1, <1>2, <1>3, <1>4 DEF Numbers, Order, Slack
<1> HIDE DEF b, z
<1> QED
  BY <1>5

\* In a name: the next character is the next of the JSON.
LEMMA InNameNext ==
    ASSUME NEW d \in Descriptors, NEW n \in d.tree, NEW r \in Nat, NEW l \in Nat,
           InName(n, r, l), r + 1 < n.eq
    PROVE  /\ d.text[r + 1] \notin Special /\ d.json[l + 1] = d.text[r + 1]
           /\ l + 1 <= Len(d.json)
           /\ InName(n, r + 1, l + 1)
<1>1. PICK o, e, c, f, t, b, lt, lj, z \in Int : Numbers(d, n, o, e, c, f, t, b, lt, lj, z)
  BY NodeNumbers
<1>2. o <= r /\ r + 1 < e /\ l = f + (r - o) /\ l <= r + o - z
  BY <1>1 DEF Numbers, InName
<1>3. Order(o, e, c, f, t, b, lt, lj)
  BY <1>1 DEF Numbers
<1>4. PICK k \in 1..NameLen(n) : o + k = r + 1 /\ f + k = l + 1
  <2>1. (r + 1) - o \in 1..(e - o - 1)
    BY <1>2, <1>3 DEF Order
  <2> QED
    BY <1>1, <1>2, <2>1 DEF Numbers
<1>5. d.text[o + k] \notin Special /\ d.json[f + k] = d.text[o + k]
  BY <1>1, <1>4, Places DEF Named, Numbers
<1>6. l + 1 <= lj /\ o <= r + 1 /\ l + 1 = f + ((r + 1) - o) /\ l + 1 <= (r + 1) + o - z
  BY <1>2, <1>3 DEF Order
<1>7. InName(n, r + 1, l + 1)
  BY <1>1, <1>2, <1>6 DEF Numbers, InName
<1> QED
  BY <1>1, <1>4, <1>5, <1>6, <1>7 DEF Numbers

\* With what the JSON of d goes on, k characters, when the code reads the
\* character behind r others.
Writes(d, r, l, k) ==
    LET before == d.text[r]
        this   == d.text[r + 1]
        behind == d.text[r + 2]
        j      == d.json
    IN  \/ this \notin Special /\ k = 1 /\ j[l + 1] = this
        \/ this = "(" /\ before = ")" /\ k = 0
        \/ this = "(" /\ before # ")" /\ k = 2 /\ j[l + 1] = Brace /\ j[l + 2] = Quote
        \/ this = "=" /\ behind = "(" /\ k = 2 /\ j[l + 1] = Quote /\ j[l + 2] = ":"
        \/ /\ this = "=" /\ behind # "("
           /\ k = 3 /\ j[l + 1] = Quote /\ j[l + 2] = ":" /\ j[l + 3] = Quote
        \/ /\ this = ")" /\ before = ")" /\ behind = "("
           /\ k = 2 /\ j[l + 1] = Comma /\ j[l + 2] = Quote
        \/ this = ")" /\ before = ")" /\ behind # "(" /\ k = 1 /\ j[l + 1] = EndBrace
        \/ /\ this = ")" /\ before # ")" /\ behind = "("
           /\ k = 3 /\ j[l + 1] = Quote /\ j[l + 2] = Comma /\ j[l + 3] = Quote
        \/ /\ this = ")" /\ before # ")" /\ behind # "("
           /\ k = 2 /\ j[l + 1] = Quote /\ j[l + 2] = EndBrace

\* A turn writes what the JSON goes on with, and comes to a place again.
GoesOn(d, r, l) ==
    \E m \in d.tree, k \in 0..3 :
        l + k <= Len(d.json) /\ Writes(d, r, l, k) /\ AtNode(d, m, r + 1, l + k)

\* What a node has at its places.
LEMMA AtPlaces ==
    ASSUME NEW d \in Descriptors, NEW n \in d.tree,
           NEW o, NEW e, NEW c, NEW f, NEW t, NEW b, NEW lt, NEW lj, NEW z,
           Numbers(d, n, o, e, c, f, t, b, lt, lj, z)
    PROVE  /\ d.text[o] = "(" /\ d.text[e] = "=" /\ d.text[c] = ")"
           /\ d.json[f] = Quote /\ d.json[b - 2] = Quote /\ d.json[b - 1] = ":"
           /\ HasValue(d, n) => d.json[b] = Quote /\ d.json[t] = Quote /\ t = b + (c - e - 1) + 1
           /\ HasList(d, n) => d.json[b] = Brace /\ d.json[t] = EndBrace
<1>1. Named(d, n)
  BY Places
<1> QED
  BY <1>1 DEF Named, HasValue, HasList, Numbers

\* Behind "=" there is an opening parenthesis only in front of a list.
LEMMA BehindEq ==
    ASSUME NEW d \in Descriptors, NEW n \in d.tree
    PROVE  /\ HasValue(d, n) => d.text[n.eq + 1] # "("
           /\ HasList(d, n) => d.text[n.eq + 1] = "("
<1>1. PICK o, e, c, f, t, b, lt, lj, z \in Int : Numbers(d, n, o, e, c, f, t, b, lt, lj, z)
  BY NodeNumbers
<1>2. e < c
  BY <1>1 DEF Numbers, Order
<1>3. n.eq = e /\ n.close = c /\ ValueLen(n) = c - e - 1
  BY <1>1 DEF Numbers
<1>4. ASSUME HasValue(d, n) PROVE d.text[e + 1] # "("
  <2>1. CASE e + 1 = c
    <3>1. d.text[c] = ")"
      BY <1>1, AtPlaces
    <3> QED
      BY <2>1, <3>1
  <2>2. CASE e + 1 < c
    <3>1. 1 \in 1..ValueLen(n)
      BY <1>3, <2>2
    <3>2. d.text[e + 1] \notin Special
      BY <1>3, <1>4, <3>1 DEF HasValue
    <3> QED
      BY <3>2 DEF Special, Brackets
  <2> QED
    BY <1>2, <2>1, <2>2
<1>5. ASSUME HasList(d, n) PROVE d.text[e + 1] = "("
  <2>1. PICK m \in InList(d, n) : m.open = e + 1
    BY <1>3, <1>5 DEF HasList
  <2>2. m \in d.tree
    BY DEF InList
  <2>3. d.text[m.open] = "("
    BY <2>2, Places DEF Named
  <2> QED
    BY <2>1, <2>3
<1> QED
  BY <1>3, <1>4, <1>5

\* From a name the loop goes on in it, in the value or before the first of a list.
LEMMA FromName ==
    ASSUME NEW d \in Descriptors, NEW n \in d.tree, NEW r \in Nat, NEW l \in Nat,
           InName(n, r, l), r + 2 <= Len(d.text)
    PROVE  GoesOn(d, r, l)
<1>1. PICK o, e, c, f, t, b, lt, lj, z \in Int : Numbers(d, n, o, e, c, f, t, b, lt, lj, z)
  BY NodeNumbers
<1>2. /\ Order(o, e, c, f, t, b, lt, lj)
      /\ n.open = o /\ n.eq = e /\ n.close = c /\ Body(n) = b /\ Len(d.json) = lj
  BY <1>1 DEF Numbers
<1>3. o <= r /\ r < e /\ l = f + (r - o) /\ l <= r + o - z
  BY <1>1 DEF Numbers, InName
<1>6. Slack(n) = z /\ 0 <= z
  BY <1>1 DEF Numbers
<1>4. CASE r + 1 < e
  <2>1. r + 1 < n.eq
    BY <1>2, <1>4
  <2>2. l + 1 <= Len(d.json) /\ Writes(d, r, l, 1) /\ AtNode(d, n, r + 1, l + 1)
    BY <2>1, InNameNext DEF Writes, AtNode
  <2> QED
    BY <2>2 DEF GoesOn
<1>5. CASE r + 1 = e
  <2>1. b - 2 = l + 1 /\ b - 1 = l + 2 /\ b = l + 3 /\ b <= lj /\ r + 2 = e + 1
    <3>1. b = f + (e - o) + 2 /\ b <= t /\ t <= lj
      BY <1>2 DEF Order
    <3>2. b = l + 3
      BY <1>3, <1>5, <3>1
    <3>3. b - 2 = l + 1 /\ b - 1 = l + 2
      BY <3>2
    <3>4. b <= lj
      BY <3>1
    <3>5. r + 2 = e + 1
      BY <1>5
    <3> QED
      BY <3>2, <3>3, <3>4, <3>5, Zenon
  <2>2. d.text[r + 1] = "=" /\ d.json[l + 1] = Quote /\ d.json[l + 2] = ":"
    <3>1. d.text[e] = "=" /\ d.json[b - 2] = Quote /\ d.json[b - 1] = ":"
      BY <1>1, AtPlaces
    <3> QED
      BY <1>5, <2>1, <3>1
  <2>3. CASE HasValue(d, n)
    <3>1. d.text[r + 2] # "("
      BY <1>2, <2>1, <2>3, BehindEq
    <3>2. d.json[l + 3] = Quote
      <4>1. d.json[b] = Quote
        BY <1>1, <2>3, AtPlaces
      <4> QED
        BY <2>1, <4>1
    <3>3. Writes(d, r, l, 3)
      BY <2>2, <3>1, <3>2 DEF Writes
    <3>4. l + 3 <= Len(d.json)
      BY <1>2, <2>1
    <3>5. InValue(d, n, r + 1, l + 3)
      <4>1. InList(d, n) = {}
        BY <2>3 DEF HasValue
      <4>2. e <= r + 1 /\ r + 1 < c
        BY <1>2, <1>5 DEF Order
      <4>3. l + 3 = b + ((r + 1) - e)
        BY <1>5, <2>1
      <4>4. l + 3 <= (r + 1) + o + 2 - z
        BY <1>3
      <4> QED
        BY <1>2, <1>6, <4>1, <4>2, <4>3, <4>4 DEF InValue
    <3> QED
      BY <3>3, <3>4, <3>5 DEF GoesOn, AtNode
  <2>4. CASE HasList(d, n)
    <3>1. PICK m \in InList(d, n) : m.open = e + 1 /\ m.from = b + 1
      BY <1>2, <2>4 DEF HasList
    <3>2. m \in d.tree
      BY DEF InList
    <3>3. d.text[r + 2] = "("
      BY <1>2, <2>1, <2>4, BehindEq
    <3>4. Writes(d, r, l, 2)
      BY <2>2, <3>3 DEF Writes
    <3>5. l + 2 <= Len(d.json)
      BY <1>2, <2>1
    <3>6. BeforeFirst(d, m, r + 1, l + 2)
      <4>1. (r + 1) + 1 = e + 1 /\ (b + 1) - 1 = b /\ l + 2 = (b + 1) - 2 /\ l + 2 <= 2 * (r + 1) - 1
        BY <1>2, <1>3, <1>5, <1>6, <2>1 DEF Order
      <4>2. d.json[b] = Brace
        BY <1>1, <2>4, AtPlaces
      <4> QED
        BY <2>2, <3>1, <4>1, <4>2 DEF BeforeFirst
    <3> QED
      BY <3>2, <3>4, <3>5, <3>6 DEF GoesOn, AtNode
  <2> QED
    BY <2>3, <2>4, Places
<1> QED
  BY <1>3, <1>4, <1>5

\* From before a node it goes on in the node's name.
LEMMA FromBefore ==
    ASSUME NEW d \in Descriptors, NEW n \in d.tree, NEW r \in Nat, NEW l \in Nat,
           BeforeFirst(d, n, r, l) \/ BeforeNext(d, n, r, l)
    PROVE  GoesOn(d, r, l)
<1>1. PICK o, e, c, f, t, b, lt, lj, z \in Int : Numbers(d, n, o, e, c, f, t, b, lt, lj, z)
  BY NodeNumbers
<1>2. /\ Order(o, e, c, f, t, b, lt, lj)
      /\ n.open = o /\ n.eq = e /\ n.from = f /\ Len(d.json) = lj
  BY <1>1 DEF Numbers
<1>6. Slack(n) = z /\ 0 <= z /\ z <= 1
  BY <1>1 DEF Numbers
<1>3. d.text[o] = "(" /\ d.json[f] = Quote
  BY <1>1, AtPlaces
<1>4. CASE BeforeFirst(d, n, r, l)
  <2>1. r + 1 = o /\ l = f - 2 /\ l <= 2 * r - 1
    BY <1>2, <1>4 DEF BeforeFirst
  <2>2. d.text[r] = "=" /\ d.json[f - 1] = Brace
    BY <1>2, <1>4 DEF BeforeFirst
  <2>3. f - 1 = l + 1 /\ f = l + 2 /\ f <= lj
    BY <1>2, <2>1 DEF Order
  <2>4. Writes(d, r, l, 2)
    <3>1. d.text[r + 1] = "(" /\ d.json[l + 1] = Brace /\ d.json[l + 2] = Quote
      BY <1>3, <2>1, <2>2, <2>3
    <3> QED
      BY <2>2, <3>1 DEF Writes
  <2>5. InName(n, r + 1, l + 2)
    <3>1. o <= r + 1 /\ r + 1 < e /\ l + 2 = f + ((r + 1) - o)
      BY <1>2, <2>1 DEF Order
    <3>2. l + 2 <= (r + 1) + o - z
      <4>1. z <= 1
        BY <1>6
      <4> QED
        BY <2>1, <4>1
    <3> QED
      BY <1>2, <1>6, <3>1, <3>2 DEF InName
  <2>6. l + 2 <= Len(d.json)
    BY <1>2, <2>3
  <2> QED
    BY <2>4, <2>5, <2>6 DEF GoesOn, AtNode
<1>5. CASE BeforeNext(d, n, r, l)
  <2>1. r + 1 = o /\ l = f /\ l <= 2 * r
    BY <1>2, <1>5 DEF BeforeNext
  <2>2. Writes(d, r, l, 0)
    <3>1. d.text[r] = ")" /\ d.text[r + 1] = "("
      BY <1>3, <1>5, <2>1 DEF BeforeNext
    <3> QED
      BY <3>1 DEF Writes
  <2>3. InName(n, r + 1, l + 0)
    <3>1. o <= r + 1 /\ r + 1 < e /\ l + 0 = f + ((r + 1) - o)
      BY <1>2, <2>1 DEF Order
    <3>2. l + 0 <= (r + 1) + o - z
      <4>1. z <= 1
        BY <1>6
      <4> QED
        BY <2>1, <4>1
    <3> QED
      BY <1>2, <1>6, <3>1, <3>2 DEF InName
  <2>4. l + 0 <= Len(d.json)
    <3>1. l + 0 <= lj
      BY <1>2, <2>1 DEF Order
    <3> QED
      BY <1>2, <3>1
  <2> QED
    BY <2>2, <2>3, <2>4 DEF GoesOn, AtNode
<1> QED
  BY <1>4, <1>5

\* Behind the ")" of a node, with its JSON written.
LEMMA FromClose ==
    ASSUME NEW d \in Descriptors, NEW n \in d.tree, NEW r \in Nat, NEW s \in Nat,
           r + 1 = n.close, s = n.to, s <= 2 * r + 1 - Slack(n), r + 2 <= Len(d.text)
    PROVE  \E m \in d.tree, k \in 1..2 :
             /\ s + k <= Len(d.json) /\ AtNode(d, m, r + 1, s + k)
             /\ \/ d.text[r + 2] = "(" /\ k = 2 /\ d.json[s + 1] = Comma /\ d.json[s + 2] = Quote
                \/ d.text[r + 2] # "(" /\ k = 1 /\ d.json[s + 1] = EndBrace
<1>1. n.close + 1 = r + 2 /\ n.to + 1 = s + 1 /\ n.to + 2 = s + 2 /\ (r + 1) + 1 = r + 2
  <2>1. (r + 1) + 1 = r + 2
    OBVIOUS
  <2>2. n.close + 1 = (r + 1) + 1 /\ n.to + 1 = s + 1 /\ n.to + 2 = s + 2
    BY Zenon
  <2> QED
    BY <2>1, <2>2, Zenon
<1>2. d.text[r + 1] = ")"
  BY Places DEF Named
<1>3. CASE /\ d.text[r + 2] = "("
           /\ n.up # 0 /\ \E m \in d.tree : m.open = r + 2 /\ m.from = s + 2
           /\ s + 2 <= Len(d.json) /\ d.json[s + 1] = Comma /\ d.json[s + 2] = Quote
  <2>1. PICK m \in d.tree : m.open = r + 2 /\ m.from = s + 2
    BY <1>3
  <2>2. s + 2 <= 2 * (r + 1)
    BY <1>3 DEF Slack
  <2>3. BeforeNext(d, m, r + 1, s + 2)
    BY <1>1, <1>2, <2>1, <2>2 DEF BeforeNext
  <2> QED
    BY <1>3, <2>3 DEF AtNode
<1>4. CASE /\ d.text[r + 2] # "(" /\ s + 1 <= Len(d.json) /\ d.json[s + 1] = EndBrace
           /\ n.up # 0
           /\ \E m \in d.tree : InList(d, m) # {} /\ m.close = r + 2 /\ m.to = s + 1
  <2>1. PICK m \in d.tree : InList(d, m) # {} /\ m.close = r + 2 /\ m.to = s + 1
    BY <1>4
  <2>2. s + 1 <= 2 * (r + 1) - 1
    BY <1>4 DEF Slack
  <2>3. BeforeListEnd(d, m, r + 1, s + 1)
    BY <1>1, <1>2, <2>1, <2>2 DEF BeforeListEnd
  <2> QED
    BY <1>4, <2>3 DEF AtNode
<1>5. CASE /\ d.text[r + 2] # "(" /\ s + 1 = Len(d.json) /\ d.json[s + 1] = EndBrace
           /\ n.up = 0 /\ r + 2 = Len(d.text) /\ d.text[r + 2] \notin Brackets
  <2>1. s + 1 <= 2 * (r + 1)
    BY <1>5 DEF Slack
  <2>2. BehindRoot(d, n, r + 1, s + 1)
    BY <1>1, <1>5, <2>1 DEF BehindRoot
  <2>3. s + 1 <= Len(d.json)
    BY <1>5
  <2> QED
    BY <1>5, <2>2, <2>3 DEF AtNode
<1>6. n.close + 1 <= Len(d.text)
  BY <1>1
<1> QED
  BY <1>1, <1>3, <1>4, <1>5, <1>6, Behind

\* The end of a list is the end of its node.
LEMMA FromListEnd ==
    ASSUME NEW d \in Descriptors, NEW n \in d.tree, NEW r \in Nat, NEW l \in Nat,
           BeforeListEnd(d, n, r, l), r + 2 <= Len(d.text)
    PROVE  GoesOn(d, r, l)
<1>1. r + 1 = n.close /\ l = n.to /\ l <= 2 * r + 1 - Slack(n) /\ d.text[r] = ")"
  BY DEF BeforeListEnd, Slack
<1>2. d.text[r + 1] = ")"
  BY <1>1, Places DEF Named
<1>3. PICK m \in d.tree, k \in 1..2 :
        /\ l + k <= Len(d.json) /\ AtNode(d, m, r + 1, l + k)
        /\ \/ d.text[r + 2] = "(" /\ k = 2 /\ d.json[l + 1] = Comma /\ d.json[l + 2] = Quote
           \/ d.text[r + 2] # "(" /\ k = 1 /\ d.json[l + 1] = EndBrace
  BY <1>1, FromClose
<1>4. Writes(d, r, l, k)
  BY <1>1, <1>2, <1>3 DEF Writes
<1>5. k \in 0..3
  OBVIOUS
<1> QED
  BY <1>3, <1>4, <1>5 DEF GoesOn

\* Of a value: its characters, and the end of its JSON.
LEMMA InValueNext ==
    ASSUME NEW d \in Descriptors, NEW n \in d.tree, NEW r \in Nat, NEW l \in Nat,
           InValue(d, n, r, l)
    PROVE  /\ r + 1 < n.close \/ r + 1 = n.close
           /\ r + 1 < n.close => /\ d.text[r + 1] \notin Special /\ d.json[l + 1] = d.text[r + 1]
                                 /\ l + 1 <= Len(d.json)
                                 /\ InValue(d, n, r + 1, l + 1)
           /\ r + 1 = n.close => /\ d.text[r + 1] = ")" /\ d.text[r] # ")"
                                 /\ l + 1 = n.to /\ l + 1 <= 2 * r + 1 - Slack(n)
                                 /\ n.close > 4 => l + 1 <= 2 * r
                                 /\ d.json[l + 1] = Quote
<1>1. PICK o, e, c, f, t, b, lt, lj, z \in Int : Numbers(d, n, o, e, c, f, t, b, lt, lj, z)
  BY NodeNumbers
<1>2. /\ Order(o, e, c, f, t, b, lt, lj)
      /\ n.open = o /\ n.eq = e /\ n.close = c /\ n.to = t /\ Body(n) = b /\ Len(d.json) = lj
      /\ NameLen(n) = e - o - 1 /\ ValueLen(n) = c - e - 1
  BY <1>1 DEF Numbers
<1>10. Slack(n) = z /\ 0 <= z /\ z <= 1
  BY <1>1 DEF Numbers
<1>3. e <= r /\ r < c /\ l = b + (r - e) /\ l <= r + o + 2 - z /\ InList(d, n) = {}
  BY <1>2, <1>10 DEF InValue
<1>4. HasValue(d, n)
  BY <1>3, Places DEF HasList
<1>5. \A k \in 1..ValueLen(n) : d.text[e + k] \notin Special /\ d.json[b + k] = d.text[e + k]
  BY <1>2, <1>4 DEF HasValue
<1>6. t = b + (c - e - 1) + 1
  BY <1>2, <1>4 DEF HasValue
<1>7. z = 1 \/ o = 1
  <2>1. CASE n.up = 0
    <3>1. IsRoot(d, n)
      BY <2>1, Places
    <3> QED
      BY <1>2, <3>1 DEF IsRoot
  <2>2. CASE n.up # 0
    BY <1>10, <2>2 DEF Slack
  <2> QED
    BY <2>1, <2>2
<1>8. CASE r + 1 < c
  <2>1. PICK k \in 1..ValueLen(n) : e + k = r + 1 /\ b + k = l + 1
    <3>1. (r + 1) - e \in 1..(c - e - 1)
      BY <1>3, <1>8
    <3> QED
      BY <1>2, <1>3, <3>1
  <2>2. d.text[r + 1] \notin Special /\ d.json[l + 1] = d.text[r + 1]
    BY <1>5, <2>1
  <2>3. InValue(d, n, r + 1, l + 1)
    <3>1. e <= r + 1 /\ l + 1 = b + ((r + 1) - e) /\ l + 1 <= (r + 1) + o + 2 - z
      BY <1>3
    <3> QED
      BY <1>2, <1>3, <1>8, <1>10, <3>1 DEF InValue
  <2>4. l + 1 <= Len(d.json)
    <3>1. t <= lj
      BY <1>2 DEF Order
    <3>2. l + 1 <= lj
      BY <1>3, <1>6, <1>8, <3>1
    <3> QED
      BY <1>2, <3>2
  <2>5. r + 1 < n.close /\ r + 1 # n.close
    BY <1>2, <1>8
  <2> QED
    BY <2>2, <2>3, <2>4, <2>5
<1>9. CASE r + 1 = c
  <2>1. d.text[r + 1] = ")" /\ d.text[e] = "=" /\ d.json[t] = Quote
    <3>1. d.text[c] = ")" /\ d.text[e] = "=" /\ d.json[t] = Quote
      BY <1>1, <1>4, AtPlaces
    <3> QED
      BY <1>9, <3>1, Zenon
  <2>2. d.text[r] # ")"
    <3>1. CASE r = e
      BY <2>1, <3>1
    <3>2. CASE r > e
      <4>1. PICK k \in 1..ValueLen(n) : e + k = r
        <5>1. r - e \in 1..(c - e - 1)
          BY <1>3, <1>9, <3>2
        <5> QED
          BY <1>2, <5>1
      <4> QED
        BY <1>5, <4>1 DEF Special, Brackets
    <3> QED
      BY <1>3, <3>1, <3>2
  <2>3. t = l + 1 /\ l + 1 <= 2 * r + 1 - z /\ (c > 4 => l + 1 <= 2 * r)
    <3>1. /\ o + 1 < e /\ e <= r /\ l = b + (r - e) /\ l <= r + o + 2 - z
          /\ t = b + (c - e - 1) + 1 /\ r + 1 = c /\ 0 <= z /\ z <= 1 /\ (z = 1 \/ o = 1)
      BY <1>2, <1>3, <1>6, <1>7, <1>9, <1>10 DEF Order
    <3> QED
      BY <3>1
  <2>4. d.json[l + 1] = Quote
    BY <2>1, <2>3
  <2>5. r + 1 = n.close /\ l + 1 = n.to /\ ~(r + 1 < n.close)
    BY <1>2, <1>9, <2>3
  <2>6. l + 1 <= 2 * r + 1 - Slack(n) /\ (n.close > 4 => l + 1 <= 2 * r)
    BY <1>2, <1>10, <2>3, Zenon
  <2> QED
    BY <2>1, <2>2, <2>4, <2>5, <2>6
<1> QED
  BY <1>3, <1>8, <1>9

\* From a value the loop goes on in it or behind its node.
LEMMA FromValue ==
    ASSUME NEW d \in Descriptors, NEW n \in d.tree, NEW r \in Nat, NEW l \in Nat,
           InValue(d, n, r, l), r + 2 <= Len(d.text)
    PROVE  GoesOn(d, r, l)
<1>1. r + 1 < n.close \/ r + 1 = n.close
  <2>1. n.close \in Int /\ r < n.close
    BY Places DEF InValue
  <2> QED
    BY <2>1
<1>2. CASE r + 1 < n.close
  <2>1. /\ d.text[r + 1] \notin Special /\ d.json[l + 1] = d.text[r + 1]
        /\ l + 1 <= Len(d.json) /\ InValue(d, n, r + 1, l + 1)
    BY <1>2, InValueNext
  <2>2. Writes(d, r, l, 1) /\ AtNode(d, n, r + 1, l + 1)
    BY <2>1 DEF Writes, AtNode
  <2> QED
    BY <2>1, <2>2 DEF GoesOn
<1>3. CASE r + 1 = n.close
  <2>1. /\ r + 1 = n.close /\ d.text[r + 1] = ")" /\ d.text[r] # ")"
        /\ l + 1 = n.to /\ l + 1 <= 2 * r + 1 - Slack(n) /\ d.json[l + 1] = Quote
    BY <1>3, InValueNext
  <2>2. (l + 1) + 1 = l + 2 /\ (l + 1) + 2 = l + 3
    OBVIOUS
  <2>3. PICK m \in d.tree, k \in 1..2 :
          /\ (l + 1) + k <= Len(d.json) /\ AtNode(d, m, r + 1, (l + 1) + k)
          /\ \/ d.text[r + 2] = "(" /\ k = 2 /\ d.json[l + 2] = Comma /\ d.json[l + 3] = Quote
             \/ d.text[r + 2] # "(" /\ k = 1 /\ d.json[l + 2] = EndBrace
    <3> DEFINE s == l + 1
    <3>1. s \in Nat /\ r + 1 = n.close /\ s = n.to /\ s <= 2 * r + 1 - Slack(n)
      BY <2>1
    <3>2. s + 1 = l + 2 /\ s + 2 = l + 3
      BY <2>2
    <3> HIDE DEF s
    <3>3. \E m \in d.tree, k \in 1..2 :
            /\ s + k <= Len(d.json) /\ AtNode(d, m, r + 1, s + k)
            /\ \/ d.text[r + 2] = "(" /\ k = 2 /\ d.json[s + 1] = Comma /\ d.json[s + 2] = Quote
               \/ d.text[r + 2] # "(" /\ k = 1 /\ d.json[s + 1] = EndBrace
      BY <3>1, FromClose
    <3> QED
      BY <3>2, <3>3, Zenon DEF s
  <2>4. (l + 1) + k = l + (k + 1) /\ k + 1 \in 0..3 /\ (k = 1 => k + 1 = 2) /\ (k = 2 => k + 1 = 3)
    OBVIOUS
  <2>5. Writes(d, r, l, k + 1)
    BY <2>1, <2>3, <2>4 DEF Writes
  <2> QED
    BY <2>3, <2>4, <2>5 DEF GoesOn
<1> QED
  BY <1>1, <1>2, <1>3

\* From every place but the last.
LEMMA Proceeds ==
    ASSUME NEW d \in Descriptors, NEW n \in d.tree, NEW r \in Nat, NEW l \in Nat,
           AtNode(d, n, r, l), r + 2 <= Len(d.text)
    PROVE  GoesOn(d, r, l)
<1>1. ~BehindRoot(d, n, r, l)
  BY Texts DEF BehindRoot
<1> QED
  BY <1>1, FromName, FromValue, FromBefore, FromListEnd DEF AtNode

\* Joining short sequences.
LEMMA Joined ==
    ASSUME NEW S, NEW a \in S, NEW b \in S, NEW c \in S
    PROVE  /\ <<>> \o <<a>> = <<a>> /\ <<>> \o <<a, b>> = <<a, b>>
           /\ <<a>> \o <<b>> = <<a, b>> /\ <<a>> \o <<b, c>> = <<a, b, c>>
<1>1. <<>> \o <<a>> = <<a>>
  OBVIOUS
<1>2. <<>> \o <<a, b>> = <<a, b>>
  OBVIOUS
<1>3. <<a>> \o <<b>> = <<a, b>>
  <2> DEFINE s == <<a>> \o <<b>>
             u == <<a, b>>
  <2>1. <<a>> \in Seq(S) /\ <<b>> \in Seq(S) /\ Len(<<a>>) = 1 /\ Len(<<b>>) = 1
    OBVIOUS
  <2>2. s \in Seq(S) /\ Len(s) = 2 /\ s[1] = a /\ s[2] = b
    BY <2>1, ConcatProperties
  <2>3. u \in Seq(S) /\ Len(u) = 2 /\ u[1] = a /\ u[2] = b
    OBVIOUS
  <2> HIDE DEF s, u
  <2>4. \A k \in 1..Len(s) : s[k] = u[k]
    BY <2>2, <2>3
  <2>5. s = u
    BY <2>2, <2>3, <2>4, SeqEqual
  <2> QED
    BY <2>5 DEF s, u
<1>4. <<a>> \o <<b, c>> = <<a, b, c>>
  <2> DEFINE s == <<a>> \o <<b, c>>
             u == <<a, b, c>>
  <2>1. /\ <<a>> \in Seq(S) /\ <<b, c>> \in Seq(S) /\ Len(<<a>>) = 1 /\ Len(<<b, c>>) = 2
        /\ <<a>>[1] = a /\ <<b, c>>[1] = b /\ <<b, c>>[2] = c
    OBVIOUS
  <2>2. s \in Seq(S) /\ Len(s) = 3 /\ s[1] = a /\ s[2] = b /\ s[3] = c
    BY <2>1, ConcatProperties
  <2>3. u \in Seq(S) /\ Len(u) = 3 /\ u[1] = a /\ u[2] = b /\ u[3] = c
    OBVIOUS
  <2> HIDE DEF s, u
  <2>4. \A k \in 1..Len(s) : s[k] = u[k]
    BY <2>2, <2>3
  <2>5. s = u
    BY <2>2, <2>3, <2>4, SeqEqual
  <2> QED
    BY <2>5 DEF s, u
<1> QED
  BY <1>1, <1>2, <1>3, <1>4

\* What a turn appends, by the three characters it looks at.
LEMMA Pieces ==
    ASSUME NEW k \in Nat, NEW x, NEW y, NEW z,
           At(k - 1) = x, At(k) = y, At(k + 1) = z
    PROVE  /\ y \notin Special => Piece(k) = <<y>>
           /\ y = "(" /\ x = ")" => Piece(k) = <<>>
           /\ y = "(" /\ x # ")" => Piece(k) = <<Brace, Quote>>
           /\ y = "=" /\ z = "(" => Piece(k) = <<Quote, ":">>
           /\ y = "=" /\ z # "(" => Piece(k) = <<Quote, ":", Quote>>
           /\ y = ")" /\ x = ")" /\ z = "(" => Piece(k) = <<Comma, Quote>>
           /\ y = ")" /\ x = ")" /\ z # "(" => Piece(k) = <<EndBrace>>
           /\ y = ")" /\ x # ")" /\ z = "(" => Piece(k) = <<Quote, Comma, Quote>>
           /\ y = ")" /\ x # ")" /\ z # "(" => Piece(k) = <<Quote, EndBrace>>
<1>1. CASE y \notin Special
  BY <1>1 DEF Piece, Special, Brackets, Zero
<1>2. CASE y = "("
  BY <1>2 DEF Piece, OpenFirst, Special, Brackets, Zero
<1>3. CASE y = "="
  BY <1>3 DEF Piece, Special, Brackets, Zero
<1>4. CASE y = ")"
  <2>1. Piece(k) = (IF x = ")" THEN <<>> ELSE <<Quote>>)
                   \o (IF z = "(" THEN <<Comma, Quote>> ELSE <<EndBrace>>)
    BY <1>4 DEF Piece, Zero
  <2>2. /\ <<>> \o <<EndBrace>> = <<EndBrace>> /\ <<>> \o <<Comma, Quote>> = <<Comma, Quote>>
        /\ <<Quote>> \o <<EndBrace>> = <<Quote, EndBrace>>
        /\ <<Quote>> \o <<Comma, Quote>> = <<Quote, Comma, Quote>>
    BY Constants, Joined
  <2> QED
    BY <1>4, <2>1, <2>2, Zenon DEF Special, Brackets
<1>5. CASE y = Zero
  BY <1>5 DEF Zero, Special
<1> QED
  BY <1>1, <1>2, <1>3, <1>4, <1>5 DEF Special, Brackets

\* A turn appends what the JSON of d goes on with.
LEMMA PieceMatches ==
    ASSUME NEW d \in Descriptors, text = d.text, i \in Nat, i + 3 <= Len(text),
           json \in Seq(Chars), IsPrefix(d.json), json' = json \o Piece(i),
           NEW k \in 0..3, Writes(d, i + 1, Len(json), k), Len(json) + k <= Len(d.json)
    PROVE  IsPrefix(d.json)' /\ Len(json') = Len(json) + k
<1> DEFINE x == d.text[i + 1]
           y == d.text[(i + 1) + 1]
           z == d.text[(i + 1) + 2]
           l == Len(json)
           j == d.json
<1>1. At(i - 1) = x /\ At(i) = y /\ At(i + 1) = z
  <2>1. (i - 1) + 2 = i + 1 /\ i + 2 = (i + 1) + 1 /\ (i + 1) + 2 = (i + 1) + 2
    OBVIOUS
  <2> QED
    BY <2>1, Zenon DEF At
<1>2. y \in Chars
  <2>1. (i + 1) + 1 \in 1..Len(d.text)
    BY Texts
  <2> QED
    BY <2>1, Texts
<1>3. j \in Seq(Chars) /\ Quote \in Chars /\ ":" \in Chars /\ Brace \in Chars
      /\ EndBrace \in Chars /\ Comma \in Chars
  BY Texts, Constants
<1>4. \/ y \notin Special /\ k = 1 /\ j[l + 1] = y
      \/ y = "(" /\ x = ")" /\ k = 0
      \/ y = "(" /\ x # ")" /\ k = 2 /\ j[l + 1] = Brace /\ j[l + 2] = Quote
      \/ y = "=" /\ z = "(" /\ k = 2 /\ j[l + 1] = Quote /\ j[l + 2] = ":"
      \/ /\ y = "=" /\ z # "("
         /\ k = 3 /\ j[l + 1] = Quote /\ j[l + 2] = ":" /\ j[l + 3] = Quote
      \/ y = ")" /\ x = ")" /\ z = "(" /\ k = 2 /\ j[l + 1] = Comma /\ j[l + 2] = Quote
      \/ y = ")" /\ x = ")" /\ z # "(" /\ k = 1 /\ j[l + 1] = EndBrace
      \/ /\ y = ")" /\ x # ")" /\ z = "("
         /\ k = 3 /\ j[l + 1] = Quote /\ j[l + 2] = Comma /\ j[l + 3] = Quote
      \/ y = ")" /\ x # ")" /\ z # "(" /\ k = 2 /\ j[l + 1] = Quote /\ j[l + 2] = EndBrace
  BY Zenon DEF Writes
<1> HIDE DEF x, y, z, j
<1>5. CASE k = 0
  <2>1. y = "(" /\ x = ")"
    BY <1>4, <1>5
  <2>2. Piece(i) = <<>>
    BY <1>1, <2>1, Pieces
  <2>3. IsPrefix(j)
    BY DEF j
  <2> QED
    BY <1>5, <2>2, <2>3, Extend0 DEF j
<1>6. CASE k = 1
  <2>1. PICK a \in Chars : Piece(i) = <<a>> /\ j[l + 1] = a
    BY <1>1, <1>2, <1>3, <1>4, <1>6, Pieces
  <2> QED
    BY <1>3, <1>6, <2>1, Extend1 DEF j
<1>7. CASE k = 2
  <2>1. PICK a \in Chars, b \in Chars : Piece(i) = <<a, b>> /\ j[l + 1] = a /\ j[l + 2] = b
    BY <1>1, <1>3, <1>4, <1>7, Pieces
  <2> QED
    BY <1>3, <1>7, <2>1, Extend2 DEF j
<1>8. CASE k = 3
  <2>1. PICK a \in Chars, b \in Chars, c \in Chars :
          Piece(i) = <<a, b, c>> /\ j[l + 1] = a /\ j[l + 2] = b /\ j[l + 3] = c
    BY <1>1, <1>3, <1>4, <1>8, Pieces
  <2> QED
    BY <1>3, <1>8, <2>1, Extend3 DEF j
<1> QED
  BY <1>5, <1>6, <1>7, <1>8

\* The opening of the object.
LEMMA OpenKeepsConverts ==
    ASSUME TypeOK, Converts, Open
    PROVE  Converts'
<1>1. /\ pc = "open" /\ UNCHANGED <<text, i, wanted>>
      /\ pc' \in {"open", "convert", "converted"}
  BY DEF Open
<1> SUFFICES ASSUME wanted # <<>> PROVE Converts'
  BY <1>1 DEF Converts
<1>2. PICK d \in Descriptors : Converting(d)
  BY <1>1 DEF Converts
<1>3. text = d.text /\ wanted = d.json /\ i = 0 /\ json = <<>> /\ text[1] = "("
  BY <1>1, <1>2, Texts DEF Converting
<1>4. json' = <<Brace, Quote>> /\ pc' = "convert"
  BY <1>3 DEF Open
<1>5. PICK n \in d.tree : n.up = 0
  BY Texts DEF IsDescriptor, IsTree
<1>6. IsRoot(d, n)
  BY <1>5, Places
<1>7. PICK o, e, c, f, t, b, lt, lj, z \in Int : Numbers(d, n, o, e, c, f, t, b, lt, lj, z)
  BY NodeNumbers
<1>8. /\ Order(o, e, c, f, t, b, lt, lj) /\ n.open = o /\ n.eq = e /\ n.from = f
      /\ Len(d.text) = lt /\ Len(d.json) = lj /\ o = 1 /\ f = 2
  BY <1>6, <1>7 DEF Numbers, IsRoot
<1>9. Len(json') = 2 /\ json'[1] = Brace /\ json'[2] = Quote /\ json' # <<>>
  BY <1>4
<1>10. lt >= 4 /\ lj >= 2 /\ 1 < e
  BY <1>8 DEF Order
<1>11. InName(n, 1, 2)
  <2>1. 1 <= 1 /\ 2 = 2 + (1 - 1) /\ 2 <= 1 + 1 - 0
    OBVIOUS
  <2>2. Slack(n) = 0
    BY <1>5 DEF Slack
  <2> QED
    BY <1>8, <1>10, <2>1, <2>2 DEF InName
<1>12. d.json[1] = Brace /\ d.json[2] = Quote
  <2>1. d.json[f] = Quote
    BY <1>7, AtPlaces
  <2> QED
    BY <1>6, <1>8, <2>1 DEF IsRoot
<1>13. IsPrefix(d.json)'
  <2>1. 2 <= Len(d.json)
    BY <1>8, <1>10
  <2>2. \A k \in 1..2 : k = 1 \/ k = 2
    OBVIOUS
  <2> QED
    BY <1>9, <1>12, <2>1, <2>2 DEF IsPrefix
<1>14. i' + 1 = 1 /\ 1 <= Len(text') - 1
  BY <1>1, <1>3, <1>8, <1>10
<1>15. Converting(d)'
  BY <1>1, <1>3, <1>4, <1>9, <1>11, <1>13, <1>14 DEF Converting, AtNode
<1> QED
  BY <1>4, <1>15 DEF Converts

\* A turn of the loop.
LEMMA TurnKeepsConverts ==
    ASSUME TypeOK, Converts, Convert
    PROVE  Converts'
<1>1. pc = "convert" /\ i < Len(text) - 2 /\ i' = i + 1 /\ UNCHANGED <<pc, text, wanted>>
  BY DEF Convert
<1> SUFFICES ASSUME wanted # <<>> PROVE Converts'
  BY <1>1 DEF Converts
<1>2. PICK d \in Descriptors : Converting(d)
  BY <1>1 DEF Converts
<1>3. /\ text = d.text /\ wanted = d.json /\ IsPrefix(d.json) /\ json # <<>>
      /\ \E n \in d.tree : AtNode(d, n, i + 1, Len(json))
  BY <1>1, <1>2 DEF Converting
<1>4. i \in Nat /\ i + 3 <= Len(text) /\ Len(text) \in Nat /\ Len(text) >= 2
  <2>1. Len(text) \in Nat /\ Len(text) >= 2
    BY <1>3, Texts
  <2>2. i \in 0..Len(text)
    BY DEF TypeOK
  <2> QED
    BY <1>1, <2>1, <2>2
<1>5. json \in Seq(Chars) /\ Len(json) \in Nat
  BY DEF TypeOK
<1>6. json' = json \o Piece(i)
  <2>1. 2 < Size
    BY <1>4 DEF Size
  <2> QED
    BY <2>1 DEF Convert
<1>7. GoesOn(d, i + 1, Len(json))
  <2>1. i + 1 \in Nat /\ (i + 1) + 2 <= Len(d.text)
    BY <1>3, <1>4
  <2> QED
    BY <1>3, <1>5, <2>1, Proceeds
<1>8. PICK m \in d.tree, k \in 0..3 :
        /\ Len(json) + k <= Len(d.json) /\ Writes(d, i + 1, Len(json), k)
        /\ AtNode(d, m, (i + 1) + 1, Len(json) + k)
  BY <1>7 DEF GoesOn
<1>9. IsPrefix(d.json)' /\ Len(json') = Len(json) + k
  BY <1>3, <1>4, <1>5, <1>6, <1>8, PieceMatches
<1>14. json' # <<>>
  <2>1. Len(json) > 0
    BY <1>3, <1>5
  <2>2. Len(json') > 0
    BY <1>5, <1>9, <2>1
  <2> QED
    BY <2>2
<1>10. i' + 1 <= Len(text') - 1
  BY <1>1, <1>4
<1>11. AtNode(d, m, i' + 1, Len(json'))
  BY <1>1, <1>8, <1>9, Zenon
<1>12. \E n \in d.tree : AtNode(d, n, i' + 1, Len(json'))
  BY <1>11
<1>13. Converting(d)'
  BY <1>1, <1>3, <1>9, <1>10, <1>12, <1>14, Zenon DEF Converting
<1> QED
  BY <1>1, <1>13 DEF Converts

\* The last place is the ")" of the root, or behind it.  A text of four characters
\* has one place less than it needs.
LEMMA Ends ==
    ASSUME NEW d \in Descriptors, NEW n \in d.tree, NEW r \in Nat, NEW l \in Nat,
           AtNode(d, n, r, l), r + 1 = Len(d.text)
    PROVE  LET last   == d.text[r + 1]
               before == d.text[r]
               j      == d.json
           IN  \/ last # ")" /\ Len(j) = l /\ l <= 2 * r
               \/ last = ")" /\ before = ")" /\ Len(j) = l + 1 /\ l <= 2 * r /\ j[l + 1] = EndBrace
               \/ /\ last = ")" /\ before # ")" /\ Len(j) = l + 2
                  /\ Len(d.text) > 4 => l + 1 <= 2 * r
                  /\ j[l + 1] = Quote /\ j[l + 2] = EndBrace
<1>1. ~InName(n, r, l) /\ ~BeforeFirst(d, n, r, l) /\ ~BeforeNext(d, n, r, l)
  <2>1. PICK o, e, c, f, t, b, lt, lj, z \in Int : Numbers(d, n, o, e, c, f, t, b, lt, lj, z)
    BY NodeNumbers
  <2>2. o + 1 < e /\ e < c /\ c <= r + 1 /\ n.open = o /\ n.eq = e
    BY <2>1 DEF Numbers, Order
  <2>3. ~(r < e) /\ r + 1 # o
    BY <2>2
  <2> QED
    BY <2>2, <2>3 DEF InName, BeforeFirst, BeforeNext
<1>2. ASSUME r + 1 = n.close
      PROVE  n.to + 1 = Len(d.json) /\ d.json[n.to + 1] = EndBrace
  <2>1. n.up = 0
    BY <1>2, EndsWithRoot
  <2> QED
    BY <2>1, Places DEF IsRoot
<1>3. CASE InValue(d, n, r, l)
  <2>1. r + 1 = n.close
    <3>1. PICK c \in Int : n.close = c /\ c <= r + 1
      BY Places
    <3>2. r + 1 < c \/ r + 1 = c
      BY <1>3, <3>1, InValueNext
    <3> QED
      BY <3>1, <3>2
  <2>2. /\ d.text[r + 1] = ")" /\ d.text[r] # ")"
        /\ l + 1 = n.to /\ (n.close > 4 => l + 1 <= 2 * r) /\ d.json[l + 1] = Quote
    BY <1>3, <2>1, InValueNext
  <2>3. (l + 1) + 1 = Len(d.json) /\ d.json[(l + 1) + 1] = EndBrace
    BY <1>2, <2>1, <2>2
  <2>4. (l + 1) + 1 = l + 2
    OBVIOUS
  <2>5. n.close = Len(d.text)
    BY <2>1
  <2> QED
    BY <2>2, <2>3, <2>4, <2>5
<1>4. CASE BeforeListEnd(d, n, r, l)
  <2>1. r + 1 = n.close /\ d.text[r] = ")" /\ l = n.to /\ l <= 2 * r
    BY <1>4 DEF BeforeListEnd
  <2>2. d.text[r + 1] = ")"
    BY <2>1, Places DEF Named
  <2> QED
    BY <1>2, <2>1, <2>2
<1>5. CASE BehindRoot(d, n, r, l)
  BY <1>5 DEF BehindRoot, Brackets
<1> QED
  BY <1>1, <1>3, <1>4, <1>5 DEF AtNode

\* The end of the conversion.
LEMMA CloseKeepsConverts ==
    ASSUME TypeOK, Converts, Close
    PROVE  Converts'
<1>1. pc = "convert" /\ i >= Len(text) - 2 /\ pc' = "converted" /\ UNCHANGED <<text, i, wanted>>
  BY DEF Close
<1> SUFFICES ASSUME wanted # <<>> PROVE Converts'
  BY <1>1 DEF Converts
<1>2. PICK d \in Descriptors : Converting(d)
  BY <1>1 DEF Converts
<1>3. /\ text = d.text /\ wanted = d.json /\ IsPrefix(d.json)
      /\ i + 1 <= Len(text) - 1
      /\ \E n \in d.tree : AtNode(d, n, i + 1, Len(json))
  BY <1>1, <1>2 DEF Converting
<1>4. i \in Nat /\ i + 2 = Len(text) /\ Len(text) \in Nat /\ Len(text) >= 4
  <2>1. Len(text) \in Nat /\ Len(text) >= 4
    BY <1>3, Texts
  <2>2. i \in 0..Len(text)
    BY DEF TypeOK
  <2> QED
    BY <1>1, <1>3, <2>1, <2>2
<1>5. json \in Seq(Chars) /\ Len(json) \in Nat
  BY DEF TypeOK
<1> DEFINE last == d.text[(i + 1) + 1]
           before == d.text[i + 1]
           l == Len(json)
           j == d.json
<1>6. At(i) = last /\ At(i - 1) = before
  <2>1. (i - 1) + 2 = i + 1 /\ i + 2 = (i + 1) + 1
    BY <1>4
  <2> QED
    BY <1>3, <2>1, Zenon DEF At
<1>13. /\ last # ")" => json' = json
       /\ last = ")" /\ before = ")" => json' = Append(json, EndBrace)
       /\ last = ")" /\ before # ")" => json' = json \o <<Quote, EndBrace>>
  <2> HIDE DEF last, before
  <2>1. LastChars = {last}
    BY <1>4, <1>6 DEF LastChars
  <2> QED
    BY <1>6, <2>1 DEF Close
<1>7. \/ last # ")" /\ Len(j) = l /\ l <= 2 * (i + 1)
      \/ last = ")" /\ before = ")" /\ Len(j) = l + 1 /\ l <= 2 * (i + 1) /\ j[l + 1] = EndBrace
      \/ /\ last = ")" /\ before # ")" /\ Len(j) = l + 2
         /\ Len(d.text) > 4 => l + 1 <= 2 * (i + 1)
         /\ j[l + 1] = Quote /\ j[l + 2] = EndBrace
  <2>1. i + 1 \in Nat /\ (i + 1) + 1 = Len(d.text)
    BY <1>3, <1>4
  <2> QED
    BY <1>3, <1>5, <2>1, Ends
<1>8. j \in Seq(Chars) /\ Quote \in Chars /\ EndBrace \in Chars
  BY Texts, Constants
<1>9. IsPrefix(j)' /\ Len(json') = Len(j) /\ json' \in Seq(Chars)
  <2> HIDE DEF last, before, j
  <2>1. IsPrefix(j)
    BY <1>3 DEF j
  <2>2. CASE last # ")"
    <3>1. json' = json
      BY <1>13, <2>2
    <3> QED
      BY <1>5, <1>7, <2>1, <2>2, <3>1 DEF IsPrefix, j
  <2>3. CASE last = ")" /\ before = ")"
    <3>1. json' = json \o <<EndBrace>>
      BY <1>5, <1>8, <1>13, <2>3, AppendIsConcat
    <3>2. json \o <<EndBrace>> \in Seq(Chars)
      BY <1>5, <1>8, ShortSeq, ConcatProperties
    <3> QED
      BY <1>5, <1>7, <1>8, <2>1, <2>3, <3>1, <3>2, Extend1 DEF j
  <2>4. CASE last = ")" /\ before # ")"
    <3>1. json' = json \o <<Quote, EndBrace>>
      BY <1>13, <2>4
    <3>2. json \o <<Quote, EndBrace>> \in Seq(Chars)
      BY <1>5, <1>8, ShortSeq, ConcatProperties
    <3>3. l + 2 <= Len(j) /\ Len(j) = l + 2 /\ j[l + 1] = Quote /\ j[l + 2] = EndBrace
      BY <1>5, <1>7, <2>4
    <3>4. IsPrefix(j)' /\ Len(json') = l + 2
      BY <1>5, <1>8, <2>1, <3>1, <3>3, Extend2 DEF j
    <3> QED
      BY <3>1, <3>2, <3>3, <3>4
  <2> QED
    BY <2>2, <2>3, <2>4
<1>10. json' = j
  <2> HIDE DEF j
  <2>1. \A k \in 1..Len(json') : json'[k] = j[k]
    BY <1>9 DEF IsPrefix, j
  <2> QED
    BY <1>8, <1>9, <2>1, SeqEqual
<1>11. Len(text') > 4 => Len(json') + 1 <= 2 * Len(text')
  BY <1>1, <1>3, <1>4, <1>5, <1>7, <1>9
<1>12. Converting(d)'
  BY <1>1, <1>3, <1>10, <1>11 DEF Converting, Size
<1> QED
  BY <1>1, <1>12 DEF Converts

----------------------------------------------------------------------------
\* The other steps leave the texts alone, or set both to a descriptor's or to nothing.
LEMMA OthersKeepConverts ==
    ASSUME TInv, Converts,
           CallConvert \/ CallScan \/ ScanVisible \/ ScanOther \/ ScanEnd \/ WriteText \/ Return
             \/ UNCHANGED vars
    PROVE  Converts'
<1>1. CASE CallConvert
  <2>1. pc = "idle" /\ pc' = "open" /\ i' = i /\ json' = json
    BY <1>1 DEF CallConvert
  <2>2. i = 0 /\ json = <<>>
    BY <2>1 DEF TInv, LocalsReset, Converts
  <2>3. ASSUME wanted' # <<>> PROVE \E d \in Descriptors : Converting(d)'
    <3>1. PICK d \in Descriptors : text' = d.text /\ wanted' = d.json
      BY <1>1, <2>3 DEF CallConvert
    <3>2. Converting(d)'
      BY <2>1, <2>2, <3>1 DEF Converting
    <3> QED
      BY <3>2
  <2> QED
    BY <2>1, <2>3 DEF Converts
<1>2. CASE CallScan \/ ScanVisible \/ ScanOther \/ ScanEnd \/ WriteText
  <2>1. UNCHANGED <<wanted, json>> /\ pc \in {"idle"} \cup Scans /\ pc' \in Scans
    BY <1>2 DEF CallScan, ScanVisible, ScanOther, ScanEnd, WriteText, jsonVars, Scans
  <2> QED
    BY <2>1 DEF Converts, Scans
<1>3. CASE Return
  BY <1>3 DEF Return, Converts
<1>4. CASE UNCHANGED vars
  <2>1. UNCHANGED <<pc, text, i, json, wanted>>
    BY <1>4 DEF vars, jsonVars
  <2>2. \A d \in Descriptors : Converting(d) => Converting(d)'
    BY <2>1 DEF Converting, IsPrefix, Size
  <2> QED
    BY <2>1, <2>2 DEF Converts
<1> QED
  BY <1>1, <1>2, <1>3, <1>4

\* The place in the tree always exists: whatever the descriptor, a character and
\* its neighbours say what the JSON goes on with.
THEOREM ConversionInvariance == Spec => []Converts
<1>1. Init => Converts
  BY DEF Init, Converts
<1>2. TInv /\ Converts /\ [Next]_vars => Converts'
  <2>1. TInv => TypeOK
    BY DEF TInv
  <2> QED
    BY <2>1, OpenKeepsConverts, TurnKeepsConverts, CloseKeepsConverts, OthersKeepConverts DEF Next
<1> QED
  BY <1>1, <1>2, TextInvariance, PTL DEF Spec

\* parse_connect_data_to_json turns every descriptor into its own JSON.
THEOREM JsonIsRight == Spec => []JsonIsDescriptor
<1>1. TypeOK /\ Converts => JsonIsDescriptor
  <2> SUFFICES ASSUME TypeOK, Converts, wanted # <<>> PROVE JsonIsDescriptor
    BY DEF JsonIsDescriptor
  <2>1. CASE pc = "convert"
    <3>1. PICK d \in Descriptors : wanted = d.json /\ IsPrefix(d.json) /\ json # <<>>
      BY <2>1 DEF Converts, Converting
    <3>2. json \in Seq(Chars) /\ wanted \in Seq(Chars) /\ Len(json) \in 1..Len(wanted)
      <4>1. json \in Seq(Chars) /\ wanted \in Seq(Chars)
        BY DEF TypeOK
      <4>2. Len(json) \in Nat \ {0} /\ Len(wanted) \in Nat
        BY <3>1, <4>1
      <4> QED
        BY <3>1, <4>1, <4>2 DEF IsPrefix
    <3> DEFINE n == Len(json)
               part == SubSeq(wanted, 1, n)
    <3>3. part \in Seq(Chars) /\ Len(part) = n /\ \A k \in 1..n : part[k] = wanted[k]
      BY <3>2, SubSeqProperties
    <3>4. \A k \in 1..n : json[k] = part[k]
      BY <3>1, <3>3 DEF IsPrefix
    <3>5. json = part
      <4> HIDE DEF part
      <4> QED
        BY <3>2, <3>3, <3>4, SeqEqual
    <3> QED
      BY <2>1, <3>2, <3>5 DEF JsonIsDescriptor
  <2>2. CASE pc = "converted"
    BY <2>2 DEF JsonIsDescriptor, Converts, Converting
  <2>3. CASE pc \notin {"convert", "converted"}
    BY <2>3 DEF JsonIsDescriptor
  <2> QED
    BY <2>1, <2>2, <2>3
<1> QED
  BY <1>1, ConversionInvariance, TextTypeCorrect, PTL

\* Two places for every character read are enough, and one for a name.
LEMMA RoomAt ==
    ASSUME NEW d \in Descriptors, NEW n \in d.tree, NEW r \in Nat, NEW l \in Nat,
           AtNode(d, n, r, l)
    PROVE  l <= 2 * r + 1
<1>1. PICK o, e, c, f, t, b, lt, lj, z \in Int : Numbers(d, n, o, e, c, f, t, b, lt, lj, z)
  BY NodeNumbers
<1>2. o + 1 < e /\ 0 <= z
  BY <1>1 DEF Numbers, Order
<1>3. CASE InName(n, r, l)
  <2>1. o <= r /\ l <= r + o - z
    BY <1>1, <1>3 DEF InName, Numbers
  <2> QED
    BY <1>2, <2>1
<1>4. CASE InValue(d, n, r, l)
  <2>1. e <= r /\ l <= r + o + 2 - z
    BY <1>1, <1>4 DEF InValue, Numbers
  <2> QED
    BY <1>2, <2>1
<1>5. CASE BeforeFirst(d, n, r, l) \/ BeforeNext(d, n, r, l)
  BY <1>5 DEF BeforeFirst, BeforeNext
<1>6. CASE BeforeListEnd(d, n, r, l) \/ BehindRoot(d, n, r, l)
  BY <1>6 DEF BeforeListEnd, BehindRoot
<1> QED
  BY <1>3, <1>4, <1>5, <1>6 DEF AtNode

\* For a descriptor longer than four characters it never writes behind the end of
\* what tns_connect_handle allocated.
THEOREM JsonHasRoom == Spec => []TextFits
<1>1. TypeOK /\ Converts => TextFits
  <2> SUFFICES ASSUME TypeOK, Converts, pc # "idle", wanted # <<>>, Len(text) > 4
               PROVE  Len(json) + 1 <= Size
    BY DEF TextFits
  <2>1. pc \in {"open", "convert", "converted"}
    BY DEF Converts
  <2>2. PICK d \in Descriptors : Converting(d)
    BY <2>1 DEF Converts
  <2>3. text = d.text /\ Len(d.text) \in Nat /\ Len(d.text) >= 4
    BY <2>2, Texts DEF Converting
  <2>4. CASE pc = "open"
    <3>1. Len(json) = 0
      BY <2>2, <2>4 DEF Converting
    <3> QED
      BY <2>3, <3>1 DEF Size
  <2>5. CASE pc = "convert"
    <3>1. i + 1 <= Len(text) - 1 /\ i \in Nat /\ Len(json) \in Nat
      BY <2>2, <2>3, <2>5 DEF Converting, TypeOK
    <3>2. PICK n \in d.tree : AtNode(d, n, i + 1, Len(json))
      BY <2>2, <2>5 DEF Converting
    <3>3. Len(json) <= 2 * (i + 1) + 1
      BY <2>3, <3>1, <3>2, RoomAt
    <3> QED
      BY <2>3, <3>1, <3>3 DEF Size
  <2>6. CASE pc = "converted"
    BY <2>2, <2>6 DEF Converting
  <2> QED
    BY <2>1, <2>4, <2>5, <2>6
<1> QED
  BY <1>1, ConversionInvariance, TextTypeCorrect, PTL
=============================================================================
