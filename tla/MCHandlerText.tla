---------------------------- MODULE MCHandlerText ---------------------------
(***************************************************************************)
(* Model-checking instance of HandlerText.  A descriptor is a tree of      *)
(* named values and lists; its two renderings are the reference the        *)
(* conversion is compared with, and TextAssumption compares them with what *)
(* ConnectDescriptor says of the nodes.                                    *)
(***************************************************************************)
EXTENDS HandlerText

MCChars ==
    {"(", ")", "=", Brace, EndBrace, ":", Comma, Quote, Zero, "a", "b", "d", "n", "x", "y", " "}

Leaf(name, value) == [name |-> name, value |-> value, list |-> <<>>]
List(name, list) == [name |-> name, value |-> <<>>, list |-> list]

Leaves ==
    {Leaf(<<"a">>, <<>>), Leaf(<<"a">>, <<"x">>), Leaf(<<"a", "b">>, <<>>),
     Leaf(<<"a", "b">>, <<"x", "y">>)}

Lists(S) == {<<t>> : t \in S} \cup {<<t, u>> : t \in S, u \in S}

Nodes == {List(<<"n">>, l) : l \in Lists(Leaves)}

Trees == Leaves \cup Nodes \cup {List(<<"d">>, l) : l \in Lists(Leaves \cup Nodes)}

RECURSIVE Text(_), TextOf(_), Json(_), JsonOf(_)

Text(t) ==
    <<"(">> \o t.name \o <<"=">> \o (IF t.list = <<>> THEN t.value ELSE TextOf(t.list)) \o <<")">>
TextOf(list) == IF list = <<>> THEN <<>> ELSE Text(Head(list)) \o TextOf(Tail(list))

\* A member of an object.
Json(t) ==
    <<Quote>> \o t.name \o <<Quote, ":">>
    \o IF t.list = <<>> THEN <<Quote>> \o t.value \o <<Quote>>
       ELSE <<Brace>> \o JsonOf(t.list) \o <<EndBrace>>
JsonOf(list) ==
    Json(Head(list)) \o IF Tail(list) = <<>> THEN <<>> ELSE <<Comma>> \o JsonOf(Tail(list))

Object(t) == <<Brace>> \o Json(t) \o <<EndBrace>>

\* The nodes of t, whose text starts at open and whose JSON starts at from.
RECURSIVE Places(_, _, _, _), PlacesOf(_, _, _, _)

Places(t, open, from, up) ==
    LET eq == open + Len(t.name) + 1
    IN  {[open |-> open, eq |-> eq, close |-> open + Len(Text(t)) - 1,
          from |-> from, to |-> from + Len(Json(t)) - 1, up |-> up]}
        \cup PlacesOf(t.list, eq + 1, from + Len(t.name) + 4, open)
PlacesOf(list, open, from, up) ==
    IF list = <<>> THEN {}
    ELSE Places(Head(list), open, from, up)
         \cup PlacesOf(Tail(list), open + Len(Text(Head(list))),
                       from + Len(Json(Head(list))) + 1, up)

Tree(t) == Places(t, 1, 2, 0)

\* Connect data ends in a parenthesis or a zero.
MCDescriptors ==
    {[text |-> Text(t), json |-> Object(t), tree |-> Tree(t)] : t \in Trees}
    \cup {[text |-> Append(Text(t), Zero), json |-> Object(t), tree |-> Tree(t)] : t \in Trees}

\* Texts the conversion was not made for: with a blank in front, more than one
\* zero behind, a value with "=" in it, cut off, two roots, one character.
MCOtherTexts ==
    {<<" ">> \o Text(t) : t \in Leaves}
    \cup {Text(t) \o <<Zero, Zero>> : t \in Leaves}
    \cup {Text(Leaf(<<"a">>, <<"x", "=", "y">>)), <<"(", "a", "=", "x">>,
          Text(Leaf(<<"a">>, <<"x">>)) \o Text(Leaf(<<"b">>, <<"y">>)), <<"(">>}
=============================================================================
