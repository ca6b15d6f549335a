------------------------- MODULE ConnectDescriptor --------------------------
(***************************************************************************)
(* The descriptor in a CONNECT: a tree of named values and named lists,    *)
(* written (name=value) and (name=(..)(..)), and the same tree in JSON.  A *)
(* tree is given by its nodes, each with its place in both, so that what   *)
(* belongs together is said of a node and its neighbours.                  *)
(***************************************************************************)
EXTENDS Integers, Sequences

\* Characters, by name; Quote is the one that TLA+ writes as \", Zero the byte.
Quote == "'"
Brace == "{"
EndBrace == "}"
Comma == ","
Zero == "0"

\* The characters that no name and no value has.
Brackets == {"(", ")"}
Special == Brackets \cup {"=", Zero}

(***************************************************************************)
(* open, eq, close: where "(", "=" and ")" of the node are in the text;    *)
(* from, to: its first and last place in the JSON;                         *)
(* up: open of the node in whose list it is, 0 for the root.               *)
(***************************************************************************)
Node(d) == [open : 1..Len(d.text), eq : 1..Len(d.text), close : 1..Len(d.text),
            from : 1..Len(d.json), to : 1..Len(d.json), up : 0..Len(d.text)]

InList(d, n) == {m \in d.tree : m.up = n.open}

NameLen(n) == n.eq - n.open - 1
ValueLen(n) == n.close - n.eq - 1

\* Where the JSON of what is behind "=" begins.
Body(n) == n.from + NameLen(n) + 3

\* (name= and "name":
Named(d, n) ==
    /\ n.open + 1 < n.eq /\ n.eq < n.close
    /\ d.text[n.open] = "(" /\ d.text[n.eq] = "=" /\ d.text[n.close] = ")"
    /\ d.json[n.from] = Quote
    /\ \A k \in 1..NameLen(n) : /\ d.text[n.open + k] \notin Special
                                /\ d.json[n.from + k] = d.text[n.open + k]
    /\ d.json[Body(n) - 2] = Quote /\ d.json[Body(n) - 1] = ":"

\* value) and "value"
HasValue(d, n) ==
    /\ InList(d, n) = {}
    /\ d.json[Body(n)] = Quote /\ d.json[n.to] = Quote
    /\ n.to = Body(n) + ValueLen(n) + 1
    /\ \A k \in 1..ValueLen(n) : /\ d.text[n.eq + k] \notin Special
                                 /\ d.json[Body(n) + k] = d.text[n.eq + k]

\* m's place is at the end of n's list, or before the next one in it.
FollowedInList(d, n, m) ==
    \/ m.close + 1 = n.close /\ m.to + 1 = n.to
    \/ /\ d.json[m.to + 1] = Comma
       /\ \E next \in InList(d, n) : next.open = m.close + 1 /\ next.from = m.to + 2

\* (..)(..)) and {..,..}
HasList(d, n) ==
    /\ d.json[Body(n)] = Brace /\ d.json[n.to] = EndBrace /\ Body(n) < n.to
    /\ \E m \in InList(d, n) : m.open = n.eq + 1 /\ m.from = Body(n) + 1
    /\ \A m \in InList(d, n) : FollowedInList(d, n, m)

\* The root is all of the text, or all but one character behind it, usually a
\* zero, and the one member of an object.
IsRoot(d, n) ==
    /\ n.open = 1 /\ n.from = 2 /\ n.to + 1 = Len(d.json)
    /\ d.json[1] = Brace /\ d.json[n.to + 1] = EndBrace
    /\ \/ n.close = Len(d.text)
       \/ n.close + 1 = Len(d.text) /\ d.text[n.close + 1] \notin Brackets

IsTree(d) ==
    /\ \E n \in d.tree : n.up = 0
    /\ \A n \in d.tree :
         /\ Named(d, n)
         /\ HasValue(d, n) \/ HasList(d, n)
         /\ IF n.up = 0 THEN IsRoot(d, n) ELSE \E m \in d.tree : m.open = n.up

\* d.json is the JSON of the tree that d.text is the notation of.
IsDescriptor(d) == d.tree \subseteq Node(d) /\ IsTree(d)
=============================================================================
