--------------------------- MODULE MemPoolProofs ----------------------------
(***************************************************************************)
(* Theorems about MemPool, for any number of buffers and clones.           *)
(***************************************************************************)
EXTENDS MemPool, TLAPS

----------------------------------------------------------------------------
\* The inductive invariant.  It speaks of the lists as they will be when the
\* stores under way are done, which no single store changes.

Settled == StoreAll(link, stores)

Linked == {Memory[i] : i \in 1..created}

\* The buffer that is on neither list.
Moving ==
    (IF getPc = "unlink" THEN {getNode} ELSE {}) \cup (IF putPc = "unlink" THEN {putNode} ELSE {})

StoresApart ==
    /\ \A s, t \in stores : s[1] = t[1] => s = t
    /\ \A s \in stores : s[1][1] \notin Clones /\ s[2] # Null

LockPhases ==
    /\ lock = "recv" <=> getPc \in {"unlink", "link"}
    /\ lock = "proc" <=> putPc \in {"unlink", "link"}
    /\ stores # {} => lock # "none"

Starting ==
    created < Len(Memory) =>
        /\ getPc = "call" /\ putPc = "call"
        /\ out = {} /\ copies = {} /\ used = <<>>
        /\ Len(free) = created
        /\ \A i \in 1..created : free[i] = Memory[created + 1 - i]

ListsSettle == ListIs(Settled, FreeHead, free) /\ ListIs(Settled, UseHead, used)

EachOnce ==
    /\ Distinct(free) /\ Distinct(used)
    /\ Entries(free) \cap Entries(used) = {}
    /\ Moving \cap (Entries(free) \cup Entries(used)) = {}
    /\ Entries(free) \cup Entries(used) \cup Moving = Linked

\* Who holds what, and what a woken thread may count on.
Holding ==
    /\ out \subseteq Entries(used)
    /\ getPc = "link" => getNode \in Entries(used) \ out
    /\ putPc \in {"testPrev", "lock"} /\ putNode \in Buffers => putNode \in Entries(used) \ out
    /\ getPc = "link" /\ putPc \in {"testPrev", "lock"} => getNode # putNode
    /\ putPc \in {"testPrev", "testNext", "free"} /\ putNode \in Clones => putNode \in copies
    /\ putPc # "call" => putNode # Null
    /\ getPc = "woken" \/ putPc = "link" => free # <<>>

\* What TestPrev and TestNext go by.
LinksTell ==
    /\ \A n \in Heads \cup Linked, f \in Fields : link[<<n, f>>] # Null
    /\ \A c \in copies, f \in Fields : link[<<c, f>>] = Null

MInv ==
    /\ TypeOK /\ StoresApart /\ LockPhases /\ Starting /\ ListsSettle /\ EachOnce
    /\ Holding /\ LinksTell /\ CloneTestIsRight

----------------------------------------------------------------------------
\* Memory after the stores of a list operation.

Locations == Nodes \X Fields

\* No two of the stores go to the same place.
Apart(ss) == \A s, t \in ss : s[1] = t[1] => s = t

\* A place that is stored to holds what was stored.
LEMMA Stored ==
    ASSUME NEW l, NEW ss, Apart(ss), NEW loc \in Locations, NEW v, <<loc, v>> \in ss
    PROVE  StoreAll(l, ss)[loc] = v
<1> DEFINE c == CHOOSE t \in ss : t[1] = loc
<1>1. c = <<loc, v>>
  BY DEF Apart
<1>2. \E s \in ss : s[1] = loc
  OBVIOUS
<1>3. StoreAll(l, ss)[loc] = c[2]
  BY <1>2, Zenon DEF StoreAll, Locations
<1> HIDE DEF c
<1> QED
  BY <1>1, <1>3

\* The others hold what they held.
LEMMA NotStored ==
    ASSUME NEW l, NEW ss, NEW loc \in Locations, \A s \in ss : s[1] # loc
    PROVE  StoreAll(l, ss)[loc] = l[loc]
  BY DEF StoreAll, Locations

\* list_del
LEMMA AfterDel ==
    ASSUME NEW l, NEW e \in Nodes, NEW n \in Nodes, NEW p \in Nodes,
           n = NextOf(l, e), p = PrevOf(l, e), n # e, p # e
    PROVE  LET m == StoreAll(l, ListDel(l, e))
           IN  /\ Apart(ListDel(l, e))
               /\ PrevOf(m, n) = p /\ NextOf(m, p) = n
               /\ \A a \in Nodes \ {e, p} : NextOf(m, a) = NextOf(l, a)
               /\ \A a \in Nodes \ {e, n} : PrevOf(m, a) = PrevOf(l, a)
<1> DEFINE ss == ListDel(l, e)
<1>1. ss = {<< <<n, "prev">>, p >>, << <<p, "next">>, n >>,
            << <<e, "next">>, Poison >>, << <<e, "prev">>, Poison >>}
  BY DEF ListDel, NextOf, PrevOf
<1>2. Apart(ss)
  BY <1>1 DEF Apart
<1> HIDE DEF ss
<1>3. \A a \in Nodes : <<a, "next">> \in Locations /\ <<a, "prev">> \in Locations
  BY DEF Locations, Fields
<1>4. PrevOf(StoreAll(l, ss), n) = p
  <2>1. << <<n, "prev">>, p >> \in ss
    BY <1>1
  <2> QED
    BY <2>1, <1>2, <1>3, Stored DEF PrevOf
<1>5. NextOf(StoreAll(l, ss), p) = n
  <2>1. << <<p, "next">>, n >> \in ss
    BY <1>1
  <2> QED
    BY <2>1, <1>2, <1>3, Stored DEF NextOf
<1>6. ASSUME NEW a \in Nodes \ {e, p} PROVE NextOf(StoreAll(l, ss), a) = NextOf(l, a)
  <2>1. \A s \in ss : s[1] # <<a, "next">>
    BY <1>1
  <2> QED
    BY <2>1, <1>3, NotStored DEF NextOf, PrevOf
<1>7. ASSUME NEW a \in Nodes \ {e, n} PROVE PrevOf(StoreAll(l, ss), a) = PrevOf(l, a)
  <2>1. \A s \in ss : s[1] # <<a, "prev">>
    BY <1>1
  <2> QED
    BY <2>1, <1>3, NotStored DEF NextOf, PrevOf
<1> QED
  BY <1>2, <1>4, <1>5, <1>6, <1>7 DEF ss

\* list_add
LEMMA AfterAdd ==
    ASSUME NEW l, NEW e \in Nodes, NEW h \in Nodes, NEW n \in Nodes,
           n = NextOf(l, h), n # e, h # e
    PROVE  LET m == StoreAll(l, ListAdd(l, e, h))
           IN  /\ Apart(ListAdd(l, e, h))
               /\ PrevOf(m, n) = e /\ NextOf(m, e) = n
               /\ PrevOf(m, e) = h /\ NextOf(m, h) = e
               /\ \A a \in Nodes \ {e, h} : NextOf(m, a) = NextOf(l, a)
               /\ \A a \in Nodes \ {e, n} : PrevOf(m, a) = PrevOf(l, a)
<1> DEFINE ss == ListAdd(l, e, h)
<1>1. ss = {<< <<n, "prev">>, e >>, << <<e, "next">>, n >>,
            << <<e, "prev">>, h >>, << <<h, "next">>, e >>}
  BY DEF ListAdd, NextOf, PrevOf
<1>2. Apart(ss)
  BY <1>1 DEF Apart
<1> HIDE DEF ss
<1>3. \A a \in Nodes : <<a, "next">> \in Locations /\ <<a, "prev">> \in Locations
  BY DEF Locations, Fields
<1>4. PrevOf(StoreAll(l, ss), n) = e
  <2>1. << <<n, "prev">>, e >> \in ss
    BY <1>1
  <2> QED
    BY <2>1, <1>2, <1>3, Stored DEF PrevOf
<1>5. NextOf(StoreAll(l, ss), e) = n
  <2>1. << <<e, "next">>, n >> \in ss
    BY <1>1
  <2> QED
    BY <2>1, <1>2, <1>3, Stored DEF NextOf
<1>6. PrevOf(StoreAll(l, ss), e) = h
  <2>1. << <<e, "prev">>, h >> \in ss
    BY <1>1
  <2> QED
    BY <2>1, <1>2, <1>3, Stored DEF PrevOf
<1>7. NextOf(StoreAll(l, ss), h) = e
  <2>1. << <<h, "next">>, e >> \in ss
    BY <1>1
  <2> QED
    BY <2>1, <1>2, <1>3, Stored DEF NextOf
<1>8. ASSUME NEW a \in Nodes \ {e, h} PROVE NextOf(StoreAll(l, ss), a) = NextOf(l, a)
  <2>1. \A s \in ss : s[1] # <<a, "next">>
    BY <1>1
  <2> QED
    BY <2>1, <1>3, NotStored DEF NextOf, PrevOf
<1>9. ASSUME NEW a \in Nodes \ {e, n} PROVE PrevOf(StoreAll(l, ss), a) = PrevOf(l, a)
  <2>1. \A s \in ss : s[1] # <<a, "prev">>
    BY <1>1
  <2> QED
    BY <2>1, <1>3, NotStored DEF NextOf, PrevOf
<1> QED
  BY <1>2, <1>4, <1>5, <1>6, <1>7, <1>8, <1>9 DEF ss

----------------------------------------------------------------------------
\* What the operations do to the entries.

LEMMA BeforeFacts ==
    ASSUME NEW S, NEW s \in Seq(S), NEW a \in S
    PROVE  /\ Before(a, s) \in Seq(S)
           /\ Len(Before(a, s)) = Len(s) + 1
           /\ Before(a, s)[1] = a
           /\ \A i \in 1..Len(s) : Before(a, s)[i + 1] = s[i]
           /\ Entries(Before(a, s)) = Entries(s) \cup {a}
           /\ Distinct(s) /\ a \notin Entries(s) => Distinct(Before(a, s))
<1> DEFINE t == Before(a, s)
<1>1. /\ t \in Seq(S) /\ Len(t) = Len(s) + 1 /\ Len(s) \in Nat /\ t[1] = a
      /\ \A i \in 1..Len(s) : t[i + 1] = s[i]
      /\ \A i \in 2..Len(t) : t[i] = s[i - 1]
  BY DEF Before
<1> HIDE DEF t
<1>2. Entries(t) = Entries(s) \cup {a}
  <2>1. ASSUME NEW i \in 1..Len(t) PROVE t[i] \in Entries(s) \cup {a}
    <3>1. CASE i = 1
      BY <3>1, <1>1
    <3>2. CASE i # 1
      <4>1. i \in 2..Len(t) /\ i - 1 \in 1..Len(s)
        BY <3>2, <1>1
      <4> QED
        BY <4>1, <1>1 DEF Entries
    <3> QED
      BY <3>1, <3>2
  <2>2. ASSUME NEW i \in 1..Len(s) PROVE s[i] \in Entries(t)
    <3>1. i + 1 \in 1..Len(t) /\ t[i + 1] = s[i]
      BY <1>1
    <3> QED
      BY <3>1 DEF Entries
  <2>3. a \in Entries(t)
    <3>1. 1 \in 1..Len(t)
      BY <1>1
    <3> QED
      BY <3>1, <1>1 DEF Entries
  <2> QED
    BY <2>1, <2>2, <2>3 DEF Entries
<1>3. ASSUME Distinct(s), a \notin Entries(s) PROVE Distinct(t)
  <2>1. ASSUME NEW i \in 2..Len(t) PROVE i - 1 \in 1..Len(s) /\ t[i] = s[i - 1] /\ t[i] # a
    <3>1. i - 1 \in 1..Len(s) /\ t[i] = s[i - 1]
      BY <1>1
    <3> QED
      BY <3>1, <1>3 DEF Entries
  <2>2. ASSUME NEW i \in 1..Len(t), NEW j \in 1..Len(t), t[i] = t[j] PROVE i = j
    <3>1. CASE i = 1 /\ j = 1
      BY <3>1
    <3>2. CASE i = 1 /\ j # 1
      <4>1. j \in 2..Len(t)
        BY <3>2, <1>1
      <4> QED
        BY <4>1, <3>2, <2>2, <2>1, <1>1
    <3>3. CASE i # 1 /\ j = 1
      <4>1. i \in 2..Len(t)
        BY <3>3, <1>1
      <4> QED
        BY <4>1, <3>3, <2>2, <2>1, <1>1
    <3>4. CASE i # 1 /\ j # 1
      <4>1. i \in 2..Len(t) /\ j \in 2..Len(t)
        BY <3>4, <1>1
      <4>2. i - 1 \in 1..Len(s) /\ j - 1 \in 1..Len(s) /\ s[i - 1] = s[j - 1]
        BY <4>1, <2>1, <2>2
      <4>3. i - 1 = j - 1
        BY <4>2, <1>3 DEF Distinct
      <4> QED
        BY <4>3, <4>1, <1>1
    <3> QED
      BY <3>1, <3>2, <3>3, <3>4
  <2> QED
    BY <2>2 DEF Distinct
<1> QED
  BY <1>1, <1>2, <1>3 DEF t

LEMMA WithoutFacts ==
    ASSUME NEW S, NEW s \in Seq(S), NEW k \in 1..Len(s), Distinct(s)
    PROVE  LET t == Without(s, s[k])
           IN  /\ t \in Seq(S) /\ Len(t) = Len(s) - 1
               /\ \A i \in 1..Len(t) : t[i] = IF i < k THEN s[i] ELSE s[i + 1]
               /\ Entries(t) = Entries(s) \ {s[k]}
               /\ Distinct(t)
<1> DEFINE t == Without(s, s[k])
<1>0. Len(s) \in Nat /\ k \in Nat
  OBVIOUS
<1>1. \A i \in 1..Len(s) - 1 : (\E j \in 1..i : s[j] = s[k]) <=> ~ i < k
  <2> TAKE i \in 1..Len(s) - 1
  <2>1. ASSUME NEW j \in 1..i, s[j] = s[k] PROVE ~ i < k
    <3>1. j \in 1..Len(s)
      BY <1>0
    <3>2. j = k
      BY <3>1, <2>1 DEF Distinct
    <3> QED
      BY <3>2, <1>0
  <2>2. ASSUME ~ i < k PROVE k \in 1..i
    BY <2>2, <1>0
  <2> QED
    BY <2>1, <2>2
<1>2. t = [i \in 1..Len(s) - 1 |-> IF i < k THEN s[i] ELSE s[i + 1]]
  BY <1>1 DEF Without
<1> HIDE DEF t
<1>3. \A i \in 1..Len(s) - 1 : i \in 1..Len(s) /\ i + 1 \in 1..Len(s)
  BY <1>0
<1>4. t \in Seq(S) /\ Len(t) = Len(s) - 1
  <2>1. Len(s) - 1 \in Nat
    BY <1>0
  <2>2. \A i \in 1..Len(s) - 1 : t[i] \in S
    BY <1>2, <1>3
  <2> QED
    BY <1>2, <2>1, <2>2
<1>5. \A i \in 1..Len(t) : t[i] = IF i < k THEN s[i] ELSE s[i + 1]
  BY <1>2, <1>4
<1>6. Entries(t) = Entries(s) \ {s[k]}
  <2>1. ASSUME NEW i \in 1..Len(t) PROVE t[i] \in Entries(s) \ {s[k]}
    <3>1. CASE i < k
      <4>1. i \in 1..Len(s) /\ i # k /\ t[i] = s[i]
        BY <3>1, <1>0, <1>4, <1>5
      <4> QED
        BY <4>1 DEF Entries, Distinct
    <3>2. CASE ~ i < k
      <4>1. i + 1 \in 1..Len(s) /\ i + 1 # k /\ t[i] = s[i + 1]
        BY <3>2, <1>0, <1>4, <1>5
      <4> QED
        BY <4>1 DEF Entries, Distinct
    <3> QED
      BY <3>1, <3>2
  <2>2. ASSUME NEW i \in 1..Len(s), i # k PROVE s[i] \in Entries(t)
    <3>1. CASE i < k
      <4>1. i \in 1..Len(t) /\ t[i] = s[i]
        BY <3>1, <1>0, <1>4, <1>5
      <4> QED
        BY <4>1 DEF Entries
    <3>2. CASE ~ i < k
      <4>1. i - 1 \in 1..Len(t) /\ t[i - 1] = s[i]
        BY <3>2, <2>2, <1>0, <1>4, <1>5
      <4> QED
        BY <4>1 DEF Entries
    <3> QED
      BY <3>1, <3>2
  <2> QED
    BY <2>1, <2>2 DEF Entries
<1>7. Distinct(t)
  <2> DEFINE place(i) == IF i < k THEN i ELSE i + 1
  <2>1. \A i \in 1..Len(t) : place(i) \in 1..Len(s) /\ t[i] = s[place(i)]
    BY <1>0, <1>4, <1>5
  <2>2. \A i, j \in 1..Len(t) : place(i) = place(j) => i = j
    BY <1>0, <1>4
  <2> QED
    BY <2>1, <2>2 DEF Distinct
<1> QED
  BY <1>4, <1>5, <1>6, <1>7 DEF t

----------------------------------------------------------------------------
\* What the operations do to the rings.

RingNodes(h, s) == {h} \cup Entries(s)

\* Every place in a ring is one of its nodes, and no two places are the same.
LEMMA Places ==
    ASSUME NEW h \in Heads, NEW s \in Seq(Buffers), Distinct(s)
    PROVE  /\ \A i \in 0..Len(s) + 1 : At(h, s, i) \in RingNodes(h, s)
           /\ \A i, j \in 0..Len(s) : At(h, s, i) = At(h, s, j) => i = j
           /\ \A i, j \in 1..Len(s) + 1 : At(h, s, i) = At(h, s, j) => i = j
           /\ RingNodes(h, s) \subseteq Heads \cup Buffers
           /\ h \notin Entries(s)
<1>1. Len(s) \in Nat /\ \A i \in 1..Len(s) : s[i] \in Buffers
  OBVIOUS
<1>2. h \notin Buffers
  BY MemPoolAssumption
<1>3. h \notin Entries(s) /\ Entries(s) \subseteq Buffers
  BY <1>1, <1>2 DEF Entries
<1> QED
  BY <1>1, <1>3 DEF At, RingNodes, Entries, Distinct

\* A list is not touched by what happens to other nodes.
LEMMA SameRing ==
    ASSUME NEW l, NEW m, NEW h \in Heads, NEW s \in Seq(Buffers), Distinct(s),
           ListIs(l, h, s),
           \A a \in RingNodes(h, s) : NextOf(m, a) = NextOf(l, a) /\ PrevOf(m, a) = PrevOf(l, a)
    PROVE  ListIs(m, h, s)
<1> SUFFICES ASSUME NEW i \in 0..Len(s)
             PROVE  /\ NextOf(m, At(h, s, i)) = At(h, s, i + 1)
                    /\ PrevOf(m, At(h, s, i + 1)) = At(h, s, i)
  BY DEF ListIs, NextOf, PrevOf
<1>1. i \in 0..Len(s) + 1 /\ i + 1 \in 0..Len(s) + 1
  OBVIOUS
<1>2. At(h, s, i) \in RingNodes(h, s) /\ At(h, s, i + 1) \in RingNodes(h, s)
  BY <1>1, Places
<1> QED
  BY <1>2 DEF ListIs, NextOf, PrevOf

\* The nodes around the k-th entry.
LEMMA Neighbours ==
    ASSUME NEW l, NEW h \in Heads, NEW s \in Seq(Buffers), Distinct(s), ListIs(l, h, s),
           NEW k \in 1..Len(s)
    PROVE  /\ NextOf(l, s[k]) = At(h, s, k + 1) /\ PrevOf(l, s[k]) = At(h, s, k - 1)
           /\ At(h, s, k + 1) \in RingNodes(h, s) \ {s[k]}
           /\ At(h, s, k - 1) \in RingNodes(h, s) \ {s[k]}
           /\ s[k] \in Buffers
<1>1. /\ Len(s) \in Nat /\ k \in 0..Len(s) /\ k - 1 \in 0..Len(s) /\ k \in 1..Len(s) + 1
      /\ k + 1 \in 1..Len(s) + 1 /\ k - 1 + 1 = k /\ k - 1 # k /\ k + 1 # k
      /\ k - 1 \in 0..Len(s) + 1 /\ k + 1 \in 0..Len(s) + 1
  OBVIOUS
<1>2. At(h, s, k) = s[k] /\ s[k] \in Buffers
  BY DEF At
<1>3. NextOf(l, At(h, s, k)) = At(h, s, k + 1)
  BY <1>1 DEF ListIs
<1>4. PrevOf(l, At(h, s, k - 1 + 1)) = At(h, s, k - 1)
  BY <1>1 DEF ListIs
<1>5. At(h, s, k + 1) \in RingNodes(h, s) /\ At(h, s, k - 1) \in RingNodes(h, s)
  BY <1>1, Places
<1>6. At(h, s, k + 1) # At(h, s, k) /\ At(h, s, k - 1) # At(h, s, k)
  BY <1>1, Places
<1> QED
  BY <1>1, <1>2, <1>3, <1>4, <1>5, <1>6

\* list_del takes the entry out of its ring.
LEMMA DelFromRing ==
    ASSUME NEW l, NEW h \in Heads, NEW s \in Seq(Buffers), Distinct(s), ListIs(l, h, s),
           NEW k \in 1..Len(s)
    PROVE  /\ Apart(ListDel(l, s[k]))
           /\ ListIs(StoreAll(l, ListDel(l, s[k])), h, Without(s, s[k]))
<1> DEFINE e == s[k]
           n == At(h, s, k + 1)
           p == At(h, s, k - 1)
           m == StoreAll(l, ListDel(l, e))
           t == Without(s, e)
<1>1. /\ n = NextOf(l, e) /\ p = PrevOf(l, e) /\ e \in Nodes
      /\ n \in RingNodes(h, s) \ {e} /\ p \in RingNodes(h, s) \ {e}
      /\ n \in Nodes /\ p \in Nodes
  BY Neighbours, Places DEF Nodes
<1>2. /\ Apart(ListDel(l, e))
      /\ PrevOf(m, n) = p /\ NextOf(m, p) = n
      /\ \A a \in Nodes \ {e, p} : NextOf(m, a) = NextOf(l, a)
      /\ \A a \in Nodes \ {e, n} : PrevOf(m, a) = PrevOf(l, a)
  BY <1>1, AfterDel
<1>3. /\ Len(s) \in Nat /\ k \in Nat /\ Len(t) = Len(s) - 1
      /\ \A i \in 1..Len(t) : t[i] = IF i < k THEN s[i] ELSE s[i + 1]
  BY WithoutFacts
<1>4. /\ \A i \in 0..Len(s) + 1 : At(h, s, i) \in RingNodes(h, s)
      /\ \A i, j \in 0..Len(s) : At(h, s, i) = At(h, s, j) => i = j
      /\ \A i, j \in 1..Len(s) + 1 : At(h, s, i) = At(h, s, j) => i = j
      /\ RingNodes(h, s) \subseteq Nodes
      /\ At(h, s, k) = e
  BY Places DEF Nodes, At
<1>5. \A i \in 0..Len(s) : At(h, t, i) = IF i < k THEN At(h, s, i) ELSE At(h, s, i + 1)
  BY <1>3 DEF At
<1>6. \A i \in 0..Len(s) : /\ NextOf(l, At(h, s, i)) = At(h, s, i + 1)
                           /\ PrevOf(l, At(h, s, i + 1)) = At(h, s, i)
  BY DEF ListIs
<1> HIDE DEF e, n, p, m, t
<1>7. ASSUME NEW i \in 0..Len(s), i # k, i # k - 1
      PROVE  /\ NextOf(m, At(h, s, i)) = At(h, s, i + 1)
             /\ PrevOf(m, At(h, s, i + 1)) = At(h, s, i)
  <2>1. At(h, s, i) # e /\ At(h, s, i + 1) # e
    BY <1>3, <1>4, <1>7
  <2>2. At(h, s, i) # p
    BY <1>3, <1>4, <1>7 DEF p
  <2>3. At(h, s, i + 1) # n
    BY <1>3, <1>4, <1>7 DEF n
  <2>4. At(h, s, i) \in Nodes /\ At(h, s, i + 1) \in Nodes
    BY <1>3, <1>4
  <2> QED
    BY <2>1, <2>2, <2>3, <2>4, <1>2, <1>6
<1>8. ASSUME NEW i \in 0..Len(t)
      PROVE  /\ NextOf(m, At(h, t, i)) = At(h, t, i + 1)
             /\ PrevOf(m, At(h, t, i + 1)) = At(h, t, i)
  <2>0. i \in 0..Len(s) /\ i + 1 \in 0..Len(s) /\ i + 1 + 1 = i + 2
    BY <1>3
  <2>1. CASE i + 1 < k
    <3>1. At(h, t, i) = At(h, s, i) /\ At(h, t, i + 1) = At(h, s, i + 1)
      BY <2>0, <2>1, <1>3, <1>5
    <3> QED
      BY <3>1, <2>0, <2>1, <1>3, <1>7
  <2>2. CASE i + 1 = k
    <3>1. At(h, t, i) = p
      BY <2>0, <2>2, <1>3, <1>5 DEF p
    <3>2. At(h, t, i + 1) = n
      BY <2>0, <2>2, <1>3, <1>5 DEF n
    <3> QED
      BY <3>1, <3>2, <1>2
  <2>3. CASE i + 1 > k
    <3>1. At(h, t, i) = At(h, s, i + 1) /\ At(h, t, i + 1) = At(h, s, i + 1 + 1)
      BY <2>0, <2>3, <1>3, <1>5
    <3>2. i + 1 # k /\ i + 1 # k - 1
      BY <2>0, <2>3, <1>3
    <3> QED
      BY <3>1, <3>2, <2>0, <1>7
  <2> QED
    BY <2>0, <2>1, <2>2, <2>3, <1>3
<1> QED
  BY <1>2, <1>8 DEF ListIs, e, m, t

\* It leaves the other list alone.
LEMMA DelElsewhere ==
    ASSUME NEW l, NEW h \in Heads, NEW s \in Seq(Buffers), Distinct(s), ListIs(l, h, s),
           NEW k \in 1..Len(s),
           NEW g \in Heads, NEW t \in Seq(Buffers), Distinct(t), ListIs(l, g, t),
           RingNodes(g, t) \cap RingNodes(h, s) = {}
    PROVE  ListIs(StoreAll(l, ListDel(l, s[k])), g, t)
<1> DEFINE e == s[k]
           n == At(h, s, k + 1)
           p == At(h, s, k - 1)
           m == StoreAll(l, ListDel(l, e))
<1>1. /\ n = NextOf(l, e) /\ p = PrevOf(l, e) /\ e \in Nodes /\ e \in RingNodes(h, s)
      /\ n \in RingNodes(h, s) \ {e} /\ p \in RingNodes(h, s) \ {e}
      /\ n \in Nodes /\ p \in Nodes
  <2>1. e \in RingNodes(h, s)
    BY DEF RingNodes, Entries
  <2> QED
    BY <2>1, Neighbours, Places DEF Nodes
<1>2. /\ \A a \in Nodes \ {e, p} : NextOf(m, a) = NextOf(l, a)
      /\ \A a \in Nodes \ {e, n} : PrevOf(m, a) = PrevOf(l, a)
  BY <1>1, AfterDel
<1>3. RingNodes(g, t) \subseteq Nodes
  BY Places DEF Nodes
<1> HIDE DEF e, n, p, m
<1>4. ASSUME NEW a \in RingNodes(g, t)
      PROVE  NextOf(m, a) = NextOf(l, a) /\ PrevOf(m, a) = PrevOf(l, a)
  BY <1>1, <1>2, <1>3
<1> QED
  BY <1>4, SameRing DEF m, e

\* list_add puts the new entry first.
LEMMA AddToRing ==
    ASSUME NEW l, NEW h \in Heads, NEW s \in Seq(Buffers), Distinct(s), ListIs(l, h, s),
           NEW e \in Buffers, e \notin Entries(s)
    PROVE  /\ Apart(ListAdd(l, e, h))
           /\ ListIs(StoreAll(l, ListAdd(l, e, h)), h, Before(e, s))
<1> DEFINE n == At(h, s, 1)
           m == StoreAll(l, ListAdd(l, e, h))
           t == Before(e, s)
<1>0. Len(s) \in Nat
  OBVIOUS
<1>1. /\ \A i \in 0..Len(s) + 1 : At(h, s, i) \in RingNodes(h, s)
      /\ \A i, j \in 0..Len(s) : At(h, s, i) = At(h, s, j) => i = j
      /\ \A i, j \in 1..Len(s) + 1 : At(h, s, i) = At(h, s, j) => i = j
      /\ RingNodes(h, s) \subseteq Nodes
      /\ At(h, s, 0) = h /\ At(h, s, Len(s) + 1) = h
      /\ e \notin RingNodes(h, s) /\ e \in Nodes
  <2>1. e \notin Heads
    BY MemPoolAssumption
  <2>2. At(h, s, 0) = h /\ At(h, s, Len(s) + 1) = h
    BY <1>0 DEF At
  <2> QED
    BY <2>1, <2>2, Places DEF Nodes, RingNodes
<1>2. \A i \in 0..Len(s) : /\ NextOf(l, At(h, s, i)) = At(h, s, i + 1)
                           /\ PrevOf(l, At(h, s, i + 1)) = At(h, s, i)
  BY DEF ListIs
<1>3. n = NextOf(l, h) /\ n \in Nodes /\ n # e /\ h # e /\ h \in Nodes
  BY <1>0, <1>1, <1>2
<1>4. /\ Apart(ListAdd(l, e, h))
      /\ PrevOf(m, n) = e /\ NextOf(m, e) = n
      /\ PrevOf(m, e) = h /\ NextOf(m, h) = e
      /\ \A a \in Nodes \ {e, h} : NextOf(m, a) = NextOf(l, a)
      /\ \A a \in Nodes \ {e, n} : PrevOf(m, a) = PrevOf(l, a)
  BY <1>1, <1>3, AfterAdd
<1>5. /\ Len(t) = Len(s) + 1 /\ t[1] = e
      /\ \A i \in 1..Len(s) : t[i + 1] = s[i]
  BY BeforeFacts
<1>6. /\ At(h, t, 0) = h /\ At(h, t, 1) = e
      /\ \A i \in 1..Len(s) + 1 : At(h, t, i + 1) = At(h, s, i)
  <2>1. At(h, t, 0) = h /\ At(h, t, 1) = e
    BY <1>0, <1>5 DEF At
  <2>2. ASSUME NEW i \in 1..Len(s) PROVE At(h, t, i + 1) = At(h, s, i)
    BY <1>0, <1>5 DEF At
  <2>3. At(h, t, Len(s) + 1 + 1) = h
    BY <1>0, <1>5 DEF At
  <2> QED
    BY <1>0, <1>1, <2>1, <2>2, <2>3
<1> HIDE DEF n, m, t
<1>7. ASSUME NEW i \in 0..Len(t)
      PROVE  /\ NextOf(m, At(h, t, i)) = At(h, t, i + 1)
             /\ PrevOf(m, At(h, t, i + 1)) = At(h, t, i)
  <2>1. CASE i = 0
    BY <2>1, <1>4, <1>6
  <2>2. CASE i = 1
    <3>1. At(h, t, 1 + 1) = n
      BY <1>0, <1>6 DEF n
    <3> QED
      BY <2>2, <3>1, <1>4, <1>6
  <2>3. CASE i > 1
    <3> DEFINE j == i - 1
    <3>1. j \in 1..Len(s) /\ j \in 0..Len(s) /\ i = j + 1 /\ j + 1 \in 1..Len(s) + 1 /\ j + 1 # 1
          /\ j # 0 /\ 0 \in 0..Len(s) /\ 1 \in 1..Len(s) + 1 /\ j \in 0..Len(s) + 1 /\ j + 1 \in 0..Len(s) + 1
          /\ j \in 1..Len(s) + 1
      BY <2>3, <1>0, <1>5
    <3> HIDE DEF j
    <3>2. At(h, t, i) = At(h, s, j) /\ At(h, t, i + 1) = At(h, s, j + 1)
      BY <3>1, <1>6
    <3>3. At(h, s, j) # h /\ At(h, s, j) # e /\ At(h, s, j) \in Nodes
      BY <3>1, <1>1
    <3>4. At(h, s, j + 1) # n /\ At(h, s, j + 1) # e /\ At(h, s, j + 1) \in Nodes
      BY <3>1, <1>1 DEF n
    <3> QED
      BY <3>1, <3>2, <3>3, <3>4, <1>2, <1>4
  <2> QED
    BY <2>1, <2>2, <2>3, <1>0, <1>5
<1> QED
  BY <1>4, <1>7 DEF ListIs, m, t

LEMMA AddElsewhere ==
    ASSUME NEW l, NEW h \in Heads, NEW s \in Seq(Buffers), Distinct(s), ListIs(l, h, s),
           NEW e \in Buffers, e \notin Entries(s),
           NEW g \in Heads, NEW t \in Seq(Buffers), Distinct(t), ListIs(l, g, t),
           RingNodes(g, t) \cap (RingNodes(h, s) \cup {e}) = {}
    PROVE  ListIs(StoreAll(l, ListAdd(l, e, h)), g, t)
<1> DEFINE n == At(h, s, 1)
           m == StoreAll(l, ListAdd(l, e, h))
<1>0. Len(s) \in Nat /\ 0 \in 0..Len(s) /\ 1 \in 0..Len(s) + 1 /\ 0 + 1 = 1
  OBVIOUS
<1>1. n \in RingNodes(h, s) /\ RingNodes(h, s) \subseteq Nodes /\ e \notin RingNodes(h, s)
      /\ e \in Nodes /\ h \in RingNodes(h, s) /\ At(h, s, 0) = h
  <2>1. e \notin Heads
    BY MemPoolAssumption
  <2>2. At(h, s, 0) = h
    BY <1>0 DEF At
  <2> QED
    BY <2>1, <2>2, <1>0, Places DEF Nodes, RingNodes
<1>2. n = NextOf(l, h)
  <2>1. NextOf(l, At(h, s, 0)) = At(h, s, 0 + 1)
    BY <1>0 DEF ListIs
  <2> QED
    BY <2>1, <1>0, <1>1
<1>3. /\ \A a \in Nodes \ {e, h} : NextOf(m, a) = NextOf(l, a)
      /\ \A a \in Nodes \ {e, n} : PrevOf(m, a) = PrevOf(l, a)
  BY <1>1, <1>2, AfterAdd
<1>4. RingNodes(g, t) \subseteq Nodes
  BY Places DEF Nodes
<1> HIDE DEF n, m
<1>5. ASSUME NEW a \in RingNodes(g, t)
      PROVE  NextOf(m, a) = NextOf(l, a) /\ PrevOf(m, a) = PrevOf(l, a)
  BY <1>1, <1>3, <1>4
<1> QED
  BY <1>5, SameRing DEF m

----------------------------------------------------------------------------
\* The stores under way.

\* What StoreAll leaves in a location was stored or was there before.
LEMMA StoredOrThere ==
    ASSUME NEW l, NEW ss, NEW loc \in Locations
    PROVE  \/ \E s \in ss : s[1] = loc /\ StoreAll(l, ss)[loc] = s[2]
           \/ StoreAll(l, ss)[loc] = l[loc]
<1> DEFINE c == CHOOSE s \in ss : s[1] = loc
<1>1. CASE \E s \in ss : s[1] = loc
  <2>1. c \in ss /\ c[1] = loc
    BY <1>1
  <2>2. StoreAll(l, ss)[loc] = c[2]
    BY <1>1, Zenon DEF StoreAll, Locations
  <2> QED
    BY <2>1, <2>2
<1>2. CASE \A s \in ss : s[1] # loc
  BY <1>2, NotStored
<1> QED
  BY <1>1, <1>2

\* No stores, no change.
LEMMA NoStores == TypeOK /\ stores = {} => Settled = link
<1> SUFFICES ASSUME TypeOK, stores = {} PROVE Settled = link
  OBVIOUS
<1>1. link = [loc \in Locations |-> link[loc]]
  BY DEF TypeOK, Locations
<1>2. Settled = [loc \in Locations |-> link[loc]]
  BY DEF Settled, StoreAll, Locations
<1> QED
  BY <1>1, <1>2

\* A store that is done changes nothing of what the lists will be.
LEMMA SettledStays ==
    ASSUME NEW l, NEW ss, Apart(ss), NEW s \in ss
    PROVE  StoreAll(StoreAll(l, {s}), ss \ {s}) = StoreAll(l, ss)
<1> DEFINE m == StoreAll(l, {s})
           rest == ss \ {s}
<1>1. ASSUME NEW loc \in Locations PROVE StoreAll(m, rest)[loc] = StoreAll(l, ss)[loc]
  <2>1. CASE loc = s[1]
    <3>1. \A t \in rest : t[1] # loc
      BY <2>1 DEF Apart
    <3>2. StoreAll(m, rest)[loc] = m[loc]
      BY <3>1, NotStored
    <3>3. m[loc] = s[2]
      <4>1. \E t \in {s} : t[1] = loc
        BY <2>1
      <4>2. (CHOOSE t \in {s} : t[1] = loc) = s
        BY <2>1
      <4> QED
        BY <4>1, <4>2, Zenon DEF StoreAll, Locations
    <3>4. StoreAll(l, ss)[loc] = s[2]
      <4>1. \E t \in ss : t[1] = loc
        BY <2>1
      <4>2. (CHOOSE t \in ss : t[1] = loc) = s
        BY <2>1 DEF Apart
      <4> QED
        BY <4>1, <4>2, Zenon DEF StoreAll, Locations
    <3> QED
      BY <3>2, <3>3, <3>4
  <2>2. CASE loc # s[1]
    <3>1. m[loc] = l[loc]
      BY <2>2, NotStored
    <3>2. CASE \E t \in rest : t[1] = loc
      <4>1. PICK t \in rest : t[1] = loc
        BY <3>2
      <4>2. (CHOOSE u \in rest : u[1] = loc) = t /\ (CHOOSE u \in ss : u[1] = loc) = t
        BY <4>1 DEF Apart
      <4>3. StoreAll(m, rest)[loc] = t[2]
        BY <4>1, <4>2, Zenon DEF StoreAll, Locations
      <4>4. StoreAll(l, ss)[loc] = t[2]
        BY <4>1, <4>2, Zenon DEF StoreAll, Locations
      <4> QED
        BY <4>3, <4>4
    <3>3. CASE \A t \in rest : t[1] # loc
      <4>1. \A t \in ss : t[1] # loc
        BY <3>3, <2>2
      <4>2. StoreAll(m, rest)[loc] = m[loc] /\ StoreAll(l, ss)[loc] = l[loc]
        BY <3>3, <4>1, NotStored
      <4> QED
        BY <4>2, <3>1
    <3> QED
      BY <3>2, <3>3
  <2> QED
    BY <2>1, <2>2
<1>2. /\ StoreAll(m, rest) = [loc \in Locations |-> StoreAll(m, rest)[loc]]
      /\ StoreAll(l, ss) = [loc \in Locations |-> StoreAll(l, ss)[loc]]
  BY DEF StoreAll, Locations
<1> QED
  BY <1>1, <1>2

\* The two rings have no node in common.
LEMMA RingsApart ==
    TypeOK /\ EachOnce => RingNodes(FreeHead, free) \cap RingNodes(UseHead, used) = {}
<1> SUFFICES ASSUME TypeOK, EachOnce
             PROVE  RingNodes(FreeHead, free) \cap RingNodes(UseHead, used) = {}
  OBVIOUS
<1>1. Entries(free) \subseteq Buffers /\ Entries(used) \subseteq Buffers
  BY DEF TypeOK, Entries
<1>2. FreeHead # UseHead /\ FreeHead \notin Buffers /\ UseHead \notin Buffers
  BY MemPoolAssumption DEF Heads
<1> QED
  BY <1>1, <1>2 DEF RingNodes, EachOnce

\* What list_del and list_add store, and where.
Fit(ss) ==
    /\ ss \in SUBSET ((Nodes \X Fields) \X (Nodes \cup {Null, Poison}))
    /\ \A s \in ss : s[1][1] \notin Clones /\ s[2] # Null

LEMMA KindsApart ==
    /\ \A n \in Heads \cup Buffers : n \in Nodes /\ n \notin Clones /\ n # Null
    /\ Poison # Null /\ Null \notin Clones /\ Heads \cap Buffers = {}
    /\ FreeHead \in Heads /\ UseHead \in Heads /\ FreeHead # UseHead
  BY MemPoolAssumption DEF Nodes, Heads

LEMMA DelStoresFit ==
    ASSUME NEW l, NEW h \in Heads, NEW s \in Seq(Buffers), Distinct(s), ListIs(l, h, s),
           NEW k \in 1..Len(s)
    PROVE  Fit(ListDel(l, s[k]))
<1> DEFINE e == s[k]
<1>1. /\ NextOf(l, e) \in Heads \cup Buffers /\ PrevOf(l, e) \in Heads \cup Buffers
      /\ e \in Buffers
  <2>1. /\ NextOf(l, e) = At(h, s, k + 1) /\ PrevOf(l, e) = At(h, s, k - 1) /\ e \in Buffers
        /\ At(h, s, k + 1) \in RingNodes(h, s) /\ At(h, s, k - 1) \in RingNodes(h, s)
    BY Neighbours
  <2>2. RingNodes(h, s) \subseteq Heads \cup Buffers
    BY Places
  <2> QED
    BY <2>1, <2>2
<1> HIDE DEF e
<1>2. ListDel(l, e) \in SUBSET ((Nodes \X Fields) \X (Nodes \cup {Null, Poison}))
  BY <1>1, KindsApart DEF ListDel, Fields
<1>3. \A t \in ListDel(l, e) : t[1][1] \notin Clones /\ t[2] # Null
  BY <1>1, KindsApart DEF ListDel
<1> QED
  BY <1>2, <1>3 DEF Fit, e

LEMMA AddStoresFit ==
    ASSUME NEW l, NEW h \in Heads, NEW s \in Seq(Buffers), Distinct(s), ListIs(l, h, s),
           NEW e \in Buffers
    PROVE  Fit(ListAdd(l, e, h))
<1>1. NextOf(l, h) \in Heads \cup Buffers
  <2>1. Len(s) \in Nat /\ 0 \in 0..Len(s) /\ 1 \in 0..Len(s) + 1 /\ 0 + 1 = 1
    OBVIOUS
  <2>2. At(h, s, 0) = h /\ At(h, s, 1) \in Heads \cup Buffers
    BY <2>1, Places DEF At
  <2> QED
    BY <2>1, <2>2 DEF ListIs
<1>2. ListAdd(l, e, h) \in SUBSET ((Nodes \X Fields) \X (Nodes \cup {Null, Poison}))
  BY <1>1, KindsApart DEF ListAdd, Fields
<1>3. \A t \in ListAdd(l, e, h) : t[1][1] \notin Clones /\ t[2] # Null
  BY <1>1, KindsApart DEF ListAdd
<1> QED
  BY <1>2, <1>3 DEF Fit

----------------------------------------------------------------------------
\* The steps keep the invariant.

\* Nobody has the lock: the lists are as they will be.
LEMMA Unlocked ==
    MInv /\ lock = "none" =>
        /\ stores = {} /\ Settled = link /\ Moving = {}
        /\ ListIs(link, FreeHead, free) /\ ListIs(link, UseHead, used)
<1> SUFFICES ASSUME MInv, lock = "none"
             PROVE  /\ stores = {} /\ Settled = link /\ Moving = {}
                    /\ ListIs(link, FreeHead, free) /\ ListIs(link, UseHead, used)
  OBVIOUS
<1>1. stores = {} /\ getPc \notin {"unlink", "link"} /\ putPc \notin {"unlink", "link"}
  BY DEF MInv, LockPhases
<1>2. Settled = link
  BY <1>1, NoStores DEF MInv
<1> QED
  BY <1>1, <1>2 DEF MInv, Moving, ListsSettle

\* The heads point to themselves at first.
LEMMA InitMInv == Init => MInv
<1> SUFFICES ASSUME Init PROVE MInv
  OBVIOUS
<1>1. Len(Memory) \in Nat \ {0} /\ 1..0 = {} /\ Linked = {}
  BY MemPoolAssumption DEF Init, Linked
<1>2. /\ \A n \in Heads, f \in Fields : InitHeads[<<n, f>>] = n
      /\ \A f \in Fields : "next" \in Fields /\ "prev" \in Fields
  BY KindsApart DEF InitHeads, Fields
<1>3. TypeOK
  <2>1. InitHeads \in [Nodes \X Fields -> Nodes \cup {Null, Poison}]
    BY KindsApart DEF InitHeads
  <2>2. 0 \in 0..Len(Memory) /\ <<>> \in Seq(Buffers)
    BY <1>1
  <2> QED
    BY <2>1, <2>2 DEF Init, TypeOK
<1>4. Settled = link
  BY <1>3, NoStores DEF Init
<1>5. ListsSettle
  <2>1. ASSUME NEW h \in Heads PROVE ListIs(InitHeads, h, <<>>)
    <3>1. \A i \in 0..1 : At(h, <<>>, i) = h
      BY DEF At
    <3>2. NextOf(InitHeads, h) = h /\ PrevOf(InitHeads, h) = h
      BY <1>2 DEF NextOf, PrevOf, Fields
    <3> QED
      BY <3>1, <3>2 DEF ListIs
  <2> QED
    BY <1>4, <2>1, KindsApart DEF Init, ListsSettle
<1>6. EachOnce
  BY <1>1 DEF Init, EachOnce, Distinct, Entries, Moving
<1>7. StoresApart /\ LockPhases /\ CloneTestIsRight
  BY DEF Init, StoresApart, LockPhases, CloneTestIsRight
<1>8. Starting /\ Holding
  BY <1>1 DEF Init, Starting, Holding
<1>9. LinksTell
  BY <1>1, <1>2, KindsApart DEF Init, LinksTell
<1> QED
  BY <1>3, <1>5, <1>6, <1>7, <1>8, <1>9 DEF MInv

LEMMA StoreLinkKeeps == MInv /\ StoreLink => MInv'
<1> SUFFICES ASSUME MInv, StoreLink PROVE MInv'
  OBVIOUS
<1>1. PICK s \in stores : link' = StoreAll(link, {s}) /\ stores' = stores \ {s}
  BY DEF StoreLink
<1>2. UNCHANGED <<created, lock, getPc, getNode, putPc, putNode, out, copies, free, used>>
  BY DEF StoreLink, getVars, putVars, lists
<1>3. Apart(stores) /\ s[1][1] \notin Clones /\ s[2] # Null /\ s[1] \in Locations
      /\ s[2] \in Nodes \cup {Null, Poison}
  BY DEF MInv, StoresApart, Apart, TypeOK, Locations
<1>4. \A loc \in Locations : link'[loc] = link[loc] \/ (loc = s[1] /\ link'[loc] = s[2])
  BY <1>1, StoredOrThere
<1>5. TypeOK'
  <2>1. link' \in [Nodes \X Fields -> Nodes \cup {Null, Poison}]
    <3>1. link' = [loc \in Locations |-> link'[loc]]
      BY <1>1 DEF StoreAll, Locations
    <3>2. \A loc \in Locations : link'[loc] \in Nodes \cup {Null, Poison}
      BY <1>3, <1>4 DEF MInv, TypeOK, Locations
    <3> QED
      BY <3>1, <3>2 DEF Locations
  <2> QED
    BY <2>1, <1>1, <1>2 DEF MInv, TypeOK
<1>6. Settled' = Settled
  BY <1>1, <1>3, SettledStays DEF Settled
<1>7. StoresApart' /\ LockPhases'
  BY <1>1, <1>2 DEF MInv, StoresApart, LockPhases
<1>8. ListsSettle' /\ EachOnce' /\ Starting' /\ Holding' /\ CloneTestIsRight'
  BY <1>2, <1>6 DEF MInv, ListsSettle, EachOnce, Starting, Holding, CloneTestIsRight, Moving, Linked
<1>9. LinksTell'
  <2>1. ASSUME NEW n \in Heads \cup Linked, NEW f \in Fields PROVE link'[<<n, f>>] # Null
    <3>1. <<n, f>> \in Locations
      BY KindsApart DEF Locations, Linked, MInv, TypeOK, Buffers
    <3> QED
      BY <3>1, <1>3, <1>4 DEF MInv, LinksTell
  <2>2. ASSUME NEW c \in copies, NEW f \in Fields PROVE link'[<<c, f>>] = Null
    <3>1. <<c, f>> \in Locations /\ <<c, f>> # s[1]
      BY <1>3 DEF Locations, Nodes, MInv, TypeOK
    <3> QED
      BY <3>1, <1>4 DEF MInv, LinksTell
  <2> QED
    BY <2>1, <2>2, <1>2 DEF LinksTell, Linked
<1> QED
  BY <1>5, <1>7, <1>8, <1>9 DEF MInv

\* A turn of mem_pool_create's loop.
LEMMA AddBufferKeeps == MInv /\ AddBuffer => MInv'
<1> SUFFICES ASSUME MInv, AddBuffer PROVE MInv'
  OBVIOUS
<1> DEFINE b == Memory[created']
<1>1. /\ created < Len(Memory) /\ created' = created + 1
      /\ link' = StoreAll(link, ListAdd(link, b, FreeHead))
      /\ free' = Before(b, free)
      /\ UNCHANGED <<stores, lock, getPc, getNode, putPc, putNode, out, copies, used>>
  BY DEF AddBuffer, getVars, putVars
<1>2. /\ getPc = "call" /\ putPc = "call" /\ out = {} /\ copies = {} /\ used = <<>>
      /\ Len(free) = created /\ \A i \in 1..created : free[i] = Memory[created + 1 - i]
  BY <1>1 DEF MInv, Starting
<1>3. TypeOK /\ created \in Nat /\ Len(Memory) \in Nat /\ created' \in 1..Len(Memory) /\ created' \in Nat
      /\ b \in Buffers
  <2>1. TypeOK /\ created \in Nat /\ Len(Memory) \in Nat
    BY MemPoolAssumption DEF MInv, TypeOK
  <2>2. created' \in 1..Len(Memory) /\ created' \in Nat
    BY <2>1, <1>1
  <2> QED
    BY <2>1, <2>2 DEF Buffers
<1>4. lock = "none"
  BY <1>2 DEF MInv, LockPhases, TypeOK
<1>5. /\ stores = {} /\ Settled = link /\ Moving = {}
      /\ ListIs(link, FreeHead, free) /\ ListIs(link, UseHead, used)
  BY <1>4, Unlocked
<1>6. Distinct(free) /\ free \in Seq(Buffers) /\ Distinct(used) /\ used \in Seq(Buffers)
      /\ Entries(used) = {} /\ Entries(free) = Linked
  BY <1>2, <1>3, <1>5 DEF MInv, EachOnce, TypeOK, Entries
<1>7. Linked' = Linked \cup {b}
  <2>1. \A i : i \in 1..created' <=> i \in 1..created \/ i = created'
    BY <1>1, <1>3
  <2> QED
    BY <2>1 DEF Linked
<1>8. b \notin Linked
  <2>1. ASSUME NEW i \in 1..created, Memory[i] = b PROVE FALSE
    <3>1. i \in 1..Len(Memory) /\ i # created'
      BY <1>1, <1>3
    <3> QED
      BY <2>1, <3>1, <1>3, MemPoolAssumption
  <2> QED
    BY <2>1 DEF Linked
<1> HIDE DEF b
<1>9. /\ Apart(ListAdd(link, b, FreeHead)) /\ ListIs(link', FreeHead, free')
      /\ Fit(ListAdd(link, b, FreeHead))
  BY <1>1, <1>3, <1>5, <1>6, <1>8, KindsApart, AddToRing, AddStoresFit
<1>10. ListIs(link', UseHead, used')
  <2>1. RingNodes(FreeHead, free) \cap RingNodes(UseHead, used) = {}
    BY <1>3, RingsApart DEF MInv
  <2>2. b \notin RingNodes(UseHead, used)
    BY <1>3, <1>6, KindsApart DEF RingNodes
  <2>3. RingNodes(UseHead, used) \cap (RingNodes(FreeHead, free) \cup {b}) = {}
    BY <2>1, <2>2
  <2>4. ListIs(StoreAll(link, ListAdd(link, b, FreeHead)), UseHead, used)
    BY <2>3, <1>3, <1>5, <1>6, <1>8, KindsApart, AddElsewhere
  <2> QED
    BY <2>4, <1>1
<1>11. /\ free' \in Seq(Buffers) /\ Len(free') = Len(free) + 1 /\ free'[1] = b
       /\ \A i \in 1..Len(free) : free'[i + 1] = free[i]
       /\ Entries(free') = Entries(free) \cup {b} /\ Distinct(free')
  <2> DEFINE f == Before(b, free)
  <2>1. /\ f \in Seq(Buffers) /\ Len(f) = Len(free) + 1 /\ f[1] = b
        /\ \A i \in 1..Len(free) : f[i + 1] = free[i]
        /\ Entries(f) = Entries(free) \cup {b} /\ Distinct(f)
    <3>1. free \in Seq(Buffers) /\ b \in Buffers /\ b \notin Entries(free) /\ Distinct(free)
      BY <1>3, <1>6, <1>8
    <3> HIDE DEF b
    <3>2. f \in Seq(Buffers) /\ Len(f) = Len(free) + 1 /\ f[1] = b
      BY <3>1, BeforeFacts
    <3>3. \A i \in 1..Len(free) : f[i + 1] = free[i]
      BY <3>1, BeforeFacts
    <3>4. Entries(f) = Entries(free) \cup {b}
      BY <3>1, BeforeFacts
    <3>5. Distinct(f)
      BY <3>1, BeforeFacts
    <3> QED
      BY <3>2, <3>3, <3>4, <3>5
  <2> HIDE DEF f
  <2>2. free' = f
    BY <1>1 DEF f
  <2> QED
    BY <2>1, <2>2
<1>12. TypeOK'
  <2>1. link' = [loc \in Locations |-> link'[loc]]
    BY <1>1 DEF StoreAll, Locations
  <2>2. \A loc \in Locations : link'[loc] \in Nodes \cup {Null, Poison}
    BY <1>1, <1>3, <1>9, StoredOrThere DEF Fit, TypeOK, Locations
  <2>3. link' \in [Nodes \X Fields -> Nodes \cup {Null, Poison}]
    BY <2>1, <2>2 DEF Locations
  <2>4. created' \in 0..Len(Memory)
    BY <1>3
  <2> QED
    BY <2>3, <2>4, <1>1, <1>3, <1>11 DEF TypeOK
<1>13. Settled' = link'
  <2>1. (TypeOK /\ stores = {})'
    BY <1>1, <1>5, <1>12
  <2>2. (Settled = link)'
    BY <2>1, NoStores, PTL
  <2> QED
    BY <2>2
<1>14. ListsSettle'
  BY <1>9, <1>10, <1>13 DEF ListsSettle
<1>15. EachOnce'
  <2>1. Moving' = {}
    BY <1>1, <1>2 DEF Moving
  <2>2. Entries(used') = {} /\ Distinct(used')
    BY <1>1, <1>6
  <2> QED
    BY <2>1, <2>2, <1>6, <1>7, <1>11 DEF EachOnce
<1>16. StoresApart' /\ LockPhases' /\ CloneTestIsRight' /\ Holding'
  <2>1. StoresApart' /\ LockPhases' /\ CloneTestIsRight'
    BY <1>1 DEF MInv, StoresApart, LockPhases, CloneTestIsRight
  <2> QED
    BY <2>1, <1>1, <1>2 DEF Holding
<1>17. Starting'
  <2>1. ASSUME NEW i \in 1..created' PROVE free'[i] = Memory[created' + 1 - i]
    <3>1. CASE i = 1
      <4>1. \A c \in Nat : c + 1 - i = c
        BY <3>1
      <4> QED
        BY <3>1, <4>1, <1>3, <1>11 DEF b
    <3>2. CASE i # 1
      <4>1. i - 1 \in 1..created /\ i = (i - 1) + 1 /\ created' + 1 - i = created + 1 - (i - 1)
        BY <3>2, <1>1, <1>3
      <4>2. free'[(i - 1) + 1] = free[i - 1]
        BY <4>1, <1>2, <1>11
      <4> QED
        BY <4>1, <4>2, <1>2
    <3> QED
      BY <3>1, <3>2
  <2> QED
    BY <2>1, <1>1, <1>2, <1>11 DEF Starting
<1>18. LinksTell'
  <2>1. ASSUME NEW n \in Heads \cup Linked, NEW f \in Fields PROVE link'[<<n, f>>] # Null
    <3>1. <<n, f>> \in Locations
      BY KindsApart DEF Locations, Linked, MInv, TypeOK, Buffers
    <3> QED
      BY <3>1, <1>1, <1>9, StoredOrThere DEF Fit, MInv, LinksTell
  <2>2. ASSUME NEW f \in Fields PROVE link'[<<b, f>>] # Null
    <3>1. 1 \in 1..Len(free') /\ 1 \in 0..Len(free') /\ 0 \in 0..Len(free') /\ 0 + 1 = 1 /\ Len(free') \in Nat
          /\ 1 + 1 \in 0..Len(free') + 1 /\ 0 \in 0..Len(free') + 1
      BY <1>2, <1>3, <1>11
    <3>2. At(FreeHead, free', 1) = b
      BY <3>1, <1>11 DEF At
    <3>3. NextOf(link', b) = At(FreeHead, free', 1 + 1) /\ PrevOf(link', b) = At(FreeHead, free', 0)
      BY <3>1, <3>2, <1>9 DEF ListIs
    <3>4. At(FreeHead, free', 1 + 1) \in Heads \cup Buffers /\ At(FreeHead, free', 0) \in Heads \cup Buffers
      BY <3>1, <1>11, Places, KindsApart
    <3> QED
      BY <3>3, <3>4, KindsApart DEF NextOf, PrevOf, Fields
  <2>3. copies' = {}
    BY <1>1, <1>2
  <2> QED
    BY <2>1, <2>2, <2>3, <1>7 DEF LinksTell
<1> QED
  BY <1>12, <1>14, <1>15, <1>16, <1>17, <1>18 DEF MInv

\* A step that only puts stores on their way keeps what depends on the links.
LEMMA StoresBegin ==
    MInv /\ Fit(stores') /\ Apart(stores') /\ UNCHANGED <<created, link, copies>>
        => /\ StoresApart' /\ LinksTell' /\ Settled' = StoreAll(link, stores')
           /\ stores' \in SUBSET ((Nodes \X Fields) \X (Nodes \cup {Null, Poison}))
<1> SUFFICES ASSUME MInv, Fit(stores'), Apart(stores'), UNCHANGED <<created, link, copies>>
             PROVE  /\ StoresApart' /\ LinksTell' /\ Settled' = StoreAll(link, stores')
                    /\ stores' \in SUBSET ((Nodes \X Fields) \X (Nodes \cup {Null, Poison}))
  OBVIOUS
<1>1. StoresApart'
  BY DEF Fit, Apart, StoresApart
<1>2. LinksTell'
  BY DEF MInv, LinksTell, Linked
<1>3. Settled' = StoreAll(link, stores')
  BY DEF Settled
<1> QED
  BY <1>1, <1>2, <1>3 DEF Fit

\* The pool is there once somebody is in a call.
LEMMA PoolIsThere ==
    MInv /\ (getPc # "call" \/ putPc # "call" \/ out # {} \/ copies # {} \/ created = Len(Memory))
        => created = Len(Memory)
<1> SUFFICES ASSUME MInv, created # Len(Memory)
             PROVE  getPc = "call" /\ putPc = "call" /\ out = {} /\ copies = {}
  OBVIOUS
<1>1. created < Len(Memory)
  <2>1. created \in 0..Len(Memory) /\ Len(Memory) \in Nat
    BY MemPoolAssumption DEF MInv, TypeOK
  <2> QED
    BY <2>1
<1> QED
  BY <1>1 DEF MInv, Starting

\* list_del of the first free buffer.
LEMMA TakeFirstKeeps ==
    MInv /\ lock = "none" /\ getPc \in {"call", "woken"} /\ created = Len(Memory)
    /\ free # <<>> /\ TakeFirst /\ UNCHANGED <<created, link, putVars, out, copies, used>>
    => MInv'
<1> SUFFICES ASSUME MInv, lock = "none", getPc \in {"call", "woken"}, created = Len(Memory),
                    free # <<>>, TakeFirst,
                    UNCHANGED <<created, link, putVars, out, copies, used>>
             PROVE  MInv'
  OBVIOUS
<1> DEFINE e == free[1]
<1>1. /\ stores = {} /\ Settled = link /\ Moving = {}
      /\ ListIs(link, FreeHead, free) /\ ListIs(link, UseHead, used)
  BY Unlocked
<1>2. /\ TypeOK /\ free \in Seq(Buffers) /\ Distinct(free) /\ used \in Seq(Buffers) /\ Distinct(used)
      /\ Entries(free) \cap Entries(used) = {}
      /\ Entries(free) \cup Entries(used) = Linked
      /\ FreeHead \in Heads /\ UseHead \in Heads
  BY <1>1, KindsApart DEF MInv, TypeOK, EachOnce
<1>3. 1 \in 1..Len(free) /\ e \in Buffers /\ e \in Entries(free)
  <2>1. 1 \in 1..Len(free)
    BY <1>2
  <2> QED
    BY <2>1, <1>2 DEF Entries
<1>4. NextOf(link, FreeHead) = e
  <2>1. 0 \in 0..Len(free) /\ 0 + 1 = 1
    BY <1>2
  <2>2. At(FreeHead, free, 0) = FreeHead /\ At(FreeHead, free, 1) = e
    BY <1>3 DEF At
  <2> QED
    BY <2>1, <2>2, <1>1 DEF ListIs
<1>5. /\ lock' = "recv" /\ getPc' = "unlink" /\ getNode' = e
      /\ stores' = ListDel(link, e) /\ free' = Without(free, e)
      /\ UNCHANGED <<created, link, putPc, putNode, out, copies, used>>
  BY <1>4 DEF TakeFirst, putVars
<1>6. /\ Without(free, e) \in Seq(Buffers)
      /\ Entries(Without(free, e)) = Entries(free) \ {e} /\ Distinct(Without(free, e))
  BY <1>2, <1>3, WithoutFacts
<1>7. Apart(stores') /\ Fit(stores')
  BY <1>1, <1>2, <1>3, <1>5, DelFromRing, DelStoresFit
<1>8. /\ StoresApart' /\ LinksTell' /\ Settled' = StoreAll(link, stores')
      /\ stores' \in SUBSET ((Nodes \X Fields) \X (Nodes \cup {Null, Poison}))
  BY <1>5, <1>7, StoresBegin
<1>9. ListIs(Settled', FreeHead, free')
  BY <1>1, <1>2, <1>3, <1>5, <1>8, DelFromRing
<1>10. ListIs(Settled', UseHead, used')
  BY <1>1, <1>2, <1>3, <1>5, <1>8, DelElsewhere, RingsApart DEF MInv
<1> HIDE DEF e
<1>11. TypeOK'
  BY <1>2, <1>3, <1>5, <1>6, <1>8 DEF TypeOK
<1>12. putPc \notin {"unlink", "link"}
  BY DEF MInv, LockPhases
<1>13. Moving' = {e} /\ Linked' = Linked
  BY <1>5, <1>12 DEF Moving, Linked
<1>14. EachOnce'
  BY <1>2, <1>3, <1>5, <1>6, <1>13 DEF EachOnce
<1>15. LockPhases' /\ Starting' /\ CloneTestIsRight'
  BY <1>5, <1>12 DEF MInv, LockPhases, Starting, CloneTestIsRight
<1>16. Holding'
  BY <1>5, <1>12 DEF MInv, Holding
<1>17. ListsSettle'
  BY <1>9, <1>10 DEF ListsSettle
<1> QED
  BY <1>8, <1>11, <1>14, <1>15, <1>16, <1>17 DEF MInv

\* What the test of list_empty is good for.
LEMMA NotEmpty == MInv /\ lock = "none" /\ ~ListEmpty(FreeHead) => free # <<>>
<1> SUFFICES ASSUME MInv, lock = "none", ~ListEmpty(FreeHead), free = <<>> PROVE FALSE
  OBVIOUS
<1>1. ListIs(link, FreeHead, free)
  BY Unlocked
<1>2. 0 \in 0..Len(free) /\ At(FreeHead, free, 0) = FreeHead /\ At(FreeHead, free, 0 + 1) = FreeHead
  BY DEF At
<1> QED
  BY <1>1, <1>2 DEF ListIs, ListEmpty

LEMMA GetKeeps == MInv /\ Get => MInv'
<1> SUFFICES ASSUME MInv, Get PROVE MInv'
  OBVIOUS
<1>1. CASE ListEmpty(FreeHead)
  <2>1. getPc' = "wait" /\ getPc = "call"
        /\ UNCHANGED <<created, link, stores, lock, getNode, putPc, putNode, out, copies, free, used>>
    BY <1>1 DEF Get, putVars
  <2>2. TypeOK' /\ StoresApart' /\ CloneTestIsRight'
    BY <2>1 DEF MInv, TypeOK, StoresApart, CloneTestIsRight
  <2>3. LockPhases' /\ LinksTell'
    BY <2>1 DEF MInv, LockPhases, LinksTell, Linked
  <2>4. Starting'
    BY <2>1, MemPoolAssumption DEF MInv, TypeOK, Starting, Get
  <2>5. Settled' = Settled /\ Moving' = Moving /\ Linked' = Linked
    BY <2>1 DEF Settled, Moving, Linked
  <2>6. ListsSettle' /\ EachOnce' /\ Holding'
    BY <2>1, <2>5 DEF MInv, ListsSettle, EachOnce, Holding
  <2> QED
    BY <2>2, <2>3, <2>4, <2>6 DEF MInv
<1>2. CASE ~ListEmpty(FreeHead)
  BY <1>2, NotEmpty, TakeFirstKeeps DEF Get
<1> QED
  BY <1>1, <1>2

LEMMA GetAfterWaitKeeps == MInv /\ GetAfterWait => MInv'
  BY TakeFirstKeeps, PoolIsThere DEF GetAfterWait, MInv, Holding

\* list_add to the used ones.
LEMMA LinkAsUsedKeeps == MInv /\ LinkAsUsed => MInv'
<1> SUFFICES ASSUME MInv, LinkAsUsed PROVE MInv'
  OBVIOUS
<1> DEFINE e == getNode
<1>1. /\ getPc = "unlink" /\ stores = {} /\ stores' = ListAdd(link, e, UseHead)
      /\ used' = Before(e, used) /\ getPc' = "link"
      /\ UNCHANGED <<created, link, lock, getNode, putPc, putNode, out, copies, free>>
  BY DEF LinkAsUsed, putVars
<1>2. putPc \notin {"unlink", "link"} /\ lock = "recv" /\ Moving = {e}
  BY <1>1 DEF MInv, LockPhases, Moving
<1>3. /\ TypeOK /\ free \in Seq(Buffers) /\ Distinct(free) /\ used \in Seq(Buffers) /\ Distinct(used)
      /\ Entries(free) \cap Entries(used) = {} /\ e \notin Entries(free) \cup Entries(used)
      /\ Entries(free) \cup Entries(used) \cup {e} = Linked
      /\ FreeHead \in Heads /\ UseHead \in Heads
  BY <1>2, KindsApart DEF MInv, TypeOK, EachOnce
<1>4. e \in Buffers
  <2>1. e \in Linked
    BY <1>3
  <2> QED
    BY <2>1, <1>3, MemPoolAssumption DEF Linked, Buffers, TypeOK
<1>5. ListIs(link, FreeHead, free) /\ ListIs(link, UseHead, used)
  BY <1>1, <1>3, NoStores DEF MInv, ListsSettle
<1> HIDE DEF e
<1>6. /\ Before(e, used) \in Seq(Buffers) /\ Entries(Before(e, used)) = Entries(used) \cup {e}
      /\ Distinct(Before(e, used))
  <2>1. used \in Seq(Buffers) /\ e \in Buffers /\ e \notin Entries(used) /\ Distinct(used)
    BY <1>3, <1>4
  <2> QED
    BY <2>1, BeforeFacts
<1>7. Apart(stores') /\ Fit(stores')
  BY <1>1, <1>3, <1>4, <1>5, AddToRing, AddStoresFit
<1>8. /\ StoresApart' /\ LinksTell' /\ Settled' = StoreAll(link, stores')
      /\ stores' \in SUBSET ((Nodes \X Fields) \X (Nodes \cup {Null, Poison}))
  BY <1>1, <1>7, StoresBegin
<1>9. ListIs(Settled', UseHead, used')
  BY <1>1, <1>3, <1>4, <1>5, <1>8, AddToRing
<1>10. ListIs(Settled', FreeHead, free')
  <2>1. RingNodes(FreeHead, free) \cap RingNodes(UseHead, used) = {}
    BY <1>3, RingsApart DEF MInv
  <2>2. e \notin RingNodes(FreeHead, free)
    BY <1>3, <1>4, KindsApart DEF RingNodes
  <2>3. RingNodes(FreeHead, free) \cap (RingNodes(UseHead, used) \cup {e}) = {}
    BY <2>1, <2>2
  <2>4. ListIs(StoreAll(link, ListAdd(link, e, UseHead)), FreeHead, free)
    BY <2>3, <1>3, <1>4, <1>5, AddElsewhere
  <2> QED
    BY <2>4, <1>1, <1>8
<1>11. TypeOK'
  BY <1>1, <1>3, <1>6, <1>8 DEF TypeOK
<1>12. EachOnce'
  <2>1. Moving' = {} /\ Linked' = Linked
    BY <1>1, <1>2 DEF Moving, Linked
  <2> QED
    BY <2>1, <1>1, <1>3, <1>6 DEF EachOnce
<1>13. LockPhases' /\ Starting' /\ CloneTestIsRight'
  BY <1>1, <1>2 DEF MInv, LockPhases, Starting, CloneTestIsRight
<1>14. Holding'
  <2>1. out \subseteq Entries(used) /\ e \notin out /\ e \notin Clones
    BY <1>3, <1>4, KindsApart DEF MInv, Holding
  <2>2. putPc \in {"testPrev", "lock"} => putNode # e
    <3>1. putPc \in {"testPrev", "lock"} => putNode \in Entries(used) \/ putNode \in Clones
      BY <1>3 DEF MInv, Holding, TypeOK
    <3> QED
      BY <3>1, <2>1, <1>3
  <2>3. out' \subseteq Entries(used') /\ getNode' \in Entries(used') \ out'
    BY <2>1, <1>1, <1>6 DEF e
  <2>4. putPc' \in {"testPrev", "lock"} /\ putNode' \in Buffers => putNode' \in Entries(used') \ out'
    BY <1>1, <1>6 DEF MInv, Holding
  <2>5. putPc' \in {"testPrev", "lock"} => getNode' # putNode'
    BY <2>2, <1>1 DEF e
  <2> QED
    BY <2>3, <2>4, <2>5, <1>1, <1>2 DEF MInv, Holding
<1> QED
  BY <1>8, <1>9, <1>10, <1>11, <1>12, <1>13, <1>14 DEF MInv, ListsSettle

\* What no list or store is about.
StillVars == <<created, link, stores, free, used>>

LEMMA StillSteps ==
    MInv /\ UNCHANGED StillVars => Settled' = Settled /\ Linked' = Linked /\ StoresApart'
  BY DEF StillVars, MInv, Settled, Linked, StoresApart

LEMMA GotKeeps == MInv /\ Got => MInv'
<1> SUFFICES ASSUME MInv, Got PROVE MInv'
  OBVIOUS
<1>1. /\ getPc = "link" /\ stores = {} /\ lock' = "none" /\ getPc' = "call"
      /\ out' = out \cup {getNode}
      /\ UNCHANGED <<created, link, stores, getNode, putPc, putNode, copies, free, used>>
  BY DEF Got, putVars, lists
<1>2. putPc \notin {"unlink", "link"} /\ lock = "recv" /\ created = Len(Memory)
  BY <1>1, PoolIsThere DEF MInv, LockPhases
<1>3. Settled' = Settled /\ Linked' = Linked /\ StoresApart' /\ Moving' = Moving
  BY <1>1, StillSteps DEF StillVars, Moving
<1>4. getNode \in Entries(used) /\ getNode \in Buffers
  BY <1>1 DEF MInv, Holding, TypeOK, Entries
<1>5. TypeOK'
  BY <1>1, <1>4 DEF MInv, TypeOK
<1>6. LockPhases' /\ LinksTell' /\ CloneTestIsRight'
  BY <1>1, <1>2, <1>3 DEF MInv, LockPhases, LinksTell, CloneTestIsRight
<1>7. Starting'
  BY <1>1, <1>2, MemPoolAssumption DEF Starting
<1>8. ListsSettle' /\ EachOnce'
  BY <1>1, <1>3 DEF MInv, ListsSettle, EachOnce
<1>9. Holding'
  BY <1>1, <1>2, <1>4 DEF MInv, Holding
<1> QED
  BY <1>3, <1>5, <1>6, <1>7, <1>8, <1>9 DEF MInv

LEMMA CloneKeeps == MInv /\ Clone => MInv'
<1> SUFFICES ASSUME MInv, Clone PROVE MInv'
  OBVIOUS
<1>1. PICK c \in Clones \ copies, n \in out \cup copies :
        link' = StoreAll(link, NoLinks(c, n)) /\ copies' = copies \cup {c}
  BY DEF Clone
<1>2. putPc = "call"
      /\ UNCHANGED <<created, stores, lock, getPc, getNode, putPc, putNode, out, free, used>>
  BY DEF Clone, getVars, putVars, lists
<1>3. created = Len(Memory) /\ TypeOK
  BY <1>1, PoolIsThere DEF MInv
<1>4. /\ \A s \in NoLinks(c, n) : s[1][1] = c /\ s[2] = Null
      /\ Apart(NoLinks(c, n))
      /\ \A f \in Fields : << <<c, f>>, Null >> \in NoLinks(c, n) /\ <<c, f>> \in Locations
      /\ c \in Nodes
  BY DEF NoLinks, Apart, Locations, Nodes
<1>5. \A loc \in Locations : \/ link'[loc] = Null /\ loc[1] = c
                             \/ link'[loc] = link[loc]
  BY <1>1, <1>4, StoredOrThere
<1>6. \A f \in Fields : link'[<<c, f>>] = Null
  BY <1>1, <1>4, Stored
<1>7. \A loc \in Locations : loc[1] # c => link'[loc] = link[loc]
  BY <1>5
<1>8. TypeOK'
  <2>1. link' = [loc \in Locations |-> link'[loc]]
    BY <1>1 DEF StoreAll, Locations
  <2>2. \A loc \in Locations : link'[loc] \in Nodes \cup {Null, Poison}
    BY <1>3, <1>5 DEF TypeOK, Locations
  <2>3. link' \in [Nodes \X Fields -> Nodes \cup {Null, Poison}]
    BY <2>1, <2>2 DEF Locations
  <2> QED
    BY <2>3, <1>1, <1>2, <1>3 DEF TypeOK
<1>9. ASSUME NEW loc \in Locations, loc[1] \notin Clones PROVE Settled'[loc] = Settled[loc]
  <2>1. link'[loc] = link[loc]
    BY <1>7, <1>9
  <2>2. CASE \E s \in stores : s[1] = loc
    <3>1. PICK s \in stores : s[1] = loc
      BY <2>2
    <3>2. Apart(stores) /\ << loc, s[2] >> \in stores
      <4>1. s \in (Nodes \X Fields) \X (Nodes \cup {Null, Poison})
        BY <1>3 DEF TypeOK
      <4>2. s = << s[1], s[2] >>
        BY <4>1
      <4> QED
        BY <3>1, <4>2 DEF MInv, StoresApart, Apart
    <3>3. StoreAll(link', stores)[loc] = s[2] /\ StoreAll(link, stores)[loc] = s[2]
      BY <3>2, Stored
    <3> QED
      BY <3>3, <1>2 DEF Settled
  <2>3. CASE \A s \in stores : s[1] # loc
    <3>1. StoreAll(link', stores)[loc] = link'[loc] /\ StoreAll(link, stores)[loc] = link[loc]
      BY <2>3, NotStored
    <3> QED
      BY <2>1, <3>1, <1>2 DEF Settled
  <2> QED
    BY <2>2, <2>3
<1>10. ASSUME NEW h \in Heads, NEW s \in Seq(Buffers), Distinct(s), ListIs(Settled, h, s)
       PROVE  ListIs(Settled', h, s)
  <2>1. ASSUME NEW a \in RingNodes(h, s)
        PROVE  NextOf(Settled', a) = NextOf(Settled, a) /\ PrevOf(Settled', a) = PrevOf(Settled, a)
    <3>1. a \in Heads \cup Buffers
      BY <1>10, Places
    <3>2. /\ <<a, "next">> \in Locations /\ <<a, "prev">> \in Locations
          /\ <<a, "next">>[1] \notin Clones /\ <<a, "prev">>[1] \notin Clones
      BY <3>1, KindsApart DEF Locations, Fields
    <3> QED
      BY <3>2, <1>9 DEF NextOf, PrevOf
  <2> QED
    BY <2>1, <1>10, SameRing
<1>11. ListsSettle'
  BY <1>2, <1>3, <1>10, KindsApart DEF MInv, ListsSettle, TypeOK, EachOnce
<1>12. StoresApart' /\ LockPhases' /\ CloneTestIsRight'
  BY <1>2 DEF MInv, StoresApart, LockPhases, CloneTestIsRight
<1>13. EachOnce'
  BY <1>2 DEF MInv, EachOnce, Moving, Linked
<1>14. Starting'
  BY <1>2, <1>3, MemPoolAssumption DEF Starting
<1>15. Holding'
  BY <1>1, <1>2 DEF MInv, Holding
<1>16. LinksTell'
  <2>1. ASSUME NEW n1 \in Heads \cup Linked, NEW f \in Fields PROVE link'[<<n1, f>>] # Null
    <3>1. n1 \in Heads \cup Buffers
      BY <1>3 DEF Linked, TypeOK, Buffers
    <3>2. <<n1, f>> \in Locations /\ n1 # c
      BY <3>1, KindsApart DEF Locations
    <3> QED
      BY <3>2, <1>7 DEF MInv, LinksTell
  <2>2. ASSUME NEW c1 \in copies, NEW f \in Fields PROVE link'[<<c1, f>>] = Null
    <3>1. <<c1, f>> \in Locations /\ c1 # c
      BY <1>3 DEF Locations, Nodes, TypeOK
    <3> QED
      BY <3>1, <1>7 DEF MInv, LinksTell
  <2> QED
    BY <2>1, <2>2, <1>1, <1>2, <1>6 DEF LinksTell, Linked
<1> QED
  BY <1>8, <1>11, <1>12, <1>13, <1>14, <1>15, <1>16 DEF MInv

\* mem_pool_put before it takes the lock.
LEMMA PutUnlockedKeeps ==
    MInv /\ (CallPut \/ TestPrev \/ TestNext \/ FreeClone) => MInv'
<1> SUFFICES ASSUME MInv, CallPut \/ TestPrev \/ TestNext \/ FreeClone PROVE MInv'
  OBVIOUS
<1>1. /\ UNCHANGED <<created, link, stores, lock, getPc, getNode, free, used>>
      /\ putPc \in {"call", "testPrev", "testNext", "free"}
      /\ putPc' \in {"call", "testPrev", "testNext", "free", "lock"}
  BY DEF CallPut, TestPrev, TestNext, FreeClone, getVars, lists
<1>2. Settled' = Settled /\ Linked' = Linked /\ StoresApart' /\ Moving' = Moving
  BY <1>1, StillSteps DEF StillVars, Moving
<1>3. created = Len(Memory)
  BY PoolIsThere DEF CallPut, TestPrev, TestNext, FreeClone, MInv
<1>4. LockPhases'
  BY <1>1 DEF MInv, LockPhases
<1>5. Starting' /\ ListsSettle' /\ EachOnce'
  BY <1>1, <1>2, <1>3, MemPoolAssumption DEF MInv, Starting, ListsSettle, EachOnce
<1>6. TypeOK /\ out \subseteq Entries(used) /\ Entries(used) \subseteq Buffers
      /\ \A b \in Buffers : b \notin Clones /\ b # Null
  BY KindsApart DEF MInv, TypeOK, Holding, Entries
<1>7. \A b \in Entries(used), f \in Fields : link[<<b, f>>] # Null
  <2>1. Entries(used) \subseteq Linked
    BY DEF MInv, EachOnce
  <2> QED
    BY <2>1 DEF MInv, LinksTell
<1>8. CASE CallPut
  <2>1. putPc = "call" /\ putNode' \in out \cup copies /\ out' = out \ {putNode'} /\ putPc' = "testPrev"
        /\ copies' = copies
    BY <1>8 DEF CallPut
  <2>2. TypeOK' /\ LinksTell' /\ CloneTestIsRight'
    BY <2>1, <1>1, <1>2, <1>6 DEF MInv, TypeOK, LinksTell, CloneTestIsRight
  <2>3. Holding'
    BY <2>1, <1>1, <1>6, KindsApart DEF MInv, Holding, TypeOK
  <2> QED
    BY <2>2, <2>3, <1>2, <1>4, <1>5 DEF MInv
<1>9. CASE TestPrev
  <2>1. putPc = "testPrev" /\ UNCHANGED <<putNode, out, copies>>
        /\ putPc' = IF link[<<putNode, "prev">>] = Null THEN "testNext" ELSE "lock"
    BY <1>9 DEF TestPrev, PrevOf
  <2>2. putNode \in Entries(used) \/ putNode \in copies
    BY <2>1, <1>6 DEF MInv, Holding, TypeOK
  <2>3. /\ putNode \in Buffers => putPc' = "lock"
        /\ putNode \in Clones => putPc' = "testNext"
    BY <2>1, <2>2, <1>6, <1>7 DEF MInv, LinksTell, Fields, TypeOK
  <2>4. TypeOK' /\ LinksTell' /\ CloneTestIsRight'
    BY <2>1, <2>2, <2>3, <1>1, <1>2, <1>6 DEF MInv, TypeOK, LinksTell, CloneTestIsRight
  <2>5. Holding'
    BY <2>1, <2>2, <2>3, <1>1, <1>6 DEF MInv, Holding, TypeOK
  <2> QED
    BY <2>4, <2>5, <1>2, <1>4, <1>5 DEF MInv
<1>10. CASE TestNext
  <2>1. putPc = "testNext" /\ UNCHANGED <<putNode, out, copies>>
        /\ putPc' = IF link[<<putNode, "next">>] = Null THEN "free" ELSE "lock"
    BY <1>10 DEF TestNext, NextOf
  <2>2. putNode \in Clones /\ putNode \in copies
    BY <2>1 DEF MInv, Holding, CloneTestIsRight
  <2>3. putPc' = "free"
    BY <2>1, <2>2 DEF MInv, LinksTell, Fields
  <2>4. TypeOK' /\ LinksTell' /\ CloneTestIsRight'
    BY <2>1, <2>2, <2>3, <1>1, <1>2 DEF MInv, TypeOK, LinksTell, CloneTestIsRight
  <2>5. Holding'
    BY <2>1, <2>2, <2>3, <1>1 DEF MInv, Holding
  <2> QED
    BY <2>4, <2>5, <1>2, <1>4, <1>5 DEF MInv
<1>11. CASE FreeClone
  <2>1. putPc = "free" /\ copies' = copies \ {putNode} /\ putPc' = "call" /\ UNCHANGED <<putNode, out>>
    BY <1>11 DEF FreeClone
  <2>2. TypeOK' /\ LinksTell' /\ CloneTestIsRight' /\ Holding'
    BY <2>1, <1>1, <1>2 DEF MInv, TypeOK, LinksTell, CloneTestIsRight, Holding
  <2> QED
    BY <2>2, <1>2, <1>4, <1>5 DEF MInv
<1> QED
  BY <1>8, <1>9, <1>10, <1>11

\* list_del from the used ones.
LEMMA LockToPutKeeps == MInv /\ LockToPut => MInv'
<1> SUFFICES ASSUME MInv, LockToPut PROVE MInv'
  OBVIOUS
<1> DEFINE e == putNode
<1>1. /\ putPc = "lock" /\ lock = "none" /\ lock' = "proc" /\ putPc' = "unlink"
      /\ stores' = ListDel(link, e) /\ used' = Without(used, e)
      /\ UNCHANGED <<created, link, getPc, getNode, putNode, out, copies, free>>
  BY DEF LockToPut, getVars
<1>2. /\ stores = {} /\ Settled = link /\ Moving = {}
      /\ ListIs(link, FreeHead, free) /\ ListIs(link, UseHead, used)
  BY <1>1, Unlocked
<1>3. /\ TypeOK /\ free \in Seq(Buffers) /\ Distinct(free) /\ used \in Seq(Buffers) /\ Distinct(used)
      /\ Entries(free) \cap Entries(used) = {}
      /\ Entries(free) \cup Entries(used) = Linked
      /\ FreeHead \in Heads /\ UseHead \in Heads
  BY <1>2, KindsApart DEF MInv, TypeOK, EachOnce
<1>4. e \in Buffers /\ e \in Entries(used) /\ e \notin out
  BY <1>1 DEF MInv, CloneTestIsRight, Holding
<1>5. PICK k \in 1..Len(used) : e = used[k]
  BY <1>4 DEF Entries
<1>6. getPc \notin {"unlink", "link"} /\ created = Len(Memory)
  BY <1>1, PoolIsThere DEF MInv, LockPhases
<1> HIDE DEF e
<1>7. /\ Without(used, e) \in Seq(Buffers)
      /\ Entries(Without(used, e)) = Entries(used) \ {e} /\ Distinct(Without(used, e))
  BY <1>3, <1>5, WithoutFacts
<1>8. Apart(stores') /\ Fit(stores')
  BY <1>1, <1>2, <1>3, <1>5, DelFromRing, DelStoresFit
<1>9. /\ StoresApart' /\ LinksTell' /\ Settled' = StoreAll(link, stores')
      /\ stores' \in SUBSET ((Nodes \X Fields) \X (Nodes \cup {Null, Poison}))
  BY <1>1, <1>8, StoresBegin
<1>10. ListIs(Settled', UseHead, used')
  BY <1>1, <1>2, <1>3, <1>5, <1>9, DelFromRing
<1>11. ListIs(Settled', FreeHead, free')
  BY <1>1, <1>2, <1>3, <1>5, <1>9, DelElsewhere, RingsApart DEF MInv
<1>12. TypeOK'
  BY <1>1, <1>3, <1>7, <1>9 DEF TypeOK
<1>13. EachOnce'
  <2>1. Moving' = {e} /\ Linked' = Linked
    BY <1>1, <1>6 DEF Moving, Linked, e
  <2> QED
    BY <2>1, <1>1, <1>3, <1>4, <1>7 DEF EachOnce
<1>14. LockPhases' /\ Starting' /\ CloneTestIsRight'
  <2>1. LockPhases' /\ CloneTestIsRight'
    BY <1>1, <1>4, <1>6 DEF MInv, LockPhases, CloneTestIsRight, e
  <2>2. Starting'
    BY <1>1, <1>6, MemPoolAssumption DEF Starting
  <2> QED
    BY <2>1, <2>2
<1>15. Holding'
  <2>1. out' \subseteq Entries(used')
    BY <1>1, <1>4, <1>7 DEF MInv, Holding
  <2> QED
    BY <2>1, <1>1, <1>6 DEF MInv, Holding
<1> QED
  BY <1>9, <1>10, <1>11, <1>12, <1>13, <1>14, <1>15 DEF MInv, ListsSettle

\* list_add to the free ones.
LEMMA LinkAsFreeKeeps == MInv /\ LinkAsFree => MInv'
<1> SUFFICES ASSUME MInv, LinkAsFree PROVE MInv'
  OBVIOUS
<1> DEFINE e == putNode
<1>1. /\ putPc = "unlink" /\ stores = {} /\ stores' = ListAdd(link, e, FreeHead)
      /\ free' = Before(e, free) /\ putPc' = "link"
      /\ UNCHANGED <<created, link, lock, getPc, getNode, putNode, out, copies, used>>
  BY DEF LinkAsFree, getVars
<1>2. getPc \notin {"unlink", "link"} /\ lock = "proc" /\ Moving = {e} /\ created = Len(Memory)
  BY <1>1, PoolIsThere DEF MInv, LockPhases, Moving
<1>3. /\ TypeOK /\ free \in Seq(Buffers) /\ Distinct(free) /\ used \in Seq(Buffers) /\ Distinct(used)
      /\ Entries(free) \cap Entries(used) = {} /\ e \notin Entries(free) \cup Entries(used)
      /\ Entries(free) \cup Entries(used) \cup {e} = Linked
      /\ FreeHead \in Heads /\ UseHead \in Heads
  BY <1>2, KindsApart DEF MInv, TypeOK, EachOnce
<1>4. e \in Buffers
  BY <1>1 DEF MInv, CloneTestIsRight
<1>5. ListIs(link, FreeHead, free) /\ ListIs(link, UseHead, used)
  BY <1>1, <1>3, NoStores DEF MInv, ListsSettle
<1> HIDE DEF e
<1>6. /\ Before(e, free) \in Seq(Buffers) /\ Entries(Before(e, free)) = Entries(free) \cup {e}
      /\ Distinct(Before(e, free)) /\ Before(e, free) # <<>>
  <2>1. free \in Seq(Buffers) /\ e \in Buffers /\ e \notin Entries(free) /\ Distinct(free)
    BY <1>3, <1>4
  <2>2. e \in Entries(Before(e, free))
    BY <2>1, BeforeFacts
  <2>3. Before(e, free) # <<>>
    BY <2>2 DEF Entries
  <2> QED
    BY <2>1, <2>3, BeforeFacts
<1>7. Apart(stores') /\ Fit(stores')
  BY <1>1, <1>3, <1>4, <1>5, AddToRing, AddStoresFit
<1>8. /\ StoresApart' /\ LinksTell' /\ Settled' = StoreAll(link, stores')
      /\ stores' \in SUBSET ((Nodes \X Fields) \X (Nodes \cup {Null, Poison}))
  BY <1>1, <1>7, StoresBegin
<1>9. ListIs(Settled', FreeHead, free')
  BY <1>1, <1>3, <1>4, <1>5, <1>8, AddToRing
<1>10. ListIs(Settled', UseHead, used')
  <2>1. RingNodes(FreeHead, free) \cap RingNodes(UseHead, used) = {}
    BY <1>3, RingsApart DEF MInv
  <2>2. e \notin RingNodes(UseHead, used)
    BY <1>3, <1>4, KindsApart DEF RingNodes
  <2>3. RingNodes(UseHead, used) \cap (RingNodes(FreeHead, free) \cup {e}) = {}
    BY <2>1, <2>2
  <2>4. ListIs(StoreAll(link, ListAdd(link, e, FreeHead)), UseHead, used)
    BY <2>3, <1>3, <1>4, <1>5, AddElsewhere
  <2> QED
    BY <2>4, <1>1, <1>8
<1>11. TypeOK'
  BY <1>1, <1>3, <1>6, <1>8 DEF TypeOK
<1>12. EachOnce'
  <2>1. Moving' = {} /\ Linked' = Linked
    BY <1>1, <1>2 DEF Moving, Linked
  <2> QED
    BY <2>1, <1>1, <1>3, <1>6 DEF EachOnce
<1>13. LockPhases' /\ CloneTestIsRight'
  BY <1>1, <1>2 DEF MInv, LockPhases, CloneTestIsRight
<1>14. Starting'
  BY <1>1, <1>2, MemPoolAssumption DEF Starting
<1>15. Holding'
  BY <1>1, <1>2, <1>6 DEF MInv, Holding
<1> QED
  BY <1>8, <1>9, <1>10, <1>11, <1>12, <1>13, <1>14, <1>15 DEF MInv, ListsSettle

LEMMA PutKeeps == MInv /\ Put => MInv'
<1> SUFFICES ASSUME MInv, Put PROVE MInv'
  OBVIOUS
<1>1. /\ putPc = "link" /\ stores = {} /\ lock' = "none" /\ putPc' = "call"
      /\ getPc' = IF getPc = "wait" THEN "woken" ELSE getPc
      /\ UNCHANGED <<created, link, stores, getNode, putNode, out, copies, free, used>>
  BY DEF Put, lists
<1>2. getPc \notin {"unlink", "link"} /\ lock = "proc" /\ created = Len(Memory) /\ free # <<>>
  BY <1>1, PoolIsThere DEF MInv, LockPhases, Holding
<1>3. getPc' \notin {"unlink", "link"}
  BY <1>1, <1>2
<1>4. Settled' = Settled /\ Linked' = Linked /\ StoresApart' /\ Moving' = Moving
  BY <1>1, <1>2, <1>3, StillSteps DEF StillVars, Moving
<1>5. TypeOK'
  BY <1>1 DEF MInv, TypeOK
<1>6. LockPhases' /\ LinksTell' /\ CloneTestIsRight'
  BY <1>1, <1>3, <1>4 DEF MInv, LockPhases, LinksTell, CloneTestIsRight
<1>7. Starting'
  BY <1>1, <1>2, MemPoolAssumption DEF Starting
<1>8. ListsSettle' /\ EachOnce' /\ Holding'
  BY <1>1, <1>2, <1>3, <1>4 DEF MInv, ListsSettle, EachOnce, Holding
<1> QED
  BY <1>4, <1>5, <1>6, <1>7, <1>8 DEF MInv

----------------------------------------------------------------------------
THEOREM Invariance == Spec => []MInv
<1>1. MInv /\ [Next]_vars => MInv'
  <2> SUFFICES ASSUME MInv, [Next]_vars PROVE MInv'
    OBVIOUS
  <2>1. CASE UNCHANGED vars
    <3>1. UNCHANGED <<created, link, stores, lock, getPc, getNode, putPc, putNode, out, copies, free, used>>
      BY <2>1 DEF vars, getVars, putVars, lists
    <3>2. Settled' = Settled /\ Linked' = Linked /\ Moving' = Moving
      BY <3>1 DEF Settled, Linked, Moving
    <3>3. TypeOK' /\ StoresApart' /\ CloneTestIsRight' /\ LinksTell'
      BY <3>1, <3>2 DEF MInv, TypeOK, StoresApart, CloneTestIsRight, LinksTell
    <3>4. LockPhases' /\ Starting'
      BY <3>1 DEF MInv, LockPhases, Starting
    <3>5. ListsSettle' /\ EachOnce' /\ Holding'
      BY <3>1, <3>2 DEF MInv, ListsSettle, EachOnce, Holding
    <3> QED
      BY <3>3, <3>4, <3>5 DEF MInv
  <2>2. CASE Next
    BY <2>2, AddBufferKeeps, StoreLinkKeeps, GetKeeps, GetAfterWaitKeeps, LinkAsUsedKeeps, GotKeeps,
       CloneKeeps, PutUnlockedKeeps, LockToPutKeeps, LinkAsFreeKeeps, PutKeeps DEF Next
  <2> QED
    BY <2>1, <2>2
<1> QED
  BY InitMInv, <1>1, PTL DEF Spec

\* Every variable keeps its type, for any number of buffers and clones.
THEOREM PoolTypeCorrect == Spec => []TypeOK
<1>1. MInv => TypeOK
  BY DEF MInv
<1> QED
  BY <1>1, Invariance, PTL

\* mem_pool_put frees clones only and puts buffers of the pool only on its list,
\* although it reads the links of the packet without the lock.
THEOREM CloneTestRight == Spec => []CloneTestIsRight
<1>1. MInv => CloneTestIsRight
  BY DEF MInv
<1> QED
  BY <1>1, Invariance, PTL

\* Whenever nobody holds the lock both lists are whole, forward and backward,
\* and every buffer is on one of them once.
THEOREM ListsStayIntact == Spec => []ListsIntact
<1>1. MInv => ListsIntact
  <2> SUFFICES ASSUME MInv, lock = "none"
               PROVE  /\ ListIs(link, FreeHead, free) /\ ListIs(link, UseHead, used)
                      /\ Distinct(free) /\ Distinct(used)
                      /\ Entries(free) \cap Entries(used) = {}
                      /\ Entries(free) \cup Entries(used) = Linked
    BY DEF ListsIntact, Linked
  <2> QED
    BY Unlocked DEF MInv, EachOnce
<1> QED
  BY <1>1, Invariance, PTL

----------------------------------------------------------------------------
\* The lists as a stack.

\* The last buffer put on the free list by mem_pool_create completes it.
LEMMA AddBufferFills == MInv /\ AddBuffer => Stack' = Stack
<1> SUFFICES ASSUME MInv, AddBuffer PROVE Stack' = Stack
  OBVIOUS
<1>1. PICK c \in Nat : c = created
  BY MemPoolAssumption DEF MInv, TypeOK
<1>2. /\ created' = c + 1 /\ c < Len(Memory) /\ free' = Before(Memory[c + 1], free)
      /\ Len(free) = c /\ free \in Seq(Buffers)
      /\ \A i \in 1..c : free[i] = Memory[c + 1 - i]
  BY <1>1 DEF AddBuffer, MInv, Starting, TypeOK
<1>3. Stack = Full /\ Len(Memory) \in Nat
  BY <1>1, <1>2, MemPoolAssumption DEF Stack
<1>4. CASE c + 1 < Len(Memory)
  BY <1>2, <1>3, <1>4 DEF Stack
<1>5. CASE ~ c + 1 < Len(Memory)
  <2> DEFINE b == Memory[c + 1]
             f == Before(b, free)
  <2>1. Len(Memory) = c + 1 /\ c + 1 \in 1..Len(Memory)
    BY <1>1, <1>2, <1>3, <1>5
  <2>2. b \in Buffers
    BY <2>1 DEF Buffers
  <2> HIDE DEF b
  <2>3. free \in Seq(Buffers) /\ b \in Buffers
    BY <2>2, <1>2
  <2>4. f \in Seq(Buffers) /\ Len(f) = Len(free) + 1 /\ f[1] = b
    BY <2>3, BeforeFacts
  <2>5. \A i \in 1..Len(free) : f[i + 1] = free[i]
    BY <2>3, BeforeFacts
  <2>6. Stack' = f
    BY <1>2, <1>3, <1>5 DEF Stack, b
  <2> HIDE DEF f
  <2>7. ASSUME NEW i \in 1..c + 1 PROVE f[i] = Memory[c + 1 + 1 - i]
    <3>1. CASE i = 1
      <4>1. c + 1 + 1 - i = c + 1
        BY <3>1
      <4> QED
        BY <3>1, <4>1, <2>4 DEF b
    <3>2. CASE i # 1
      <4>1. i - 1 \in 1..c /\ c + 1 - (i - 1) = c + 1 + 1 - i /\ (i - 1) + 1 = i
        BY <3>2
      <4>2. f[i] = free[i - 1]
        BY <4>1, <2>5, <1>2
      <4> QED
        BY <4>1, <4>2, <1>2
    <3> QED
      BY <3>1, <3>2
  <2>8. f = [i \in 1..c + 1 |-> f[i]]
    BY <2>4, <1>2
  <2>9. Full = [i \in 1..c + 1 |-> Memory[c + 1 + 1 - i]]
    BY <2>1 DEF Full
  <2> QED
    BY <2>6, <2>7, <2>8, <2>9, <1>3
<1> QED
  BY <1>4, <1>5

\* list_del of the first free buffer hands it out.
LEMMA TakeFirstPops ==
    MInv /\ lock = "none" /\ getPc \in {"call", "woken"} /\ created = Len(Memory)
    /\ free # <<>> /\ TakeFirst /\ UNCHANGED <<created, link, putVars, out, copies, used>>
    => Pool!Pop
<1> SUFFICES ASSUME MInv, lock = "none", getPc \in {"call", "woken"}, created = Len(Memory),
                    free # <<>>, TakeFirst,
                    UNCHANGED <<created, link, putVars, out, copies, used>>
             PROVE  Pool!Pop
  OBVIOUS
<1> DEFINE e == free[1]
<1>1. ListIs(link, FreeHead, free) /\ free \in Seq(Buffers) /\ Distinct(free) /\ Len(Memory) \in Nat
  BY Unlocked, MemPoolAssumption DEF MInv, TypeOK, EachOnce
<1>2. Len(free) \in Nat \ {0} /\ 1 \in 1..Len(free) /\ e \in Buffers /\ e \in Entries(free)
  <2>1. Len(free) \in Nat \ {0} /\ 1 \in 1..Len(free)
    BY <1>1
  <2> QED
    BY <2>1, <1>1 DEF Entries
<1>3. NextOf(link, FreeHead) = e
  <2>1. 0 \in 0..Len(free) /\ 0 + 1 = 1
    BY <1>2
  <2>2. At(FreeHead, free, 0) = FreeHead /\ At(FreeHead, free, 1) = e
    BY <1>2 DEF At
  <2> QED
    BY <2>1, <2>2, <1>1 DEF ListIs
<1>4. /\ getPc' = "unlink" /\ getNode' = e /\ free' = Without(free, e)
      /\ UNCHANGED <<created, putPc, putNode, out>>
  BY <1>3 DEF TakeFirst, putVars
<1>5. Without(free, e) = Tail(free) /\ Head(free) = e
  <2> DEFINE t == Without(free, e)
             r == Tail(free)
  <2>1. /\ t \in Seq(Buffers) /\ Len(t) = Len(free) - 1
        /\ \A i \in 1..Len(t) : t[i] = IF i < 1 THEN free[i] ELSE free[i + 1]
    BY <1>1, <1>2, WithoutFacts
  <2>2. r \in Seq(Buffers) /\ Len(r) = Len(free) - 1 /\ \A i \in 1..Len(free) - 1 : r[i] = free[i + 1]
    BY <1>1
  <2>3. Head(free) = e
    BY <1>1
  <2> HIDE DEF t, r
  <2>4. t = [i \in 1..Len(free) - 1 |-> t[i]] /\ r = [i \in 1..Len(free) - 1 |-> r[i]]
    BY <2>1, <2>2
  <2>5. \A i \in 1..Len(free) - 1 : t[i] = r[i]
    BY <2>1, <2>2, <1>2
  <2> QED
    BY <2>3, <2>4, <2>5 DEF t, r
<1>6. Stack = free /\ Stack' = Tail(free)
  BY <1>1, <1>4, <1>5 DEF Stack
<1>7. putPc \notin {"unlink", "link"}
  BY DEF MInv, LockPhases
<1> HIDE DEF e
<1>8. e \notin OutOfPool
  <2>1. e \notin Entries(used) /\ out \subseteq Entries(used)
    BY <1>2 DEF MInv, EachOnce, Holding
  <2>2. putPc # "call" /\ putNode \in Buffers => putNode \in Entries(used)
    BY <1>7, KindsApart DEF MInv, TypeOK, Holding, CloneTestIsRight
  <2> QED
    BY <2>1, <2>2 DEF OutOfPool
<1>9. OutOfPool' = OutOfPool \cup {e}
  BY <1>4 DEF OutOfPool
<1> QED
  BY <1>5, <1>6, <1>8, <1>9 DEF Pool!Pop

\* list_add to the free ones takes it back.
LEMMA LinkAsFreePushes == MInv /\ LinkAsFree => Pool!Push(putNode) /\ putNode \in OutOfPool
<1> SUFFICES ASSUME MInv, LinkAsFree PROVE Pool!Push(putNode) /\ putNode \in OutOfPool
  OBVIOUS
<1>1. /\ putPc = "unlink" /\ putPc' = "link" /\ free' = Before(putNode, free)
      /\ UNCHANGED <<created, getPc, getNode, putNode, out>>
  BY DEF LinkAsFree, getVars
<1>2. getPc \notin {"unlink", "link"} /\ created = Len(Memory) /\ Len(Memory) \in Nat
  BY <1>1, PoolIsThere, MemPoolAssumption DEF MInv, LockPhases
<1>3. putNode \in Buffers /\ putNode \notin out
  BY <1>1 DEF MInv, CloneTestIsRight, Holding, EachOnce, Moving
<1>4. putNode \in OutOfPool /\ OutOfPool' = OutOfPool \ {putNode}
  BY <1>1, <1>2, <1>3 DEF OutOfPool
<1>5. Stack = free /\ Stack' = <<putNode>> \o free
  BY <1>1, <1>2 DEF Stack, Before
<1> QED
  BY <1>4, <1>5 DEF Pool!Push

\* The other steps leave the stack and those who hold its buffers alone.
LEMMA OthersStutter ==
    MInv /\ ( \/ StoreLink \/ LinkAsUsed \/ Got \/ Clone \/ CallPut \/ TestPrev \/ TestNext
              \/ FreeClone \/ LockToPut \/ Put \/ UNCHANGED vars )
    => UNCHANGED Pool!vars
<1> SUFFICES ASSUME MInv,
                    \/ StoreLink \/ LinkAsUsed \/ Got \/ Clone \/ CallPut \/ TestPrev \/ TestNext
                    \/ FreeClone \/ LockToPut \/ Put \/ UNCHANGED vars
             PROVE  UNCHANGED Pool!vars
  OBVIOUS
<1>1. UNCHANGED <<created, free>>
  BY DEF StoreLink, LinkAsUsed, Got, Clone, CallPut, TestPrev, TestNext, FreeClone, LockToPut, Put, vars, lists
<1>2. Stack' = Stack
  BY <1>1 DEF Stack
<1>3. OutOfPool' = OutOfPool
  <2>1. CASE StoreLink \/ Clone \/ UNCHANGED vars
    BY <2>1 DEF StoreLink, Clone, vars, getVars, putVars, OutOfPool
  <2>2. CASE LinkAsUsed
    BY <2>2 DEF LinkAsUsed, putVars, OutOfPool
  <2>3. CASE Got
    BY <2>3 DEF Got, putVars, OutOfPool
  <2>4. CASE CallPut
    <3>1. /\ putPc = "call" /\ putNode' \in out \cup copies /\ out' = out \ {putNode'}
          /\ putPc' = "testPrev" /\ UNCHANGED <<getPc, getNode>>
      BY <2>4 DEF CallPut, getVars
    <3>2. out \subseteq Buffers /\ \A b \in Buffers : b \notin copies
      BY KindsApart DEF MInv, TypeOK
    <3> QED
      BY <3>1, <3>2 DEF OutOfPool
  <2>5. CASE TestPrev \/ TestNext
    BY <2>5 DEF TestPrev, TestNext, getVars, OutOfPool
  <2>6. CASE FreeClone
    BY <2>6, KindsApart DEF FreeClone, getVars, OutOfPool, MInv, CloneTestIsRight
  <2>7. CASE LockToPut
    BY <2>7 DEF LockToPut, getVars, OutOfPool
  <2>8. CASE Put
    <3>1. putPc = "link" /\ putPc' = "call" /\ UNCHANGED <<getNode, putNode, out>>
          /\ getPc' = IF getPc = "wait" THEN "woken" ELSE getPc
      BY <2>8 DEF Put
    <3> QED
      BY <3>1 DEF OutOfPool
  <2> QED
    BY <2>1, <2>2, <2>3, <2>4, <2>5, <2>6, <2>7, <2>8
<1> QED
  BY <1>2, <1>3 DEF Pool!vars

\* The two linked lists, store by store and with the clone test outside the
\* lock, are a stack of buffers: mem_pool_get hands out the one returned last,
\* and never one that somebody has.
THEOREM StackRefinement == Spec => ImplementsStack
<1>1. Init => Pool!Init
  <2> SUFFICES ASSUME Init PROVE Pool!Init
    OBVIOUS
  <2>1. 0 < Len(Memory)
    BY MemPoolAssumption
  <2>2. Stack = Full /\ OutOfPool = {}
    BY <2>1 DEF Init, Stack, OutOfPool
  <2> QED
    BY <2>2 DEF Pool!Init
<1>2. MInv /\ [Next]_vars => [Pool!Next]_(Pool!vars)
  <2> SUFFICES ASSUME MInv, [Next]_vars PROVE [Pool!Next]_(Pool!vars)
    OBVIOUS
  <2>1. CASE AddBuffer
    <3>1. OutOfPool' = OutOfPool
      BY <2>1 DEF AddBuffer, getVars, putVars, OutOfPool
    <3> QED
      BY <2>1, <3>1, AddBufferFills DEF Pool!vars
  <2>2. CASE Get
    <3>1. CASE ListEmpty(FreeHead)
      <4>1. /\ getPc = "call" /\ getPc' = "wait"
            /\ UNCHANGED <<created, free, getNode, putPc, putNode, out>>
        BY <2>2, <3>1 DEF Get, putVars
      <4>2. Stack' = Stack /\ OutOfPool' = OutOfPool
        BY <4>1 DEF Stack, OutOfPool
      <4> QED
        BY <4>2 DEF Pool!vars
    <3>2. CASE ~ListEmpty(FreeHead)
      BY <2>2, <3>2, NotEmpty, TakeFirstPops DEF Get, Pool!Next
    <3> QED
      BY <3>1, <3>2
  <2>3. CASE GetAfterWait
    <3>1. free # <<>> /\ created = Len(Memory)
      BY <2>3, PoolIsThere DEF GetAfterWait, MInv, Holding
    <3> QED
      BY <2>3, <3>1, TakeFirstPops DEF GetAfterWait, Pool!Next
  <2>4. CASE LinkAsFree
    BY <2>4, LinkAsFreePushes DEF Pool!Next
  <2> QED
    BY <2>1, <2>2, <2>3, <2>4, OthersStutter DEF Next
<1> QED
  BY <1>1, <1>2, Invariance, PTL DEF Spec, ImplementsStack, Pool!Spec
=============================================================================
