-------------------------- MODULE ListQueueProofs ---------------------------
(***************************************************************************)
(* Theorems about ListQueue, for every number of nodes, packets and        *)
(* consumers.                                                              *)
(***************************************************************************)
EXTENDS ListQueue, TLAPS, FiniteSetTheorems

----------------------------------------------------------------------------
\* The list: its pointers, and how many nodes it has.

Elements(s) == {s[i] : i \in 1..Len(s)}

Distinct(s) == \A i, j \in 1..Len(s) : s[i] = s[j] => i = j

\* The part of ListIntact about one node.
LinkOK(i) ==
    /\ node[chain[i]].pkt \in Packets
    /\ node[chain[i]].next = IF i = Len(chain) THEN Null ELSE chain[i + 1]

Ends ==
    IF flushing
    THEN cursor = IF chain = <<>> THEN Null ELSE chain[1]
    ELSE /\ num = Len(chain)
         /\ first = IF chain = <<>> THEN Null ELSE chain[1]
         /\ last = IF chain = <<>> THEN Null ELSE chain[Len(chain)]

\* What bounds num.
NodeCount == Cardinality(allocated) = Len(chain)

IInv == TypeOK /\ ListIntact /\ NodeCount

\* The parts of the invariant, by name.
LEMMA Parts ==
    IInv => /\ chain \in Seq(Nodes) /\ Len(chain) \in Nat
            /\ allocated = Elements(chain) /\ Distinct(chain)
            /\ \A i \in 1..Len(chain) : LinkOK(i)
            /\ Ends
            /\ \A i \in 1..Len(chain) : chain[i] \in Nodes
<1> SUFFICES ASSUME IInv PROVE /\ chain \in Seq(Nodes) /\ Len(chain) \in Nat
                               /\ \A i \in 1..Len(chain) : chain[i] \in Nodes
  BY DEF IInv, ListIntact, Elements, Distinct, LinkOK, Ends
<1>1. chain \in Seq(Nodes)
  BY DEF IInv, TypeOK
<1> QED
  BY <1>1

\* A sequence with one element more.
LEMMA Appended ==
    ASSUME NEW S, NEW s \in Seq(S), NEW e \in S
    PROVE  /\ Append(s, e) \in Seq(S)
           /\ Len(Append(s, e)) = Len(s) + 1
           /\ \A i \in 1..Len(s) : Append(s, e)[i] = s[i]
           /\ Append(s, e)[Len(s) + 1] = e
           /\ Elements(Append(s, e)) = Elements(s) \cup {e}
           /\ Distinct(s) /\ e \notin Elements(s) => Distinct(Append(s, e))
<1> DEFINE t == Append(s, e)
<1>1. /\ t \in Seq(S) /\ Len(t) = Len(s) + 1 /\ Len(s) \in Nat
      /\ \A i \in 1..Len(s) : t[i] = s[i]
      /\ t[Len(s) + 1] = e
  OBVIOUS
<1> HIDE DEF t
<1>2. Elements(t) = Elements(s) \cup {e}
  BY <1>1 DEF Elements
<1>3. Distinct(s) /\ e \notin Elements(s) => Distinct(t)
  BY <1>1 DEF Elements, Distinct
<1> QED
  BY <1>1, <1>2, <1>3 DEF t

\* A sequence without its head.
LEMMA Shortened ==
    ASSUME NEW S, NEW s \in Seq(S), s # <<>>
    PROVE  /\ Tail(s) \in Seq(S)
           /\ Len(s) \in Nat \ {0} /\ Len(Tail(s)) = Len(s) - 1
           /\ Head(s) = s[1] /\ s[1] \in S
           /\ \A i \in 1..(Len(s) - 1) : Tail(s)[i] = s[i + 1]
           /\ Distinct(s) => /\ Elements(Tail(s)) = Elements(s) \ {s[1]}
                             /\ Distinct(Tail(s))
           /\ (Tail(s) = <<>>) <=> (Len(s) = 1)
<1> DEFINE t == Tail(s)
<1>1. /\ t \in Seq(S) /\ Len(s) \in Nat \ {0} /\ Len(t) = Len(s) - 1
      /\ Head(s) = s[1] /\ s[1] \in S
      /\ \A i \in 1..(Len(s) - 1) : t[i] = s[i + 1]
  OBVIOUS
<1> HIDE DEF t
<1>4. (t = <<>>) <=> (Len(s) = 1)
  BY <1>1
<1>2. ASSUME Distinct(s) PROVE Elements(t) = Elements(s) \ {s[1]}
  <2>1. ASSUME NEW i \in 1..Len(s), i # 1 PROVE s[i] \in Elements(t) /\ s[i] # s[1]
    <3>1. i - 1 \in 1..Len(t) /\ t[i - 1] = s[i]
      BY <1>1, <2>1
    <3>2. s[i] # s[1]
      BY <1>1, <1>2, <2>1 DEF Distinct
    <3> QED
      BY <3>1, <3>2 DEF Elements
  <2>2. ASSUME NEW i \in 1..Len(t) PROVE t[i] \in Elements(s) \ {s[1]}
    <3>1. i + 1 \in 1..Len(s) /\ i + 1 # 1 /\ t[i] = s[i + 1]
      BY <1>1
    <3> QED
      BY <1>1, <1>2, <3>1 DEF Elements, Distinct
  <2> QED
    BY <2>1, <2>2 DEF Elements
<1>3. Distinct(s) => Distinct(t)
  BY <1>1 DEF Distinct
<1> QED
  BY <1>1, <1>2, <1>3, <1>4 DEF t

\* There are no more nodes in a list than places for them.
LEMMA CountBound ==
    ASSUME NEW A \in SUBSET Nodes
    PROVE  IsFiniteSet(A) /\ Cardinality(A) \in 0..Cardinality(Nodes)
<1>1. IsFiniteSet(A) /\ Cardinality(A) <= Cardinality(Nodes)
  BY QueueAssumption, FS_Subset
<1>2. Cardinality(A) \in Nat /\ Cardinality(Nodes) \in Nat
  BY <1>1, QueueAssumption, FS_CardinalityType
<1> QED
  BY <1>1, <1>2

\* A signal moves one consumer, if any, from its wait to the woken.
LEMMA SignalStep ==
    ASSUME pc \in [Consumers -> {"out", "wait", "woken"}], Signal
    PROVE  /\ pc' \in [Consumers -> {"out", "wait", "woken"}]
           /\ \/ Waiting = {} /\ Waiting' = Waiting /\ Woken' = Woken
              \/ \E c \in Waiting : /\ Waiting' = Waiting \ {c}
                                    /\ Woken' = Woken \cup {c}
<1>1. CASE Waiting = {}
  BY <1>1 DEF Signal, Waiting, Woken
<1>2. CASE Waiting # {}
  <2>1. PICK c \in Waiting : pc' = [pc EXCEPT ![c] = "woken"]
    BY <1>2 DEF Signal
  <2>2. Waiting' = Waiting \ {c} /\ Woken' = Woken \cup {c}
    BY <2>1 DEF Waiting, Woken
  <2>3. pc' \in [Consumers -> {"out", "wait", "woken"}]
    BY <2>1 DEF Waiting
  <2> QED
    BY <2>2, <2>3
<1> QED
  BY <1>1, <1>2

----------------------------------------------------------------------------
\* The steps keep the list whole.

\* list_queue_put appends a node that was not in use.
LEMMA PutKeepsIInv == ASSUME IInv, NEW p \in Packets, Put(p) PROVE IInv'
<1>1. PICK n \in Nodes \ allocated :
        /\ Link(n, p)
        /\ allocated' = allocated \cup {n}
        /\ chain' = Append(chain, n)
  BY DEF Put
<1> DEFINE l == Len(chain)
<1>2. /\ chain \in Seq(Nodes) /\ l \in Nat /\ allocated = Elements(chain) /\ Distinct(chain)
      /\ \A i \in 1..l : LinkOK(i) /\ chain[i] \in Nodes
      /\ num = l
      /\ first = IF chain = <<>> THEN Null ELSE chain[1]
      /\ last = IF chain = <<>> THEN Null ELSE chain[l]
  BY Parts DEF Put, Ends
<1>3. /\ chain' \in Seq(Nodes) /\ Len(chain') = l + 1
      /\ \A i \in 1..l : chain'[i] = chain[i]
      /\ chain'[l + 1] = n
      /\ Elements(chain') = Elements(chain) \cup {n}
      /\ Distinct(chain')
  BY <1>1, <1>2, Appended
<1>4. (chain = <<>>) <=> (l = 0)
  BY <1>2
<1> HIDE DEF l
<1>5. \A m \in Nodes : node'[m] = IF m = n THEN [pkt |-> p, next |-> Null]
                                  ELSE IF m = last THEN [node[m] EXCEPT !.next = n]
                                  ELSE node[m]
  BY <1>1 DEF Link
<1>6. node \in [Nodes -> [pkt : Packets \cup {Null}, next : Nodes \cup {Null}]]
  BY DEF IInv, TypeOK
<1>7. ASSUME NEW i \in 1..Len(chain') PROVE LinkOK(i)'
  <2>1. CASE i = l + 1
    <3>1. chain'[i] = n /\ i = Len(chain')
      BY <1>3, <2>1
    <3>2. node'[n] = [pkt |-> p, next |-> Null]
      BY <1>5
    <3>3. node'[chain'[i]].pkt = p /\ node'[chain'[i]].next = Null
      BY <3>1, <3>2
    <3> QED
      BY <3>1, <3>3 DEF LinkOK
  <2>2. CASE i # l + 1
    <3>1. i \in 1..l /\ chain'[i] = chain[i] /\ chain[i] \in Nodes /\ chain[i] # n
      BY <1>1, <1>2, <1>3, <2>2 DEF Elements, l
    <3>2. CASE i = l
      <4>1. chain[i] = last /\ chain'[i + 1] = n
        BY <1>2, <1>3, <1>4, <3>1, <3>2
      <4>2. node'[chain[i]] = [node[chain[i]] EXCEPT !.next = n]
        BY <1>5, <3>1, <4>1
      <4>3. node[chain[i]] \in [pkt : Packets \cup {Null}, next : Nodes \cup {Null}]
        BY <1>6, <3>1
      <4>4. node'[chain[i]].next = n /\ node'[chain[i]].pkt = node[chain[i]].pkt
        BY <4>2, <4>3
      <4> QED
        BY <1>2, <1>3, <3>1, <3>2, <4>1, <4>4 DEF LinkOK
    <3>3. CASE i # l
      <4>1. l \in 1..l /\ chain[i] # chain[l] /\ last = chain[l]
        BY <1>2, <1>4, <3>1, <3>3 DEF Distinct, l
      <4>2. node'[chain[i]] = node[chain[i]]
        BY <1>5, <3>1, <4>1
      <4>3. i + 1 \in 1..l /\ chain'[i + 1] = chain[i + 1]
        BY <1>2, <1>3, <3>1, <3>3
      <4>4. LinkOK(i)
        BY <1>2, <3>1
      <4> QED
        BY <1>2, <1>3, <3>1, <3>3, <4>2, <4>3, <4>4 DEF LinkOK, l
    <3> QED
      BY <3>2, <3>3
  <2> QED
    BY <2>1, <2>2
<1>8. Ends'
  <2>1. chain' # <<>>
    BY <1>2, <1>3
  <2>2. last' = chain'[Len(chain')] /\ num' = Len(chain')
    BY <1>1, <1>2, <1>3 DEF Link, Put
  <2>3. first' = chain'[1]
    BY <1>1, <1>2, <1>3, <1>4, QueueAssumption DEF Link, Elements
  <2> QED
    BY <2>1, <2>2, <2>3 DEF Ends, Put
<1>9. ListIntact'
  BY <1>1, <1>2, <1>3, <1>7, <1>8 DEF ListIntact, Elements, Distinct, LinkOK, Ends
<1>10. NodeCount'
  <2>1. IsFiniteSet(allocated)
    BY CountBound DEF IInv, TypeOK
  <2> QED
    BY <1>1, <1>3, <2>1, FS_AddElement DEF NodeCount, IInv, l
<1>11. TypeOK'
  <2>1. allocated' \in SUBSET Nodes
    BY <1>1 DEF IInv, TypeOK
  <2>2. num' \in 0..Cardinality(Nodes)
    BY <1>8, <1>10, <2>1, CountBound DEF NodeCount, Ends, Put
  <2>3. node' \in [Nodes -> [pkt : Packets \cup {Null}, next : Nodes \cup {Null}]]
    BY <1>1, <1>6 DEF Link
  <2>4. first' \in Nodes \cup {Null} /\ last' \in Nodes \cup {Null}
    BY <1>1 DEF Link, IInv, TypeOK
  <2>5. pc' \in [Consumers -> {"out", "wait", "woken"}]
    BY SignalStep DEF IInv, TypeOK, Put
  <2>6. answer' \in [call : {"none", "put", "get"}, ret : -1..1, pkt : Packets \cup {Null}]
    BY DEF Put, Answer
  <2> QED
    BY <1>3, <2>1, <2>2, <2>3, <2>4, <2>5, <2>6 DEF IInv, TypeOK, Put
<1> QED
  BY <1>9, <1>10, <1>11 DEF IInv

\* Once the first node is gone, the others are linked as before.
LEMMA FirstGone ==
    ASSUME IInv, chain # <<>>,
           chain' = Tail(chain),
           allocated' = allocated \ {chain[1]},
           node' = [node EXCEPT ![chain[1]] = Freed]
    PROVE  /\ chain' \in Seq(Nodes)
           /\ Len(chain) \in Nat \ {0} /\ Len(chain') = Len(chain) - 1
           /\ chain[1] \in Nodes
           /\ \A i \in 1..Len(chain') : chain'[i] = chain[i + 1]
           /\ (chain' = <<>>) <=> (Len(chain) = 1)
           /\ allocated' \in SUBSET Nodes
           /\ allocated' = Elements(chain')
           /\ Distinct(chain')
           /\ \A i \in 1..Len(chain') : LinkOK(i)'
           /\ NodeCount'
           /\ node' \in [Nodes -> [pkt : Packets \cup {Null}, next : Nodes \cup {Null}]]
<1>1. /\ chain \in Seq(Nodes) /\ allocated = Elements(chain) /\ Distinct(chain)
      /\ \A i \in 1..Len(chain) : LinkOK(i)
  BY Parts
<1>2. /\ chain' \in Seq(Nodes)
      /\ Len(chain) \in Nat \ {0} /\ Len(chain') = Len(chain) - 1
      /\ chain[1] \in Nodes
      /\ \A i \in 1..Len(chain') : chain'[i] = chain[i + 1]
      /\ Elements(chain') = Elements(chain) \ {chain[1]} /\ Distinct(chain')
      /\ (chain' = <<>>) <=> (Len(chain) = 1)
  BY <1>1, Shortened
<1>3. node \in [Nodes -> [pkt : Packets \cup {Null}, next : Nodes \cup {Null}]]
  BY DEF IInv, TypeOK
<1>4. ASSUME NEW i \in 1..Len(chain') PROVE LinkOK(i)'
  <2>1. i + 1 \in 1..Len(chain) /\ chain'[i] = chain[i + 1] /\ LinkOK(i + 1)
    BY <1>1, <1>2
  <2>2. chain[i + 1] \in Nodes /\ chain[i + 1] # chain[1]
    BY <1>1, <1>2, <2>1 DEF Distinct
  <2>3. node'[chain'[i]] = node[chain[i + 1]]
    BY <1>3, <2>1, <2>2
  <2>4. CASE i = Len(chain')
    BY <1>2, <2>1, <2>3, <2>4 DEF LinkOK
  <2>5. CASE i # Len(chain')
    <3> DEFINE l == Len(chain')
    <3>1. l \in Nat /\ i \in 1..l
      BY <1>2
    <3> HIDE DEF l
    <3>2. i # l
      BY <2>5 DEF l
    <3>3. i + 1 \in 1..l
      BY <3>1, <3>2
    <3>4. i + 1 \in 1..Len(chain') /\ l = Len(chain) - 1 /\ Len(chain) \in Nat
      BY <1>2, <3>3 DEF l
    <3>5. chain'[i + 1] = chain[(i + 1) + 1]
      BY <1>2, <3>4
    <3>6. i + 1 # Len(chain)
      BY <3>4, <3>1, <3>2
    <3> QED
      BY <2>1, <2>3, <2>5, <3>5, <3>6 DEF LinkOK
  <2> QED
    BY <2>4, <2>5
<1>5. chain[1] \in allocated /\ allocated \in SUBSET Nodes
  BY <1>1, <1>2 DEF Elements, IInv, TypeOK
<1>6. NodeCount'
  <2>1. IsFiniteSet(allocated)
    BY <1>5, CountBound
  <2>2. Cardinality(allocated) = Len(chain)
    BY DEF IInv, NodeCount
  <2>3. Cardinality(allocated \ {chain[1]}) = Cardinality(allocated) - 1
    BY <1>5, <2>1, FS_RemoveElement
  <2> QED
    BY <1>2, <2>2, <2>3 DEF NodeCount
<1>7. node' \in [Nodes -> [pkt : Packets \cup {Null}, next : Nodes \cup {Null}]]
  BY <1>3 DEF Freed
<1> QED
  BY <1>1, <1>2, <1>4, <1>5, <1>6, <1>7

\* The pointers at both ends when nobody is flushing.
LEMMA EndsAtRest ==
    ASSUME IInv, ~flushing
    PROVE  /\ num = Len(chain)
           /\ first = IF chain = <<>> THEN Null ELSE chain[1]
           /\ last = IF chain = <<>> THEN Null ELSE chain[Len(chain)]
           /\ (first = Null) <=> (chain = <<>>)
<1>1. /\ num = Len(chain)
      /\ first = IF chain = <<>> THEN Null ELSE chain[1]
      /\ last = IF chain = <<>> THEN Null ELSE chain[Len(chain)]
  BY Parts DEF Ends
<1>2. chain # <<>> => chain[1] \in Nodes
  BY Parts, Shortened
<1> QED
  BY <1>1, <1>2, QueueAssumption

\* list_queue_get unlinks the first node.
LEMMA TakeKeepsIInv ==
    ASSUME IInv, ~flushing, NEW c \in Consumers, TakeFirst(c) PROVE IInv'
<1>1. /\ chain # <<>> /\ first = chain[1] /\ num = Len(chain) /\ last = chain[Len(chain)]
  BY EndsAtRest DEF TakeFirst
<1>2. /\ chain' = Tail(chain) /\ allocated' = allocated \ {chain[1]}
      /\ node' = [node EXCEPT ![chain[1]] = Freed]
  BY <1>1 DEF TakeFirst
<1>3. /\ chain' \in Seq(Nodes)
      /\ Len(chain) \in Nat \ {0} /\ Len(chain') = Len(chain) - 1
      /\ \A i \in 1..Len(chain') : chain'[i] = chain[i + 1]
      /\ (chain' = <<>>) <=> (Len(chain) = 1)
  BY <1>1, <1>2, FirstGone
<1>4. LinkOK(1) /\ chain[1] \in Nodes
  BY <1>3, Parts
<1>5. first' = IF Len(chain) = 1 THEN Null ELSE chain[2]
  BY <1>1, <1>4 DEF TakeFirst, UnlinkFirst, LinkOK
<1>6. Len(chain) # 1 => chain[2] \in Nodes
  BY <1>3, Parts
<1>7. Ends'
  <2>1. first' = IF chain' = <<>> THEN Null ELSE chain'[1]
    BY <1>3, <1>5
  <2>2. last' = IF chain' = <<>> THEN Null ELSE chain'[Len(chain')]
    <3>1. CASE Len(chain) = 1
      BY <1>3, <1>5, <3>1 DEF TakeFirst, UnlinkFirst
    <3>2. CASE Len(chain) # 1
      <4>1. last' = last
        BY <1>5, <1>6, <3>2, QueueAssumption DEF TakeFirst, UnlinkFirst
      <4>2. Len(chain') \in 1..Len(chain') /\ chain'[Len(chain')] = chain[Len(chain)]
        BY <1>3, <3>2
      <4> QED
        BY <1>1, <1>3, <3>2, <4>1, <4>2
    <3> QED
      BY <3>1, <3>2
  <2>3. num' = Len(chain')
    BY <1>1, <1>3 DEF TakeFirst
  <2> QED
    BY <2>1, <2>2, <2>3 DEF Ends, TakeFirst
<1>8. ListIntact'
  <2>1. /\ allocated' = Elements(chain') /\ Distinct(chain')
        /\ \A i \in 1..Len(chain') : LinkOK(i)'
    BY <1>1, <1>2, FirstGone
  <2> QED
    BY <1>7, <2>1 DEF ListIntact, Elements, Distinct, LinkOK, Ends
<1>9. /\ NodeCount' /\ allocated' \in SUBSET Nodes
      /\ node' \in [Nodes -> [pkt : Packets \cup {Null}, next : Nodes \cup {Null}]]
  BY <1>1, <1>2, FirstGone
<1>10. TypeOK'
  <2>1. num' \in 0..Cardinality(Nodes)
    BY <1>7, <1>9, CountBound DEF NodeCount, Ends, TakeFirst
  <2>2. first' \in Nodes \cup {Null} /\ last' \in Nodes \cup {Null}
    BY <1>5, <1>6 DEF TakeFirst, UnlinkFirst, IInv, TypeOK
  <2>3. answer' \in [call : {"none", "put", "get"}, ret : -1..1, pkt : Packets \cup {Null}]
    BY <1>1, <1>4 DEF TakeFirst, Answer, LinkOK
  <2>4. pc' \in [Consumers -> {"out", "wait", "woken"}]
    BY DEF TakeFirst, IInv, TypeOK
  <2> QED
    BY <1>3, <1>9, <2>1, <2>2, <2>3, <2>4 DEF TakeFirst, IInv, TypeOK
<1> QED
  BY <1>8, <1>9, <1>10 DEF IInv

\* A step that leaves the list alone.
LEMMA ListUntouched ==
    ASSUME IInv, UNCHANGED <<first, last, num, node, allocated, flushing, cursor, chain>>,
           pc' \in [Consumers -> {"out", "wait", "woken"}],
           answer' \in [call : {"none", "put", "get"}, ret : -1..1, pkt : Packets \cup {Null}],
           abort_request' \in BOOLEAN
    PROVE  IInv'
<1>1. TypeOK'
  BY DEF IInv, TypeOK
<1>2. ListIntact'
  BY DEF IInv, ListIntact
<1>3. NodeCount'
  BY DEF IInv, NodeCount
<1> QED
  BY <1>1, <1>2, <1>3 DEF IInv

\* A pass of the loop of list_queue_get.
LEMMA GetKeepsIInv ==
    ASSUME IInv, NEW c \in Consumers, Call(c) \/ Resume(c) \/ SpuriousWakeup(c)
    PROVE  IInv'
<1>1. CASE ~flushing /\ TakeFirst(c)
  BY <1>1, TakeKeepsIInv
<1>2. CASE GetAborted(c) \/ FindNothing(c) \/ Wait(c) \/ SpuriousWakeup(c)
  <2>1. /\ UNCHANGED <<first, last, num, node, allocated, flushing, cursor, chain>>
        /\ abort_request' = abort_request
    BY <1>2 DEF GetAborted, FindNothing, Wait, SpuriousWakeup
  <2>2. pc' \in [Consumers -> {"out", "wait", "woken"}]
    BY <1>2 DEF GetAborted, FindNothing, Wait, SpuriousWakeup, IInv, TypeOK
  <2>3. answer' \in [call : {"none", "put", "get"}, ret : -1..1, pkt : Packets \cup {Null}]
    BY <1>2 DEF GetAborted, FindNothing, Wait, SpuriousWakeup, Answer, IInv, TypeOK
  <2>4. abort_request \in BOOLEAN
    BY DEF IInv, TypeOK
  <2> QED
    BY <2>1, <2>2, <2>3, <2>4, ListUntouched
<1> QED
  BY <1>1, <1>2 DEF Call, Resume

\* A flush that has come to the end has freed all nodes.
LEMMA FlushedIsEmpty ==
    ASSUME IInv, flushing, cursor = Null PROVE chain = <<>>
<1>1. chain # <<>> => chain[1] \in Nodes
  BY Parts, Shortened
<1> QED
  BY <1>1, Parts, QueueAssumption DEF Ends

\* list_queue_flush frees node after node from the first on.
LEMMA FlushKeepsIInv == ASSUME IInv, Flush PROVE IInv'
<1>1. CASE FlushStart
  <2>1. ~flushing /\ first = IF chain = <<>> THEN Null ELSE chain[1]
    BY <1>1, EndsAtRest DEF FlushStart
  <2>2. Ends'
    BY <1>1, <2>1 DEF FlushStart, Ends
  <2>3. ListIntact'
    BY <1>1, <2>2 DEF FlushStart, IInv, ListIntact, Ends
  <2>4. TypeOK'
    BY <1>1 DEF FlushStart, IInv, TypeOK
  <2> QED
    BY <1>1, <2>3, <2>4 DEF FlushStart, IInv, NodeCount
<1>2. CASE FlushNode
  <2>1. chain # <<>> /\ cursor = chain[1] /\ flushing
    BY <1>2, Parts DEF FlushNode, Ends
  <2>2. /\ chain' = Tail(chain) /\ allocated' = allocated \ {chain[1]}
        /\ node' = [node EXCEPT ![chain[1]] = Freed]
    BY <1>2, <2>1 DEF FlushNode, AdvanceAndFree
  <2>3. /\ chain' \in Seq(Nodes)
        /\ Len(chain) \in Nat \ {0} /\ Len(chain') = Len(chain) - 1
        /\ \A i \in 1..Len(chain') : chain'[i] = chain[i + 1]
        /\ (chain' = <<>>) <=> (Len(chain) = 1)
    BY <2>1, <2>2, FirstGone
  <2>4. LinkOK(1)
    BY <2>3, Parts
  <2>5. cursor' = IF Len(chain) = 1 THEN Null ELSE chain[2]
    BY <1>2, <2>1, <2>4 DEF FlushNode, AdvanceAndFree, LinkOK
  <2>6. Ends'
    BY <1>2, <2>1, <2>3, <2>5 DEF Ends, FlushNode
  <2>7. /\ allocated' = Elements(chain') /\ Distinct(chain')
        /\ \A i \in 1..Len(chain') : LinkOK(i)'
        /\ NodeCount' /\ allocated' \in SUBSET Nodes
        /\ node' \in [Nodes -> [pkt : Packets \cup {Null}, next : Nodes \cup {Null}]]
    BY <2>1, <2>2, FirstGone
  <2>8. ListIntact'
    BY <2>6, <2>7 DEF ListIntact, Elements, Distinct, LinkOK, Ends
  <2>9. cursor' \in Nodes \cup {Null}
    BY <2>3, <2>5, Parts
  <2>10. TypeOK'
    BY <1>2, <2>3, <2>7, <2>9 DEF FlushNode, IInv, TypeOK
  <2> QED
    BY <2>7, <2>8, <2>10 DEF IInv
<1>3. CASE FlushEnd
  <2>1. chain = <<>>
    BY <1>3, FlushedIsEmpty DEF FlushEnd
  <2>2. Ends'
    BY <1>3, <2>1 DEF FlushEnd, Empty, Ends
  <2>3. ListIntact'
    BY <1>3, <2>2 DEF FlushEnd, IInv, ListIntact, Ends
  <2>4. TypeOK'
    <3>1. num' \in 0..Cardinality(Nodes)
      BY <1>3, CountBound DEF FlushEnd, Empty
    <3> QED
      BY <1>3, <3>1 DEF FlushEnd, Empty, IInv, TypeOK
  <2> QED
    BY <1>3, <2>3, <2>4 DEF FlushEnd, IInv, NodeCount
<1> QED
  BY <1>1, <1>2, <1>3 DEF Flush

\* Every step keeps the invariant.
LEMMA StepKeepsIInv == IInv /\ [Next]_vars => IInv'
<1> SUFFICES ASSUME IInv, [Next]_vars PROVE IInv'
  OBVIOUS
<1>1. CASE PutFails \/ UNCHANGED vars
  <2>1. answer' \in [call : {"none", "put", "get"}, ret : -1..1, pkt : Packets \cup {Null}]
    BY <1>1 DEF PutFails, vars, Answer, IInv, TypeOK
  <2> QED
    BY <1>1, <2>1, ListUntouched DEF PutFails, vars, IInv, TypeOK
<1>2. CASE Abort
  <2>1. pc' \in [Consumers -> {"out", "wait", "woken"}]
    BY <1>2, SignalStep DEF Abort, IInv, TypeOK
  <2> QED
    BY <1>2, <2>1, ListUntouched DEF Abort, IInv, TypeOK
<1> QED
  BY <1>1, <1>2, PutKeepsIInv, GetKeepsIInv, FlushKeepsIInv DEF Next

\* The empty queue satisfies it.
LEMMA InitIInv == Init => IInv
<1> SUFFICES ASSUME Init PROVE IInv
  OBVIOUS
<1>1. TypeOK
  <2>1. num \in 0..Cardinality(Nodes)
    BY CountBound DEF Init
  <2>2. node \in [Nodes -> [pkt : Packets \cup {Null}, next : Nodes \cup {Null}]]
    BY DEF Init, Freed
  <2>3. answer \in [call : {"none", "put", "get"}, ret : -1..1, pkt : Packets \cup {Null}]
    BY DEF Init, Answer
  <2>4. abort_request \in BOOLEAN /\ flushing \in BOOLEAN
    BY Zenon DEF Init
  <2>5. chain \in Seq(Nodes)
    BY DEF Init
  <2> QED
    BY <2>1, <2>2, <2>3, <2>4, <2>5 DEF Init, TypeOK
<1>2. ListIntact
  BY DEF Init, ListIntact
<1>3. NodeCount
  BY FS_EmptySet DEF Init, NodeCount
<1> QED
  BY <1>1, <1>2, <1>3 DEF IInv

\* The invariant always holds.
THEOREM Invariance == Spec => []IInv
<1> QED
  BY InitIInv, StepKeepsIInv, PTL DEF Spec

\* Every variable of the queue keeps its type, for every number of nodes.
THEOREM QueueTypeCorrect == Spec => []TypeOK
<1>1. IInv => TypeOK
  BY DEF IInv
<1> QED
  BY <1>1, Invariance, PTL

\* list_queue_put, list_queue_get and list_queue_flush keep the list whole: no
\* node is leaked, reached twice or used after it was freed.
THEOREM ListStaysIntact == Spec => []ListIntact
<1>1. IInv => ListIntact
  BY DEF IInv
<1> QED
  BY <1>1, Invariance, PTL

----------------------------------------------------------------------------
\* Signals and waiters.

\* How a pass of the loop moves its consumer.
LEMMA ConsumerMoves ==
    ASSUME pc \in [Consumers -> {"out", "wait", "woken"}],
           NEW c \in Consumers, NEW to \in {"out", "wait", "woken"},
           pc' = [pc EXCEPT ![c] = to]
    PROVE  /\ Waiting' = IF to = "wait" THEN Waiting \cup {c} ELSE Waiting \ {c}
           /\ Woken' = IF to = "woken" THEN Woken \cup {c} ELSE Woken \ {c}
  BY DEF Waiting, Woken

\* The woken are finitely many.
LEMMA WokenCount == IsFiniteSet(Woken) /\ Cardinality(Woken) \in Nat
<1>1. IsFiniteSet(Woken)
  BY QueueAssumption, FS_Subset DEF Woken
<1> QED
  BY <1>1, FS_CardinalityType

\* One thread more or less among the woken.
LEMMA WokenChange ==
    ASSUME NEW c
    PROVE  /\ Cardinality(Woken \cup {c})
                 = IF c \in Woken THEN Cardinality(Woken) ELSE Cardinality(Woken) + 1
           /\ Cardinality(Woken \ {c})
                 = IF c \in Woken THEN Cardinality(Woken) - 1 ELSE Cardinality(Woken)
  BY WokenCount, FS_AddElement, FS_RemoveElement

\* Every put has its signal, and every packet taken its taker.
LEMMA StepKeepsCover == IInv /\ SignalsCover /\ [Next]_vars => SignalsCover'
<1> SUFFICES ASSUME IInv, SignalsCover, [Next]_vars,
                    (~flushing)', (~abort_request)', (Waiting # {})'
             PROVE  Cardinality(Woken') >= num'
  BY DEF SignalsCover
<1>1. /\ pc \in [Consumers -> {"out", "wait", "woken"}]
      /\ Cardinality(Woken) \in Nat /\ num \in Nat /\ Cardinality(Woken)' \in Nat
  <2>1. num \in Nat
    <3>1. Cardinality(Nodes) \in Nat /\ num \in 0..Cardinality(Nodes)
      BY QueueAssumption, FS_CardinalityType DEF IInv, TypeOK
    <3> QED
      BY <3>1
  <2>2. IsFiniteSet(Woken')
    BY QueueAssumption, FS_Subset DEF Woken
  <2> QED
    BY <2>1, <2>2, WokenCount, FS_CardinalityType DEF IInv, TypeOK
<1>2. ASSUME NEW p \in Packets, Put(p) PROVE Cardinality(Woken') >= num'
  <2>1. PICK c \in Waiting : Woken' = Woken \cup {c} /\ Waiting' = Waiting \ {c}
    BY <1>1, <1>2, SignalStep DEF Put
  <2>2. c \notin Woken
    BY DEF Waiting, Woken
  <2>3. Cardinality(Woken) >= num /\ num' = num + 1
    BY <1>2, <2>1 DEF Put, SignalsCover
  <2> QED
    BY <1>1, <2>1, <2>2, <2>3, WokenChange
<1>3. ASSUME NEW c \in Consumers, ~flushing, TakeFirst(c), pc[c] # "wait"
      PROVE  Cardinality(Woken') >= num'
  <2>1. Waiting' = Waiting \ {c} /\ Woken' = Woken \ {c}
    BY <1>1, <1>3, ConsumerMoves DEF TakeFirst
  <2>2. Cardinality(Woken) >= num
    BY <1>3, <2>1 DEF SignalsCover, TakeFirst
  <2>3. num' = num - 1
    BY <1>3 DEF TakeFirst
  <2> QED
    BY <1>1, <2>1, <2>2, <2>3, WokenChange
<1>4. ASSUME NEW c \in Consumers, ~flushing, FindNothing(c) \/ Wait(c)
      PROVE  Cardinality(Woken') >= num'
  <2>1. num = 0
    BY <1>4, EndsAtRest DEF FindNothing, Wait
  <2> QED
    BY <1>1, <1>4, <2>1 DEF FindNothing, Wait
<1>5. ASSUME NEW c \in Consumers, SpuriousWakeup(c)
      PROVE  Cardinality(Woken') >= num'
  <2>1. Woken' = Woken \cup {c} /\ Waiting' = Waiting \ {c}
    BY <1>1, <1>5, ConsumerMoves DEF SpuriousWakeup
  <2>2. Cardinality(Woken) >= num /\ num' = num
    BY <1>5, <2>1 DEF SpuriousWakeup, SignalsCover
  <2> QED
    BY <1>1, <2>1, <2>2, WokenChange
<1>6. CASE PutFails \/ UNCHANGED vars
  BY <1>6 DEF PutFails, vars, SignalsCover, Waiting, Woken
<1>7. CASE Flush
  BY <1>1, <1>7 DEF Flush, FlushStart, FlushNode, FlushEnd, Empty
<1>8. ASSUME NEW c \in Consumers, Call(c) \/ Resume(c)
      PROVE  Cardinality(Woken') >= num'
  <2>1. ~GetAborted(c)
    BY DEF GetAborted
  <2> QED
    BY <1>3, <1>4, <1>8, <2>1 DEF Call, Resume
<1> QED
  BY <1>2, <1>5, <1>6, <1>7, <1>8 DEF Next, Abort

\* While a consumer waits in list_queue_get, there are as many others on their
\* way to the queue as it holds packets.
THEOREM SignalsSuffice == Spec => []SignalsCover
<1>1. Init => SignalsCover
  BY DEF Init, SignalsCover, Waiting
<1> QED
  BY <1>1, StepKeepsCover, Invariance, PTL DEF Spec

\* After list_queue_abort somebody is not waiting; a consumer that is alone is
\* not left behind.
THEOREM AbortIsNoticed == Spec => []AbortReachesOne
<1>1. Init => AbortReachesOne
  BY DEF Init, AbortReachesOne
<1>2. IInv /\ AbortReachesOne /\ [Next]_vars => AbortReachesOne'
  <2> SUFFICES ASSUME IInv, AbortReachesOne, [Next]_vars, abort_request'
               PROVE  Waiting' # Consumers
    BY DEF AbortReachesOne
  <2>1. pc \in [Consumers -> {"out", "wait", "woken"}]
    BY DEF IInv, TypeOK
  <2>2. ASSUME NEW c \in Consumers, GetAborted(c) \/ SpuriousWakeup(c)
        PROVE  Waiting' # Consumers
    BY <2>1, <2>2, ConsumerMoves DEF GetAborted, SpuriousWakeup
  <2>3. CASE Abort
    BY <2>1, <2>3, SignalStep, QueueAssumption DEF Abort, Waiting
  <2>4. CASE UNCHANGED <<pc, abort_request>>
    BY <2>4 DEF AbortReachesOne, Waiting
  <2>5. ASSUME NEW c \in Consumers, TakeFirst(c) \/ FindNothing(c) \/ Wait(c)
        PROVE  FALSE
    BY <2>5 DEF TakeFirst, FindNothing, Wait
  <2>6. ~ \E p \in Packets : Put(p)
    BY DEF Put
  <2>7. ASSUME PutFails \/ Flush \/ UNCHANGED vars PROVE UNCHANGED <<pc, abort_request>>
    BY <2>7 DEF PutFails, Flush, FlushStart, FlushNode, FlushEnd, vars
  <2> QED
    BY <2>2, <2>3, <2>4, <2>5, <2>6, <2>7 DEF Next, Call, Resume
<1> QED
  BY <1>1, <1>2, Invariance, PTL DEF Spec

----------------------------------------------------------------------------
(***************************************************************************)
(* The list queue implements PacketQueue: every step is a step of the      *)
(* abstract queue on the list's packets, or leaves it alone.               *)
(***************************************************************************)
PacketsListed ==
    /\ Contents \in Seq(Packets)
    /\ Len(Contents) = Len(chain) /\ Len(chain) \in Nat
    /\ \A i \in 1..Len(chain) : Contents[i] = node[chain[i]].pkt

\* The packets of the list are a sequence as long as the list.
LEMMA ContentsAtRest == IInv /\ ~flushing => PacketsListed
<1> SUFFICES ASSUME IInv, ~flushing PROVE PacketsListed
  OBVIOUS
<1>1. Contents = [i \in 1..Len(chain) |-> node[chain[i]].pkt]
  BY DEF Contents
<1>2. Len(chain) \in Nat /\ \A i \in 1..Len(chain) : node[chain[i]].pkt \in Packets
  BY Parts DEF LinkOK
<1> QED
  BY <1>1, <1>2 DEF PacketsListed

\* In the next state too.
LEMMA ContentsNext == IInv' /\ ~flushing' => PacketsListed'
  BY ContentsAtRest, PTL

\* Nodes and chain the same, packets the same.
LEMMA ContentsKept ==
    ASSUME UNCHANGED <<flushing, chain, node>> PROVE Contents' = Contents
  BY DEF Contents

\* A put appends its packet.
LEMMA PutAppends ==
    ASSUME IInv, IInv', NEW p \in Packets, Put(p)
    PROVE  Contents' = Append(Contents, p)
<1>1. PICK n \in Nodes \ allocated : Link(n, p) /\ chain' = Append(chain, n)
  BY DEF Put
<1>2. ~flushing /\ ~flushing'
  BY DEF Put
<1>3. /\ Contents \in Seq(Packets) /\ Len(Contents) = Len(chain) /\ Len(chain) \in Nat
      /\ \A i \in 1..Len(chain) : Contents[i] = node[chain[i]].pkt
  BY <1>2, ContentsAtRest DEF PacketsListed
<1>4. /\ Contents' \in Seq(Packets) /\ Len(Contents') = Len(chain')
      /\ \A i \in 1..Len(chain') : Contents'[i] = node'[chain'[i]].pkt
  BY <1>2, ContentsNext DEF PacketsListed
<1>5. /\ chain \in Seq(Nodes) /\ allocated = Elements(chain)
      /\ \A i \in 1..Len(chain) : chain[i] \in Nodes
  BY Parts
<1>6. /\ Len(chain') = Len(chain) + 1 /\ chain'[Len(chain) + 1] = n
      /\ \A i \in 1..Len(chain) : chain'[i] = chain[i]
  BY <1>1, <1>5, Appended
<1>7. node \in [Nodes -> [pkt : Packets \cup {Null}, next : Nodes \cup {Null}]]
  BY DEF IInv, TypeOK
<1>8. node'[n].pkt = p
  <2>1. node'[n] = [pkt |-> p, next |-> Null]
    BY <1>1 DEF Link
  <2> QED
    BY <2>1
<1>9. ASSUME NEW i \in 1..Len(chain) PROVE node'[chain'[i]].pkt = node[chain[i]].pkt
  <2> DEFINE m == chain[i]
  <2>1. m \in Nodes /\ m # n /\ chain'[i] = m
    BY <1>5, <1>6 DEF Elements
  <2>2. node[m] \in [pkt : Packets \cup {Null}, next : Nodes \cup {Null}]
    BY <1>7, <2>1
  <2> HIDE DEF m
  <2>3. node'[m] = IF m = last THEN [node[m] EXCEPT !.next = n] ELSE node[m]
    BY <1>1, <2>1 DEF Link
  <2>4. node'[m].pkt = node[m].pkt
    BY <2>2, <2>3
  <2> QED
    BY <2>1, <2>4 DEF m
<1> DEFINE longer == Append(Contents, p)
<1>10. /\ longer \in Seq(Packets) /\ Len(longer) = Len(chain) + 1
       /\ \A i \in 1..Len(chain) : longer[i] = Contents[i]
       /\ longer[Len(chain) + 1] = p
  BY <1>3
<1> HIDE DEF longer
<1>11. \A i \in 1..Len(chain) : Contents'[i] = longer[i]
  BY <1>3, <1>4, <1>6, <1>9, <1>10
<1>12. Contents'[Len(chain) + 1] = longer[Len(chain) + 1]
  BY <1>3, <1>4, <1>6, <1>8, <1>10
<1>13. \A i \in 1..Len(longer) : Contents'[i] = longer[i]
  BY <1>3, <1>10, <1>11, <1>12
<1>14. Contents' = longer
  BY <1>4, <1>6, <1>10, <1>13
<1> QED
  BY <1>14 DEF longer

\* A get that finds a packet takes the first one.
LEMMA TakeRemovesHead ==
    ASSUME IInv, IInv', ~flushing, NEW c \in Consumers, TakeFirst(c)
    PROVE  /\ Contents # <<>>
           /\ node[first].pkt = Head(Contents)
           /\ Contents' = Tail(Contents)
<1>1. chain # <<>> /\ first = chain[1] /\ ~flushing'
  BY EndsAtRest DEF TakeFirst
<1>2. /\ chain' = Tail(chain) /\ allocated' = allocated \ {chain[1]}
      /\ node' = [node EXCEPT ![chain[1]] = Freed]
  BY <1>1 DEF TakeFirst
<1>3. /\ Len(chain) \in Nat \ {0} /\ Len(chain') = Len(chain) - 1
      /\ \A i \in 1..Len(chain') : chain'[i] = chain[i + 1]
  BY <1>1, <1>2, FirstGone
<1>4. /\ Contents \in Seq(Packets) /\ Len(Contents) = Len(chain)
      /\ \A i \in 1..Len(chain) : Contents[i] = node[chain[i]].pkt
  BY ContentsAtRest DEF PacketsListed
<1>5. /\ Contents' \in Seq(Packets) /\ Len(Contents') = Len(chain')
      /\ \A i \in 1..Len(chain') : Contents'[i] = node'[chain'[i]].pkt
  BY <1>1, ContentsNext DEF PacketsListed
<1>6. Contents # <<>> /\ Head(Contents) = Contents[1]
  BY <1>3, <1>4
<1> DEFINE rest == Tail(Contents)
<1>7. /\ rest \in Seq(Packets) /\ Len(rest) = Len(chain')
      /\ \A i \in 1..Len(chain') : rest[i] = Contents[i + 1]
  <2>1. /\ rest \in Seq(Packets) /\ Len(rest) = Len(Contents) - 1
        /\ \A i \in 1..(Len(Contents) - 1) : rest[i] = Contents[i + 1]
    BY <1>4, <1>6, Shortened
  <2> QED
    BY <1>3, <1>4, <2>1
<1> HIDE DEF rest
<1>8. ASSUME NEW i \in 1..Len(chain') PROVE Contents'[i] = rest[i]
  <2>1. /\ i + 1 \in 1..Len(chain) /\ i + 1 # 1 /\ 1 \in 1..Len(chain)
        /\ chain'[i] = chain[i + 1]
    BY <1>3
  <2>2. chain[i + 1] \in Nodes /\ chain[i + 1] # chain[1]
    BY <2>1, Parts DEF Distinct
  <2>3. node'[chain'[i]] = node[chain[i + 1]]
    BY <1>2, <2>1, <2>2 DEF IInv, TypeOK
  <2> QED
    BY <1>4, <1>5, <1>7, <2>1, <2>3
<1>9. Contents' = rest
  BY <1>5, <1>7, <1>8
<1> QED
  BY <1>1, <1>3, <1>4, <1>6, <1>9 DEF rest

\* A consumer that leaves get is not waiting in it.
LEMMA LeavesGet ==
    ASSUME IInv, NEW c \in Consumers, pc' = [pc EXCEPT ![c] = "out"]
    PROVE  (Waiting \cup Woken)' = (Waiting \cup Woken) \ {c}
<1>1. Waiting' = Waiting \ {c} /\ Woken' = Woken \ {c}
  BY ConsumerMoves DEF IInv, TypeOK
<1> QED
  BY <1>1

\* An empty list is an empty queue.
LEMMA EmptyIsEmpty ==
    ASSUME IInv, ~flushing, first = Null PROVE Contents = <<>>
<1>1. chain = <<>>
  BY EndsAtRest
<1>2. PacketsListed
  BY ContentsAtRest
<1> QED
  BY <1>1, <1>2 DEF PacketsListed

\* Each step of a consumer is one of the abstract queue's.
LEMMA ConsumerRefines ==
    ASSUME IInv, IInv', NEW c \in Consumers, Call(c) \/ Resume(c) \/ SpuriousWakeup(c)
    PROVE  [Queue!Next]_(Queue!vars)
<1>0. pc \in [Consumers -> {"out", "wait", "woken"}]
  BY DEF IInv, TypeOK
<1>1. CASE GetAborted(c)
  <2>1. Contents' = Contents
    BY <1>1, ContentsKept DEF GetAborted
  <2>2. (Waiting \cup Woken)' = (Waiting \cup Woken) \ {c}
    BY <1>1, LeavesGet DEF GetAborted
  <2>3. Queue!GiveUp(c)
    BY <1>1, <2>1, <2>2 DEF GetAborted, Queue!GiveUp, Answer, Queue!Answer
  <2> QED
    BY <2>3 DEF Queue!Next
<1>2. CASE ~flushing /\ TakeFirst(c)
  <2>1. /\ Contents # <<>> /\ node[first].pkt = Head(Contents)
        /\ Contents' = Tail(Contents)
    BY <1>2, TakeRemovesHead
  <2>2. (Waiting \cup Woken)' = (Waiting \cup Woken) \ {c}
    BY <1>2, LeavesGet DEF TakeFirst
  <2>3. Queue!Take(c)
    BY <1>2, <2>1, <2>2 DEF TakeFirst, Queue!Take, Answer, Queue!Answer
  <2> QED
    BY <2>3 DEF Queue!Next
<1>3. CASE ~flushing /\ FindNothing(c) /\ pc[c] = "out"
  <2>1. Contents = <<>> /\ Contents' = Contents
    BY <1>3, EmptyIsEmpty, ContentsKept DEF FindNothing
  <2>2. c \notin Waiting \cup Woken
    BY <1>3 DEF Waiting, Woken
  <2>3. (Waiting \cup Woken)' = Waiting \cup Woken
    BY <1>3, <2>2, LeavesGet DEF FindNothing
  <2>4. Queue!FindNothing(c)
    BY <1>3, <2>1, <2>2, <2>3 DEF FindNothing, Queue!FindNothing, Answer, Queue!Answer
  <2> QED
    BY <2>4 DEF Queue!Next
<1>4. CASE ~flushing /\ Wait(c)
  <2>1. Contents = <<>> /\ Contents' = Contents
    BY <1>4, EmptyIsEmpty, ContentsKept DEF Wait
  <2>2. (Waiting \cup Woken)' = (Waiting \cup Woken) \cup {c}
    BY <1>0, <1>4, ConsumerMoves DEF Wait
  <2>3. Queue!Block(c)
    BY <1>4, <2>1, <2>2 DEF Wait, Queue!Block
  <2> QED
    BY <2>3 DEF Queue!Next
<1>5. CASE SpuriousWakeup(c)
  <2>1. Contents' = Contents
    BY <1>5, ContentsKept DEF SpuriousWakeup
  <2>2. Waiting' = Waiting \ {c} /\ Woken' = Woken \cup {c} /\ c \in Waiting
    BY <1>0, <1>5, ConsumerMoves DEF SpuriousWakeup, Waiting
  <2> QED
    BY <1>5, <2>1, <2>2 DEF SpuriousWakeup, Queue!vars
<1> QED
  BY <1>1, <1>2, <1>3, <1>4, <1>5 DEF Call, Resume

\* The steps of those who put, flush and abort.
LEMMA OthersRefine ==
    ASSUME IInv, IInv', [Next]_vars, ~ \E c \in Consumers : Call(c) \/ Resume(c) \/ SpuriousWakeup(c)
    PROVE  [Queue!Next]_(Queue!vars)
<1>0. pc \in [Consumers -> {"out", "wait", "woken"}]
  BY DEF IInv, TypeOK
<1>1. Signal => (Waiting \cup Woken)' = Waiting \cup Woken
  BY <1>0, SignalStep
<1>2. UNCHANGED pc => (Waiting \cup Woken)' = Waiting \cup Woken
  BY DEF Waiting, Woken
<1>3. ASSUME NEW p \in Packets, Put(p) PROVE Queue!Next
  <2>1. Contents' = Append(Contents, p)
    BY <1>3, PutAppends
  <2>2. Queue!Put(p)
    BY <1>1, <1>3, <2>1 DEF Put, Queue!Put, Answer, Queue!Answer
  <2> QED
    BY <2>2 DEF Queue!Next
<1>4. CASE PutFails
  <2>1. Contents' = Contents
    BY <1>4, ContentsKept DEF PutFails
  <2>2. Queue!Refuse
    BY <1>2, <1>4, <2>1 DEF PutFails, Queue!Refuse, Answer, Queue!Answer
  <2> QED
    BY <2>2 DEF Queue!Next
<1>5. CASE FlushStart
  <2>1. Contents' = <<>>
    BY <1>5 DEF FlushStart, Contents
  <2>2. Queue!Flush
    BY <1>2, <1>5, <2>1 DEF FlushStart, Queue!Flush
  <2> QED
    BY <2>2 DEF Queue!Next
<1>6. CASE FlushNode
  <2>1. Contents' = Contents
    BY <1>6 DEF FlushNode, Contents
  <2> QED
    BY <1>2, <1>6, <2>1 DEF FlushNode, Queue!vars
<1>7. CASE FlushEnd
  <2>1. Contents = <<>>
    BY <1>7 DEF FlushEnd, Contents
  <2>2. Contents' = <<>>
    <3>1. PacketsListed'
      BY <1>7, ContentsNext DEF FlushEnd
    <3>2. chain' = <<>>
      BY <1>7, FlushedIsEmpty DEF FlushEnd
    <3> QED
      BY <3>1, <3>2 DEF PacketsListed
  <2> QED
    BY <1>2, <1>7, <2>1, <2>2 DEF FlushEnd, Queue!vars
<1>8. CASE Abort
  <2>1. Contents' = Contents
    BY <1>8, ContentsKept DEF Abort
  <2>2. Queue!Abort
    BY <1>1, <1>8, <2>1 DEF Abort, Queue!Abort
  <2> QED
    BY <2>2 DEF Queue!Next
<1>9. CASE UNCHANGED vars
  <2>1. Contents' = Contents
    BY <1>9, ContentsKept DEF vars
  <2> QED
    BY <1>2, <1>9, <2>1 DEF vars, Queue!vars
<1> QED
  BY <1>3, <1>4, <1>5, <1>6, <1>7, <1>8, <1>9 DEF Next, Flush

\* The empty list is the empty queue.
LEMMA InitQueue == Init => Queue!Init
<1> SUFFICES ASSUME Init PROVE Queue!Init
  OBVIOUS
<1>1. IInv
  BY InitIInv
<1>2. Contents = <<>>
  BY <1>1, EmptyIsEmpty DEF Init
<1>3. Waiting \cup Woken = {}
  BY DEF Init, Waiting, Woken
<1> QED
  BY <1>2, <1>3 DEF Init, Queue!Init, Answer, Queue!Answer

\* Safety of the refinement: with its nodes, pointers, waits and signals the
\* list queue gives its callers what PacketQueue promises.
THEOREM QueueRefinement == Spec => Queue!Spec
<1>1. IInv /\ IInv' /\ [Next]_vars => [Queue!Next]_(Queue!vars)
  <2> SUFFICES ASSUME IInv, IInv', [Next]_vars PROVE [Queue!Next]_(Queue!vars)
    OBVIOUS
  <2> QED
    BY ConsumerRefines, OthersRefine
<1> QED
  BY <1>1, InitQueue, Invariance, PTL DEF Spec, Queue!Spec
=============================================================================
