------------------------ MODULE IntrusiveList_proofs ------------------------
(***************************************************************************)
(* Proofs about IntrusiveLinks and IntrusiveList, for every set of lists   *)
(* and nodes.                                                              *)
(***************************************************************************)
EXTENDS IntrusiveList, SequenceTheorems, TLAPS

Places == Nodes \cup Heads
Pointers == Places \cup {Null}
Links == [Places -> [d_next : Pointers, d_prev : Pointers]]

\* Position i of a list with head h and nodes c.
Place(h, c, i) == IF i \in 1..Len(c) THEN c[i] ELSE h

\* The links l are a ring through the head h and the nodes c.
Ring(l, h, c) ==
    \A i \in 0..Len(c) :
        /\ l[Place(h, c, i)].d_next = Place(h, c, i + 1)
        /\ l[Place(h, c, i + 1)].d_prev = Place(h, c, i)

\* The nodes r are c with n put at position k, and c without position k.
Inserted(r, c, k, n) ==
    /\ r \in Seq(Nodes) /\ Len(r) = Len(c) + 1
    /\ \A i \in 1..(Len(c) + 1) :
         r[i] = IF i < k THEN c[i] ELSE IF i = k THEN n ELSE c[i - 1]
Removed(r, c, k) ==
    /\ r \in Seq(Nodes) /\ Len(r) = Len(c) - 1
    /\ \A i \in 1..(Len(c) - 1) : r[i] = IF i < k THEN c[i] ELSE c[i + 1]

Distinct(c) == \A i, j \in 1..Len(c) : c[i] = c[j] => i = j
Holds(c, n) == \E i \in 1..Len(c) : c[i] = n

-----------------------------------------------------------------------------
(* Positions                                                               *)

\* Nodes and heads are different.
LEMMA NodesAndHeads == \A n \in Nodes, h \in Heads : n # h
BY PlacesDiffer

\* The positions of a list.
LEMMA PlaceFacts ==
    ASSUME NEW h \in Heads, NEW c \in Seq(Nodes)
    PROVE  /\ Len(c) \in Nat
           /\ \A i \in Nat : Place(h, c, i) \in Places
           /\ Place(h, c, 0) = h
           /\ \A i \in Nat : i > Len(c) => Place(h, c, i) = h
           /\ \A i \in 1..Len(c) : Place(h, c, i) = c[i] /\ c[i] \in Nodes
BY DEF Place, Places

\* A list of distinct nodes has distinct positions.
LEMMA PlacesDistinct ==
    ASSUME NEW h \in Heads, NEW c \in Seq(Nodes), Distinct(c),
           NEW i \in 0..Len(c), NEW j \in 0..Len(c), Place(h, c, i) = Place(h, c, j)
    PROVE  i = j
<1>1. CASE i = 0 /\ j # 0
  BY <1>1, PlaceFacts, NodesAndHeads
<1>2. CASE i # 0 /\ j = 0
  BY <1>2, PlaceFacts, NodesAndHeads
<1>3. CASE i # 0 /\ j # 0
  BY <1>3, PlaceFacts DEF Distinct
<1> QED BY <1>1, <1>2, <1>3

\* The same, counting the head as the position behind the last node.
LEMMA PlacesDistinctToEnd ==
    ASSUME NEW h \in Heads, NEW c \in Seq(Nodes), Distinct(c),
           NEW i \in 1..(Len(c) + 1), NEW j \in 1..(Len(c) + 1),
           Place(h, c, i) = Place(h, c, j)
    PROVE  i = j
<1>0. Len(c) \in Nat
  OBVIOUS
<1>1. CASE i = Len(c) + 1 /\ j # Len(c) + 1
  <2>1. Place(h, c, i) = h /\ j \in 1..Len(c)
    BY <1>0, <1>1 DEF Place
  <2>2. Place(h, c, j) \in Nodes
    BY <2>1 DEF Place
  <2> QED BY <2>1, <2>2, NodesAndHeads
<1>2. CASE i # Len(c) + 1 /\ j = Len(c) + 1
  <2>1. Place(h, c, j) = h /\ i \in 1..Len(c)
    BY <1>0, <1>2 DEF Place
  <2>2. Place(h, c, i) \in Nodes
    BY <2>1 DEF Place
  <2> QED BY <2>1, <2>2, NodesAndHeads
<1>3. CASE i # Len(c) + 1 /\ j # Len(c) + 1
  <2>1. i \in 1..Len(c) /\ j \in 1..Len(c)
    BY <1>0, <1>3
  <2> QED BY <2>1, PlaceFacts DEF Distinct
<1> QED BY <1>1, <1>2, <1>3

\* A ring stays one when the links of its positions stay.
LEMMA RingFrame ==
    ASSUME NEW l, NEW m, NEW h \in Heads, NEW c \in Seq(Nodes), Ring(l, h, c),
           \A i \in 0..Len(c) : m[Place(h, c, i)] = l[Place(h, c, i)]
    PROVE  Ring(m, h, c)
<1>1. \A i \in 0..Len(c) : \/ i + 1 \in 0..Len(c)
                           \/ Place(h, c, i + 1) = Place(h, c, 0) /\ 0 \in 0..Len(c)
  BY PlaceFacts
<1>2. \A i \in 0..Len(c) : m[Place(h, c, i + 1)] = l[Place(h, c, i + 1)]
  BY <1>1
<1> QED BY <1>2 DEF Ring

-----------------------------------------------------------------------------
(* The sequence of the nodes                                               *)

\* What the list holds after a node was inserted at position k.
LEMMA InsertFacts ==
    ASSUME NEW c \in Seq(Nodes), NEW n \in Nodes, NEW k \in 1..Len(c)
    PROVE  Inserted(InsertAt(c, k, n), c, k, n)
BY DEF InsertAt, Inserted

\* What the list holds after position k was erased.
LEMMA RemoveFacts ==
    ASSUME NEW c \in Seq(Nodes), NEW k \in 1..Len(c)
    PROVE  Removed(RemoveAt(c, k), c, k)
<1> DEFINE r == RemoveAt(c, k)
           a == SubSeq(c, 1, k - 1)
           b == SubSeq(c, k + 1, Len(c))
<1>1. r = a \o b
  BY DEF RemoveAt
<1>2. a \in Seq(Nodes) /\ Len(a) = k - 1 /\ \A i \in 1..(k - 1) : a[i] = c[i]
  OBVIOUS
<1>3. /\ b \in Seq(Nodes) /\ Len(b) = Len(c) - k
      /\ \A i \in 1..(Len(c) - k) : b[i] = c[i + k]
  OBVIOUS
<1> HIDE DEF r, a, b
<1>4. r \in Seq(Nodes) /\ Len(r) = Len(c) - 1
  <2>1. r \in Seq(Nodes) /\ Len(r) = Len(a) + Len(b)
    BY <1>1, <1>2, <1>3, ConcatProperties
  <2>2. (k - 1) + (Len(c) - k) = Len(c) - 1
    OBVIOUS
  <2> QED BY <1>2, <1>3, <2>1, <2>2
<1>5. ASSUME NEW i \in 1..(Len(c) - 1)
      PROVE  r[i] = IF i < k THEN c[i] ELSE c[i + 1]
  <2>1. CASE i < k
    BY <1>1, <1>2, <1>3, <2>1
  <2>2. CASE ~(i < k)
    <3>1. r[i] = b[i - (k - 1)] /\ i - (k - 1) \in 1..(Len(c) - k)
      <4>1. i - (k - 1) \in 1..(Len(c) - k) /\ i \in 1..((k - 1) + (Len(c) - k))
        BY <2>2
      <4>2. r[i] = IF i <= Len(a) THEN a[i] ELSE b[i - Len(a)]
        BY <1>1, <1>2, <1>3, <4>1, ConcatProperties
      <4> QED BY <1>2, <2>2, <4>1, <4>2
    <3>2. (i - (k - 1)) + k = i + 1
      OBVIOUS
    <3> QED BY <1>3, <2>2, <3>1, <3>2
  <2> QED BY <2>1, <2>2
<1>6. Removed(r, c, k)
  BY <1>4, <1>5 DEF Removed
<1> QED BY <1>6 DEF r

-----------------------------------------------------------------------------
(* The operations on the links                                             *)

\* insert() sets four pointers.
LEMMA LinkBeforeFacts ==
    ASSUME NEW l \in Links, NEW pos \in Places, NEW n \in Places,
           NEW before \in Places, before = l[pos].d_prev, n # pos, n # before,
           NEW m, m = LinkBefore(l, pos, n)
    PROVE  /\ m \in Links
           /\ \A x \in Places : m[x].d_next =
                IF x = n THEN pos ELSE IF x = before THEN n ELSE l[x].d_next
           /\ \A x \in Places : m[x].d_prev =
                IF x = n THEN before ELSE IF x = pos THEN n ELSE l[x].d_prev
           /\ \A x \in Places : x \notin {n, pos, before} => m[x] = l[x]
<1> DEFINE l1 == [l EXCEPT ![n] = [d_next |-> pos, d_prev |-> before]]
           l2 == [l1 EXCEPT ![pos].d_prev = n]
<1>1. m = [l2 EXCEPT ![before].d_next = n]
  BY DEF LinkBefore
<1>2. /\ l1 \in Links /\ l1[n] = [d_next |-> pos, d_prev |-> before]
      /\ \A x \in Places : x # n => l1[x] = l[x]
  BY DEF Links, Pointers
<1> HIDE DEF l1
<1>3. /\ l2 \in Links /\ l2[pos].d_prev = n /\ l2[pos].d_next = l1[pos].d_next
      /\ \A x \in Places : x # pos => l2[x] = l1[x]
  BY <1>2 DEF Links, Pointers
<1> HIDE DEF l2
<1>4. /\ m \in Links /\ m[before].d_next = n /\ m[before].d_prev = l2[before].d_prev
      /\ \A x \in Places : x # before => m[x] = l2[x]
  BY <1>1, <1>3 DEF Links, Pointers
<1> QED BY <1>2, <1>3, <1>4

\* erase() sets four pointers.
LEMMA UnlinkFacts ==
    ASSUME NEW l \in Links, NEW n \in Places, NEW before \in Places, NEW after \in Places,
           before = l[n].d_prev, after = l[n].d_next, n # before, n # after,
           NEW m, m = Unlink(l, n)
    PROVE  /\ m \in Links
           /\ m[n] = ToItself(n)
           /\ \A x \in Places : x # n => m[x].d_next =
                IF x = before THEN after ELSE l[x].d_next
           /\ \A x \in Places : x # n => m[x].d_prev =
                IF x = after THEN before ELSE l[x].d_prev
           /\ \A x \in Places : x \notin {n, before, after} => m[x] = l[x]
BY DEF Unlink, Links, Pointers, ToItself

\* The links m are l with two pointers set: b follows a.
Connected(m, l, a, b) ==
    /\ m \in Links
    /\ \A x \in Places : m[x].d_next = IF x = a THEN b ELSE l[x].d_next
    /\ \A x \in Places : m[x].d_prev = IF x = b THEN a ELSE l[x].d_prev
    /\ \A x \in Places : x \notin {a, b} => m[x] = l[x]

\* connect() sets two pointers.
LEMMA ConnectFacts ==
    ASSUME NEW l \in Links, NEW a \in Places, NEW b \in Places
    PROVE  Connected(Connect(l, a, b), l, a, b)
<1>1. PICK m : m = Connect(l, a, b)
  OBVIOUS
<1>2. Connected(m, l, a, b)
  BY <1>1 DEF Connected, Connect, Links, Pointers
<1> QED BY <1>1, <1>2

\* Moving sets four pointers.
LEMMA TakeFacts ==
    ASSUME NEW l \in Links, NEW h \in Places, NEW g \in Places, h # g,
           NEW a \in Places, NEW b \in Places,
           a = l[g].d_next, b = IF g = a THEN h ELSE l[g].d_prev,
           NEW m, m = Take(l, h, g)
    PROVE  /\ m \in Links
           /\ \A x \in Places : m[x].d_next =
                IF x = b THEN h ELSE IF x = h THEN a ELSE l[x].d_next
           /\ \A x \in Places : m[x].d_prev =
                IF x = h THEN b ELSE IF x = a THEN h ELSE l[x].d_prev
           /\ \A x \in Places : x \notin {h, a, b} => m[x] = l[x]
<1>1. PICK m1 : m1 = Connect(l, h, a)
  OBVIOUS
<1>2. Connected(m1, l, h, a)
  BY <1>1, ConnectFacts
<1>3. m1 \in Links /\ m1[g].d_prev = b
  BY <1>2 DEF Connected
<1>4. m = Connect(m1, b, h)
  BY <1>1, <1>3 DEF Take
<1>5. Connected(m, m1, b, h)
  BY <1>3, <1>4, ConnectFacts
<1> QED BY <1>2, <1>5 DEF Connected

-----------------------------------------------------------------------------
(* The operations on a ring                                                *)

\* Inserting before position k makes a ring with the node at position k.
LEMMA LinkRing ==
    ASSUME NEW l \in Links, NEW h \in Heads, NEW c \in Seq(Nodes),
           Ring(l, h, c), Distinct(c),
           NEW n \in Nodes, ~Holds(c, n),
           NEW k \in 1..(Len(c) + 1),
           NEW r, Inserted(r, c, k, n),
           NEW m, m = LinkBefore(l, Place(h, c, k), n)
    PROVE  /\ m \in Links
           /\ Ring(m, h, r)
           /\ \A x \in Places :
                x # n /\ (\A i \in 0..Len(c) : x # Place(h, c, i)) => m[x] = l[x]
<1>0. Len(c) \in Nat /\ k \in Nat /\ r \in Seq(Nodes) /\ Len(r) = Len(c) + 1
  BY DEF Inserted
<1>1. \A i \in 0..(Len(c) + 1) : Place(h, c, i) \in Places /\ Place(h, c, i) # n
  BY <1>0, PlaceFacts, NodesAndHeads DEF Holds, Place
<1>2. l[Place(h, c, k)].d_prev = Place(h, c, k - 1)
  <2>1. k - 1 \in 0..Len(c) /\ k - 1 + 1 = k
    BY <1>0
  <2> QED BY <2>1 DEF Ring
<1> DEFINE pos == Place(h, c, k)
           before == Place(h, c, k - 1)
<1>3. k \in 0..(Len(c) + 1) /\ k - 1 \in 0..(Len(c) + 1)
  BY <1>0
<1>3a. pos \in Places /\ before \in Places /\ n # pos /\ n # before /\ n \in Places
  BY <1>1, <1>3 DEF Places
<1>4. /\ m \in Links
      /\ \A x \in Places : m[x].d_next =
           IF x = n THEN pos ELSE IF x = before THEN n ELSE l[x].d_next
      /\ \A x \in Places : m[x].d_prev =
           IF x = n THEN before ELSE IF x = pos THEN n ELSE l[x].d_prev
      /\ \A x \in Places : x \notin {n, pos, before} => m[x] = l[x]
  BY <1>2, <1>3a, LinkBeforeFacts
<1>5. \A i \in 0..(Len(c) + 2) : Place(h, r, i) =
        IF i < k THEN Place(h, c, i) ELSE IF i = k THEN n ELSE Place(h, c, i - 1)
  BY <1>0 DEF Place, Inserted
<1>6. ASSUME NEW i \in 0..Len(r)
      PROVE  /\ m[Place(h, r, i)].d_next = Place(h, r, i + 1)
             /\ m[Place(h, r, i + 1)].d_prev = Place(h, r, i)
  <2>0. i \in 0..(Len(c) + 2) /\ i + 1 \in 0..(Len(c) + 2)
    BY <1>0
  <2>1. CASE i < k - 1
    <3>1. /\ Place(h, r, i) = Place(h, c, i)
          /\ Place(h, r, i + 1) = Place(h, c, i + 1)
      BY <1>0, <1>5, <2>0, <2>1
    <3>2. /\ i \in 0..Len(c) /\ k - 1 \in 0..Len(c) /\ i # k - 1
          /\ i + 1 \in 1..(Len(c) + 1) /\ i + 1 # k
          /\ i \in 0..(Len(c) + 1) /\ i + 1 \in 0..(Len(c) + 1)
      BY <1>0, <2>1
    <3>3. Place(h, c, i) # before /\ Place(h, c, i + 1) # pos
      BY <3>2, PlacesDistinct, PlacesDistinctToEnd
    <3>4. /\ l[Place(h, c, i)].d_next = Place(h, c, i + 1)
          /\ l[Place(h, c, i + 1)].d_prev = Place(h, c, i)
      BY <3>2 DEF Ring
    <3> HIDE DEF pos, before
    <3> QED BY <1>1, <1>4, <3>1, <3>2, <3>3, <3>4
  <2>2. CASE i = k - 1
    <3>1. Place(h, r, i) = before /\ Place(h, r, i + 1) = n
      BY <1>0, <1>5, <2>0, <2>2
    <3> HIDE DEF pos, before
    <3> QED BY <1>3a, <1>4, <3>1
  <2>3. CASE i = k
    <3>1. Place(h, r, i) = n /\ Place(h, r, i + 1) = pos
      BY <1>0, <1>5, <2>0, <2>3
    <3> HIDE DEF pos, before
    <3> QED BY <1>3a, <1>4, <3>1
  <2>4. CASE i > k
    <3>1. /\ Place(h, r, i) = Place(h, c, i - 1)
          /\ Place(h, r, i + 1) = Place(h, c, i)
      BY <1>0, <1>5, <2>0, <2>4
    <3>2. /\ i - 1 \in 0..Len(c) /\ k - 1 \in 0..Len(c) /\ i - 1 # k - 1
          /\ i \in 1..(Len(c) + 1) /\ i # k /\ i - 1 + 1 = i
          /\ i - 1 \in 0..(Len(c) + 1) /\ i \in 0..(Len(c) + 1)
      BY <1>0, <2>4
    <3>3. Place(h, c, i - 1) # before /\ Place(h, c, i) # pos
      BY <3>2, PlacesDistinct, PlacesDistinctToEnd
    <3>4. /\ l[Place(h, c, i - 1)].d_next = Place(h, c, i)
          /\ l[Place(h, c, i)].d_prev = Place(h, c, i - 1)
      BY <3>2 DEF Ring
    <3> HIDE DEF pos, before
    <3> QED BY <1>1, <1>4, <3>1, <3>2, <3>3, <3>4
  <2> QED BY <1>0, <2>1, <2>2, <2>3, <2>4
<1>7. Ring(m, h, r)
  BY <1>6 DEF Ring
<1>8. /\ \E i \in 0..Len(c) : before = Place(h, c, i)
      /\ \E i \in 0..Len(c) : pos = Place(h, c, i)
  <2>1. k - 1 \in 0..Len(c) /\ (k \in 0..Len(c) \/ k = Len(c) + 1) /\ 0 \in 0..Len(c)
    BY <1>0
  <2>2. k = Len(c) + 1 => pos = Place(h, c, 0)
    BY <1>0, PlaceFacts
  <2> QED BY <2>1, <2>2
<1> HIDE DEF pos, before
<1> QED BY <1>4, <1>7, <1>8

\* Unlinking position k makes a ring without it.
LEMMA UnlinkRing ==
    ASSUME NEW l \in Links, NEW h \in Heads, NEW c \in Seq(Nodes),
           Ring(l, h, c), Distinct(c),
           NEW k \in 1..Len(c),
           NEW r, Removed(r, c, k),
           NEW m, m = Unlink(l, c[k])
    PROVE  /\ m \in Links
           /\ Ring(m, h, r)
           /\ m[c[k]] = ToItself(c[k])
           /\ \A x \in Places :
                (\A i \in 0..Len(c) : x # Place(h, c, i)) => m[x] = l[x]
<1>0. Len(c) \in Nat /\ k \in Nat /\ Len(c) > 0 /\ r \in Seq(Nodes) /\ Len(r) = Len(c) - 1
  BY DEF Removed
<1>1. \A i \in 0..(Len(c) + 1) : Place(h, c, i) \in Places
  BY <1>0, PlaceFacts
<1> DEFINE n == Place(h, c, k)
           before == Place(h, c, k - 1)
           after == Place(h, c, k + 1)
<1>2. /\ k - 1 \in 0..Len(c) /\ k \in 0..Len(c) /\ k + 1 \in 1..(Len(c) + 1)
      /\ k \in 1..(Len(c) + 1) /\ k - 1 + 1 = k /\ k # k - 1 /\ k # k + 1
      /\ k - 1 \in 0..(Len(c) + 1) /\ k \in 0..(Len(c) + 1) /\ k + 1 \in 0..(Len(c) + 1)
  BY <1>0
<1>3. n = c[k] /\ n \in Places /\ before \in Places /\ after \in Places
  BY <1>1, <1>2, PlaceFacts
<1>4. n # before /\ n # after
  BY <1>2, PlacesDistinct, PlacesDistinctToEnd
<1>5. l[n].d_prev = before /\ l[n].d_next = after
  BY <1>2 DEF Ring
<1>6. /\ m \in Links
      /\ m[n] = ToItself(n)
      /\ \A x \in Places : x # n => m[x].d_next = IF x = before THEN after ELSE l[x].d_next
      /\ \A x \in Places : x # n => m[x].d_prev = IF x = after THEN before ELSE l[x].d_prev
      /\ \A x \in Places : x \notin {n, before, after} => m[x] = l[x]
  <2> HIDE DEF n, before, after
  <2> QED BY <1>3, <1>4, <1>5, UnlinkFacts
<1>7. \A i \in 0..Len(c) : Place(h, r, i) =
        IF i < k THEN Place(h, c, i) ELSE Place(h, c, i + 1)
  BY <1>0 DEF Place, Removed
<1>8. ASSUME NEW i \in 0..Len(r)
      PROVE  /\ m[Place(h, r, i)].d_next = Place(h, r, i + 1)
             /\ m[Place(h, r, i + 1)].d_prev = Place(h, r, i)
  <2>0. i \in 0..Len(c) /\ i + 1 \in 0..Len(c) /\ i \in Nat
    BY <1>0
  <2>1. CASE i < k - 1
    <3>1. /\ Place(h, r, i) = Place(h, c, i)
          /\ Place(h, r, i + 1) = Place(h, c, i + 1)
      BY <1>0, <1>7, <2>0, <2>1
    <3>2. /\ i # k - 1 /\ i # k /\ i + 1 # k /\ i + 1 # k + 1
          /\ i + 1 \in 1..(Len(c) + 1)
          /\ i \in 0..(Len(c) + 1) /\ i + 1 \in 0..(Len(c) + 1)
      BY <1>0, <2>1, <2>0
    <3>3. /\ Place(h, c, i) # before /\ Place(h, c, i) # n
          /\ Place(h, c, i + 1) # n /\ Place(h, c, i + 1) # after
      BY <1>2, <2>0, <3>2, PlacesDistinct, PlacesDistinctToEnd
    <3>4. /\ l[Place(h, c, i)].d_next = Place(h, c, i + 1)
          /\ l[Place(h, c, i + 1)].d_prev = Place(h, c, i)
      BY <2>0 DEF Ring
    <3> HIDE DEF n, before, after
    <3> QED BY <1>1, <1>6, <3>1, <3>2, <3>3, <3>4
  <2>2. CASE i = k - 1
    <3>1. Place(h, r, i) = before /\ Place(h, r, i + 1) = after
      BY <1>0, <1>7, <2>0, <2>2
    <3> HIDE DEF n, before, after
    <3> QED BY <1>3, <1>4, <1>6, <3>1
  <2>3. CASE i >= k
    <3>1. /\ Place(h, r, i) = Place(h, c, i + 1)
          /\ Place(h, r, i + 1) = Place(h, c, i + 1 + 1)
      BY <1>0, <1>7, <2>0, <2>3
    <3>2. /\ i + 1 # k - 1 /\ i + 1 # k /\ i + 1 + 1 # k /\ i + 1 + 1 # k + 1
          /\ i + 1 + 1 \in 1..(Len(c) + 1)
          /\ i + 1 + 1 \in 0..(Len(c) + 1) /\ i + 1 \in 0..(Len(c) + 1)
      BY <1>0, <2>3, <2>0
    <3>3. /\ Place(h, c, i + 1) # before /\ Place(h, c, i + 1) # n
          /\ Place(h, c, i + 1 + 1) # n /\ Place(h, c, i + 1 + 1) # after
      BY <1>2, <2>0, <3>2, PlacesDistinct, PlacesDistinctToEnd
    <3>4. /\ l[Place(h, c, i + 1)].d_next = Place(h, c, i + 1 + 1)
          /\ l[Place(h, c, i + 1 + 1)].d_prev = Place(h, c, i + 1)
      BY <2>0 DEF Ring
    <3> HIDE DEF n, before, after
    <3> QED BY <1>1, <1>6, <3>1, <3>2, <3>3, <3>4
  <2> QED BY <1>0, <2>1, <2>2, <2>3
<1>9. Ring(m, h, r)
  BY <1>8 DEF Ring
<1>10. /\ \E i \in 0..Len(c) : before = Place(h, c, i)
       /\ \E i \in 0..Len(c) : n = Place(h, c, i)
       /\ \E i \in 0..Len(c) : after = Place(h, c, i)
  <2>1. k - 1 \in 0..Len(c) /\ (k + 1 \in 0..Len(c) \/ k + 1 = Len(c) + 1) /\ 0 \in 0..Len(c)
    BY <1>0
  <2>2. k + 1 = Len(c) + 1 => after = Place(h, c, 0)
    BY <1>0, PlaceFacts
  <2> QED BY <1>2, <2>1, <2>2
<1>11. \A x \in Places : x \notin {n, before, after} => m[x] = l[x]
  BY <1>6
<1> HIDE DEF n, before, after
<1>12. \A x \in Places : (\A i \in 0..Len(c) : x # Place(h, c, i)) => m[x] = l[x]
  BY <1>10, <1>11
<1>13. m[c[k]] = ToItself(c[k])
  BY <1>3, <1>6
<1> QED BY <1>6, <1>9, <1>12, <1>13

\* Moving makes a ring through the other head, whether it has nodes or not.
LEMMA TakeRing ==
    ASSUME NEW l \in Links, NEW h \in Heads, NEW g \in Heads, h # g,
           NEW c \in Seq(Nodes), Ring(l, g, c), Distinct(c),
           NEW m, m = Take(l, h, g)
    PROVE  /\ m \in Links
           /\ Ring(m, h, c)
           /\ \A x \in Places : x # h /\ x # g /\ ~Holds(c, x) => m[x] = l[x]
<1>0. Len(c) \in Nat /\ h \in Places /\ g \in Places
  BY DEF Places
<1> DEFINE a == Place(g, c, 1)
<1>1. a \in Places /\ l[g].d_next = a
  BY <1>0, PlaceFacts DEF Ring
<1>4. l[g].d_prev = Place(g, c, Len(c))
  <2>1. Len(c) \in 0..Len(c) /\ Place(g, c, Len(c) + 1) = g
    BY <1>0, PlaceFacts
  <2> QED BY <2>1 DEF Ring
<1> DEFINE b == IF g = a THEN h ELSE Place(g, c, Len(c))
<1>6. b \in Places /\ b = IF g = a THEN h ELSE l[g].d_prev
  BY <1>0, <1>4, PlaceFacts
<1>7. /\ m \in Links
      /\ \A x \in Places : m[x].d_next =
           IF x = b THEN h ELSE IF x = h THEN a ELSE l[x].d_next
      /\ \A x \in Places : m[x].d_prev =
           IF x = h THEN b ELSE IF x = a THEN h ELSE l[x].d_prev
      /\ \A x \in Places : x \notin {h, a, b} => m[x] = l[x]
  <2> HIDE DEF a, b
  <2> QED BY <1>0, <1>1, <1>6, TakeFacts
<1>8. CASE Len(c) = 0
  <2>1. a = g /\ b = h
    BY <1>8 DEF Place
  <2>2. m[h].d_next = h /\ m[h].d_prev = h
    BY <1>0, <1>7, <2>1
  <2>3. Ring(m, h, c)
    BY <1>8, <2>2 DEF Ring, Place
  <2>4. \A x \in Places : x # h /\ x # g => m[x] = l[x]
    BY <1>7, <2>1
  <2> QED BY <1>7, <2>3, <2>4
<1>9. CASE Len(c) # 0
  <2>0. 1 \in 1..Len(c) /\ Len(c) \in 1..Len(c)
    BY <1>0, <1>9
  <2>1. a = c[1] /\ c[1] \in Nodes /\ c[Len(c)] \in Nodes
    BY <2>0, PlaceFacts
  <2>2. a # g /\ a # h /\ b = c[Len(c)] /\ b # h /\ b # g
    BY <2>0, <2>1, PlaceFacts, NodesAndHeads
  <2> HIDE DEF a, b
  <2>5. ASSUME NEW i \in 0..Len(c)
        PROVE  m[Place(h, c, i)].d_next = Place(h, c, i + 1)
    <3>1. CASE i = 0
      <4>1. Place(h, c, i) = h /\ Place(h, c, i + 1) = c[1]
        BY <2>0, <3>1 DEF Place
      <4> QED BY <1>0, <1>7, <2>1, <2>2, <4>1
    <3>2. CASE i = Len(c)
      <4>1. Place(h, c, i) = c[Len(c)] /\ Place(h, c, i + 1) = h
        BY <1>0, <2>0, <3>2 DEF Place
      <4> QED BY <1>6, <1>7, <2>2, <4>1
    <3>3. CASE i # 0 /\ i # Len(c)
      <4>0. i \in 1..Len(c) /\ i + 1 \in 1..Len(c)
        BY <1>0, <3>3
      <4>1. /\ Place(h, c, i) = c[i] /\ Place(h, c, i + 1) = c[i + 1]
            /\ Place(g, c, i) = c[i] /\ Place(g, c, i + 1) = c[i + 1]
        BY <4>0 DEF Place
      <4>2. c[i] \in Nodes /\ c[i] # h /\ c[i] # b
        BY <2>0, <2>2, <3>3, <4>0, PlaceFacts, NodesAndHeads DEF Distinct
      <4>3. l[c[i]].d_next = c[i + 1]
        BY <4>1 DEF Ring
      <4> QED BY <1>7, <4>1, <4>2, <4>3 DEF Places
    <3> QED BY <3>1, <3>2, <3>3
  <2>6. ASSUME NEW i \in 0..Len(c)
        PROVE  m[Place(h, c, i + 1)].d_prev = Place(h, c, i)
    <3>1. CASE i = 0
      <4>1. Place(h, c, i) = h /\ Place(h, c, i + 1) = c[1]
        BY <2>0, <3>1 DEF Place
      <4> QED BY <1>0, <1>1, <1>7, <2>1, <2>2, <4>1
    <3>2. CASE i = Len(c)
      <4>1. Place(h, c, i) = c[Len(c)] /\ Place(h, c, i + 1) = h
        BY <1>0, <2>0, <3>2 DEF Place
      <4> QED BY <1>0, <1>7, <2>2, <4>1
    <3>3. CASE i # 0 /\ i # Len(c)
      <4>0. i \in 1..Len(c) /\ i + 1 \in 1..Len(c) /\ i + 1 # 1
        BY <1>0, <3>3
      <4>1. /\ Place(h, c, i) = c[i] /\ Place(h, c, i + 1) = c[i + 1]
            /\ Place(g, c, i) = c[i] /\ Place(g, c, i + 1) = c[i + 1]
        BY <4>0 DEF Place
      <4>2. c[i + 1] \in Nodes /\ c[i + 1] # h /\ c[i + 1] # a
        BY <2>0, <2>1, <4>0, PlaceFacts, NodesAndHeads DEF Distinct
      <4>3. l[c[i + 1]].d_prev = c[i]
        BY <4>1 DEF Ring
      <4> QED BY <1>7, <4>1, <4>2, <4>3 DEF Places
    <3> QED BY <3>1, <3>2, <3>3
  <2>7. Ring(m, h, c)
    BY <2>5, <2>6 DEF Ring
  <2>8. Holds(c, a) /\ Holds(c, b)
    BY <2>0, <2>1, <2>2 DEF Holds
  <2>9. \A x \in Places : x # h /\ x # a /\ x # b => m[x] = l[x]
    BY <1>7
  <2> QED BY <1>7, <2>7, <2>8, <2>9
<1> QED BY <1>8, <1>9

\* A constructed list is a ring without nodes.
LEMMA EmptyRing ==
    ASSUME NEW l \in Links, NEW h \in Heads, NEW m, m = Connect(l, h, h)
    PROVE  /\ m \in Links
           /\ Ring(m, h, <<>>)
           /\ \A x \in Places : x # h => m[x] = l[x]
<1>1. h \in Places
  BY DEF Places
<1>2. Connected(m, l, h, h)
  BY <1>1, ConnectFacts
<1>3. m[h].d_next = h /\ m[h].d_prev = h
  BY <1>1, <1>2 DEF Connected
<1>4. Ring(m, h, <<>>)
  BY <1>3 DEF Ring, Place
<1> QED BY <1>2, <1>4 DEF Connected

\* Where the head points to.
LEMMA HeadPoints ==
    ASSUME NEW l, NEW h \in Heads, NEW c \in Seq(Nodes), Ring(l, h, c)
    PROVE  /\ Empty(l, h) <=> Len(c) = 0
           /\ Len(c) # 0 => l[h].d_next = c[1]
<1>1. Len(c) \in Nat /\ 0 \in 0..Len(c)
  OBVIOUS
<1>2. l[h].d_next = Place(h, c, 1)
  BY <1>1, PlaceFacts DEF Ring
<1>3. CASE Len(c) = 0
  BY <1>2, <1>3 DEF Empty, Place
<1>4. CASE Len(c) # 0
  <2>1. 1 \in 1..Len(c)
    BY <1>1, <1>4
  <2>2. Place(h, c, 1) = c[1] /\ c[1] # h
    BY <2>1, PlaceFacts, NodesAndHeads
  <2> QED BY <1>2, <1>4, <2>2 DEF Empty
<1> QED BY <1>3, <1>4

-----------------------------------------------------------------------------
(* The invariant                                                           *)

Rings == \A h \in alive : Ring(link, h, content[h])

Apart ==
    \A h, g \in alive : \A i \in 1..Len(content[h]), j \in 1..Len(content[g]) :
        content[h][i] = content[g][j] => h = g /\ i = j

IInv == TypeOK /\ Rings /\ Apart /\ ErasedInert

\* The two halves of Chain.
LEMMA ChainParts == Rings /\ Apart <=> Chain
BY DEF Rings, Apart, Chain, Ring, At, Place

\* The links in terms of Places.
LEMMA LinksType == TypeOK => link \in Links
BY DEF TypeOK, Links, Places, Pointers

\* What the invariant says of one list.
LEMMA ListFacts ==
    ASSUME IInv, NEW h \in alive
    PROVE  /\ h \in Heads /\ content[h] \in Seq(Nodes)
           /\ Ring(link, h, content[h]) /\ Distinct(content[h])
           /\ \A n : ~InList(n) => ~Holds(content[h], n)
BY DEF IInv, TypeOK, Rings, Apart, Distinct, InList, Has, Holds

\* Two lists have no position in common, and a node in no list is at none.
LEMMA PlacesApart ==
    ASSUME IInv, NEW h \in alive, NEW g \in alive, h # g,
           NEW i \in 0..Len(content[h]), NEW j \in 0..Len(content[g])
    PROVE  Place(h, content[h], i) # Place(g, content[g], j)
<1>1. /\ h \in Heads /\ content[h] \in Seq(Nodes)
      /\ g \in Heads /\ content[g] \in Seq(Nodes)
  BY ListFacts
<1>2. CASE i = 0 /\ j = 0
  BY <1>1, <1>2, PlaceFacts
<1>3. CASE i = 0 /\ j # 0
  <2>1. Place(h, content[h], i) = h /\ j \in 1..Len(content[g])
    BY <1>1, <1>3, PlaceFacts
  <2> QED BY <1>1, <2>1, PlaceFacts, NodesAndHeads
<1>4. CASE i # 0 /\ j = 0
  <2>1. Place(g, content[g], j) = g /\ i \in 1..Len(content[h])
    BY <1>1, <1>4, PlaceFacts
  <2> QED BY <1>1, <2>1, PlaceFacts, NodesAndHeads
<1>5. CASE i # 0 /\ j # 0
  <2>1. i \in 1..Len(content[h]) /\ j \in 1..Len(content[g])
    BY <1>5
  <2>2. /\ Place(h, content[h], i) = content[h][i]
        /\ Place(g, content[g], j) = content[g][j]
    BY <2>1 DEF Place
  <2> QED BY <2>1, <2>2 DEF IInv, Apart
<1> QED BY <1>2, <1>3, <1>4, <1>5

\* A list keeps its ring when the links that change are at none of its positions.
LEMMA RingKept ==
    ASSUME IInv, NEW g \in alive, NEW m,
           \A i \in 0..Len(content[g]) :
               m[Place(g, content[g], i)] = link[Place(g, content[g], i)]
    PROVE  Ring(m, g, content[g])
BY ListFacts, RingFrame

\* Linking a node that is in no list, before position k of list h.
LEMMA Linking ==
    ASSUME IInv, NEW h \in alive, NEW n \in Nodes, ~InList(n),
           NEW k \in 1..(Len(content[h]) + 1),
           NEW r, Inserted(r, content[h], k, n),
           link' = LinkBefore(link, Place(h, content[h], k), n),
           content' = [content EXCEPT ![h] = r],
           alive' = alive
    PROVE  IInv'
<1> DEFINE c == content[h]
<1>0. /\ h \in Heads /\ c \in Seq(Nodes) /\ Ring(link, h, c) /\ Distinct(c)
      /\ ~Holds(c, n) /\ link \in Links /\ content \in [Heads -> Seq(Nodes)]
      /\ alive \subseteq Heads
  BY ListFacts, LinksType DEF IInv, TypeOK
<1>0a. Apart
  BY DEF IInv
<1>0b. /\ r \in Seq(Nodes) /\ Len(r) = Len(c) + 1
       /\ \A i \in 1..(Len(c) + 1) :
            r[i] = IF i < k THEN c[i] ELSE IF i = k THEN n ELSE c[i - 1]
  BY DEF Inserted
<1>1. /\ link' \in Links
      /\ Ring(link', h, r)
      /\ \A x \in Places :
           x # n /\ (\A i \in 0..Len(c) : x # Place(h, c, i)) => link'[x] = link[x]
  BY <1>0, LinkRing
<1>2. content'[h] = r /\ \A g \in Heads : g # h => content'[g] = content[g]
  BY <1>0
<1>3. TypeOK'
  BY <1>0, <1>0b, <1>1 DEF TypeOK, Links, Places, Pointers
<1>4. ASSUME NEW g \in alive, g # h PROVE Ring(link', g, content[g])
  <2>1. ASSUME NEW i \in 0..Len(content[g])
        PROVE  link'[Place(g, content[g], i)] = link[Place(g, content[g], i)]
    <3>1. \A j \in 0..Len(c) : Place(g, content[g], i) # Place(h, c, j)
      BY <1>4, PlacesApart
    <3>2. /\ Place(g, content[g], i) \in Places
          /\ Place(g, content[g], i) # n
      BY <1>0, ListFacts, PlaceFacts, NodesAndHeads DEF Holds, Place
    <3> QED BY <1>1, <3>1, <3>2
  <2> QED BY <2>1, RingKept
<1>5. Rings'
  BY <1>0, <1>1, <1>2, <1>4 DEF Rings
<1>6. ASSUME NEW i \in 1..Len(r)
      PROVE  \/ i = k /\ r[i] = n
             \/ \E j \in 1..Len(c) : r[i] = c[j] /\ j = IF i < k THEN i ELSE i - 1
  BY <1>0, <1>0b
<1>7. Apart'
  <2>1. ASSUME NEW f \in alive, NEW g \in alive,
               NEW i \in 1..Len(content'[f]), NEW j \in 1..Len(content'[g]),
               content'[f][i] = content'[g][j]
        PROVE  f = g /\ i = j
    <3>1. CASE f = h /\ g = h
      <4>1. r[i] = r[j] /\ i \in 1..Len(r) /\ j \in 1..Len(r)
        BY <1>2, <2>1, <3>1
      <4>2. i = j
        <5>1. CASE i = k \/ j = k
          BY <1>0, <1>0b, <1>6, <4>1, <5>1 DEF Holds
        <5>2. CASE i # k /\ j # k
          <6>1. PICK p \in 1..Len(c) : r[i] = c[p] /\ p = IF i < k THEN i ELSE i - 1
            BY <1>6, <4>1, <5>2
          <6>2. PICK q \in 1..Len(c) : r[j] = c[q] /\ q = IF j < k THEN j ELSE j - 1
            BY <1>6, <4>1, <5>2
          <6>3. p = q
            BY <1>0, <4>1, <6>1, <6>2 DEF Distinct
          <6> QED BY <5>2, <6>1, <6>2, <6>3
        <5> QED BY <5>1, <5>2
      <4> QED BY <3>1, <4>2
    <3>2. CASE f = h /\ g # h
      <4>1. r[i] = content[g][j] /\ i \in 1..Len(r) /\ j \in 1..Len(content[g])
        BY <1>0, <1>2, <2>1, <3>2
      <4>2. r[i] # n
        BY <4>1, ListFacts DEF Holds
      <4>3. PICK q \in 1..Len(c) : r[i] = c[q]
        BY <1>6, <4>1, <4>2
      <4>4. content[h][q] = content[g][j]
        BY <4>1, <4>3
      <4> QED BY <1>0a, <3>2, <4>1, <4>4 DEF Apart
    <3>3. CASE f # h /\ g = h
      <4>1. r[j] = content[f][i] /\ j \in 1..Len(r) /\ i \in 1..Len(content[f])
        BY <1>0, <1>2, <2>1, <3>3
      <4>2. r[j] # n
        BY <4>1, ListFacts DEF Holds
      <4>3. PICK q \in 1..Len(c) : r[j] = c[q]
        BY <1>6, <4>1, <4>2
      <4>4. content[h][q] = content[f][i]
        BY <4>1, <4>3
      <4> QED BY <1>0a, <3>3, <4>1, <4>4 DEF Apart
    <3>4. CASE f # h /\ g # h
      BY <1>0, <1>2, <2>1, <3>4 DEF IInv, Apart
    <3> QED BY <3>1, <3>2, <3>3, <3>4
  <2> QED BY <2>1 DEF Apart
<1>8. ErasedInert'
  <2> SUFFICES ASSUME NEW y \in Nodes
               PROVE  InList(y)' \/ link'[y] \in {Unset, ToItself(y)}
    BY DEF ErasedInert, Unset, ToItself
  <2>1. CASE y = n
    <3>1. k \in 1..Len(r) /\ r[k] = n
      BY <1>0, <1>0b
    <3> QED BY <1>2, <2>1, <3>1 DEF InList, Has
  <2>2. CASE InList(y)
    <3>0. PICK g \in alive : Has(g, y)
      BY <2>2 DEF InList
    <3>1. PICK i \in 1..Len(content[g]) : content[g][i] = y
      BY <3>0 DEF Has
    <3>2. CASE g # h
      BY <1>0, <1>2, <3>1, <3>2 DEF InList, Has
    <3>3. CASE g = h
      <4>1. PICK j \in 1..Len(r) : r[j] = y
        <5>1. CASE i < k
          BY <1>0, <1>0b, <3>1, <3>3, <5>1
        <5>2. CASE ~(i < k)
          <6>1. i + 1 \in 1..Len(r) /\ ~(i + 1 < k) /\ i + 1 # k /\ (i + 1) - 1 = i
            BY <1>0, <1>0b, <3>3, <5>2
          <6>2. r[i + 1] = y
            BY <1>0b, <3>1, <3>3, <6>1
          <6> QED BY <6>1, <6>2
        <5> QED BY <5>1, <5>2
      <4> QED BY <1>2, <4>1 DEF InList, Has
    <3> QED BY <3>2, <3>3
  <2>3. CASE ~InList(y) /\ y # n
    <3>1. \A i \in 0..Len(c) : y # Place(h, c, i)
      BY <1>0, <2>3, ListFacts, PlaceFacts, NodesAndHeads DEF Holds, Place
    <3>2. link'[y] = link[y]
      BY <1>1, <2>3, <3>1 DEF Places
    <3> QED BY <2>3, <3>2 DEF IInv, ErasedInert
  <2> QED BY <2>1, <2>2, <2>3
<1> QED BY <1>3, <1>5, <1>7, <1>8 DEF IInv

\* Unlinking position k of list h.
LEMMA Unlinking ==
    ASSUME IInv, NEW h \in alive,
           NEW k \in 1..Len(content[h]),
           NEW r, Removed(r, content[h], k),
           link' = Unlink(link, content[h][k]),
           content' = [content EXCEPT ![h] = r],
           alive' = alive
    PROVE  IInv'
<1> DEFINE c == content[h]
<1>0. /\ h \in Heads /\ c \in Seq(Nodes) /\ Ring(link, h, c) /\ Distinct(c)
      /\ link \in Links /\ content \in [Heads -> Seq(Nodes)]
      /\ alive \subseteq Heads
  BY ListFacts, LinksType DEF IInv, TypeOK
<1>0a. Apart
  BY DEF IInv
<1>0b. /\ r \in Seq(Nodes) /\ Len(r) = Len(c) - 1
       /\ \A i \in 1..(Len(c) - 1) :
            r[i] = IF i < k THEN c[i] ELSE c[i + 1]
  BY DEF Removed
<1>1. /\ link' \in Links
      /\ Ring(link', h, r)
      /\ link'[c[k]] = ToItself(c[k])
      /\ \A x \in Places : (\A i \in 0..Len(c) : x # Place(h, c, i)) => link'[x] = link[x]
  BY <1>0, UnlinkRing
<1>2. content'[h] = r /\ \A g \in Heads : g # h => content'[g] = content[g]
  BY <1>0
<1>3. TypeOK'
  BY <1>0, <1>0b, <1>1 DEF TypeOK, Links, Places, Pointers
<1>4. ASSUME NEW g \in alive, g # h PROVE Ring(link', g, content[g])
  <2>1. ASSUME NEW i \in 0..Len(content[g])
        PROVE  link'[Place(g, content[g], i)] = link[Place(g, content[g], i)]
    <3>1. \A j \in 0..Len(c) : Place(g, content[g], i) # Place(h, c, j)
      BY <1>4, PlacesApart
    <3>2. Place(g, content[g], i) \in Places
      BY ListFacts, PlaceFacts
    <3> QED BY <1>1, <3>1, <3>2
  <2> QED BY <2>1, RingKept
<1>5. Rings'
  BY <1>0, <1>1, <1>2, <1>4 DEF Rings
<1>6. ASSUME NEW i \in 1..Len(r)
      PROVE  \E j \in 1..Len(c) : r[i] = c[j] /\ j = IF i < k THEN i ELSE i + 1
  BY <1>0, <1>0b
<1>7. Apart'
  <2>1. ASSUME NEW f \in alive, NEW g \in alive,
               NEW i \in 1..Len(content'[f]), NEW j \in 1..Len(content'[g]),
               content'[f][i] = content'[g][j]
        PROVE  f = g /\ i = j
    <3>1. CASE f = h /\ g = h
      <4>1. r[i] = r[j] /\ i \in 1..Len(r) /\ j \in 1..Len(r)
        BY <1>2, <2>1, <3>1
      <4>2. PICK p \in 1..Len(c) : r[i] = c[p] /\ p = IF i < k THEN i ELSE i + 1
        BY <1>6, <4>1
      <4>3. PICK q \in 1..Len(c) : r[j] = c[q] /\ q = IF j < k THEN j ELSE j + 1
        BY <1>6, <4>1
      <4>4. p = q
        BY <1>0, <4>1, <4>2, <4>3 DEF Distinct
      <4> QED BY <3>1, <4>2, <4>3, <4>4
    <3>2. CASE f = h /\ g # h
      <4>1. r[i] = content[g][j] /\ i \in 1..Len(r) /\ j \in 1..Len(content[g])
        BY <1>0, <1>2, <2>1, <3>2
      <4>2. PICK q \in 1..Len(c) : r[i] = c[q]
        BY <1>6, <4>1
      <4>3. content[h][q] = content[g][j]
        BY <4>1, <4>2
      <4> QED BY <1>0a, <3>2, <4>1, <4>3 DEF Apart
    <3>3. CASE f # h /\ g = h
      <4>1. r[j] = content[f][i] /\ j \in 1..Len(r) /\ i \in 1..Len(content[f])
        BY <1>0, <1>2, <2>1, <3>3
      <4>2. PICK q \in 1..Len(c) : r[j] = c[q]
        BY <1>6, <4>1
      <4>3. content[h][q] = content[f][i]
        BY <4>1, <4>2
      <4> QED BY <1>0a, <3>3, <4>1, <4>3 DEF Apart
    <3>4. CASE f # h /\ g # h
      BY <1>0, <1>2, <2>1, <3>4 DEF IInv, Apart
    <3> QED BY <3>1, <3>2, <3>3, <3>4
  <2> QED BY <2>1 DEF Apart
<1>8. ErasedInert'
  <2> SUFFICES ASSUME NEW y \in Nodes
               PROVE  InList(y)' \/ link'[y] \in {Unset, ToItself(y)}
    BY DEF ErasedInert, Unset, ToItself
  <2>1. CASE y = c[k]
    BY <1>1, <2>1
  <2>2. CASE InList(y) /\ y # c[k]
    <3>0. PICK g \in alive : Has(g, y)
      BY <2>2 DEF InList
    <3>1. PICK i \in 1..Len(content[g]) : content[g][i] = y
      BY <3>0 DEF Has
    <3>2. CASE g # h
      BY <1>0, <1>2, <3>1, <3>2 DEF InList, Has
    <3>3. CASE g = h
      <4>0. i # k
        BY <2>2, <3>1, <3>3
      <4>1. PICK j \in 1..Len(r) : r[j] = y
        <5>1. CASE i < k
          <6>1. i \in 1..(Len(c) - 1) /\ i \in 1..Len(r)
            BY <1>0, <1>0b, <3>3, <5>1
          <6> QED BY <1>0b, <3>1, <3>3, <5>1, <6>1
        <5>2. CASE i > k
          <6>1. i - 1 \in 1..Len(r) /\ ~(i - 1 < k) /\ (i - 1) + 1 = i
            BY <1>0, <1>0b, <3>3, <5>2
          <6>2. r[i - 1] = y
            BY <1>0b, <3>1, <3>3, <6>1
          <6> QED BY <6>1, <6>2
        <5> QED BY <4>0, <5>1, <5>2
      <4> QED BY <1>2, <4>1 DEF InList, Has
    <3> QED BY <3>2, <3>3
  <2>3. CASE ~InList(y)
    <3>1. \A i \in 0..Len(c) : y # Place(h, c, i)
      BY <1>0, <2>3, ListFacts, PlaceFacts, NodesAndHeads DEF Holds, Place
    <3>2. link'[y] = link[y]
      BY <1>1, <3>1 DEF Places
    <3> QED BY <2>3, <3>2 DEF IInv, ErasedInert
  <2> QED BY <2>1, <2>2, <2>3
<1> QED BY <1>3, <1>5, <1>7, <1>8 DEF IInv

\* Moving the nodes of list g to the head h of a list without nodes.
LEMMA Taking ==
    ASSUME IInv, NEW h \in Heads, NEW g \in alive, h # g,
           h \in alive => Len(content[h]) = 0,
           link' = Take(link, h, g),
           content' = [content EXCEPT ![h] = content[g], ![g] = <<>>],
           alive' = (alive \cup {h}) \ {g}
    PROVE  IInv'
<1> DEFINE c == content[g]
<1>0. /\ g \in Heads /\ c \in Seq(Nodes) /\ Ring(link, g, c) /\ Distinct(c)
      /\ link \in Links /\ content \in [Heads -> Seq(Nodes)]
      /\ alive \subseteq Heads
  BY ListFacts, LinksType DEF IInv, TypeOK
<1>0a. Apart
  BY DEF IInv
<1>1. /\ link' \in Links
      /\ Ring(link', h, c)
      /\ \A x \in Places : x # h /\ x # g /\ ~Holds(c, x) => link'[x] = link[x]
  BY <1>0, TakeRing
<1>2. content'[h] = c /\ \A f \in Heads : f # h /\ f # g => content'[f] = content[f]
  BY <1>0
<1>3. TypeOK'
  BY <1>0, <1>1 DEF TypeOK, Links, Places, Pointers
<1>4. ASSUME NEW f \in alive, f # h, f # g PROVE Ring(link', f, content[f])
  <2>1. ASSUME NEW i \in 0..Len(content[f])
        PROVE  link'[Place(f, content[f], i)] = link[Place(f, content[f], i)]
    <3>1. /\ Place(f, content[f], i) \in Places
          /\ Place(f, content[f], i) # h /\ Place(f, content[f], i) # g
      BY <1>0, <1>4, ListFacts, PlaceFacts, NodesAndHeads DEF Place
    <3>2. \A j \in 0..Len(c) : Place(f, content[f], i) # Place(g, c, j)
      BY <1>4, PlacesApart
    <3>3. \A j \in 1..Len(c) : j \in 0..Len(c) /\ Place(g, c, j) = c[j]
      BY <1>0 DEF Place
    <3>4. ~Holds(c, Place(f, content[f], i))
      BY <3>2, <3>3 DEF Holds
    <3> QED BY <1>1, <3>1, <3>4
  <2> QED BY <2>1, RingKept
<1>5. Rings'
  BY <1>0, <1>1, <1>2, <1>4 DEF Rings
<1>6. Apart'
  <2>1. ASSUME NEW d \in alive', NEW f \in alive',
               NEW i \in 1..Len(content'[d]), NEW j \in 1..Len(content'[f]),
               content'[d][i] = content'[f][j]
        PROVE  d = f /\ i = j
    <3>1. CASE d = h /\ f = h
      BY <1>0, <1>2, <2>1, <3>1 DEF Distinct
    <3>2. CASE d = h /\ f # h
      <4>1. /\ content[g][i] = content[f][j] /\ i \in 1..Len(content[g])
            /\ j \in 1..Len(content[f]) /\ f \in alive /\ f # g
        BY <1>0, <1>2, <2>1, <3>2
      <4> QED BY <1>0a, <4>1 DEF Apart
    <3>3. CASE d # h /\ f = h
      <4>1. /\ content[d][i] = content[g][j] /\ i \in 1..Len(content[d])
            /\ j \in 1..Len(content[g]) /\ d \in alive /\ d # g
        BY <1>0, <1>2, <2>1, <3>3
      <4> QED BY <1>0a, <4>1 DEF Apart
    <3>4. CASE d # h /\ f # h
      <4>1. /\ content[d][i] = content[f][j] /\ i \in 1..Len(content[d])
            /\ j \in 1..Len(content[f]) /\ d \in alive /\ f \in alive
        BY <1>0, <1>2, <2>1, <3>4
      <4> QED BY <1>0a, <4>1 DEF Apart
    <3> QED BY <3>1, <3>2, <3>3, <3>4
  <2> QED BY <2>1 DEF Apart
<1>7. ErasedInert'
  <2> SUFFICES ASSUME NEW y \in Nodes
               PROVE  InList(y)' \/ link'[y] \in {Unset, ToItself(y)}
    BY DEF ErasedInert, Unset, ToItself
  <2>1. CASE InList(y)
    <3>0. PICK f \in alive : Has(f, y)
      BY <2>1 DEF InList
    <3>1. PICK i \in 1..Len(content[f]) : content[f][i] = y
      BY <3>0 DEF Has
    <3>2. CASE f = g
      <4>1. h \in alive' /\ content'[h] = content[f]
        BY <1>2, <3>2
      <4> QED BY <3>1, <4>1 DEF InList, Has
    <3>3. CASE f # g
      <4>1. f # h
        BY <1>0, <3>1
      <4>2. f \in alive' /\ content'[f] = content[f]
        BY <1>0, <1>2, <3>3, <4>1
      <4> QED BY <3>1, <4>2 DEF InList, Has
    <3> QED BY <3>2, <3>3
  <2>2. CASE ~InList(y)
    <3>1. ~Holds(c, y)
      BY <2>2, ListFacts
    <3>2. y \in Places /\ y # h /\ y # g
      BY <1>0, NodesAndHeads DEF Places
    <3>3. link'[y] = link[y]
      BY <1>1, <3>1, <3>2
    <3> QED BY <2>2, <3>3 DEF IInv, ErasedInert
  <2> QED BY <2>1, <2>2
<1> QED BY <1>3, <1>5, <1>6, <1>7 DEF IInv

-----------------------------------------------------------------------------
(* The steps                                                               *)

\* Nothing is constructed at first.
LEMMA InitInv == Init => IInv
<1> SUFFICES ASSUME Init PROVE IInv
  OBVIOUS
<1>1. TypeOK
  BY DEF Init, TypeOK, Unset
<1>2. Rings /\ Apart
  BY DEF Init, Rings, Apart
<1>3. ErasedInert
  BY DEF Init, ErasedInert, Unset
<1> QED BY <1>1, <1>2, <1>3 DEF IInv

\* The constructor makes a ring of the head alone.
LEMMA ConstructStep ==
    ASSUME IInv, NEW h \in Heads, Construct(h)
    PROVE  IInv'
<1>0. link \in Links /\ content \in [Heads -> Seq(Nodes)] /\ alive \subseteq Heads
  BY LinksType DEF IInv, TypeOK
<1>1. /\ link' \in Links
      /\ Ring(link', h, <<>>)
      /\ \A x \in Places : x # h => link'[x] = link[x]
  BY <1>0, EmptyRing DEF Construct
<1>2. /\ h \notin alive /\ alive' = alive \cup {h} /\ content'[h] = <<>>
      /\ \A f \in Heads : f # h => content'[f] = content[f]
      /\ content' \in [Heads -> Seq(Nodes)]
  BY <1>0 DEF Construct
<1>3. TypeOK'
  BY <1>0, <1>1, <1>2 DEF TypeOK, Links, Places, Pointers
<1>4. ASSUME NEW f \in alive, f # h PROVE Ring(link', f, content[f])
  <2>1. ASSUME NEW i \in 0..Len(content[f])
        PROVE  link'[Place(f, content[f], i)] = link[Place(f, content[f], i)]
    <3>1. Place(f, content[f], i) \in Places /\ Place(f, content[f], i) # h
      BY <1>0, <1>4, ListFacts, PlaceFacts, NodesAndHeads DEF Place
    <3> QED BY <1>1, <3>1
  <2> QED BY <2>1, RingKept
<1>5. Rings'
  BY <1>0, <1>1, <1>2, <1>4 DEF Rings
<1>6. Apart'
  BY <1>0, <1>2 DEF IInv, Apart
<1>7. ErasedInert'
  <2> SUFFICES ASSUME NEW y \in Nodes
               PROVE  InList(y)' \/ link'[y] \in {Unset, ToItself(y)}
    BY DEF ErasedInert, Unset, ToItself
  <2>1. CASE InList(y)
    BY <1>0, <1>2, <2>1 DEF InList, Has
  <2>2. CASE ~InList(y)
    <3>1. y \in Places /\ y # h
      BY NodesAndHeads DEF Places
    <3> QED BY <1>1, <2>2, <3>1 DEF IInv, ErasedInert
  <2> QED BY <2>1, <2>2
<1> QED BY <1>3, <1>5, <1>6, <1>7 DEF IInv

\* The moved-from list is given up, so that the new head was no position.
LEMMA MoveConstructStep ==
    ASSUME IInv, NEW h \in Heads, NEW g \in Heads, MoveConstruct(h, g)
    PROVE  IInv'
BY Taking DEF MoveConstruct

\* The list assigned to has no nodes of its own.
LEMMA MoveAssignStep ==
    ASSUME IInv, NEW h \in Heads, NEW g \in Heads, MoveAssign(h, g)
    PROVE  IInv'
<1>1. /\ h \in alive /\ g \in alive /\ h # g /\ Empty(link, h)
      /\ link' = Take(link, h, g)
      /\ content' = [content EXCEPT ![h] = content[g], ![g] = <<>>]
      /\ alive' = (alive \cup {h}) \ {g}
  BY DEF MoveAssign
<1>2. Len(content[h]) = 0
  BY <1>1, ListFacts, HeadPoints
<1> QED BY <1>1, <1>2, Taking

\* Where a node is in its list.
LEMMA IndexFacts ==
    ASSUME NEW h, NEW n, Has(h, n)
    PROVE  IndexOf(h, n) \in 1..Len(content[h]) /\ content[h][IndexOf(h, n)] = n
BY DEF Has, IndexOf

\* insert() puts the node at the position it is given.
LEMMA InsertStep ==
    ASSUME IInv, NEW h \in Heads, NEW pos \in Nodes, NEW n \in Nodes, Insert(h, pos, n)
    PROVE  IInv'
<1>1. /\ h \in alive /\ ~InList(n) /\ Has(h, pos) /\ alive' = alive
      /\ link' = LinkBefore(link, pos, n)
      /\ content' = [content EXCEPT ![h] = InsertAt(content[h], IndexOf(h, pos), n)]
  BY DEF Insert, Linked
<1>2. content[h] \in Seq(Nodes)
  BY <1>1, ListFacts
<1>3. PICK k \in 1..Len(content[h]) : k = IndexOf(h, pos) /\ content[h][k] = pos
  BY <1>1, IndexFacts
<1>4. PICK r : r = InsertAt(content[h], k, n)
  OBVIOUS
<1>5. Inserted(r, content[h], k, n)
  BY <1>2, <1>4, InsertFacts
<1>6. k \in 1..(Len(content[h]) + 1) /\ Place(h, content[h], k) = pos
  BY <1>2, <1>3 DEF Place
<1>7. content' = [content EXCEPT ![h] = r]
  BY <1>1, <1>3, <1>4
<1> QED BY <1>1, <1>5, <1>6, <1>7, Linking

\* push_back() puts it behind the last node.
LEMMA PushBackStep ==
    ASSUME IInv, NEW h \in Heads, NEW n \in Nodes, PushBack(h, n)
    PROVE  IInv'
<1>1. /\ h \in alive /\ ~InList(n) /\ alive' = alive
      /\ link' = LinkBefore(link, h, n)
      /\ content' = [content EXCEPT ![h] = Append(content[h], n)]
  BY DEF PushBack, Linked
<1>2. content[h] \in Seq(Nodes) /\ Len(content[h]) \in Nat
  BY <1>1, ListFacts
<1>3. PICK k \in 1..(Len(content[h]) + 1) : k = Len(content[h]) + 1
  BY <1>2
<1>4. PICK r : r = Append(content[h], n)
  OBVIOUS
<1>5. Inserted(r, content[h], k, n)
  BY <1>2, <1>3, <1>4 DEF Inserted
<1>6. Place(h, content[h], k) = h
  BY <1>2, <1>3 DEF Place
<1>7. content' = [content EXCEPT ![h] = r]
  BY <1>1, <1>4
<1> QED BY <1>1, <1>5, <1>6, <1>7, Linking

\* erase() takes the node out wherever it is.
LEMMA EraseStep ==
    ASSUME IInv, NEW h \in Heads, NEW n \in Nodes, Erase(h, n)
    PROVE  IInv'
<1>1. /\ h \in alive /\ Has(h, n) /\ alive' = alive
      /\ link' = Unlink(link, n)
      /\ content' = [content EXCEPT ![h] = RemoveAt(content[h], IndexOf(h, n))]
  BY DEF Erase, Unlinked
<1>2. content[h] \in Seq(Nodes)
  BY <1>1, ListFacts
<1>3. PICK k \in 1..Len(content[h]) : k = IndexOf(h, n) /\ content[h][k] = n
  BY <1>1, IndexFacts
<1>4. PICK r : r = RemoveAt(content[h], k)
  OBVIOUS
<1>5. Removed(r, content[h], k)
  BY <1>2, <1>4, RemoveFacts
<1>6. link' = Unlink(link, content[h][k]) /\ content' = [content EXCEPT ![h] = r]
  BY <1>1, <1>3, <1>4
<1> QED BY <1>1, <1>5, <1>6, Unlinking

\* pop_front() takes out the first node, which d_head points to.
LEMMA PopFrontStep ==
    ASSUME IInv, NEW h \in Heads, PopFront(h)
    PROVE  IInv'
<1>1. /\ h \in alive /\ ~Empty(link, h) /\ alive' = alive
      /\ link' = Unlink(link, link[h].d_next)
      /\ content' = [content EXCEPT ![h] = Tail(content[h])]
  BY DEF PopFront, Unlinked
<1>2. content[h] \in Seq(Nodes) /\ Ring(link, h, content[h]) /\ Len(content[h]) \in Nat
  BY <1>1, ListFacts
<1>3. Len(content[h]) # 0 /\ link[h].d_next = content[h][1]
  BY <1>1, <1>2, HeadPoints
<1>4. PICK k \in 1..Len(content[h]) : k = 1
  BY <1>2, <1>3
<1>5. PICK r : r = Tail(content[h])
  OBVIOUS
<1>6. Removed(r, content[h], k)
  BY <1>2, <1>3, <1>4, <1>5 DEF Removed
<1>7. link' = Unlink(link, content[h][k]) /\ content' = [content EXCEPT ![h] = r]
  BY <1>1, <1>3, <1>4, <1>5
<1> QED BY <1>1, <1>6, <1>7, Unlinking

\* Erasing an erased node writes to its own links, what they are already.
LEMMA EraseAgainStep ==
    ASSUME IInv, NEW n \in Nodes, EraseAgain(n)
    PROVE  UNCHANGED vars
<1>1. link[n] = ToItself(n)
  BY DEF IInv, ErasedInert, EraseAgain
<1>2. link \in Links /\ n \in Places
  BY LinksType DEF IInv, Places
<1>3. Unlink(link, n) = link
  BY <1>1, <1>2 DEF Unlink, ToItself, Links
<1> QED BY <1>3 DEF EraseAgain, Unlinked, vars

\* A step that changes nothing.
LEMMA StutterStep ==
    ASSUME IInv, UNCHANGED vars
    PROVE  IInv'
BY DEF vars, IInv, TypeOK, Rings, Ring, Place, Apart, ErasedInert, InList, Has, Unset, ToItself

\* Every step keeps the invariant.
LEMMA NextInv ==
    ASSUME IInv, [Next]_vars
    PROVE  IInv'
<1>1. CASE UNCHANGED vars
  BY <1>1, StutterStep
<1>2. ASSUME NEW n \in Nodes, EraseAgain(n) PROVE IInv'
  BY <1>2, EraseAgainStep, StutterStep
<1> QED BY <1>1, <1>2, ConstructStep, PopFrontStep, MoveConstructStep, MoveAssignStep,
           PushBackStep, EraseStep, InsertStep DEF Next

-----------------------------------------------------------------------------
(* Theorems                                                                *)

\* The three invariants together are inductive.
THEOREM Invariant == Spec => []IInv
<1>1. IInv /\ [Next]_vars => IInv'
  BY NextInv
<1> QED BY InitInv, <1>1, PTL DEF Spec

\* The variables have their types.
THEOREM TypeCorrect == Spec => []TypeOK
<1>1. IInv => TypeOK
  BY DEF IInv
<1> QED BY Invariant, <1>1, PTL

\* Whatever is inserted, erased, popped and moved, in whatever order, on any
\* number of lists: the links of each list in use are a ring through its head
\* and exactly its nodes, in both directions, and no node is in two places.
THEOREM Chains == Spec => []Chain
<1>1. IInv => Chain
  BY ChainParts DEF IInv
<1> QED BY Invariant, <1>1, PTL

\* A node in no list points to nothing or to itself, so that erase() of a
\* callback that call() has popped touches no list.
THEOREM Inert == Spec => []ErasedInert
<1>1. IInv => ErasedInert
  BY DEF IInv
<1> QED BY Invariant, <1>1, PTL

\* erase() of a node that was erased before changes nothing at all.
THEOREM ErasedTwice == Spec => [][\A n \in Nodes : EraseAgain(n) => UNCHANGED vars]_vars
<1>1. IInv => (\A n \in Nodes : EraseAgain(n) => UNCHANGED vars)
  BY EraseAgainStep
<1>2. IInv => [\A n \in Nodes : EraseAgain(n) => UNCHANGED vars]_vars
  BY <1>1
<1> QED BY Invariant, <1>2, PTL

=============================================================================
