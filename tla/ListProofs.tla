----------------------------- MODULE ListProofs -----------------------------
(* Proofs about ListNodes.tla for any number of lists and elements: every    *)
(* ring is the sequence it should be, forwards and backwards.                *)
EXTENDS ListNodes, SequenceTheorems, WellFoundedInduction, TLAPS

Elems(s) == {s[i] : i \in DOMAIN s}
Linked(c) == Lists \cup UNION {Elems(c[a]) : a \in Lists}

(* The node at place m of the ring of a, which holds s: At(a, m) for any s.  *)
Spot(s, a, m) == IF m \in DOMAIN s THEN s[m] ELSE a

(* An element is in one place only. *)
Distinct(c) ==
  \A a, b \in Lists : \A i \in DOMAIN c[a], j \in DOMAIN c[b] :
    c[a][i] = c[b][j] => a = b /\ i = j

Forth(n, c) ==
  \A a \in Lists : \A m \in 0 .. Len(c[a]) : n[Spot(c[a], a, m)] = Spot(c[a], a, m + 1)

Back(p, c) ==
  \A a \in Lists : \A m \in 0 .. Len(c[a]) : p[Spot(c[a], a, m + 1)] = Spot(c[a], a, m)

(* RingsMatch and its mirror image say all of DoublyLinked, and survive      *)
(* every call as long as the elements are where the callers put them.        *)
ListInv ==
  /\ content \in [Lists -> Seq(Nodes)]
  /\ Distinct(content)
  /\ next = [x \in Linked(content) |-> next[x]]
  /\ prev = [x \in Linked(content) |-> prev[x]]
  /\ Forth(next, content)
  /\ Back(prev, content)

(***************************************************************************)
(* Sequences.                                                              *)
(***************************************************************************)
LEMMA PrefixProperties ==
  ASSUME NEW S, NEW s \in Seq(S), NEW i \in 1 .. Len(s) + 1
  PROVE  /\ SubSeq(s, 1, i - 1) \in Seq(S)
         /\ Len(SubSeq(s, 1, i - 1)) = i - 1
         /\ \A m \in 1 .. i - 1 : SubSeq(s, 1, i - 1)[m] = s[m]
<1>1. \A m \in 1 .. i - 1 : s[m] \in S  OBVIOUS
<1>2. /\ SubSeq(s, 1, i - 1) \in Seq(S)
      /\ Len(SubSeq(s, 1, i - 1)) = IF 1 <= i - 1 THEN i - 1 - 1 + 1 ELSE 0
      /\ \A m \in 1 .. i - 1 - 1 + 1 : SubSeq(s, 1, i - 1)[m] = s[1 + m - 1]
  BY <1>1, SubSeqProperties, 1 \in Int, i - 1 \in Int
<1> QED  BY <1>2

LEMMA SuffixProperties ==
  ASSUME NEW S, NEW s \in Seq(S), NEW j \in 1 .. Len(s) + 1
  PROVE  /\ SubSeq(s, j, Len(s)) \in Seq(S)
         /\ Len(SubSeq(s, j, Len(s))) = Len(s) - j + 1
         /\ \A m \in 1 .. Len(s) - j + 1 : SubSeq(s, j, Len(s))[m] = s[j + m - 1]
<1>1. \A m \in j .. Len(s) : s[m] \in S  OBVIOUS
<1>2. /\ SubSeq(s, j, Len(s)) \in Seq(S)
      /\ Len(SubSeq(s, j, Len(s))) = IF j <= Len(s) THEN Len(s) - j + 1 ELSE 0
      /\ \A m \in 1 .. Len(s) - j + 1 : SubSeq(s, j, Len(s))[m] = s[j + m - 1]
  BY <1>1, SubSeqProperties, j \in Int, Len(s) \in Int
<1> QED  BY <1>2

LEMMA RangeProperties ==
  ASSUME NEW S, NEW s \in Seq(S), NEW i \in 1 .. Len(s) + 1, NEW j \in i + 1 .. Len(s) + 1
  PROVE  /\ SubSeq(s, i, j - 1) \in Seq(S)
         /\ Len(SubSeq(s, i, j - 1)) = j - i
         /\ \A m \in 1 .. j - i : SubSeq(s, i, j - 1)[m] = s[i + m - 1]
<1>1. \A m \in i .. j - 1 : s[m] \in S  OBVIOUS
<1>2. /\ SubSeq(s, i, j - 1) \in Seq(S)
      /\ Len(SubSeq(s, i, j - 1)) = IF i <= j - 1 THEN j - 1 - i + 1 ELSE 0
      /\ \A m \in 1 .. j - 1 - i + 1 : SubSeq(s, i, j - 1)[m] = s[i + m - 1]
  BY <1>1, SubSeqProperties, i \in Int, j - 1 \in Int
<1> QED  BY <1>2

LEMMA JoinProperties ==
  ASSUME NEW S, NEW u \in Seq(S), NEW v \in Seq(S)
  PROVE  /\ u \o v \in Seq(S)
         /\ Len(u \o v) = Len(u) + Len(v)
         /\ \A m \in 1 .. Len(u) : (u \o v)[m] = u[m]
         /\ \A m \in Len(u) + 1 .. Len(u) + Len(v) : (u \o v)[m] = v[m - Len(u)]
<1>1. Len(u) \in Nat /\ Len(v) \in Nat  OBVIOUS
<1> QED  BY <1>1, ConcatProperties

LEMMA CutSpot ==
  ASSUME NEW a, NEW s \in Seq(Nodes), NEW i \in 1 .. Len(s) + 1, NEW j \in i .. Len(s) + 1
  PROVE  /\ Cut(s, i, j) \in Seq(Nodes)
         /\ Len(Cut(s, i, j)) = Len(s) - (j - i)
         /\ \A m \in 0 .. Len(s) - (j - i) + 1 :
              Spot(Cut(s, i, j), a, m) = IF m < i THEN Spot(s, a, m) ELSE Spot(s, a, m + (j - i))
<1> DEFINE u == SubSeq(s, 1, i - 1)
           v == SubSeq(s, j, Len(s))
           x == u \o v
<1>1. /\ u \in Seq(Nodes) /\ Len(u) = i - 1 /\ \A m \in 1 .. i - 1 : u[m] = s[m]
  BY PrefixProperties
<1>2. /\ v \in Seq(Nodes) /\ Len(v) = Len(s) - j + 1
      /\ \A m \in 1 .. Len(s) - j + 1 : v[m] = s[j + m - 1]
  BY SuffixProperties
<1>3. Cut(s, i, j) = x  BY DEF Cut
<1> HIDE DEF u, v
<1>4. /\ x \in Seq(Nodes)
      /\ Len(x) = Len(u) + Len(v)
      /\ \A m \in 1 .. Len(u) : x[m] = u[m]
      /\ \A m \in Len(u) + 1 .. Len(u) + Len(v) : x[m] = v[m - Len(u)]
  BY <1>1, <1>2, JoinProperties
<1> HIDE DEF x
<1>5. Len(s) \in Nat /\ DOMAIN s = 1 .. Len(s)  OBVIOUS
<1>6. Len(x) = Len(s) - (j - i)  BY <1>1, <1>2, <1>4, <1>5
<1>7. DOMAIN x = 1 .. Len(x)  BY <1>4
<1>8. ASSUME NEW m \in 0 .. Len(s) - (j - i) + 1
      PROVE  Spot(x, a, m) = IF m < i THEN Spot(s, a, m) ELSE Spot(s, a, m + (j - i))
  <2>1. CASE m = 0  BY <2>1, <1>5, <1>7 DEF Spot
  <2>2. CASE m \in 1 .. i - 1
    <3>1. x[m] = s[m]  BY <2>2, <1>1, <1>4
    <3>2. m \in DOMAIN x /\ m \in DOMAIN s  BY <2>2, <1>5, <1>6, <1>7
    <3> QED  BY <3>1, <3>2, <2>2 DEF Spot
  <2>3. CASE m \in i .. Len(s) - (j - i)
    <3>1. /\ m \in Len(u) + 1 .. Len(u) + Len(v)
          /\ m - Len(u) \in 1 .. Len(s) - j + 1
          /\ j + (m - Len(u)) - 1 = m + (j - i)
      BY <2>3, <1>1, <1>2, <1>5
    <3>2. v[m - Len(u)] = s[m + (j - i)]  BY <3>1, <1>2
    <3>3. x[m] = s[m + (j - i)]  BY <3>1, <3>2, <1>4
    <3>4. m \in DOMAIN x /\ m + (j - i) \in DOMAIN s /\ ~ m < i  BY <2>3, <1>5, <1>6, <1>7
    <3> QED  BY <3>3, <3>4 DEF Spot
  <2>4. CASE m = Len(s) - (j - i) + 1
    <3>1. m \notin DOMAIN x /\ m + (j - i) \notin DOMAIN s /\ ~ m < i  BY <2>4, <1>5, <1>6, <1>7
    <3> QED  BY <3>1 DEF Spot
  <2> QED  BY <2>1, <2>2, <2>3, <2>4, <1>5
<1> QED  BY <1>3, <1>4, <1>6, <1>8

LEMMA PasteSpot ==
  ASSUME NEW a, NEW s \in Seq(Nodes), NEW i \in 1 .. Len(s) + 1, NEW t \in Seq(Nodes)
  PROVE  /\ Paste(s, i, t) \in Seq(Nodes)
         /\ Len(Paste(s, i, t)) = Len(s) + Len(t)
         /\ \A m \in 0 .. Len(s) + Len(t) + 1 :
              Spot(Paste(s, i, t), a, m) =
                IF m < i THEN Spot(s, a, m)
                ELSE IF m < i + Len(t) THEN t[m - i + 1] ELSE Spot(s, a, m - Len(t))
<1> DEFINE u == SubSeq(s, 1, i - 1)
           v == SubSeq(s, i, Len(s))
           w == u \o t
           x == w \o v
<1>1. /\ u \in Seq(Nodes) /\ Len(u) = i - 1 /\ \A m \in 1 .. i - 1 : u[m] = s[m]
  BY PrefixProperties
<1>2. /\ v \in Seq(Nodes) /\ Len(v) = Len(s) - i + 1
      /\ \A m \in 1 .. Len(s) - i + 1 : v[m] = s[i + m - 1]
  BY SuffixProperties
<1>3. Paste(s, i, t) = x  BY DEF Paste
<1> HIDE DEF u, v
<1>4. /\ w \in Seq(Nodes)
      /\ Len(w) = Len(u) + Len(t)
      /\ \A m \in 1 .. Len(u) : w[m] = u[m]
      /\ \A m \in Len(u) + 1 .. Len(u) + Len(t) : w[m] = t[m - Len(u)]
  BY <1>1, JoinProperties
<1> HIDE DEF w
<1>5. /\ x \in Seq(Nodes)
      /\ Len(x) = Len(w) + Len(v)
      /\ \A m \in 1 .. Len(w) : x[m] = w[m]
      /\ \A m \in Len(w) + 1 .. Len(w) + Len(v) : x[m] = v[m - Len(w)]
  <2>1. w \in Seq(Nodes) /\ v \in Seq(Nodes)  BY <1>2, <1>4
  <2> QED  BY <2>1, JoinProperties
<1> HIDE DEF x
<1>6. Len(s) \in Nat /\ DOMAIN s = 1 .. Len(s) /\ Len(t) \in Nat  OBVIOUS
<1>7. Len(x) = Len(s) + Len(t)  BY <1>1, <1>2, <1>4, <1>5, <1>6
<1>8. DOMAIN x = 1 .. Len(x)  BY <1>5
<1>9. ASSUME NEW m \in 0 .. Len(s) + Len(t) + 1
      PROVE  Spot(x, a, m) = IF m < i THEN Spot(s, a, m)
                             ELSE IF m < i + Len(t) THEN t[m - i + 1] ELSE Spot(s, a, m - Len(t))
  <2>1. CASE m = 0  BY <2>1, <1>6, <1>8 DEF Spot
  <2>2. CASE m \in 1 .. i - 1
    <3>1. m \in 1 .. Len(u) /\ m \in 1 .. Len(w) /\ m \in DOMAIN x /\ m \in DOMAIN s /\ m < i
      BY <2>2, <1>1, <1>4, <1>6, <1>7, <1>8
    <3>2. x[m] = s[m]  BY <3>1, <2>2, <1>1, <1>4, <1>5
    <3> QED  BY <3>1, <3>2 DEF Spot
  <2>3. CASE m \in i .. i + Len(t) - 1
    <3>1. /\ m \in Len(u) + 1 .. Len(u) + Len(t) /\ m \in 1 .. Len(w) /\ m \in DOMAIN x
          /\ ~ m < i /\ m < i + Len(t)
      BY <2>3, <1>1, <1>4, <1>6, <1>7, <1>8
    <3>2. m - Len(u) = m - i + 1  BY <1>1
    <3>3. x[m] = t[m - i + 1]  BY <3>1, <3>2, <1>4, <1>5
    <3> QED  BY <3>1, <3>3 DEF Spot
  <2>4. CASE m \in i + Len(t) .. Len(s) + Len(t)
    <3>1. /\ m \in Len(w) + 1 .. Len(w) + Len(v) /\ m - Len(w) \in 1 .. Len(s) - i + 1
          /\ i + (m - Len(w)) - 1 = m - Len(t) /\ m \in DOMAIN x /\ m - Len(t) \in DOMAIN s
          /\ ~ m < i /\ ~ m < i + Len(t)
      BY <2>4, <1>1, <1>2, <1>4, <1>6, <1>7, <1>8
    <3>2. v[m - Len(w)] = s[m - Len(t)]  BY <3>1, <1>2
    <3>3. x[m] = s[m - Len(t)]  BY <3>1, <3>2, <1>5
    <3> QED  BY <3>1, <3>3 DEF Spot
  <2>5. CASE m = Len(s) + Len(t) + 1
    <3>1. /\ m \notin DOMAIN x /\ m - Len(t) \notin DOMAIN s /\ ~ m < i /\ ~ m < i + Len(t)
      BY <2>5, <1>6, <1>7, <1>8
    <3> QED  BY <3>1 DEF Spot
  <2> QED  BY <2>1, <2>2, <2>3, <2>4, <2>5, <1>6
<1> QED  BY <1>3, <1>5, <1>7, <1>9

(***************************************************************************)
(* Rings.  Places 0 .. Len of the lists are the linked nodes, each once, and *)
(* so are places 1 .. Len + 1.                                             *)
(***************************************************************************)
Contents == [Lists -> Seq(Nodes)]

LEMMA SpotValue ==
  ASSUME NEW c \in Contents, NEW a \in Lists
  PROVE  /\ c[a] \in Seq(Nodes) /\ Len(c[a]) \in Nat /\ DOMAIN c[a] = 1 .. Len(c[a])
         /\ \A m \in 1 .. Len(c[a]) : Spot(c[a], a, m) = c[a][m] /\ c[a][m] \in Nodes
         /\ Spot(c[a], a, 0) = a
         /\ Spot(c[a], a, Len(c[a]) + 1) = a
         /\ \A m \in Int : Spot(c[a], a, m) \in Linked(c)
<1>1. c[a] \in Seq(Nodes)  BY DEF Contents
<1>2. Len(c[a]) \in Nat /\ DOMAIN c[a] = 1 .. Len(c[a])  BY <1>1
<1>3. \A m \in 1 .. Len(c[a]) : c[a][m] \in Nodes  BY <1>1
<1>4. \A m \in Int : Spot(c[a], a, m) \in Linked(c)  BY DEF Spot, Linked, Elems
<1> QED  BY <1>1, <1>2, <1>3, <1>4 DEF Spot

LEMMA SpotOnce ==
  ASSUME NEW c \in Contents, Distinct(c), NEW a \in Lists, NEW b \in Lists,
         NEW m \in 0 .. Len(c[a]), NEW k \in 0 .. Len(c[b]),
         Spot(c[a], a, m) = Spot(c[b], b, k)
  PROVE  a = b /\ m = k
<1>1. /\ Len(c[a]) \in Nat /\ DOMAIN c[a] = 1 .. Len(c[a])
      /\ Len(c[b]) \in Nat /\ DOMAIN c[b] = 1 .. Len(c[b])
  BY SpotValue
<1>2. CASE m = 0 /\ k = 0  BY <1>1, <1>2, SpotValue
<1>3. CASE m = 0 /\ k # 0
  <2>1. k \in 1 .. Len(c[b])  BY <1>1, <1>3
  <2>2. Spot(c[b], b, k) \in Nodes /\ Spot(c[a], a, m) \in Lists  BY <2>1, <1>3, SpotValue
  <2> QED  BY <2>2, ListAssumption
<1>4. CASE m # 0 /\ k = 0
  <2>1. m \in 1 .. Len(c[a])  BY <1>1, <1>4
  <2>2. Spot(c[a], a, m) \in Nodes /\ Spot(c[b], b, k) \in Lists  BY <2>1, <1>4, SpotValue
  <2> QED  BY <2>2, ListAssumption
<1>5. CASE m # 0 /\ k # 0
  <2>1. m \in DOMAIN c[a] /\ k \in DOMAIN c[b]  BY <1>1, <1>5
  <2>2. c[a][m] = c[b][k]  BY <2>1 DEF Spot
  <2> QED  BY <2>1, <2>2 DEF Distinct
<1> QED  BY <1>2, <1>3, <1>4, <1>5

LEMMA SpotOnceAfter ==
  ASSUME NEW c \in Contents, Distinct(c), NEW a \in Lists, NEW b \in Lists,
         NEW m \in 1 .. Len(c[a]) + 1, NEW k \in 1 .. Len(c[b]) + 1,
         Spot(c[a], a, m) = Spot(c[b], b, k)
  PROVE  a = b /\ m = k
<1> DEFINE i == IF m = Len(c[a]) + 1 THEN 0 ELSE m
           j == IF k = Len(c[b]) + 1 THEN 0 ELSE k
<1>1. Len(c[a]) \in Nat /\ Len(c[b]) \in Nat  BY SpotValue
<1>2. Spot(c[a], a, i) = Spot(c[b], b, j)  BY SpotValue
<1>3. i \in 0 .. Len(c[a]) /\ j \in 0 .. Len(c[b])  BY <1>1
<1>4. a = b /\ i = j
  <2> HIDE DEF i, j
  <2> QED  BY <1>2, <1>3, SpotOnce
<1> QED  BY <1>1, <1>4

LEMMA SpotEvery ==
  ASSUME NEW c \in Contents, NEW x \in Linked(c)
  PROVE  \E a \in Lists : \E m \in 0 .. Len(c[a]) : x = Spot(c[a], a, m)
<1>1. CASE x \in Lists
  <2>1. 0 \in 0 .. Len(c[x]) /\ x = Spot(c[x], x, 0)  BY <1>1, SpotValue
  <2> QED  BY <1>1, <2>1
<1>2. CASE x \notin Lists
  <2>1. PICK a \in Lists : \E m \in DOMAIN c[a] : x = c[a][m]  BY <1>2 DEF Linked, Elems
  <2>2. PICK m \in DOMAIN c[a] : x = c[a][m]  BY <2>1
  <2>3. Len(c[a]) \in Nat /\ DOMAIN c[a] = 1 .. Len(c[a])  BY SpotValue
  <2>4. m \in 0 .. Len(c[a]) /\ x = Spot(c[a], a, m)  BY <2>2, <2>3 DEF Spot
  <2> QED  BY <2>4
<1> QED  BY <1>1, <1>2

(* The rings are doubly linked, forwards from Forth and backwards from Back. *)
LEMMA RingsLink ==
  ASSUME NEW c \in Contents, NEW n, NEW p, Forth(n, c), Back(p, c), NEW x \in Linked(c)
  PROVE  n[x] \in Linked(c) /\ p[x] \in Linked(c) /\ p[n[x]] = x /\ n[p[x]] = x
<1>1. PICK a \in Lists : \E m \in 0 .. Len(c[a]) : x = Spot(c[a], a, m)  BY SpotEvery
<1>2. PICK m \in 0 .. Len(c[a]) : x = Spot(c[a], a, m)  BY <1>1
<1> DEFINE k == IF m = 0 THEN Len(c[a]) ELSE m - 1
<1>3. Len(c[a]) \in Nat  BY SpotValue
<1>4. n[x] = Spot(c[a], a, m + 1) /\ p[Spot(c[a], a, m + 1)] = x  BY <1>2 DEF Forth, Back
<1>5. k \in 0 .. Len(c[a]) /\ x = Spot(c[a], a, k + 1)
  <2>1. CASE m = 0  BY <2>1, <1>2, <1>3, SpotValue
  <2>2. CASE m # 0
    <3>1. k + 1 = m  BY <2>2, <1>3
    <3> QED  BY <3>1, <2>2, <1>2, <1>3
  <2> QED  BY <2>1, <2>2
<1> HIDE DEF k
<1>6. p[x] = Spot(c[a], a, k) /\ n[Spot(c[a], a, k)] = x  BY <1>5 DEF Forth, Back
<1>7. n[x] \in Linked(c) /\ p[x] \in Linked(c)
  <2>1. m + 1 \in Int /\ k \in Int  BY <1>3, <1>5
  <2>2. Spot(c[a], a, m + 1) \in Linked(c) /\ Spot(c[a], a, k) \in Linked(c)  BY <2>1, SpotValue
  <2> QED  BY <2>2, <1>4, <1>6
<1> QED  BY <1>4, <1>6, <1>7

(***************************************************************************)
(* A range leaves a list: its neighbours are linked to each other.         *)
(***************************************************************************)
WithoutRange(c, a, i, j) == [c EXCEPT ![a] = Cut(@, i, j)]

(* Where place m of list b was. *)
BeforeCut(a, i, j, b, m) == IF b = a /\ m >= i THEN m + (j - i) ELSE m

(* What becomes of the pointers n and p of the nodes S when u and v are      *)
(* linked to each other.                                                     *)
Closed(u, v, n, p, n1, p1, S) ==
  \A x \in S : /\ n1[x] = IF x = u THEN v ELSE n[x]
               /\ p1[x] = IF x = v THEN u ELSE p[x]

LEMMA CutPlaces ==
  ASSUME NEW c \in Contents, NEW a \in Lists, NEW i \in 1 .. Len(c[a]) + 1,
         NEW j \in i .. Len(c[a]) + 1, NEW d, d = WithoutRange(c, a, i, j)
  PROVE  /\ d \in Contents
         /\ \A b \in Lists : Len(d[b]) = IF b = a THEN Len(c[a]) - (j - i) ELSE Len(c[b])
         /\ \A b \in Lists : \A m \in 0 .. Len(d[b]) + 1 :
              Spot(d[b], b, m) = Spot(c[b], b, BeforeCut(a, i, j, b, m))
<1>1. c[a] \in Seq(Nodes) /\ Len(c[a]) \in Nat  BY SpotValue
<1>2. \A b \in Lists : d[b] = IF b = a THEN Cut(c[a], i, j) ELSE c[b]
  BY DEF WithoutRange, Contents
<1>3. /\ d[a] \in Seq(Nodes)
      /\ Len(d[a]) = Len(c[a]) - (j - i)
      /\ \A m \in 0 .. Len(c[a]) - (j - i) + 1 :
           Spot(d[a], a, m) = IF m < i THEN Spot(c[a], a, m) ELSE Spot(c[a], a, m + (j - i))
  <2>1. d[a] = Cut(c[a], i, j)  BY <1>2
  <2>2. /\ Cut(c[a], i, j) \in Seq(Nodes)
        /\ Len(Cut(c[a], i, j)) = Len(c[a]) - (j - i)
        /\ \A m \in 0 .. Len(c[a]) - (j - i) + 1 :
             Spot(Cut(c[a], i, j), a, m) =
               IF m < i THEN Spot(c[a], a, m) ELSE Spot(c[a], a, m + (j - i))
    BY <1>1, CutSpot
  <2> QED  BY <2>1, <2>2
<1>4. d \in Contents
  <2>1. d = [b \in Lists |-> d[b]]  BY DEF WithoutRange, Contents
  <2>2. \A b \in Lists : d[b] \in Seq(Nodes)  BY <1>2, <1>3, SpotValue
  <2> QED  BY <2>1, <2>2 DEF Contents
<1>5. ASSUME NEW b \in Lists, NEW m \in 0 .. Len(d[b]) + 1
      PROVE  Spot(d[b], b, m) = Spot(c[b], b, BeforeCut(a, i, j, b, m))
  <2>1. CASE b # a  BY <2>1, <1>2 DEF BeforeCut
  <2>2. CASE b = a  BY <2>2, <1>1, <1>3 DEF BeforeCut
  <2> QED  BY <2>1, <2>2
<1> QED  BY <1>2, <1>3, <1>4, <1>5

LEMMA CutKeepsOthers ==
  ASSUME NEW c \in Contents, Distinct(c), NEW a \in Lists, NEW i \in 1 .. Len(c[a]) + 1,
         NEW j \in i .. Len(c[a]) + 1, NEW d, d = WithoutRange(c, a, i, j)
  PROVE  Distinct(d) /\ Linked(d) = Linked(c) \ {c[a][m] : m \in i .. j - 1}
<1> DEFINE was(b, m) == BeforeCut(a, i, j, b, m)
<1>1. Len(c[a]) \in Nat  BY SpotValue
<1>2. d \in Contents  BY CutPlaces
<1>3. ASSUME NEW b \in Lists
      PROVE  /\ Len(d[b]) = IF b = a THEN Len(c[a]) - (j - i) ELSE Len(c[b])
             /\ Len(c[b]) \in Nat
             /\ Len(d[b]) \in Nat
  <2>1. Len(d[b]) = IF b = a THEN Len(c[a]) - (j - i) ELSE Len(c[b])  BY CutPlaces
  <2>2. Len(d[b]) \in Nat /\ Len(c[b]) \in Nat  BY <1>2, SpotValue
  <2> QED  BY <2>1, <2>2
<1>4. ASSUME NEW b \in Lists, NEW m \in 0 .. Len(d[b])
      PROVE  /\ Spot(d[b], b, m) = Spot(c[b], b, was(b, m))
             /\ was(b, m) \in 0 .. Len(c[b])
             /\ b = a => was(b, m) \notin i .. j - 1
  <2>1. m \in 0 .. Len(d[b]) + 1  BY <1>3
  <2>2. Spot(d[b], b, m) = Spot(c[b], b, was(b, m))  BY <2>1, CutPlaces
  <2>3. was(b, m) \in 0 .. Len(c[b]) /\ (b = a => was(b, m) \notin i .. j - 1)
    BY <1>1, <1>3 DEF BeforeCut
  <2> QED  BY <2>2, <2>3
<1>5. ASSUME NEW b \in Lists, NEW e \in Lists, NEW m \in DOMAIN d[b], NEW k \in DOMAIN d[e],
             d[b][m] = d[e][k]
      PROVE  b = e /\ m = k
  <2>1. /\ m \in 1 .. Len(d[b]) /\ Spot(d[b], b, m) = d[b][m]
        /\ k \in 1 .. Len(d[e]) /\ Spot(d[e], e, k) = d[e][k]
    BY <1>2, SpotValue
  <2>2. m \in 0 .. Len(d[b]) /\ k \in 0 .. Len(d[e])  BY <2>1, <1>3
  <2>3. /\ Spot(c[b], b, was(b, m)) = Spot(c[e], e, was(e, k))
        /\ was(b, m) \in 0 .. Len(c[b])
        /\ was(e, k) \in 0 .. Len(c[e])
    BY <1>4, <1>5, <2>1, <2>2
  <2>4. b = e /\ was(b, m) = was(e, k)
    <3> HIDE DEF was
    <3> QED  BY <2>3, SpotOnce
  <2> QED  BY <2>2, <2>4, <1>3 DEF BeforeCut
<1>6. ASSUME NEW x \in Linked(d)
      PROVE  x \in Linked(c) /\ ~ \E m \in i .. j - 1 : x = c[a][m]
  <2>1. PICK b \in Lists : \E m \in 0 .. Len(d[b]) : x = Spot(d[b], b, m)
    BY <1>2, SpotEvery
  <2>2. PICK m \in 0 .. Len(d[b]) : x = Spot(d[b], b, m)  BY <2>1
  <2> DEFINE r == was(b, m)
  <2>3. x = Spot(c[b], b, r) /\ r \in 0 .. Len(c[b]) /\ (b = a => r \notin i .. j - 1)
    BY <2>2, <1>4
  <2> HIDE DEF r
  <2>4. x \in Linked(c)
    <3>1. r \in Int  BY <2>3, <1>3
    <3> QED  BY <2>3, <3>1, SpotValue
  <2>5. ASSUME NEW k \in i .. j - 1, x = c[a][k]  PROVE FALSE
    <3>1. k \in 1 .. Len(c[a]) /\ k \in 0 .. Len(c[a])  BY <1>1
    <3>2. x = Spot(c[a], a, k)  BY <3>1, <2>5, SpotValue
    <3>3. Spot(c[b], b, r) = Spot(c[a], a, k) /\ r \in 0 .. Len(c[b])  BY <2>3, <3>2
    <3>4. b = a /\ r = k  BY <3>1, <3>3, SpotOnce
    <3> QED  BY <2>3, <3>4
  <2> QED  BY <2>4, <2>5
<1>7. ASSUME NEW x \in Linked(c), ~ \E m \in i .. j - 1 : x = c[a][m]
      PROVE  x \in Linked(d)
  <2>1. PICK b \in Lists : \E m \in 0 .. Len(c[b]) : x = Spot(c[b], b, m)
    BY SpotEvery
  <2>2. PICK m \in 0 .. Len(c[b]) : x = Spot(c[b], b, m)  BY <2>1
  <2> DEFINE k == IF b = a /\ m >= i THEN m - (j - i) ELSE m
  <2>3. ~ (b = a /\ m \in i .. j - 1)
    <3>1. SUFFICES ASSUME b = a, m \in i .. j - 1  PROVE FALSE  OBVIOUS
    <3>2. m \in 1 .. Len(c[a])  BY <3>1, <1>1
    <3> QED  BY <3>1, <3>2, <2>2, <1>7, SpotValue
  <2>4. k \in 0 .. Len(d[b]) /\ was(b, k) = m  BY <2>3, <1>1, <1>3 DEF BeforeCut
  <2> HIDE DEF k
  <2>5. x = Spot(d[b], b, k) /\ k \in Int  BY <2>2, <2>4, <1>3, <1>4
  <2> QED  BY <2>5, <1>2, SpotValue
<1>8. Distinct(d)  BY <1>5 DEF Distinct
<1> QED  BY <1>6, <1>7, <1>8

LEMMA CutRings ==
  ASSUME NEW c \in Contents, Distinct(c), NEW a \in Lists, NEW i \in 1 .. Len(c[a]) + 1,
         NEW j \in i .. Len(c[a]) + 1, NEW d, d = WithoutRange(c, a, i, j),
         NEW n, Forth(n, c), NEW p, Back(p, c), NEW n1, NEW p1,
         Closed(Spot(c[a], a, i - 1), Spot(c[a], a, j), n, p, n1, p1, Linked(d))
  PROVE  Forth(n1, d) /\ Back(p1, d)
<1> DEFINE was(b, m) == BeforeCut(a, i, j, b, m)
<1>1. Len(c[a]) \in Nat /\ d \in Contents  BY CutPlaces, SpotValue
<1>2. SUFFICES ASSUME NEW b \in Lists, NEW m \in 0 .. Len(d[b])
               PROVE  /\ n1[Spot(d[b], b, m)] = Spot(d[b], b, m + 1)
                      /\ p1[Spot(d[b], b, m + 1)] = Spot(d[b], b, m)
  BY DEF Forth, Back
<1>3. /\ Len(d[b]) = IF b = a THEN Len(c[a]) - (j - i) ELSE Len(c[b])
      /\ Len(d[b]) \in Nat /\ Len(c[b]) \in Nat
  BY <1>1, CutPlaces, SpotValue
<1> DEFINE k == was(b, m)
           l == was(b, m + 1)
<1>4. /\ Spot(d[b], b, m) = Spot(c[b], b, k)
      /\ Spot(d[b], b, m + 1) = Spot(c[b], b, l)
      /\ Spot(d[b], b, m) \in Linked(d)
      /\ Spot(d[b], b, m + 1) \in Linked(d)
  <2>1. m \in 0 .. Len(d[b]) + 1 /\ m + 1 \in 0 .. Len(d[b]) + 1 /\ m \in Int /\ m + 1 \in Int
    BY <1>3
  <2>2. Spot(d[b], b, m) = Spot(c[b], b, k) /\ Spot(d[b], b, m + 1) = Spot(c[b], b, l)
    BY <2>1, CutPlaces
  <2>3. Spot(d[b], b, m) \in Linked(d) /\ Spot(d[b], b, m + 1) \in Linked(d)
    BY <1>1, <2>1, SpotValue
  <2> QED  BY <2>2, <2>3
<1>5. /\ k \in 0 .. Len(c[b]) /\ l \in 1 .. Len(c[b]) + 1
      /\ IF b = a /\ m = i - 1 THEN k = i - 1 /\ l = j
         ELSE l = k + 1 /\ ~ (b = a /\ k = i - 1) /\ ~ (b = a /\ l = j)
  BY <1>1, <1>3 DEF BeforeCut
<1> HIDE DEF k, l
<1>6. CASE b = a /\ m = i - 1  BY <1>4, <1>5, <1>6 DEF Closed
<1>7. CASE ~ (b = a /\ m = i - 1)
  <2>1. Spot(c[b], b, k) # Spot(c[a], a, i - 1)
    <3>1. i - 1 \in 0 .. Len(c[a])  BY <1>1
    <3> QED  BY <1>5, <1>7, <3>1, SpotOnce
  <2>2. Spot(c[b], b, l) # Spot(c[a], a, j)
    <3>1. j \in 1 .. Len(c[a]) + 1  BY <1>1
    <3> QED  BY <1>5, <1>7, <3>1, SpotOnceAfter
  <2>3. n[Spot(c[b], b, k)] = Spot(c[b], b, l) /\ p[Spot(c[b], b, l)] = Spot(c[b], b, k)
    BY <1>5, <1>7 DEF Forth, Back
  <2> QED  BY <1>4, <2>1, <2>2, <2>3 DEF Closed
<1> QED  BY <1>6, <1>7

(***************************************************************************)
(* A chain of unlinked nodes goes into a list.                             *)
(***************************************************************************)
WithRange(c, a, i, t) == [c EXCEPT ![a] = Paste(@, i, t)]

InRange(a, i, t, b, m) == b = a /\ m \in i .. i + Len(t) - 1

(* Where place m of list b was, outside the range. *)
BeforePaste(a, i, t, b, m) == IF b = a /\ m >= i THEN m - Len(t) ELSE m

(* Nodes to be linked: each once, and none linked yet. *)
Fresh(t, c) ==
  /\ t \in Seq(Nodes) /\ Len(t) >= 1
  /\ \A r \in 1 .. Len(t) : t[r] \notin Linked(c)
  /\ \A r, q \in 1 .. Len(t) : t[r] = t[q] => r = q

Chained(t, n, p) ==
  \A r \in 1 .. Len(t) - 1 : n[t[r]] = t[r + 1] /\ p[t[r + 1]] = t[r]

(* What becomes of the pointers n and p of the nodes S when the chain t goes *)
(* between u and v.                                                          *)
PutBetween(t, u, v, n, p, n1, p1, S) ==
  \A x \in S :
    /\ n1[x] = IF x = t[Len(t)] THEN v ELSE IF x = u THEN t[1] ELSE n[x]
    /\ p1[x] = IF x = t[1] THEN u ELSE IF x = v THEN t[Len(t)] ELSE p[x]

LEMMA PastePlaces ==
  ASSUME NEW c \in Contents, NEW a \in Lists, NEW i \in 1 .. Len(c[a]) + 1,
         NEW t \in Seq(Nodes), NEW d, d = WithRange(c, a, i, t)
  PROVE  /\ d \in Contents
         /\ \A b \in Lists : Len(d[b]) = IF b = a THEN Len(c[a]) + Len(t) ELSE Len(c[b])
         /\ \A b \in Lists : \A m \in 0 .. Len(d[b]) + 1 :
              Spot(d[b], b, m) = IF InRange(a, i, t, b, m) THEN t[m - i + 1]
                                 ELSE Spot(c[b], b, BeforePaste(a, i, t, b, m))
<1>1. c[a] \in Seq(Nodes) /\ Len(c[a]) \in Nat /\ Len(t) \in Nat  BY SpotValue
<1>2. \A b \in Lists : d[b] = IF b = a THEN Paste(c[a], i, t) ELSE c[b]
  BY DEF WithRange, Contents
<1>3. /\ d[a] \in Seq(Nodes)
      /\ Len(d[a]) = Len(c[a]) + Len(t)
      /\ \A m \in 0 .. Len(c[a]) + Len(t) + 1 :
           Spot(d[a], a, m) = IF m < i THEN Spot(c[a], a, m)
                              ELSE IF m < i + Len(t) THEN t[m - i + 1]
                              ELSE Spot(c[a], a, m - Len(t))
  <2>1. d[a] = Paste(c[a], i, t)  BY <1>2
  <2>2. /\ Paste(c[a], i, t) \in Seq(Nodes)
        /\ Len(Paste(c[a], i, t)) = Len(c[a]) + Len(t)
        /\ \A m \in 0 .. Len(c[a]) + Len(t) + 1 :
             Spot(Paste(c[a], i, t), a, m) =
               IF m < i THEN Spot(c[a], a, m)
               ELSE IF m < i + Len(t) THEN t[m - i + 1] ELSE Spot(c[a], a, m - Len(t))
    <3> DEFINE s == c[a]
    <3>1. s \in Seq(Nodes) /\ i \in 1 .. Len(s) + 1  BY <1>1
    <3> HIDE DEF s
    <3>2. /\ Paste(s, i, t) \in Seq(Nodes)
          /\ Len(Paste(s, i, t)) = Len(s) + Len(t)
          /\ \A m \in 0 .. Len(s) + Len(t) + 1 :
               Spot(Paste(s, i, t), a, m) =
                 IF m < i THEN Spot(s, a, m)
                 ELSE IF m < i + Len(t) THEN t[m - i + 1] ELSE Spot(s, a, m - Len(t))
      BY <3>1, PasteSpot
    <3> QED  BY <3>2 DEF s
  <2> QED  BY <2>1, <2>2
<1>4. d \in Contents
  <2>1. d = [b \in Lists |-> d[b]]  BY DEF WithRange, Contents
  <2>2. \A b \in Lists : d[b] \in Seq(Nodes)  BY <1>2, <1>3, SpotValue
  <2> QED  BY <2>1, <2>2 DEF Contents
<1>5. ASSUME NEW b \in Lists, NEW m \in 0 .. Len(d[b]) + 1
      PROVE  Spot(d[b], b, m) = IF InRange(a, i, t, b, m) THEN t[m - i + 1]
                                ELSE Spot(c[b], b, BeforePaste(a, i, t, b, m))
  <2>1. CASE b # a  BY <2>1, <1>2 DEF InRange, BeforePaste
  <2>2. CASE b = a  BY <2>2, <1>1, <1>3 DEF InRange, BeforePaste
  <2> QED  BY <2>1, <2>2
<1> QED  BY <1>2, <1>3, <1>4, <1>5

LEMMA PasteKeepsOthers ==
  ASSUME NEW c \in Contents, Distinct(c), NEW a \in Lists, NEW i \in 1 .. Len(c[a]) + 1,
         NEW t, Fresh(t, c), NEW d, d = WithRange(c, a, i, t)
  PROVE  Distinct(d) /\ Linked(d) = Linked(c) \cup Elems(t)
<1> DEFINE in(b, m)  == InRange(a, i, t, b, m)
           was(b, m) == BeforePaste(a, i, t, b, m)
<1>1. Len(c[a]) \in Nat /\ t \in Seq(Nodes) /\ Len(t) \in Nat /\ DOMAIN t = 1 .. Len(t)
  BY SpotValue DEF Fresh
<1>2. d \in Contents  BY <1>1, PastePlaces
<1>3. ASSUME NEW b \in Lists
      PROVE  /\ Len(d[b]) = IF b = a THEN Len(c[a]) + Len(t) ELSE Len(c[b])
             /\ Len(c[b]) \in Nat
             /\ Len(d[b]) \in Nat
  <2>1. Len(d[b]) = IF b = a THEN Len(c[a]) + Len(t) ELSE Len(c[b])  BY <1>1, PastePlaces
  <2>2. Len(d[b]) \in Nat /\ Len(c[b]) \in Nat  BY <1>2, SpotValue
  <2> QED  BY <2>1, <2>2
<1>4. ASSUME NEW b \in Lists, NEW m \in 0 .. Len(d[b]), in(b, m)
      PROVE  /\ Spot(d[b], b, m) = t[m - i + 1]
             /\ m - i + 1 \in 1 .. Len(t)
             /\ b = a
  <2>1. m \in 0 .. Len(d[b]) + 1  BY <1>3
  <2>2. Spot(d[b], b, m) = t[m - i + 1]  BY <1>1, <1>4, <2>1, PastePlaces
  <2>3. m - i + 1 \in 1 .. Len(t) /\ b = a  BY <1>1, <1>3, <1>4 DEF InRange
  <2> QED  BY <2>2, <2>3
<1>5. ASSUME NEW b \in Lists, NEW m \in 0 .. Len(d[b]), ~ in(b, m)
      PROVE  /\ Spot(d[b], b, m) = Spot(c[b], b, was(b, m))
             /\ was(b, m) \in 0 .. Len(c[b])
             /\ Spot(d[b], b, m) \in Linked(c)
  <2>1. m \in 0 .. Len(d[b]) + 1  BY <1>3
  <2>2. Spot(d[b], b, m) = Spot(c[b], b, was(b, m))  BY <1>1, <1>5, <2>1, PastePlaces
  <2>3. was(b, m) \in 0 .. Len(c[b]) /\ was(b, m) \in Int
    BY <1>1, <1>3, <1>5 DEF InRange, BeforePaste
  <2> HIDE DEF was
  <2> QED  BY <2>2, <2>3, SpotValue
<1>6. ASSUME NEW b \in Lists, NEW e \in Lists, NEW m \in DOMAIN d[b], NEW k \in DOMAIN d[e],
             d[b][m] = d[e][k]
      PROVE  b = e /\ m = k
  <2>1. /\ m \in 1 .. Len(d[b]) /\ Spot(d[b], b, m) = d[b][m]
        /\ k \in 1 .. Len(d[e]) /\ Spot(d[e], e, k) = d[e][k]
    <3>1. m \in 1 .. Len(d[b]) /\ k \in 1 .. Len(d[e])  BY <1>2, SpotValue
    <3>2. Spot(d[b], b, m) = d[b][m]  BY <3>1, <1>2, SpotValue
    <3>3. Spot(d[e], e, k) = d[e][k]  BY <3>1, <1>2, SpotValue
    <3> QED  BY <3>1, <3>2, <3>3
  <2>2. m \in 0 .. Len(d[b]) /\ k \in 0 .. Len(d[e]) /\ Spot(d[b], b, m) = Spot(d[e], e, k)
    BY <1>6, <2>1, <1>3
  <2>3. CASE in(b, m) /\ in(e, k)
    <3>1. /\ t[m - i + 1] = t[k - i + 1] /\ b = a /\ e = a
          /\ m - i + 1 \in 1 .. Len(t) /\ k - i + 1 \in 1 .. Len(t)
      <4>1. Spot(d[b], b, m) = t[m - i + 1] /\ m - i + 1 \in 1 .. Len(t) /\ b = a
        BY <2>2, <2>3, <1>4
      <4>2. Spot(d[e], e, k) = t[k - i + 1] /\ k - i + 1 \in 1 .. Len(t) /\ e = a
        BY <2>2, <2>3, <1>4
      <4> QED  BY <2>2, <4>1, <4>2
    <3>2. m - i + 1 = k - i + 1  BY <3>1 DEF Fresh
    <3> QED  BY <3>1, <3>2, <2>2, <1>3
  <2>4. CASE ~ in(b, m) /\ ~ in(e, k)
    <3>1. /\ Spot(c[b], b, was(b, m)) = Spot(c[e], e, was(e, k))
          /\ was(b, m) \in 0 .. Len(c[b])
          /\ was(e, k) \in 0 .. Len(c[e])
      BY <1>5, <2>2, <2>4
    <3>2. b = e /\ was(b, m) = was(e, k)
      <4> HIDE DEF was
      <4> QED  BY <3>1, SpotOnce
    <3> QED  BY <2>2, <2>4, <3>2, <1>1, <1>3 DEF InRange, BeforePaste
  <2>5. CASE in(b, m) /\ ~ in(e, k)
    <3>1. t[m - i + 1] \in Linked(c) /\ m - i + 1 \in 1 .. Len(t)  BY <1>4, <1>5, <2>2, <2>5
    <3> QED  BY <3>1 DEF Fresh
  <2>6. CASE ~ in(b, m) /\ in(e, k)
    <3>1. t[k - i + 1] \in Linked(c) /\ k - i + 1 \in 1 .. Len(t)  BY <1>4, <1>5, <2>2, <2>6
    <3> QED  BY <3>1 DEF Fresh
  <2> QED  BY <2>3, <2>4, <2>5, <2>6
<1>7. ASSUME NEW x \in Linked(d)
      PROVE  x \in Linked(c) \cup Elems(t)
  <2>1. PICK b \in Lists : \E m \in 0 .. Len(d[b]) : x = Spot(d[b], b, m)
    BY <1>2, SpotEvery
  <2>2. PICK m \in 0 .. Len(d[b]) : x = Spot(d[b], b, m)  BY <2>1
  <2>3. CASE in(b, m)
    <3>1. x = t[m - i + 1] /\ m - i + 1 \in DOMAIN t  BY <2>2, <2>3, <1>1, <1>4
    <3> QED  BY <3>1 DEF Elems
  <2>4. CASE ~ in(b, m)  BY <2>2, <2>4, <1>5
  <2> QED  BY <2>3, <2>4
<1>8. ASSUME NEW x \in Linked(c)
      PROVE  x \in Linked(d)
  <2>1. PICK b \in Lists : \E m \in 0 .. Len(c[b]) : x = Spot(c[b], b, m)
    BY SpotEvery
  <2>2. PICK m \in 0 .. Len(c[b]) : x = Spot(c[b], b, m)  BY <2>1
  <2> DEFINE k == IF b = a /\ m >= i THEN m + Len(t) ELSE m
  <2>3. k \in 0 .. Len(d[b]) /\ was(b, k) = m /\ ~ in(b, k) /\ k \in Int
    BY <1>1, <1>3 DEF BeforePaste, InRange
  <2> HIDE DEF k
  <2>4. x = Spot(d[b], b, k)  BY <2>2, <2>3, <1>5
  <2> QED  BY <2>3, <2>4, <1>2, SpotValue
<1>9. ASSUME NEW x \in Elems(t)
      PROVE  x \in Linked(d)
  <2>1. PICK r \in 1 .. Len(t) : x = t[r]  BY <1>1 DEF Elems
  <2> DEFINE m == r + i - 1
  <2>2. m \in 0 .. Len(d[a]) /\ in(a, m) /\ m - i + 1 = r /\ m \in Int
    BY <1>1, <1>3 DEF InRange
  <2> HIDE DEF m
  <2>3. x = Spot(d[a], a, m)  BY <2>1, <2>2, <1>4
  <2> QED  BY <2>2, <2>3, <1>2, SpotValue
<1>10. Distinct(d)  BY <1>6 DEF Distinct
<1> QED  BY <1>7, <1>8, <1>9, <1>10

LEMMA PasteRings ==
  ASSUME NEW c \in Contents, Distinct(c), NEW a \in Lists, NEW i \in 1 .. Len(c[a]) + 1,
         NEW t, Fresh(t, c), NEW d, d = WithRange(c, a, i, t),
         NEW n, Forth(n, c), NEW p, Back(p, c), NEW n1, NEW p1,
         Chained(t, n, p),
         PutBetween(t, Spot(c[a], a, i - 1), Spot(c[a], a, i), n, p, n1, p1, Linked(d))
  PROVE  Forth(n1, d) /\ Back(p1, d)
<1> DEFINE in(b, m)  == InRange(a, i, t, b, m)
           was(b, m) == BeforePaste(a, i, t, b, m)
<1>1. Len(c[a]) \in Nat /\ t \in Seq(Nodes) /\ Len(t) \in Nat /\ Len(t) >= 1 /\ d \in Contents
  <2>1. t \in Seq(Nodes) /\ Len(t) >= 1  BY DEF Fresh
  <2> QED  BY <2>1, PastePlaces, SpotValue
<1>2. SUFFICES ASSUME NEW b \in Lists, NEW m \in 0 .. Len(d[b])
               PROVE  /\ n1[Spot(d[b], b, m)] = Spot(d[b], b, m + 1)
                      /\ p1[Spot(d[b], b, m + 1)] = Spot(d[b], b, m)
  BY DEF Forth, Back
<1>3. /\ Len(d[b]) = IF b = a THEN Len(c[a]) + Len(t) ELSE Len(c[b])
      /\ Len(d[b]) \in Nat /\ Len(c[b]) \in Nat
  <2>1. Len(d[b]) = IF b = a THEN Len(c[a]) + Len(t) ELSE Len(c[b])  BY <1>1, PastePlaces
  <2>2. Len(d[b]) \in Nat /\ Len(c[b]) \in Nat  BY <1>1, SpotValue
  <2> QED  BY <2>1, <2>2
<1> DEFINE x == Spot(d[b], b, m)
           y == Spot(d[b], b, m + 1)
<1>4. /\ x = IF in(b, m) THEN t[m - i + 1] ELSE Spot(c[b], b, was(b, m))
      /\ y = IF in(b, m + 1) THEN t[m + 1 - i + 1] ELSE Spot(c[b], b, was(b, m + 1))
      /\ x \in Linked(d) /\ y \in Linked(d)
  <2>1. m \in 0 .. Len(d[b]) + 1 /\ m + 1 \in 0 .. Len(d[b]) + 1 /\ m \in Int /\ m + 1 \in Int
    BY <1>3
  <2>2. /\ x = IF in(b, m) THEN t[m - i + 1] ELSE Spot(c[b], b, was(b, m))
        /\ y = IF in(b, m + 1) THEN t[m + 1 - i + 1] ELSE Spot(c[b], b, was(b, m + 1))
    <3>1. t \in Seq(Nodes)  BY <1>1
    <3> HIDE DEF in, was
    <3>2. ASSUME NEW q \in 0 .. Len(d[b]) + 1
          PROVE  Spot(d[b], b, q) = IF in(b, q) THEN t[q - i + 1] ELSE Spot(c[b], b, was(b, q))
      BY <3>1, PastePlaces DEF in, was
    <3>3. y = IF in(b, m + 1) THEN t[m + 1 - i + 1] ELSE Spot(c[b], b, was(b, m + 1))
      BY <3>2, <2>1
    <3> QED  BY <3>2, <3>3, <2>1
  <2>3. x \in Linked(d) /\ y \in Linked(d)
    BY <1>1, <2>1, SpotValue
  <2> QED  BY <2>2, <2>3
<1> HIDE DEF x, y
<1>5. /\ n1[x] = IF x = t[Len(t)] THEN Spot(c[a], a, i)
                 ELSE IF x = Spot(c[a], a, i - 1) THEN t[1] ELSE n[x]
      /\ p1[y] = IF y = t[1] THEN Spot(c[a], a, i - 1)
                 ELSE IF y = Spot(c[a], a, i) THEN t[Len(t)] ELSE p[y]
  BY <1>4 DEF PutBetween
<1>6. /\ \A r \in 1 .. Len(t), l \in Int : t[r] # Spot(c[b], b, l) /\ t[r] # Spot(c[a], a, l)
      /\ 1 \in 1 .. Len(t) /\ Len(t) \in 1 .. Len(t) /\ i - 1 \in Int
  BY <1>1, SpotValue DEF Fresh
<1>7. CASE b = a /\ m = i - 1
  <2>1. /\ ~ in(b, m) /\ was(b, m) = m /\ in(b, m + 1) /\ m + 1 - i + 1 = 1
    <3>1. ~ m >= i /\ m + 1 = i /\ i <= i + Len(t) - 1 /\ m + 1 - i + 1 = 1  BY <1>1, <1>7
    <3>2. i \in i .. i + Len(t) - 1 /\ m \notin i .. i + Len(t) - 1  BY <1>1, <3>1
    <3> QED  BY <3>1, <3>2, <1>7 DEF InRange, BeforePaste
  <2>2. x = Spot(c[a], a, i - 1) /\ y = t[1]  BY <1>4, <1>7, <2>1
  <2>3. n1[x] = t[1] /\ p1[y] = Spot(c[a], a, i - 1)  BY <2>2, <1>5, <1>6
  <2> QED  BY <2>2, <2>3 DEF x, y
<1>8. CASE b = a /\ m \in i .. i + Len(t) - 2
  <2> DEFINE r == m - i + 1
  <2>1. /\ in(b, m) /\ in(b, m + 1) /\ m + 1 - i + 1 = r + 1
        /\ r \in 1 .. Len(t) - 1 /\ r \in 1 .. Len(t) /\ r + 1 \in 1 .. Len(t)
        /\ r # Len(t) /\ r + 1 # 1
    BY <1>1, <1>3, <1>8 DEF InRange
  <2>2. x = t[r] /\ y = t[r + 1]  BY <1>4, <2>1
  <2> HIDE DEF r
  <2>3. t[r] # t[Len(t)] /\ t[r + 1] # t[1]  BY <2>1, <1>6 DEF Fresh
  <2>4. n1[x] = n[x] /\ p1[y] = p[y]  BY <2>1, <2>2, <2>3, <1>5, <1>6
  <2>5. n[x] = t[r + 1] /\ p[y] = t[r]  BY <2>1, <2>2 DEF Chained
  <2> QED  BY <2>2, <2>4, <2>5 DEF x, y
<1>9. CASE b = a /\ m = i + Len(t) - 1
  <2>1. /\ in(b, m) /\ m - i + 1 = Len(t) /\ ~ in(b, m + 1) /\ was(b, m + 1) = i
    BY <1>1, <1>3, <1>9 DEF InRange, BeforePaste
  <2>2. x = t[Len(t)] /\ y = Spot(c[a], a, i)  BY <1>4, <1>9, <2>1
  <2>3. n1[x] = Spot(c[a], a, i) /\ p1[y] = t[Len(t)]  BY <2>2, <1>5, <1>6
  <2> QED  BY <2>2, <2>3 DEF x, y
<1>10. CASE ~ (b = a /\ m \in i - 1 .. i + Len(t) - 1)
  <2> DEFINE k == was(b, m)
             l == was(b, m + 1)
  <2>1. ~ in(b, m) /\ ~ in(b, m + 1)  BY <1>1, <1>3, <1>10 DEF InRange
  <2>2. /\ k \in 0 .. Len(c[b]) /\ l = k + 1 /\ l \in 1 .. Len(c[b]) + 1
        /\ k \in Int /\ l \in Int
        /\ b = a => k # i - 1 /\ l # i
        /\ i - 1 \in 0 .. Len(c[a])
    BY <1>1, <1>3, <1>10 DEF BeforePaste
  <2>3. x = Spot(c[b], b, k) /\ y = Spot(c[b], b, l)  BY <1>4, <2>1
  <2> HIDE DEF k, l
  <2>4. x # Spot(c[a], a, i - 1)  BY <2>2, <2>3, SpotOnce
  <2>5. y # Spot(c[a], a, i)  BY <2>2, <2>3, SpotOnceAfter
  <2>6. x # t[Len(t)] /\ y # t[1]  BY <2>2, <2>3, <1>6
  <2>7. n1[x] = n[x] /\ p1[y] = p[y]  BY <2>4, <2>5, <2>6, <1>5
  <2>8. n[x] = y /\ p[y] = x  BY <2>2, <2>3 DEF Forth, Back
  <2> QED  BY <2>7, <2>8 DEF x, y
<1> QED
  <2>1. m \in Int /\ i \in Int /\ Len(t) \in Int  BY <1>1, <1>3
  <2>2. CASE b = a /\ m \in i - 1 .. i + Len(t) - 1
    <3>1. m >= i - 1 /\ m <= i + Len(t) - 1  BY <2>1, <2>2
    <3>2. m = i - 1 \/ m = i + Len(t) - 1 \/ (m >= i /\ m <= i + Len(t) - 2)  BY <2>1, <3>1
    <3>3. m >= i /\ m <= i + Len(t) - 2 => m \in i .. i + Len(t) - 2  BY <2>1
    <3> QED  BY <3>2, <3>3, <2>2, <1>7, <1>8, <1>9
  <2> QED  BY <2>2, <1>10

(***************************************************************************)
(* The calls.                                                              *)
(***************************************************************************)
LEMMA InvFacts ==
  ASSUME ListInv
  PROVE  /\ content \in Contents /\ Distinct(content)
         /\ Forth(next, content) /\ Back(prev, content)
         /\ DOMAIN next = Linked(content) /\ DOMAIN prev = Linked(content)
         /\ next = [x \in Linked(content) |-> next[x]]
         /\ prev = [x \in Linked(content) |-> prev[x]]
BY DEF ListInv, Contents

LEMMA InvAgain ==
  ASSUME content' \in Contents, Distinct(content)', Forth(next, content)', Back(prev, content)',
         next' = [x \in Linked(content') |-> next'[x]],
         prev' = [x \in Linked(content') |-> prev'[x]]
  PROVE  ListInv'
BY DEF ListInv, Contents

LEMMA Neighbours ==
  ASSUME ListInv, NEW a \in Lists
  PROVE  /\ \A m : At(a, m) = Spot(content[a], a, m)
         /\ \A m \in 0 .. Len(content[a]) : next[Spot(content[a], a, m)] = Spot(content[a], a, m + 1)
         /\ \A m \in 1 .. Len(content[a]) + 1 :
              prev[Spot(content[a], a, m)] = Spot(content[a], a, m - 1)
<1>1. content \in Contents /\ Forth(next, content) /\ Back(prev, content)  BY InvFacts
<1>2. Len(content[a]) \in Nat  BY <1>1, SpotValue
<1>3. ASSUME NEW m \in 1 .. Len(content[a]) + 1
      PROVE  prev[Spot(content[a], a, m)] = Spot(content[a], a, m - 1)
  <2>1. m - 1 \in 0 .. Len(content[a]) /\ m - 1 + 1 = m  BY <1>2
  <2> DEFINE k == m - 1
  <2>2. k \in 0 .. Len(content[a]) /\ k + 1 = m  BY <2>1
  <2> HIDE DEF k
  <2>3. prev[Spot(content[a], a, m)] = Spot(content[a], a, k)  BY <2>2, <1>1 DEF Back
  <2> QED  BY <2>3 DEF k
<1> QED  BY <1>1, <1>3 DEF Forth, At, Spot

LEMMA InsertKeeps ==
  ASSUME ListInv, NEW a \in Lists, NEW i \in Places(a), NEW n \in Nodes, InsertBefore(a, i, n)
  PROVE  ListInv'
<1> DEFINE c == content
           t == <<n>>
           u == Spot(c[a], a, i - 1)
           v == Spot(c[a], a, i)
<1>1. /\ c \in Contents /\ Distinct(c) /\ Forth(next, c) /\ Back(prev, c)
      /\ DOMAIN next = Linked(c) /\ DOMAIN prev = Linked(c)
  BY InvFacts
<1>2. i \in 1 .. Len(c[a]) + 1  BY DEF Places
<1>3. n \notin Linked(c) /\ content' = WithRange(c, a, i, t)
  BY <1>1 DEF InsertBefore, WithRange
<1>4. t \in Seq(Nodes) /\ Len(t) = 1 /\ t[1] = n /\ Elems(t) = {n}  BY DEF Elems
<1>5. Fresh(t, c) /\ Chained(t, next, prev)
  <2>1. \A r \in 1 .. Len(t) : r = 1  BY <1>4
  <2>2. Fresh(t, c)  BY <1>3, <1>4, <2>1 DEF Fresh
  <2>3. \A r \in 1 .. Len(t) - 1 : FALSE  BY <1>4
  <2> QED  BY <2>2, <2>3 DEF Chained
<1>6. At(a, i) = v /\ prev[v] = u  BY <1>2, Neighbours
<1>7. /\ next' = [x \in Linked(c) \cup {n} |->
                    IF x = n THEN v ELSE IF x = u THEN n ELSE next[x]]
      /\ prev' = [x \in Linked(c) \cup {n} |->
                    IF x = n THEN u ELSE IF x = v THEN n ELSE prev[x]]
  BY <1>1, <1>6 DEF InsertBefore, _M_hook
<1> HIDE DEF t
<1>8. content' \in Contents /\ Distinct(content') /\ Linked(content') = Linked(c) \cup {n}
  <2>1. content' \in Contents  BY <1>1, <1>2, <1>3, <1>4, PastePlaces
  <2>2. Distinct(content') /\ Linked(content') = Linked(c) \cup Elems(t)
    BY <1>1, <1>2, <1>3, <1>5, PasteKeepsOthers
  <2> QED  BY <2>1, <2>2, <1>4
<1>9. PutBetween(t, u, v, next, prev, next', prev', Linked(content'))
  BY <1>4, <1>7, <1>8 DEF PutBetween
<1>10. Forth(next', content') /\ Back(prev', content')
  BY <1>1, <1>2, <1>3, <1>5, <1>9, PasteRings
<1> QED  BY <1>7, <1>8, <1>10, InvAgain

LEMMA EraseKeeps ==
  ASSUME ListInv, NEW a \in Lists, NEW i \in Places(a), EraseAt(a, i)
  PROVE  ListInv'
<1> DEFINE c == content
           x == Spot(c[a], a, i)
           u == Spot(c[a], a, i - 1)
           v == Spot(c[a], a, i + 1)
<1>1. /\ c \in Contents /\ Distinct(c) /\ Forth(next, c) /\ Back(prev, c)
      /\ DOMAIN next = Linked(c) /\ DOMAIN prev = Linked(c)
  BY InvFacts
<1>2. Len(c[a]) \in Nat /\ DOMAIN c[a] = 1 .. Len(c[a])  BY <1>1, SpotValue
<1>3. i \in DOMAIN c[a] /\ content' = WithoutRange(c, a, i, i + 1)
  BY DEF EraseAt, WithoutRange
<1>4. /\ i \in 1 .. Len(c[a]) + 1 /\ i + 1 \in i .. Len(c[a]) + 1
      /\ i \in 0 .. Len(c[a]) /\ i \in 1 .. Len(c[a]) /\ \A m : m \in i .. i + 1 - 1 <=> m = i
  BY <1>2, <1>3
<1>5. At(a, i) = x /\ next[x] = v /\ prev[x] = u  BY <1>4, Neighbours
<1>6. {c[a][m] : m \in i .. i + 1 - 1} = {x}
  <2>1. x = c[a][i]  BY <1>1, <1>4, SpotValue
  <2> QED  BY <1>4, <2>1
<1>7. content' \in Contents /\ Distinct(content') /\ Linked(content') = Linked(c) \ {x}
  <2>1. content' \in Contents  BY <1>1, <1>3, <1>4, CutPlaces
  <2>2. Distinct(content') /\ Linked(content') = Linked(c) \ {c[a][m] : m \in i .. i + 1 - 1}
    BY <1>1, <1>3, <1>4, CutKeepsOthers
  <2> QED  BY <2>1, <2>2, <1>6
<1>8. /\ next' = [y \in Linked(c) \ {x} |-> IF y = u THEN v ELSE next[y]]
      /\ prev' = [y \in Linked(c) \ {x} |-> IF y = v THEN u ELSE prev[y]]
  BY <1>1, <1>5 DEF EraseAt, _M_unhook
<1>9. Closed(u, v, next, prev, next', prev', Linked(content'))
  BY <1>7, <1>8 DEF Closed
<1>10. Forth(next', content') /\ Back(prev', content')
  BY <1>1, <1>3, <1>4, <1>9, CutRings
<1> QED  BY <1>7, <1>8, <1>10, InvAgain

(* The range comes out of one list and goes into the other, or back into the *)
(* same; transfer does both at once.                                         *)
LEMMA SpliceKeeps ==
  ASSUME ListInv, NEW a \in Lists, NEW b \in Lists, NEW i \in Places(a), NEW j \in Places(a),
         NEW k \in Places(b), Splice(a, i, j, b, k)
  PROVE  ListInv'
<1> DEFINE c == content
           L == Len(c[a])
           t == SubSeq(c[a], i, j - 1)
           c1 == WithoutRange(c, a, i, j)
           place == IF a = b /\ k > i THEN k - (j - i) ELSE k
           before == Spot(c[a], a, i - 1)
           last == Spot(c[a], a, j)
           pos == Spot(c[b], b, k)
           u == IF b = a /\ k = j THEN before ELSE Spot(c[b], b, k - 1)
           n1 == [next EXCEPT ![before] = last]
           p1 == [prev EXCEPT ![last] = before]
<1>1. /\ c \in Contents /\ Distinct(c) /\ Forth(next, c) /\ Back(prev, c)
      /\ DOMAIN next = Linked(c) /\ DOMAIN prev = Linked(c)
      /\ next = [x \in Linked(c) |-> next[x]] /\ prev = [x \in Linked(c) |-> prev[x]]
  BY InvFacts
<1>2. /\ L \in Nat /\ Len(c[b]) \in Nat /\ c[a] \in Seq(Nodes)
      /\ i \in 1 .. L + 1 /\ j \in 1 .. L + 1 /\ k \in 1 .. Len(c[b]) + 1
      /\ i < j /\ (a = b => k \notin i .. j - 1)
  BY <1>1, SpotValue DEF Places, Splice
<1>3. /\ j \in i .. L + 1 /\ j \in i + 1 .. L + 1
      /\ i - 1 \in 0 .. L /\ j - 1 \in 0 .. L /\ i \in 0 .. L /\ i \in 1 .. L
      /\ j - 1 \in 1 .. L + 1 /\ k - 1 \in 0 .. Len(c[b])
  BY <1>2
<1>4. content' = WithRange(c1, b, place, t)
  BY DEF Splice, WithRange, WithoutRange
<1>5. /\ t \in Seq(Nodes) /\ Len(t) = j - i
      /\ \A q \in 1 .. j - i : t[q] = c[a][i + q - 1]
  BY <1>2, <1>3, RangeProperties
<1>6. ASSUME NEW q \in 1 .. j - i
      PROVE  /\ i + q - 1 \in i .. j - 1 /\ i + q - 1 \in 0 .. L /\ i + q - 1 \in 1 .. L + 1
             /\ t[q] = Spot(c[a], a, i + q - 1)
  <2>1. /\ i + q - 1 \in i .. j - 1 /\ i + q - 1 \in 0 .. L /\ i + q - 1 \in 1 .. L + 1
        /\ i + q - 1 \in 1 .. L
    BY <1>2
  <2>2. Spot(c[a], a, i + q - 1) = c[a][i + q - 1]  BY <1>1, <2>1, SpotValue
  <2> QED  BY <2>1, <2>2, <1>5
<1> HIDE DEF t
<1>7. c1 \in Contents /\ Distinct(c1) /\ Linked(c1) = Linked(c) \ Elems(t)
  <2>1. c1 \in Contents  BY <1>1, <1>2, <1>3, CutPlaces
  <2>2. Distinct(c1) /\ Linked(c1) = Linked(c) \ {c[a][m] : m \in i .. j - 1}
    BY <1>1, <1>2, <1>3, CutKeepsOthers
  <2>3. {c[a][m] : m \in i .. j - 1} = Elems(t)
    <3>1. DOMAIN t = 1 .. j - i  BY <1>5
    <3>2. ASSUME NEW m \in i .. j - 1  PROVE c[a][m] \in Elems(t)
      <4>1. m - i + 1 \in 1 .. j - i /\ i + (m - i + 1) - 1 = m  BY <1>2
      <4>2. t[m - i + 1] = c[a][m]  BY <1>5, <4>1
      <4> QED  BY <3>1, <4>1, <4>2 DEF Elems
    <3>3. ASSUME NEW q \in 1 .. j - i  PROVE t[q] \in {c[a][m] : m \in i .. j - 1}
      BY <1>5, <1>6
    <3> QED  BY <3>1, <3>2, <3>3 DEF Elems
  <2> QED  BY <2>1, <2>2, <2>3
<1>8. Elems(t) \subseteq Linked(c)
  <2>1. ASSUME NEW q \in 1 .. j - i  PROVE t[q] \in Linked(c)
    <3>1. i + q - 1 \in Int  BY <1>2
    <3> QED  BY <1>1, <1>6, <3>1, SpotValue
  <2> QED  BY <2>1, <1>5 DEF Elems
<1>9. Fresh(t, c1)
  <2>1. Len(t) >= 1 /\ t \in Seq(Nodes)  BY <1>2, <1>5
  <2>2. \A r \in 1 .. Len(t) : t[r] \notin Linked(c1)  BY <1>5, <1>7 DEF Elems
  <2>3. ASSUME NEW r \in 1 .. Len(t), NEW q \in 1 .. Len(t), t[r] = t[q]  PROVE r = q
    <3>1. i + r - 1 = i + q - 1  BY <1>1, <1>5, <1>6, <2>3, SpotOnce
    <3> QED  BY <3>1, <1>2, <1>5
  <2> QED  BY <2>1, <2>2, <2>3 DEF Fresh
<1>10. /\ At(b, k) = pos /\ At(a, j) = last /\ At(a, i) = t[1]
       /\ prev[last] = t[Len(t)] /\ prev[t[1]] = before /\ prev[pos] = Spot(c[b], b, k - 1)
  <2>1. 1 \in 1 .. j - i /\ i + 1 - 1 = i /\ j - i \in 1 .. j - i /\ i + (j - i) - 1 = j - 1
    BY <1>2
  <2>2. t[1] = Spot(c[a], a, i) /\ t[Len(t)] = Spot(c[a], a, j - 1)  BY <1>5, <1>6, <2>1
  <2> QED  BY <1>2, <2>2, Neighbours
<1>11. before \in Linked(c) /\ last \in Linked(c) /\ pos \in Linked(c) /\ u \in Linked(c)
  <2>1. i - 1 \in Int /\ j \in Int /\ k \in Int /\ k - 1 \in Int  BY <1>2
  <2> QED  BY <2>1, <1>1, SpotValue
<1>12. Forth(n1, c1) /\ Back(p1, c1)
  <2>1. ASSUME NEW x \in Linked(c1)
        PROVE  /\ n1[x] = IF x = before THEN last ELSE next[x]
               /\ p1[x] = IF x = last THEN before ELSE prev[x]
    BY <1>1, <1>7
  <2>2. Closed(before, last, next, prev, n1, p1, Linked(c1))
    <3> HIDE DEF n1, p1, before, last, c1
    <3> QED  BY <2>1 DEF Closed
  <2> HIDE DEF n1, p1
  <2> QED  BY <1>1, <1>2, <1>3, <2>2, CutRings
<1>13. /\ place \in 1 .. Len(c1[b]) + 1
       /\ Spot(c1[b], b, place) = pos
       /\ Spot(c1[b], b, place - 1) = u
  <2>1. Len(c1[b]) = IF b = a THEN L - (j - i) ELSE Len(c[b])
    BY <1>1, <1>2, <1>3, CutPlaces
  <2>2. place \in 1 .. Len(c1[b]) + 1 /\ place \in 0 .. Len(c1[b]) + 1
        /\ place - 1 \in 0 .. Len(c1[b]) + 1
    BY <1>2, <2>1
  <2>3. BeforeCut(a, i, j, b, place) = k  BY <1>2 DEF BeforeCut
  <2>4. BeforeCut(a, i, j, b, place - 1) = IF b = a /\ k = j THEN i - 1 ELSE k - 1
    BY <1>2 DEF BeforeCut
  <2> HIDE DEF c1, place
  <2>5. ASSUME NEW m \in 0 .. Len(c1[b]) + 1
        PROVE  Spot(c1[b], b, m) = Spot(c[b], b, BeforeCut(a, i, j, b, m))
    BY <1>1, <1>2, <1>3, CutPlaces DEF c1
  <2> QED  BY <2>2, <2>3, <2>4, <2>5
<1>14. ASSUME NEW q \in 1 .. Len(t) - 1
       PROVE  /\ n1[t[q]] = t[q + 1] /\ p1[t[q + 1]] = t[q]
              /\ next[t[q]] = t[q + 1] /\ prev[t[q + 1]] = t[q]
  <2> DEFINE r == i + q - 1
  <2>1. /\ q \in 1 .. j - i /\ q + 1 \in 1 .. j - i
        /\ i + (q + 1) - 1 = r + 1 /\ r # i - 1 /\ r + 1 # j
    <3>1. i \in Int /\ j \in Int /\ i < j /\ q \in 1 .. j - i - 1  BY <1>2, <1>5
    <3> QED  BY <3>1
  <2>2. /\ r \in 0 .. L /\ t[q] = Spot(c[a], a, r)
        /\ r + 1 \in 1 .. L + 1 /\ t[q + 1] = Spot(c[a], a, r + 1)
    BY <2>1, <1>6
  <2> HIDE DEF r
  <2>3. t[q] # before /\ t[q + 1] # last
    <3>1. t[q] # before
      <4>1. c \in Contents /\ Distinct(c) /\ r \in 0 .. L /\ i - 1 \in 0 .. L /\ r # i - 1
        BY <2>1, <2>2, <1>1, <1>3
      <4> QED  BY <4>1, <2>2, SpotOnce
    <3>2. j \in 1 .. L + 1  BY <1>2
    <3>3. t[q + 1] # last  BY <2>1, <2>2, <3>2, <1>1, SpotOnceAfter
    <3> QED  BY <3>1, <3>3
  <2>4. next[t[q]] = t[q + 1] /\ prev[t[q + 1]] = t[q]
    <3>1. next[t[q]] = t[q + 1]  BY <2>2, <1>1 DEF Forth
    <3>2. prev[t[q + 1]] = t[q]  BY <2>2, <1>1 DEF Back
    <3> QED  BY <3>1, <3>2
  <2>5. t[q] \in Linked(c) /\ t[q + 1] \in Linked(c)  BY <2>1, <1>5, <1>8 DEF Elems
  <2>6. n1[t[q]] = next[t[q]] /\ p1[t[q + 1]] = prev[t[q + 1]]  BY <2>3, <2>5, <1>1
  <2> QED  BY <2>4, <2>6
<1>15. Chained(t, n1, p1)
  <2> HIDE DEF n1, p1
  <2> QED  BY <1>14 DEF Chained
<1>16. content' \in Contents /\ Distinct(content') /\ Linked(content') = Linked(c)
  <2> HIDE DEF c1, place
  <2>1. content' \in Contents  BY <1>4, <1>5, <1>7, <1>13, PastePlaces
  <2>2. Distinct(content') /\ Linked(content') = Linked(c1) \cup Elems(t)
    BY <1>4, <1>7, <1>9, <1>13, PasteKeepsOthers
  <2> QED  BY <2>1, <2>2, <1>7, <1>8
<1>17. /\ t[Len(t)] # before /\ t[1] # last
       /\ next[t[Len(t)]] = last /\ next[before] = t[1]
       /\ t[Len(t)] = Spot(c[a], a, j - 1) /\ t[1] = Spot(c[a], a, i)
       /\ t[1] \in Linked(c) /\ t[Len(t)] \in Linked(c)
  <2>1. 1 \in 1 .. j - i /\ i + 1 - 1 = i /\ j - i \in 1 .. j - i /\ i + (j - i) - 1 = j - 1
    BY <1>2
  <2>2. t[1] = Spot(c[a], a, i) /\ t[Len(t)] = Spot(c[a], a, j - 1)  BY <1>5, <1>6, <2>1
  <2>3. j - 1 # i - 1 /\ i # j /\ j - 1 + 1 = j /\ i - 1 + 1 = i  BY <1>2
  <2>4. t[Len(t)] # before  BY <2>2, <2>3, <1>1, <1>3, SpotOnce
  <2>5. t[1] # last
    <3>1. i \in 1 .. L + 1 /\ j \in 1 .. L + 1  BY <1>2
    <3> QED  BY <2>2, <2>3, <3>1, <1>1, SpotOnceAfter
  <2>6. next[Spot(c[a], a, j - 1)] = Spot(c[a], a, j - 1 + 1)  BY <1>3, Neighbours
  <2>7. next[Spot(c[a], a, i - 1)] = Spot(c[a], a, i - 1 + 1)  BY <1>3, Neighbours
  <2>8. t[1] \in Linked(c) /\ t[Len(t)] \in Linked(c)  BY <1>5, <1>8, <2>1 DEF Elems
  <2> QED  BY <2>2, <2>3, <2>4, <2>5, <2>6, <2>7, <2>8
<1>18. \/ pos = last /\ u = before /\ next' = next /\ prev' = prev
       \/ /\ pos # last /\ u = Spot(c[b], b, k - 1) /\ u # t[Len(t)]
          /\ next' = [next EXCEPT ![t[Len(t)]] = pos, ![before] = last, ![u] = t[1]]
          /\ prev' = [prev EXCEPT ![pos] = t[Len(t)], ![last] = before, ![t[1]] = u]
  <2>1. _M_transfer(pos, t[1], last)  BY <1>10 DEF Splice
  <2>2. CASE pos = last
    <3>1. j \in 1 .. L + 1 /\ k \in 1 .. Len(c[b]) + 1  BY <1>2
    <3>2. b = a /\ k = j  BY <2>2, <3>1, <1>1, SpotOnceAfter
    <3>3. next' = next /\ prev' = prev  BY <2>1, <2>2 DEF _M_transfer
    <3> QED  BY <2>2, <3>2, <3>3
  <2>3. CASE pos # last
    <3>1. ~ (b = a /\ k = j)  BY <2>3
    <3>2. u = Spot(c[b], b, k - 1)  BY <3>1
    <3>3. u # t[Len(t)]
      <4>1. b # a \/ k - 1 # j - 1  BY <3>1, <1>2
      <4> HIDE DEF u
      <4> QED  BY <4>1, <3>2, <1>1, <1>3, <1>17, SpotOnce
    <3>4. prev[last] = t[Len(t)] /\ prev[t[1]] = before /\ prev[pos] = u  BY <3>2, <1>10
    <3> HIDE DEF u, pos, last, before
    <3>5. /\ next' = [next EXCEPT ![t[Len(t)]] = pos, ![before] = last, ![u] = t[1]]
          /\ prev' = [prev EXCEPT ![pos] = t[Len(t)], ![last] = before, ![t[1]] = u]
      BY <2>1, <2>3, <3>4 DEF _M_transfer
    <3> QED  BY <2>3, <3>2, <3>3, <3>5 DEF u
  <2> QED  BY <2>2, <2>3
<1>19. PutBetween(t, u, pos, n1, p1, next', prev', Linked(content'))
  <2> SUFFICES ASSUME NEW x \in Linked(c)
               PROVE  /\ next'[x] = IF x = t[Len(t)] THEN pos ELSE IF x = u THEN t[1] ELSE n1[x]
                      /\ prev'[x] = IF x = t[1] THEN u ELSE IF x = pos THEN t[Len(t)] ELSE p1[x]
    BY <1>16 DEF PutBetween
  <2>1. n1[x] = IF x = before THEN last ELSE next[x]  BY <1>1
  <2>2. p1[x] = IF x = last THEN before ELSE prev[x]  BY <1>1
  <2>3. prev[last] = t[Len(t)] /\ prev[t[1]] = before  BY <1>10
  <2> HIDE DEF u, pos, last, before, n1, p1, c
  <2>4. CASE pos = last /\ u = before /\ next' = next /\ prev' = prev
    BY <2>1, <2>2, <2>3, <2>4, <1>17
  <2>5. CASE /\ pos # last /\ u # t[Len(t)]
             /\ next' = [next EXCEPT ![t[Len(t)]] = pos, ![before] = last, ![u] = t[1]]
             /\ prev' = [prev EXCEPT ![pos] = t[Len(t)], ![last] = before, ![t[1]] = u]
    <3>1. next'[x] = IF x = u THEN t[1] ELSE IF x = before THEN last
                     ELSE IF x = t[Len(t)] THEN pos ELSE next[x]
      BY <2>5, <1>1
    <3>2. prev'[x] = IF x = t[1] THEN u ELSE IF x = last THEN before
                     ELSE IF x = pos THEN t[Len(t)] ELSE prev[x]
      BY <2>5, <1>1
    <3> QED  BY <3>1, <3>2, <2>1, <2>2, <2>5, <1>17
  <2> QED  BY <2>4, <2>5, <1>18
<1>20. next' = [x \in Linked(content') |-> next'[x]] /\ prev' = [x \in Linked(content') |-> prev'[x]]
  <2> HIDE DEF u, pos, last, before, c
  <2> QED  BY <1>1, <1>16, <1>18
<1>21. Forth(next', content') /\ Back(prev', content')
  <2> HIDE DEF u, pos, n1, p1, c1, place
  <2>1. PutBetween(t, Spot(c1[b], b, place - 1), Spot(c1[b], b, place), n1, p1,
                   next', prev', Linked(content'))
    BY <1>13, <1>19
  <2> QED  BY <1>4, <1>7, <1>9, <1>12, <1>13, <1>15, <2>1, PasteRings
<1> QED  BY <1>16, <1>20, <1>21, InvAgain

LEMMA LeastOf ==
  ASSUME NEW T, T \subseteq Nat, T # {}
  PROVE  \E k \in T : \A l \in T : k <= l
<1> DEFINE R == {ss \in Nat \X Nat : ss[1] < ss[2]}
<1>1. IsWellFoundedOn(R, Nat)  BY NatLessThanWellFounded DEF OpToRel
<1>2. ASSUME NEW k \in Nat, NEW l \in Nat, <<l, k>> \notin R  PROVE k <= l
  <2>1. ~ l < k  BY <1>2
  <2> QED  BY <2>1
<1> HIDE DEF R
<1>3. PICK k \in T : \A l \in T : <<l, k>> \notin R  BY <1>1, WFMin
<1> QED  BY <1>2, <1>3

(* The walk of reverse meets the header and the elements of its list, and no *)
(* others.                                                                   *)
LEMMA RingIs ==
  ASSUME ListInv, NEW a \in Lists
  PROVE  Ring(a) = {Spot(content[a], a, m) : m \in 0 .. Len(content[a])}
<1> DEFINE L == Len(content[a])
           node(m) == Spot(content[a], a, m)
           R == {node(m) : m \in 0 .. L}
<1>1. /\ content \in Contents /\ DOMAIN next = Linked(content)
      /\ \A m \in 0 .. L : next[node(m)] = node(m + 1)
  BY InvFacts DEF Forth
<1>2. L \in Nat /\ node(0) = a /\ node(L + 1) = a  BY <1>1, SpotValue
<1>3. R \subseteq DOMAIN next
  <2>1. \A m \in Int : node(m) \in Linked(content)  BY <1>1, SpotValue
  <2> HIDE DEF node
  <2> QED  BY <2>1, <1>1, <1>2
<1> HIDE DEF node
<1>4. a \in R  BY <1>2
<1>5. \A y \in R : next[y] \in R
  <2> SUFFICES ASSUME NEW m \in 0 .. L  PROVE next[node(m)] \in R  OBVIOUS
  <2>1. next[node(m)] = node(m + 1)  BY <1>1
  <2>2. m = L \/ m + 1 \in 0 .. L  BY <1>2
  <2> QED  BY <2>1, <2>2, <1>2, <1>4
<1>6. Ring(a) \subseteq R
  <2> HIDE DEF R
  <2> QED  BY <1>3, <1>4, <1>5 DEF Ring
<1>7. ASSUME NEW S \in SUBSET DOMAIN next, a \in S, \A y \in S : next[y] \in S
      PROVE  R \subseteq S
  <2> DEFINE T == {m \in 0 .. L : node(m) \notin S}
  <2>1. SUFFICES ASSUME T # {}  PROVE FALSE  OBVIOUS
  <2>2. T \subseteq Nat  BY <1>2
  <2>3. PICK k \in T : \A l \in T : k <= l
    <3> HIDE DEF T
    <3> QED  BY <2>1, <2>2, LeastOf
  <2>4. k # 0  BY <1>2, <1>7
  <2>5. k - 1 \in 0 .. L /\ k - 1 + 1 = k /\ ~ k <= k - 1  BY <2>4, <1>2
  <2>6. node(k - 1) \in S  BY <2>3, <2>5
  <2>7. next[node(k - 1)] = node(k)  BY <2>5, <1>1
  <2> QED  BY <2>6, <2>7, <1>7
<1>8. R \subseteq Ring(a)
  <2> HIDE DEF R
  <2> QED  BY <1>3, <1>7 DEF Ring
<1> QED  BY <1>6, <1>8 DEF node

LEMMA ReverseKeeps ==
  ASSUME ListInv, NEW a \in Lists, Reverse(a)
  PROVE  ListInv'
<1> DEFINE c == content
           d == content'
           L == Len(c[a])
           was(b, m) == IF b = a THEN L + 1 - m ELSE m
<1>1. /\ c \in Contents /\ Distinct(c) /\ Forth(next, c) /\ Back(prev, c)
      /\ DOMAIN next = Linked(c) /\ DOMAIN prev = Linked(c)
  BY InvFacts
<1>2. L \in Nat /\ DOMAIN c[a] = 1 .. L /\ c[a] \in Seq(Nodes)  BY <1>1, SpotValue
<1>3. \A b \in Lists : d[b] = IF b = a THEN [m \in 1 .. L |-> c[a][L + 1 - m]] ELSE c[b]
  BY <1>1, <1>2 DEF Reverse, Contents
<1>4. d[a] \in Seq(Nodes) /\ Len(d[a]) = L
  <2>1. \A m \in 1 .. L : c[a][L + 1 - m] \in Nodes
    <3> TAKE m \in 1 .. L
    <3>1. L + 1 - m \in 1 .. L  BY <1>2
    <3> QED  BY <3>1, <1>1, SpotValue
  <2>2. d[a] = [m \in 1 .. L |-> c[a][L + 1 - m]]  BY <1>3
  <2>3. d[a] \in [1 .. L -> Nodes]  BY <2>1, <2>2
  <2> HIDE DEF c, d, L
  <2> QED  BY <2>3, <1>2
<1>5. d \in Contents
  <2>1. d = [b \in Lists |-> d[b]]  BY <1>1 DEF Reverse, Contents
  <2>2. \A b \in Lists : d[b] \in Seq(Nodes)  BY <1>1, <1>3, <1>4, SpotValue
  <2> QED  BY <2>1, <2>2 DEF Contents
<1>6. ASSUME NEW b \in Lists
      PROVE  /\ Len(d[b]) = Len(c[b]) /\ Len(c[b]) \in Nat
             /\ b = a => Len(c[b]) = L
  BY <1>1, <1>3, <1>4, SpotValue
<1>7. ASSUME NEW b \in Lists, NEW m \in 0 .. Len(c[b]) + 1
      PROVE  Spot(d[b], b, m) = Spot(c[b], b, was(b, m))
  <2>1. CASE b # a  BY <2>1, <1>3
  <2>2. CASE b = a
    <3>1. DOMAIN d[a] = 1 .. L /\ m \in 0 .. L + 1  BY <2>2, <1>3
    <3>2. m \in 1 .. L <=> L + 1 - m \in 1 .. L  BY <1>2, <3>1
    <3>3. m \in 1 .. L => d[a][m] = c[a][L + 1 - m]  BY <1>3
    <3> HIDE DEF c, d, L
    <3> QED  BY <2>2, <3>1, <3>2, <3>3, <1>2 DEF Spot
  <2> QED  BY <2>1, <2>2
<1>8. ASSUME NEW b \in Lists, NEW m \in 0 .. Len(c[b]) + 1
      PROVE  /\ was(b, m) \in 0 .. Len(c[b]) + 1 /\ was(b, was(b, m)) = m
             /\ m \in 1 .. Len(c[b]) => was(b, m) \in 1 .. Len(c[b])
  BY <1>6
<1> HIDE DEF c, d
<1>9. Distinct(d)
  <2> SUFFICES ASSUME NEW b \in Lists, NEW e \in Lists,
                      NEW m \in DOMAIN d[b], NEW k \in DOMAIN d[e], d[b][m] = d[e][k]
               PROVE  b = e /\ m = k
    BY DEF Distinct
  <2>1. m \in 1 .. Len(d[b]) /\ k \in 1 .. Len(d[e])  BY <1>5, SpotValue
  <2>2. Spot(d[b], b, m) = d[b][m] /\ Spot(d[e], e, k) = d[e][k]
    <3>1. Spot(d[b], b, m) = d[b][m]  BY <1>5, <2>1, SpotValue
    <3>2. Spot(d[e], e, k) = d[e][k]  BY <1>5, <2>1, SpotValue
    <3> QED  BY <3>1, <3>2
  <2>3. /\ m \in 1 .. Len(c[b]) /\ m \in 0 .. Len(c[b]) + 1
        /\ k \in 1 .. Len(c[e]) /\ k \in 0 .. Len(c[e]) + 1
    BY <2>1, <1>6
  <2>4. Spot(c[b], b, was(b, m)) = Spot(c[e], e, was(e, k))  BY <2>2, <2>3, <1>7
  <2>5. was(b, m) \in 0 .. Len(c[b]) /\ was(e, k) \in 0 .. Len(c[e])
    <3>1. was(b, m) \in 1 .. Len(c[b]) /\ was(e, k) \in 1 .. Len(c[e])  BY <2>3, <1>8
    <3> QED  BY <3>1, <1>6
  <2>6. b = e /\ was(b, m) = was(e, k)
    <3> HIDE DEF was
    <3> QED  BY <2>4, <2>5, <1>1, SpotOnce
  <2>7. was(b, was(b, m)) = m /\ was(e, was(e, k)) = k
    <3> HIDE DEF was
    <3> QED  BY <2>3, <1>8
  <2> HIDE DEF was
  <2> QED  BY <2>6, <2>7
<1>10. ASSUME NEW b \in Lists, NEW m \in 0 .. Len(c[b]) + 1
       PROVE  Spot(d[b], b, m) \in Linked(c) /\ Spot(c[b], b, m) \in Linked(d)
  <2> DEFINE w == was(b, m)
  <2> HIDE DEF was
  <2>1. w \in 0 .. Len(c[b]) + 1 /\ was(b, w) = m  BY <1>8
  <2> HIDE DEF w
  <2>2. w \in Int  BY <2>1, <1>6
  <2>3. Spot(d[b], b, m) = Spot(c[b], b, w)  BY <1>7 DEF w
  <2>4. Spot(d[b], b, w) = Spot(c[b], b, m)  BY <2>1, <1>7
  <2> QED  BY <2>2, <2>3, <2>4, <1>1, <1>5, SpotValue
<1>11. Linked(d) = Linked(c)
  <2>1. ASSUME NEW x \in Linked(d)  PROVE x \in Linked(c)
    <3>1. PICK b \in Lists : \E m \in 0 .. Len(d[b]) : x = Spot(d[b], b, m)  BY <1>5, SpotEvery
    <3>2. PICK m \in 0 .. Len(d[b]) : x = Spot(d[b], b, m)  BY <3>1
    <3>3. m \in 0 .. Len(c[b]) + 1  BY <1>6
    <3> QED  BY <3>2, <3>3, <1>10
  <2>2. ASSUME NEW x \in Linked(c)  PROVE x \in Linked(d)
    <3>1. PICK b \in Lists : \E m \in 0 .. Len(c[b]) : x = Spot(c[b], b, m)  BY <1>1, SpotEvery
    <3>2. PICK m \in 0 .. Len(c[b]) : x = Spot(c[b], b, m)  BY <3>1
    <3>3. m \in 0 .. Len(c[b]) + 1  BY <1>6
    <3> QED  BY <3>2, <3>3, <1>10
  <2> QED  BY <2>1, <2>2
<1>12. /\ next' = [x \in Linked(c) |-> IF x \in Ring(a) THEN prev[x] ELSE next[x]]
       /\ prev' = [x \in Linked(c) |-> IF x \in Ring(a) THEN next[x] ELSE prev[x]]
  BY <1>1 DEF Reverse, _M_reverse
<1>13. ASSUME NEW m \in 0 .. L + 1
       PROVE  Spot(c[a], a, m) \in Ring(a)
  <2>1. Ring(a) = {Spot(c[a], a, q) : q \in 0 .. L}  BY RingIs DEF c
  <2>2. CASE m = L + 1
    <3>1. Spot(c[a], a, m) = Spot(c[a], a, 0) /\ 0 \in 0 .. L  BY <2>2, <1>1, <1>2, SpotValue
    <3> QED  BY <2>1, <3>1
  <2>3. CASE m # L + 1
    <3>1. m \in 0 .. L  BY <2>3, <1>2
    <3> QED  BY <2>1, <3>1
  <2> QED  BY <2>2, <2>3
<1>14. ASSUME NEW b \in Lists, b # a, NEW m \in 0 .. Len(c[b]) + 1
       PROVE  Spot(c[b], b, m) \notin Ring(a)
  <2> DEFINE q == IF m = Len(c[b]) + 1 THEN 0 ELSE m
  <2>1. Spot(c[b], b, m) = Spot(c[b], b, q) /\ q \in 0 .. Len(c[b])
    BY <1>1, <1>6, SpotValue
  <2> HIDE DEF q
  <2>2. \A r \in 0 .. L : Spot(c[b], b, q) # Spot(c[a], a, r)
    BY <1>1, <1>14, <2>1, SpotOnce
  <2>3. Ring(a) = {Spot(c[a], a, r) : r \in 0 .. L}  BY RingIs DEF c
  <2> QED  BY <2>1, <2>2, <2>3
<1>15. ASSUME NEW b \in Lists, NEW m \in 0 .. Len(d[b])
       PROVE  /\ next'[Spot(d[b], b, m)] = Spot(d[b], b, m + 1)
              /\ prev'[Spot(d[b], b, m + 1)] = Spot(d[b], b, m)
  <2>1. /\ m \in 0 .. Len(c[b]) /\ m + 1 \in 1 .. Len(c[b]) + 1
        /\ m \in 0 .. Len(c[b]) + 1 /\ m + 1 \in 0 .. Len(c[b]) + 1
    BY <1>6
  <2>2. Spot(d[b], b, m) \in Linked(c) /\ Spot(d[b], b, m + 1) \in Linked(c)  BY <2>1, <1>10
  <2>3. CASE b # a
    <3>1. Spot(d[b], b, m) = Spot(c[b], b, m) /\ Spot(d[b], b, m + 1) = Spot(c[b], b, m + 1)
      BY <2>1, <2>3, <1>7
    <3>2. Spot(c[b], b, m) \notin Ring(a) /\ Spot(c[b], b, m + 1) \notin Ring(a)
      BY <2>1, <2>3, <1>14
    <3>3. /\ next[Spot(c[b], b, m)] = Spot(c[b], b, m + 1)
          /\ prev[Spot(c[b], b, m + 1)] = Spot(c[b], b, m)
      BY <2>1, <1>1 DEF Forth, Back
    <3> QED  BY <2>2, <3>1, <3>2, <3>3, <1>12
  <2>4. CASE b = a
    <3> DEFINE k == L - m
    <3>1. /\ k \in 0 .. L /\ k + 1 \in 1 .. L + 1 /\ k \in 0 .. L + 1 /\ k + 1 \in 0 .. L + 1
          /\ L + 1 - m = k + 1 /\ L + 1 - (m + 1) = k
      BY <2>1, <2>4, <1>2
    <3>2. Spot(d[a], a, m) = Spot(c[a], a, k + 1) /\ Spot(d[a], a, m + 1) = Spot(c[a], a, k)
      BY <2>1, <2>4, <3>1, <1>7
    <3> HIDE DEF k
    <3>3. Spot(c[a], a, k) \in Ring(a) /\ Spot(c[a], a, k + 1) \in Ring(a)  BY <3>1, <1>13
    <3>4. next[Spot(c[a], a, k)] = Spot(c[a], a, k + 1)  BY <3>1, <1>1 DEF Forth
    <3>5. prev[Spot(c[a], a, k + 1)] = Spot(c[a], a, k)  BY <3>1, <1>1 DEF Back
    <3> QED  BY <2>2, <2>4, <3>2, <3>3, <3>4, <3>5, <1>12
  <2> QED  BY <2>3, <2>4
<1>16. Forth(next', d) /\ Back(prev', d)  BY <1>15 DEF Forth, Back
<1> QED  BY <1>5, <1>9, <1>11, <1>12, <1>16, InvAgain DEF d

(* What swap does: the two headers trade places.                             *)
Traded(a, b, x) == IF x = a THEN b ELSE IF x = b THEN a ELSE x

LEMMA LinkedFacts ==
  ASSUME ListInv, NEW x \in Linked(content)
  PROVE  /\ next[x] \in Linked(content) /\ prev[x] \in Linked(content)
         /\ prev[next[x]] = x /\ next[prev[x]] = x
BY InvFacts, RingsLink

LEMMA HeadersApart ==
  ASSUME ListInv, NEW a \in Lists, NEW b \in Lists, a # b
  PROVE  next[a] # b /\ prev[a] # b
<1> DEFINE c == content
<1>1. c \in Contents /\ Distinct(c)  BY InvFacts
<1>2. /\ Len(c[a]) \in Nat /\ Spot(c[a], a, 0) = a /\ Spot(c[a], a, Len(c[a]) + 1) = a
      /\ Len(c[b]) \in Nat /\ Spot(c[b], b, 0) = b
  BY <1>1, SpotValue
<1>3. /\ 0 \in 0 .. Len(c[a]) /\ Len(c[a]) + 1 \in 1 .. Len(c[a]) + 1
      /\ Len(c[a]) \in 0 .. Len(c[a]) /\ Len(c[a]) + 1 - 1 = Len(c[a]) /\ 0 \in 0 .. Len(c[b])
  BY <1>2
<1>4. prev[a] # b
  <2>1. prev[a] = Spot(c[a], a, Len(c[a]))  BY <1>2, <1>3, Neighbours
  <2>2. Spot(c[a], a, Len(c[a])) # Spot(c[b], b, 0)  BY <1>1, <1>3, SpotOnce
  <2> QED  BY <1>2, <2>1, <2>2
<1>5. next[a] # b
  <2>1. SUFFICES ASSUME next[a] = b  PROVE FALSE  OBVIOUS
  <2>2. a \in Linked(c) /\ prev[b] = a  BY <2>1, LinkedFacts DEF Linked
  <2>3. prev[b] = Spot(c[b], b, Len(c[b]))
    <3>1. Spot(c[b], b, Len(c[b]) + 1) = b  BY <1>1, SpotValue
    <3>2. Len(c[b]) + 1 \in 1 .. Len(c[b]) + 1 /\ Len(c[b]) + 1 - 1 = Len(c[b])  BY <1>2
    <3>3. prev[Spot(c[b], b, Len(c[b]) + 1)] = Spot(c[b], b, Len(c[b]) + 1 - 1)
      BY <3>2, Neighbours
    <3> QED  BY <3>1, <3>2, <3>3
  <2>4. Len(c[b]) \in 0 .. Len(c[b])  BY <1>2
  <2>5. Spot(c[b], b, Len(c[b])) # Spot(c[a], a, 0)  BY <1>1, <1>3, <2>4, SpotOnce
  <2> QED  BY <1>2, <2>2, <2>3, <2>5
<1> QED  BY <1>4, <1>5

LEMMA SwapTrades ==
  ASSUME ListInv, NEW a \in Lists, NEW b \in Lists, a # b, swap(a, b), NEW x \in Linked(content)
  PROVE  /\ next'[x] = Traded(a, b, next[Traded(a, b, x)])
         /\ prev'[x] = Traded(a, b, prev[Traded(a, b, x)])
<1> DEFINE S == Linked(content)
<1>1. next = [y \in S |-> next[y]] /\ prev = [y \in S |-> prev[y]]  BY InvFacts
<1>2. a \in S /\ b \in S  BY DEF Linked
<1>3. \A y \in S : /\ next[y] \in S /\ prev[y] \in S
                   /\ prev[next[y]] = y /\ next[prev[y]] = y
  BY LinkedFacts
<1>4. next[a] # b /\ prev[a] # b /\ next[b] # a /\ prev[b] # a  BY HeadersApart
<1> HIDE DEF S
<1>5. next[a] # a <=> prev[a] # a  BY <1>2, <1>3
<1>6. next[b] # b <=> prev[b] # b  BY <1>2, <1>3
<1>7. /\ next[x] = a <=> x = prev[a]
      /\ next[x] = b <=> x = prev[b]
      /\ prev[x] = a <=> x = next[a]
      /\ prev[x] = b <=> x = next[b]
  BY <1>2, <1>3 DEF S
<1>8. x \in S  BY DEF S
<1>9. CASE next[a] # a /\ next[b] # b /\ Exchange(a, b)
  <2> DEFINE n == [next EXCEPT ![a] = next[b], ![b] = next[a]]
             p == [prev EXCEPT ![a] = prev[b], ![b] = prev[a]]
  <2>1. \A y \in S : n[y] = IF y = b THEN next[a] ELSE IF y = a THEN next[b] ELSE next[y]
    BY <1>1
  <2>2. \A y \in S : p[y] = IF y = b THEN prev[a] ELSE IF y = a THEN prev[b] ELSE prev[y]
    BY <1>1
  <2>3. n[a] = next[b] /\ n[b] = next[a] /\ p[a] = prev[b] /\ p[b] = prev[a]  BY <1>2, <2>1, <2>2
  <2>4. DOMAIN n = S /\ DOMAIN p = S  BY <1>1
  <2>5. /\ next' = [n EXCEPT ![p[a]] = a, ![p[b]] = b]
        /\ prev' = [p EXCEPT ![n[a]] = a, ![n[b]] = b]
    BY <1>9 DEF Exchange
  <2> HIDE DEF n, p
  <2>6. next'[x] = IF x = prev[a] THEN b ELSE IF x = prev[b] THEN a ELSE n[x]
    BY <2>3, <2>4, <2>5, <1>8
  <2>7. prev'[x] = IF x = next[a] THEN b ELSE IF x = next[b] THEN a ELSE p[x]
    BY <2>3, <2>4, <2>5, <1>8
  <2> QED
    <3>1. next'[x] = Traded(a, b, next[Traded(a, b, x)])
      BY <2>6, <2>1, <1>4, <1>5, <1>6, <1>7, <1>8, <1>9 DEF Traded
    <3>2. prev'[x] = Traded(a, b, prev[Traded(a, b, x)])
      BY <2>7, <2>2, <1>4, <1>5, <1>6, <1>7, <1>8, <1>9 DEF Traded
    <3> QED  BY <3>1, <3>2
<1>10. ASSUME NEW e \in {a, b}, NEW f \in {a, b}, e # f, next[e] # e, next[f] = f, Take(e, f)
       PROVE  /\ next'[x] = Traded(a, b, next[Traded(a, b, x)])
              /\ prev'[x] = Traded(a, b, prev[Traded(a, b, x)])
  <2>1. next'[x] = IF x = e THEN e ELSE IF x = prev[e] THEN f ELSE IF x = f THEN next[e] ELSE next[x]
    BY <1>1, <1>8, <1>10 DEF Take
  <2>2. prev'[x] = IF x = e THEN e ELSE IF x = next[e] THEN f ELSE IF x = f THEN prev[e] ELSE prev[x]
    BY <1>1, <1>8, <1>10 DEF Take
  <2>3. prev[f] = f  BY <1>5, <1>6, <1>10
  <2>4. next'[x] = Traded(a, b, next[Traded(a, b, x)])
    BY <2>1, <2>3, <1>4, <1>5, <1>6, <1>7, <1>8, <1>10 DEF Traded
  <2>5. prev'[x] = Traded(a, b, prev[Traded(a, b, x)])
    BY <2>2, <2>3, <1>4, <1>5, <1>6, <1>7, <1>8, <1>10 DEF Traded
  <2> QED  BY <2>4, <2>5
<1>11. CASE next[a] = a /\ next[b] = b /\ UNCHANGED <<next, prev>>
  BY <1>4, <1>5, <1>6, <1>7, <1>8, <1>11 DEF Traded
<1> QED  BY <1>9, <1>10, <1>11 DEF swap

LEMMA SwapKeeps ==
  ASSUME ListInv, NEW a \in Lists, NEW b \in Lists, Swap(a, b)
  PROVE  ListInv'
<1> DEFINE c == content
           d == content'
           flip(e) == Traded(a, b, e)
<1>1. /\ c \in Contents /\ Distinct(c) /\ Forth(next, c) /\ Back(prev, c)
      /\ next = [x \in Linked(c) |-> next[x]] /\ prev = [x \in Linked(c) |-> prev[x]]
  BY InvFacts
<1>2. a # b /\ swap(a, b) /\ d = [c EXCEPT ![a] = c[b], ![b] = c[a]]  BY DEF Swap
<1>3. ASSUME NEW e \in Lists
      PROVE  flip(e) \in Lists /\ flip(flip(e)) = e /\ d[e] = c[flip(e)]
  BY <1>1, <1>2 DEF Contents, Traded
<1>4. d \in Contents
  <2>1. d = [e \in Lists |-> d[e]]  BY <1>1, <1>2 DEF Contents
  <2>2. \A e \in Lists : d[e] \in Seq(Nodes)  BY <1>1, <1>3 DEF Contents
  <2> QED  BY <2>1, <2>2 DEF Contents
<1> HIDE DEF c, d, flip
<1>5. Distinct(d)
  <2> SUFFICES ASSUME NEW e \in Lists, NEW f \in Lists,
                      NEW m \in DOMAIN d[e], NEW k \in DOMAIN d[f], d[e][m] = d[f][k]
               PROVE  e = f /\ m = k
    BY DEF Distinct
  <2>1. flip(e) = flip(f) /\ m = k  BY <1>1, <1>3 DEF Distinct
  <2> QED  BY <2>1, <1>3
<1>6. Linked(d) = Linked(c)
  <2>1. \A e \in Lists : Elems(d[e]) = Elems(c[flip(e)])  BY <1>3
  <2>2. \A e \in Lists : Elems(c[e]) = Elems(d[flip(e)])
    <3> TAKE e \in Lists
    <3>1. flip(e) \in Lists /\ flip(flip(e)) = e  BY <1>3
    <3> QED  BY <2>1, <3>1
  <2> HIDE DEF flip
  <2>3. UNION {Elems(d[e]) : e \in Lists} = UNION {Elems(c[e]) : e \in Lists}
    BY <1>3, <2>1, <2>2
  <2> QED  BY <2>3 DEF Linked
<1>7. ASSUME NEW e \in Lists, NEW m \in 0 .. Len(d[e]) + 1
      PROVE  Spot(d[e], e, m) = flip(Spot(c[flip(e)], flip(e), m))
  <2>1. CASE m \in DOMAIN d[e]
    <3>1. d[e][m] \in Nodes  BY <2>1, <1>4, SpotValue
    <3>2. d[e][m] # a /\ d[e][m] # b  BY <3>1, ListAssumption
    <3>3. Spot(d[e], e, m) = d[e][m] /\ Spot(c[flip(e)], flip(e), m) = d[e][m]
      BY <2>1, <1>3 DEF Spot
    <3> QED  BY <3>2, <3>3 DEF flip, Traded
  <2>2. CASE m \notin DOMAIN d[e]
    <3>1. Spot(d[e], e, m) = e /\ Spot(c[flip(e)], flip(e), m) = flip(e)
      BY <2>2, <1>3 DEF Spot
    <3> QED  BY <3>1, <1>3
  <2> QED  BY <2>1, <2>2
<1>8. \A x : flip(flip(x)) = x  BY <1>2 DEF flip, Traded
<1>9. \A x \in Linked(c) : next'[x] = flip(next[flip(x)]) /\ prev'[x] = flip(prev[flip(x)])
  BY <1>2, SwapTrades DEF c, flip
<1>10. ASSUME NEW e \in Lists, NEW m \in 0 .. Len(d[e])
       PROVE  /\ next'[Spot(d[e], e, m)] = Spot(d[e], e, m + 1)
              /\ prev'[Spot(d[e], e, m + 1)] = Spot(d[e], e, m)
  <2> DEFINE f == flip(e)
             x == Spot(c[f], f, m)
             y == Spot(c[f], f, m + 1)
  <2>1. f \in Lists /\ d[e] = c[f] /\ Len(d[e]) \in Nat  BY <1>3, <1>4, SpotValue
  <2>2. m \in 0 .. Len(d[e]) + 1 /\ m + 1 \in 0 .. Len(d[e]) + 1 /\ m \in Int /\ m + 1 \in Int
    BY <2>1
  <2>3. Spot(d[e], e, m) = flip(x) /\ Spot(d[e], e, m + 1) = flip(y)  BY <2>2, <1>7
  <2>4. flip(x) \in Linked(c) /\ flip(y) \in Linked(c)
    <3> HIDE DEF f, x, y
    <3> QED  BY <2>2, <2>3, <1>4, <1>6, SpotValue
  <2>5. next[x] = y /\ prev[y] = x
    <3> HIDE DEF f
    <3>1. m \in 0 .. Len(c[f])  BY <2>1
    <3> QED  BY <2>1, <3>1, <1>1 DEF Forth, Back
  <2> HIDE DEF f, x, y
  <2> QED  BY <2>3, <2>4, <2>5, <1>8, <1>9
<1>11. Forth(next', d) /\ Back(prev', d)  BY <1>10 DEF Forth, Back
<1>12. next' = [x \in Linked(c) |-> next'[x]] /\ prev' = [x \in Linked(c) |-> prev'[x]]
  BY <1>1, <1>2 DEF swap, Exchange, Take
<1> QED  BY <1>4, <1>5, <1>6, <1>11, <1>12, InvAgain DEF d

(***************************************************************************)
(* The theorems.                                                           *)
(***************************************************************************)
LEMMA InvInit == ListInit => ListInv
<1> SUFFICES ASSUME ListInit  PROVE ListInv  OBVIOUS
<1>1. \A a \in Lists : content[a] = <<>> /\ Len(content[a]) = 0 /\ DOMAIN content[a] = {}
  BY DEF ListInit
<1>2. content \in [Lists -> Seq(Nodes)]  BY DEF ListInit
<1>3. Linked(content) = Lists  BY <1>1 DEF Linked, Elems
<1>4. Distinct(content)  BY <1>1 DEF Distinct
<1>5. \A a \in Lists : \A m : Spot(content[a], a, m) = a  BY <1>1 DEF Spot
<1>6. Forth(next, content) /\ Back(prev, content)  BY <1>5 DEF ListInit, Forth, Back
<1> QED  BY <1>2, <1>3, <1>4, <1>6 DEF ListInv, ListInit

LEMMA InvNext == ListInv /\ [ListNext]_listVars => ListInv'
<1> SUFFICES ASSUME ListInv, [ListNext]_listVars  PROVE ListInv'  OBVIOUS
<1>1. ASSUME NEW a \in Lists, NEW n \in Nodes, NEW i \in Places(a), InsertBefore(a, i, n)
      PROVE  ListInv'
  BY <1>1, InsertKeeps
<1>2. ASSUME NEW a \in Lists, NEW i \in Places(a), EraseAt(a, i)
      PROVE  ListInv'
  BY <1>2, EraseKeeps
<1>3. ASSUME NEW a \in Lists, NEW b \in Lists, NEW i \in Places(a), NEW j \in Places(a),
             NEW k \in Places(b), Splice(a, i, j, b, k)
      PROVE  ListInv'
  BY <1>3, SpliceKeeps
<1>4. ASSUME NEW a \in Lists, Reverse(a)
      PROVE  ListInv'
  BY <1>4, ReverseKeeps
<1>5. ASSUME NEW a \in Lists, NEW b \in Lists, Swap(a, b)
      PROVE  ListInv'
  BY <1>5, SwapKeeps
<1>6. CASE UNCHANGED listVars
  BY <1>6 DEF ListInv, listVars, Linked, Elems, Distinct, Forth, Back
<1> QED  BY <1>1, <1>2, <1>3, <1>4, <1>5, <1>6 DEF ListNext

LEMMA InvLinks == ListInv => DoublyLinked
<1> SUFFICES ASSUME ListInv  PROVE DoublyLinked  OBVIOUS
<1>1. /\ DOMAIN next = Linked(content) /\ next = [x \in Linked(content) |-> next[x]]
      /\ prev = [x \in Linked(content) |-> prev[x]]
  BY InvFacts
<1>2. \A x \in Linked(content) : /\ next[x] \in Linked(content) /\ prev[x] \in Linked(content)
                                 /\ prev[next[x]] = x /\ next[prev[x]] = x
  BY LinkedFacts
<1> DEFINE S == Linked(content)
<1>3. next \in [S -> S] /\ prev \in [S -> S]
  <2>1. /\ next = [x \in S |-> next[x]] /\ prev = [x \in S |-> prev[x]]
        /\ \A x \in S : next[x] \in S /\ prev[x] \in S
    BY <1>1, <1>2
  <2> HIDE DEF S
  <2> QED  BY <2>1
<1> QED  BY <1>1, <1>2, <1>3 DEF DoublyLinked

LEMMA InvRings == ListInv => RingsMatch
<1> SUFFICES ASSUME ListInv  PROVE RingsMatch  OBVIOUS
<1>1. Forth(next, content)  BY InvFacts
<1>2. \A a, m : At(a, m) = Spot(content[a], a, m)  BY DEF At, Spot
<1> QED  BY <1>1, <1>2 DEF RingsMatch, Forth

LEMMA InvAlways == ListSpec => []ListInv
BY InvInit, InvNext, PTL DEF ListSpec

(* Whatever is inserted, erased, spliced, reversed and swapped in any number *)
(* of lists, every linked node's neighbours are linked and point back at it: *)
(* no walk leaves the lists, and none reaches an erased node.                *)
THEOREM ListsStayLinked == ListSpec => []DoublyLinked
BY InvAlways, InvLinks, PTL

(* A walk over any list meets the elements that the calls put there, in the  *)
(* order they promise, and then the header again.                            *)
THEOREM ListsHoldTheirElements == ListSpec => []RingsMatch
BY InvAlways, InvRings, PTL
=============================================================================
