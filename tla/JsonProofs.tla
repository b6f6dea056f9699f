----------------------------- MODULE JsonProofs -----------------------------
(* What the list surgery of JsonTree.tla does to the trees, for a heap of    *)
(* any size and lists of any length.  What the code looks up, deletes and    *)
(* copies is recursive and not treated here: an operation starts from the    *)
(* place that was found and ends where a deletion would begin.               *)
EXTENDS JsonLinks, SequenceTheorems, TLAPS

Nodes(h) == {a \in Addr : IsNode(h, a)}
Strings(h) == {a \in Addr : h[a] # Free /\ ~ IsNode(h, a)}

(* k[p] are p's children, in order, and every item has one place at most.    *)
Places(h, k) ==
  /\ k \in [Addr -> Seq(Addr)]
  /\ \A p \in Nodes(h) : \A i \in DOMAIN k[p] : k[p][i] \in Nodes(h)
  /\ \A p, q \in Nodes(h) : \A i \in DOMAIN k[p], j \in DOMAIN k[q] :
       k[p][i] = k[q][j] => p = q /\ i = j

(* The items of r have no place, and no sibling behind them. *)
Roots(h, k, r) ==
  /\ r \subseteq Nodes(h)
  /\ \A x \in r : h[x].next = Null
  /\ \A p \in Nodes(h) : \A i \in DOMAIN k[p] : k[p][i] \notin r

Pointers(h) ==
  \A x \in Nodes(h) :
    /\ {h[x].next, h[x].prev, h[x].child} \subseteq Nodes(h) \cup {Null}
    /\ h[x].str \in Strings(h) \cup {Null}
    /\ h[x].key \in IF h[x].constKey THEN Literals ELSE Strings(h) \cup {Null}

(* A string belongs to one item, as its text or as its name. *)
Owned(h) ==
  \A x, y \in Nodes(h) :
    /\ h[x].str # Null /\ h[x].str = h[y].str => x = y
    /\ ~ h[x].constKey /\ h[x].key # Null =>
         /\ h[x].key # h[y].str
         /\ ~ h[y].constKey /\ h[x].key = h[y].key => x = y

ListsInv(h, k, r) ==
  /\ h \in Heaps
  /\ Places(h, k) /\ Roots(h, k, r)
  /\ \A p \in Nodes(h) : Siblings(h, p, k[p])
  /\ Pointers(h) /\ Owned(h)

(***************************************************************************)
(* Cells and fields.                                                       *)
(***************************************************************************)
LEMMA NodeCell ==
  ASSUME NEW h \in Heaps, NEW a \in Nodes(h)
  PROVE  a \in Addr /\ h[a] \in Node /\ h[a] # Free
BY DEF Heaps, Nodes, IsNode, Block

LEMMA CellNode ==
  ASSUME NEW h \in Heaps, NEW a \in Addr, h[a] \in Node
  PROVE  a \in Nodes(h)
BY FreeAssumption DEF Heaps, Nodes, IsNode, Node

(* Only next, prev and child of items change. *)
Rewired(h, g) ==
  /\ g \in Heaps /\ Nodes(g) = Nodes(h) /\ Strings(g) = Strings(h)
  /\ \A a \in Nodes(h) : /\ g[a].kind = h[a].kind /\ g[a].str = h[a].str
                         /\ g[a].key = h[a].key /\ g[a].constKey = h[a].constKey

LEMMA PutCell ==
  ASSUME NEW h \in Heaps, NEW a \in Nodes(h), NEW c \in Node
  PROVE  /\ [h EXCEPT ![a] = c] \in Heaps
         /\ Nodes([h EXCEPT ![a] = c]) = Nodes(h)
         /\ Strings([h EXCEPT ![a] = c]) = Strings(h)
         /\ \A b \in Nodes(h) : [h EXCEPT ![a] = c][b] = IF b = a THEN c ELSE h[b]
<1> DEFINE g == [h EXCEPT ![a] = c]
<1>1. a \in Addr /\ h[a] \in Node  BY NodeCell
<1>2. g \in Heaps /\ g[a] = c /\ \A b \in Addr \ {a} : g[b] = h[b]  BY <1>1 DEF Heaps
<1> HIDE DEF g
<1>3. IsNode(g, a) /\ g[a] # Free
  <2>1. a \in Nodes(g)  BY <1>1, <1>2, CellNode
  <2> QED  BY <2>1 DEF Nodes, IsNode
<1>4. IsNode(h, a)  BY DEF Nodes
<1>5. \A b \in Addr : IsNode(g, b) <=> IsNode(h, b)  BY <1>2, <1>3, <1>4 DEF IsNode
<1>6. Nodes(g) = Nodes(h)  BY <1>5 DEF Nodes
<1>7. Strings(g) = Strings(h)
  <2>1. \A b \in Addr : (g[b] # Free /\ ~ IsNode(g, b)) <=> (h[b] # Free /\ ~ IsNode(h, b))
    BY <1>2, <1>3, <1>4, <1>5
  <2> QED  BY <2>1 DEF Strings
<1>8. Nodes(h) \subseteq Addr  BY DEF Nodes
<1>9. \A b \in Nodes(h) : g[b] = IF b = a THEN c ELSE h[b]  BY <1>2, <1>8
<1> QED  BY <1>2, <1>6, <1>7, <1>9 DEF g

LEMMA Rewrite ==
  ASSUME NEW h \in Heaps, NEW a \in Nodes(h), NEW c \in Node,
         c.kind = h[a].kind, c.str = h[a].str, c.key = h[a].key, c.constKey = h[a].constKey
  PROVE  Rewired(h, [h EXCEPT ![a] = c])
BY PutCell DEF Rewired

PutNext(h, a, v) == [h EXCEPT ![a].next = v]

PutPrev(h, a, v) == [h EXCEPT ![a].prev = v]

PutChild(h, a, v) == [h EXCEPT ![a].child = v]

LEMMA WriteNext ==
  ASSUME NEW h \in Heaps, NEW a \in Nodes(h), NEW v \in Ptr
  PROVE  /\ Rewired(h, PutNext(h, a, v))
         /\ \A b \in Nodes(h) :
              /\ PutNext(h, a, v)[b].next = IF b = a THEN v ELSE h[b].next
              /\ PutNext(h, a, v)[b].prev = h[b].prev
              /\ PutNext(h, a, v)[b].child = h[b].child
<1> DEFINE c == [h[a] EXCEPT !.next = v]
           g == [h EXCEPT ![a] = c]
<1>1. a \in Addr /\ h[a] \in Node  BY NodeCell
<1>2. /\ c \in Node /\ c.next = v /\ c.prev = h[a].prev /\ c.child = h[a].child
      /\ c.kind = h[a].kind /\ c.str = h[a].str /\ c.key = h[a].key
      /\ c.constKey = h[a].constKey
  BY <1>1 DEF Node
<1>3. Rewired(h, g)  BY <1>2, Rewrite
<1>4. PutNext(h, a, v) = g  BY DEF PutNext
<1>5. \A b \in Nodes(h) : g[b] = IF b = a THEN c ELSE h[b]  BY DEF Nodes, Heaps
<1> HIDE DEF c, g
<1> QED  BY <1>2, <1>3, <1>4, <1>5

LEMMA WritePrev ==
  ASSUME NEW h \in Heaps, NEW a \in Nodes(h), NEW v \in Ptr
  PROVE  /\ Rewired(h, PutPrev(h, a, v))
         /\ \A b \in Nodes(h) :
              /\ PutPrev(h, a, v)[b].prev = IF b = a THEN v ELSE h[b].prev
              /\ PutPrev(h, a, v)[b].next = h[b].next
              /\ PutPrev(h, a, v)[b].child = h[b].child
<1> DEFINE c == [h[a] EXCEPT !.prev = v]
           g == [h EXCEPT ![a] = c]
<1>1. a \in Addr /\ h[a] \in Node  BY NodeCell
<1>2. /\ c \in Node /\ c.prev = v /\ c.next = h[a].next /\ c.child = h[a].child
      /\ c.kind = h[a].kind /\ c.str = h[a].str /\ c.key = h[a].key
      /\ c.constKey = h[a].constKey
  BY <1>1 DEF Node
<1>3. Rewired(h, g)  BY <1>2, Rewrite
<1>4. PutPrev(h, a, v) = g  BY DEF PutPrev
<1>5. \A b \in Nodes(h) : g[b] = IF b = a THEN c ELSE h[b]  BY DEF Nodes, Heaps
<1> HIDE DEF c, g
<1> QED  BY <1>2, <1>3, <1>4, <1>5

LEMMA WriteChild ==
  ASSUME NEW h \in Heaps, NEW a \in Nodes(h), NEW v \in Ptr
  PROVE  /\ Rewired(h, PutChild(h, a, v))
         /\ \A b \in Nodes(h) :
              /\ PutChild(h, a, v)[b].child = IF b = a THEN v ELSE h[b].child
              /\ PutChild(h, a, v)[b].next = h[b].next
              /\ PutChild(h, a, v)[b].prev = h[b].prev
<1> DEFINE c == [h[a] EXCEPT !.child = v]
           g == [h EXCEPT ![a] = c]
<1>1. a \in Addr /\ h[a] \in Node  BY NodeCell
<1>2. /\ c \in Node /\ c.child = v /\ c.next = h[a].next /\ c.prev = h[a].prev
      /\ c.kind = h[a].kind /\ c.str = h[a].str /\ c.key = h[a].key
      /\ c.constKey = h[a].constKey
  BY <1>1 DEF Node
<1>3. Rewired(h, g)  BY <1>2, Rewrite
<1>4. PutChild(h, a, v) = g  BY DEF PutChild
<1>5. \A b \in Nodes(h) : g[b] = IF b = a THEN c ELSE h[b]  BY DEF Nodes, Heaps
<1> HIDE DEF c, g
<1> QED  BY <1>2, <1>3, <1>4, <1>5

LEMMA RewiredTwice ==
  ASSUME NEW h, NEW g, NEW f, Rewired(h, g), Rewired(g, f)
  PROVE  Rewired(h, f)
BY DEF Rewired

(* p's list becomes t, of the items it had and the ones callers held, and r2 *)
(* the items callers hold: the fields of all others stay.                    *)
Relisted(h, g, k, r, p, t, r2) ==
  /\ Rewired(h, g)
  /\ p \in Nodes(h) /\ t \in Seq(Nodes(h)) /\ r2 \subseteq Nodes(h)
  /\ Siblings(g, p, t)
  /\ \A x \in Nodes(h) : {g[x].next, g[x].prev, g[x].child} \subseteq Nodes(h) \cup {Null}
  /\ \A q \in Nodes(h) \ {p} :
       /\ g[q].child = h[q].child
       /\ \A i \in DOMAIN k[q] : /\ g[k[q][i]].next = h[k[q][i]].next
                                 /\ g[k[q][i]].prev = h[k[q][i]].prev
  /\ \A i, j \in DOMAIN t : t[i] = t[j] => i = j
  /\ \A i \in DOMAIN t : t[i] \in r \/ \E j \in DOMAIN k[p] : t[i] = k[p][j]
  /\ \A x \in r2 : g[x].next = Null
  /\ \A x \in r2 : x \in r \/ \E j \in DOMAIN k[p] : x = k[p][j]
  /\ \A i \in DOMAIN t : t[i] \notin r2

LEMMA ListsStep ==
  ASSUME NEW h, NEW k, NEW r, ListsInv(h, k, r), NEW g, NEW p, NEW t, NEW r2,
         Relisted(h, g, k, r, p, t, r2)
  PROVE  ListsInv(g, [k EXCEPT ![p] = t], r2)
<1> USE DEF Relisted
<1> DEFINE m == [k EXCEPT ![p] = t]
<1>1. /\ h \in Heaps /\ g \in Heaps /\ Nodes(g) = Nodes(h) /\ Strings(g) = Strings(h)
      /\ Nodes(h) \subseteq Addr
  BY DEF ListsInv, Rewired, Nodes
<1>2. Places(h, k) /\ Roots(h, k, r) /\ Pointers(h) /\ Owned(h)  BY DEF ListsInv
<1>3. m \in [Addr -> Seq(Addr)] /\ m[p] = t /\ \A q \in Nodes(h) \ {p} : m[q] = k[q]
  <2>1. Seq(Nodes(h)) \subseteq Seq(Addr)  BY <1>1, SeqMonotonic
  <2> QED  BY <1>1, <1>2, <2>1 DEF Places
<1> HIDE DEF m
<1>4. Places(g, m)
  <2>1. ASSUME NEW q \in Nodes(h), NEW i \in DOMAIN m[q]  PROVE m[q][i] \in Nodes(h)
    <3>1. CASE q = p
      <4>1. i \in DOMAIN t /\ m[q][i] = t[i]  BY <3>1, <1>3
      <4>2. \A j \in DOMAIN t : t[j] \in Nodes(h)  OBVIOUS
      <4> QED  BY <4>1, <4>2
    <3>2. CASE q # p
      <4>1. i \in DOMAIN k[q] /\ m[q][i] = k[q][i]  BY <3>2, <1>3
      <4> QED  BY <4>1, <1>2 DEF Places
    <3> QED  BY <3>1, <3>2
  <2>2. ASSUME NEW q \in Nodes(h) \ {p}, NEW i \in DOMAIN t, NEW j \in DOMAIN k[q]
        PROVE  t[i] # k[q][j]
    BY <1>2 DEF Places, Roots
  <2>3. ASSUME NEW q \in Nodes(h), NEW o \in Nodes(h), NEW i \in DOMAIN m[q],
               NEW j \in DOMAIN m[o], m[q][i] = m[o][j]
        PROVE  q = o /\ i = j
    <3>1. CASE q = p /\ o = p  BY <3>1, <2>3, <1>3
    <3>2. CASE q = p /\ o # p
      <4>1. /\ i \in DOMAIN t /\ m[q][i] = t[i]
            /\ o \in Nodes(h) \ {p} /\ j \in DOMAIN k[o] /\ m[o][j] = k[o][j]
        BY <3>2, <1>3
      <4>2. t[i] # k[o][j]  BY <4>1, <2>2
      <4> QED  BY <4>1, <4>2, <2>3
    <3>3. CASE q # p /\ o = p
      <4>1. /\ j \in DOMAIN t /\ m[o][j] = t[j]
            /\ q \in Nodes(h) \ {p} /\ i \in DOMAIN k[q] /\ m[q][i] = k[q][i]
        BY <3>3, <1>3
      <4>2. t[j] # k[q][i]  BY <4>1, <2>2
      <4> QED  BY <4>1, <4>2, <2>3
    <3>4. CASE q # p /\ o # p  BY <3>4, <2>3, <1>2, <1>3 DEF Places
    <3> QED  BY <3>1, <3>2, <3>3, <3>4
  <2> QED  BY <1>1, <1>3, <2>1, <2>3 DEF Places
<1>5. Roots(g, m, r2)
  <2>1. ASSUME NEW q \in Nodes(h), NEW i \in DOMAIN m[q]  PROVE m[q][i] \notin r2
    <3>1. CASE q = p  BY <3>1, <1>3
    <3>2. CASE q # p  BY <3>2, <1>2, <1>3 DEF Places, Roots
    <3> QED  BY <3>1, <3>2
  <2> QED  BY <1>1, <2>1 DEF Roots
<1>6. \A q \in Nodes(g) : Siblings(g, q, m[q])
  <2> SUFFICES ASSUME NEW q \in Nodes(h)  PROVE Siblings(g, q, m[q])  BY <1>1
  <2>1. CASE q = p  BY <2>1, <1>3
  <2>2. CASE q # p
    <3>1. Siblings(h, q, k[q])  BY DEF ListsInv
    <3> QED  BY <2>2, <3>1, <1>3 DEF Siblings
  <2> QED  BY <2>1, <2>2
<1>7. Pointers(g)
  <2>1. ASSUME NEW x \in Nodes(h)
        PROVE  /\ g[x].str \in Strings(h) \cup {Null}
               /\ g[x].key \in IF g[x].constKey THEN Literals ELSE Strings(h) \cup {Null}
    BY <1>2 DEF Pointers, Rewired
  <2> QED  BY <1>1, <2>1 DEF Pointers
<1>8. Owned(g)
  <2>1. \A x \in Nodes(h) : /\ g[x].str = h[x].str /\ g[x].key = h[x].key
                            /\ g[x].constKey = h[x].constKey
    BY DEF Rewired
  <2> QED  BY <1>1, <1>2, <2>1 DEF Owned
<1>9. ListsInv(g, m, r2)  BY <1>1, <1>4, <1>5, <1>6, <1>7, <1>8 DEF ListsInv
<1> QED  BY <1>9 DEF m

(***************************************************************************)
(* add_item_to_array.                                                      *)
(***************************************************************************)
LEMMA AppendFields ==
  ASSUME NEW h \in Heaps, NEW p \in Nodes(h), NEW x \in Nodes(h), h[x].next = Null,
         NEW s \in Seq(Nodes(h)), Siblings(h, p, s),
         \A i \in DOMAIN s : s[i] # x,
         NEW g, g = add_item_to_array(h, p, x)
  PROVE  /\ Rewired(h, g)
         /\ s = <<>> => \A b \in Nodes(h) :
              /\ g[b].child = IF b = p THEN x ELSE h[b].child
              /\ g[b].next = h[b].next
              /\ g[b].prev = IF b = x THEN x ELSE h[b].prev
         /\ s # <<>> => \A b \in Nodes(h) :
              /\ g[b].child = h[b].child
              /\ g[b].next = IF b = s[Len(s)] THEN x ELSE h[b].next
              /\ g[b].prev = IF b = s[1] THEN x ELSE IF b = x THEN s[Len(s)] ELSE h[b].prev
<1>1. x \in Ptr /\ Null \in Ptr /\ Null \notin Nodes(h)  BY JsonAssumption DEF Ptr, Nodes, Addr
<1>2. CASE s = <<>>
  <2>1. h[p].child = Null  BY <1>2 DEF Siblings, Nth
  <2> DEFINE h1 == PutChild(h, p, x)
             h2 == PutPrev(h1, x, x)
             h3 == PutNext(h2, x, Null)
  <2>2. g = h3  BY <2>1 DEF add_item_to_array, PutChild, PutPrev, PutNext
  <2>3. /\ Rewired(h, h1)
        /\ \A b \in Nodes(h) : /\ h1[b].child = IF b = p THEN x ELSE h[b].child
                               /\ h1[b].next = h[b].next /\ h1[b].prev = h[b].prev
    BY <1>1, WriteChild
  <2> HIDE DEF h1
  <2>4. h1 \in Heaps /\ Nodes(h1) = Nodes(h)  BY <2>3 DEF Rewired
  <2>5. /\ Rewired(h1, h2)
        /\ \A b \in Nodes(h) : /\ h2[b].prev = IF b = x THEN x ELSE h1[b].prev
                               /\ h2[b].next = h1[b].next /\ h2[b].child = h1[b].child
    BY <1>1, <2>4, WritePrev
  <2> HIDE DEF h2
  <2>6. h2 \in Heaps /\ Nodes(h2) = Nodes(h)  BY <2>4, <2>5 DEF Rewired
  <2>7. /\ Rewired(h2, h3)
        /\ \A b \in Nodes(h) : /\ h3[b].next = IF b = x THEN Null ELSE h2[b].next
                               /\ h3[b].prev = h2[b].prev /\ h3[b].child = h2[b].child
    BY <1>1, <2>6, WriteNext
  <2> HIDE DEF h3
  <2>8. Rewired(h, g)  BY <2>2, <2>3, <2>5, <2>7, RewiredTwice
  <2> QED  BY <1>2, <2>2, <2>3, <2>5, <2>7, <2>8
<1>3. CASE s # <<>>
  <2>1. /\ 1 \in DOMAIN s /\ Len(s) \in DOMAIN s
        /\ s[1] \in Nodes(h) /\ s[Len(s)] \in Nodes(h) /\ s[1] # x /\ s[Len(s)] # x
    BY <1>3
  <2>2. PICK c \in Nodes(h), l \in Nodes(h) : c = s[1] /\ l = s[Len(s)] /\ c # x /\ l # x
    BY <2>1
  <2> DEFINE h1 == PutNext(h, l, x)
             h2 == PutPrev(h1, x, l)
             h3 == PutPrev(h2, c, x)
  <2>3. h[p].child = c /\ h[c].prev = l  BY <2>1, <2>2 DEF Siblings, Nth
  <2>4. c # Null /\ l # Null /\ l \in Ptr  BY <1>1 DEF Ptr, Nodes
  <2>5. g = h3  BY <2>3, <2>4 DEF add_item_to_array, suffix_object, PutPrev, PutNext
  <2>6. /\ Rewired(h, h1)
        /\ \A b \in Nodes(h) : /\ h1[b].next = IF b = l THEN x ELSE h[b].next
                               /\ h1[b].prev = h[b].prev /\ h1[b].child = h[b].child
    BY <1>1, WriteNext
  <2> HIDE DEF h1
  <2>7. h1 \in Heaps /\ Nodes(h1) = Nodes(h)  BY <2>6 DEF Rewired
  <2>8. /\ Rewired(h1, h2)
        /\ \A b \in Nodes(h) : /\ h2[b].prev = IF b = x THEN l ELSE h1[b].prev
                               /\ h2[b].next = h1[b].next /\ h2[b].child = h1[b].child
    BY <2>4, <2>7, WritePrev
  <2> HIDE DEF h2
  <2>9. h2 \in Heaps /\ Nodes(h2) = Nodes(h)  BY <2>7, <2>8 DEF Rewired
  <2>10. /\ Rewired(h2, h3)
         /\ \A b \in Nodes(h) : /\ h3[b].prev = IF b = c THEN x ELSE h2[b].prev
                                /\ h3[b].next = h2[b].next /\ h3[b].child = h2[b].child
    BY <1>1, <2>9, WritePrev
  <2> HIDE DEF h3
  <2>11. Rewired(h, g)  BY <2>5, <2>6, <2>8, <2>10, RewiredTwice
  <2> QED  BY <1>3, <2>2, <2>5, <2>6, <2>8, <2>10, <2>11
<1> QED  BY <1>2, <1>3

(* Siblings, without Nth. *)
Chained(h, p, s) ==
  /\ h[p].child = IF Len(s) = 0 THEN Null ELSE s[1]
  /\ \A i \in 1 .. Len(s) : /\ h[s[i]].next = IF i = Len(s) THEN Null ELSE s[i + 1]
                            /\ h[s[i]].prev = IF i = 1 THEN s[Len(s)] ELSE s[i - 1]

LEMMA NextTo ==
  ASSUME NEW n \in Nat, NEW i \in 1 .. n
  PROVE  /\ i = n => i + 1 \notin 1 .. n
         /\ i # n => i + 1 \in 1 .. n
         /\ n \in 1 .. n
         /\ i # 1 => i - 1 \in 1 .. n
OBVIOUS

LEMMA SiblingsChained ==
  ASSUME NEW h, NEW p, NEW S, NEW s \in Seq(S)
  PROVE  Siblings(h, p, s) <=> Chained(h, p, s)
<1>1. Len(s) \in Nat /\ DOMAIN s = 1 .. Len(s)  OBVIOUS
<1>2. Nth(s, 1) = IF Len(s) = 0 THEN Null ELSE s[1]  BY <1>1 DEF Nth
<1>3. ASSUME NEW i \in 1 .. Len(s)
      PROVE  /\ Nth(s, i + 1) = IF i = Len(s) THEN Null ELSE s[i + 1]
             /\ Nth(s, IF i = 1 THEN Len(s) ELSE i - 1) = IF i = 1 THEN s[Len(s)] ELSE s[i - 1]
  <2>2. /\ i = Len(s) => i + 1 \notin 1 .. Len(s)
        /\ i # Len(s) => i + 1 \in 1 .. Len(s)
        /\ Len(s) \in 1 .. Len(s)
        /\ i # 1 => i - 1 \in 1 .. Len(s)
    BY <1>1, NextTo
  <2>3. \A j : Nth(s, j) = IF j \in 1 .. Len(s) THEN s[j] ELSE Null  BY <1>1 DEF Nth
  <2> QED  BY <2>2, <2>3
<1> QED  BY <1>1, <1>2, <1>3 DEF Siblings, Chained

LEMMA AppendSiblings ==
  ASSUME NEW h \in Heaps, NEW p \in Nodes(h), NEW x \in Nodes(h), h[x].next = Null,
         NEW s \in Seq(Nodes(h)), Siblings(h, p, s),
         \A i \in DOMAIN s : s[i] # x,
         \A i, j \in DOMAIN s : s[i] = s[j] => i = j
  PROVE  Siblings(add_item_to_array(h, p, x), p, Append(s, x))
<1> DEFINE g == add_item_to_array(h, p, x)
           t == Append(s, x)
<1>1. /\ t \in Seq(Nodes(h)) /\ Len(t) = Len(s) + 1
      /\ \A i \in 1 .. Len(s) : t[i] = s[i]
      /\ t[Len(s) + 1] = x
  BY AppendProperties
<1>2. /\ s = <<>> => \A b \in Nodes(h) :
           /\ g[b].child = IF b = p THEN x ELSE h[b].child
           /\ g[b].next = h[b].next
           /\ g[b].prev = IF b = x THEN x ELSE h[b].prev
      /\ s # <<>> => \A b \in Nodes(h) :
           /\ g[b].child = h[b].child
           /\ g[b].next = IF b = s[Len(s)] THEN x ELSE h[b].next
           /\ g[b].prev = IF b = s[1] THEN x ELSE IF b = x THEN s[Len(s)] ELSE h[b].prev
  BY AppendFields
<1> HIDE DEF g, t
<1>3. /\ Len(s) \in Nat /\ \A i \in 1 .. Len(s) : s[i] \in Nodes(h) /\ s[i] # x
      /\ \A i, j \in 1 .. Len(s) : s[i] = s[j] => i = j
  OBVIOUS
<1>4. Chained(h, p, s)  BY SiblingsChained
<1>5. CASE s = <<>>
  <2>1. Len(s) = 0 /\ Len(t) = 1 /\ t[1] = x  BY <1>1, <1>5
  <2>2. g[p].child = x /\ g[x].next = Null /\ g[x].prev = x  BY <1>2, <1>5
  <2>3. Chained(g, p, t)  BY <2>1, <2>2 DEF Chained
  <2> QED  BY <1>1, <2>3, SiblingsChained DEF g, t
<1>6. CASE s # <<>>
  <2>1. Len(s) > 0  BY <1>6, <1>3
  <2>2. g[p].child = t[1]  BY <1>1, <1>2, <1>4, <1>6, <2>1 DEF Chained
  <2>3. ASSUME NEW i \in 1 .. Len(s)
        PROVE  /\ g[t[i]].next = t[i + 1]
               /\ g[t[i]].prev = IF i = 1 THEN t[Len(t)] ELSE t[i - 1]
    <3>1. t[i] = s[i] /\ s[i] \in Nodes(h) /\ s[i] # x  BY <1>1, <1>3
    <3>2. g[s[i]].next = t[i + 1]
      <4>1. CASE i = Len(s)  BY <4>1, <1>1, <1>2, <1>6, <3>1
      <4>2. CASE i # Len(s)
        <5>1. s[i] # s[Len(s)]  BY <4>2, <1>3, <2>1
        <5>2. h[s[i]].next = s[i + 1]  BY <4>2, <1>4 DEF Chained
        <5>3. s[i + 1] = t[i + 1]  BY <4>2, <1>1, <1>3
        <5> QED  BY <5>1, <5>2, <5>3, <1>2, <1>6, <3>1
      <4> QED  BY <4>1, <4>2
    <3>3. g[s[i]].prev = IF i = 1 THEN t[Len(t)] ELSE t[i - 1]
      <4>1. CASE i = 1  BY <4>1, <1>1, <1>2, <1>6, <3>1
      <4>2. CASE i # 1
        <5>1. s[i] # s[1]  BY <4>2, <1>3, <2>1
        <5>2. h[s[i]].prev = s[i - 1]  BY <4>2, <1>4 DEF Chained
        <5>3. s[i - 1] = t[i - 1]  BY <4>2, <1>1, <1>3
        <5> QED  BY <4>2, <5>1, <5>2, <5>3, <1>2, <1>6, <3>1
      <4> QED  BY <4>1, <4>2
    <3> QED  BY <3>1, <3>2, <3>3
  <2>4. /\ g[t[Len(t)]].next = Null
        /\ g[t[Len(t)]].prev = t[Len(t) - 1]
    <3>1. x # s[1] /\ x # s[Len(s)] /\ x \in Nodes(h)  BY <1>3, <2>1
    <3>2. g[x].next = Null /\ g[x].prev = s[Len(s)]  BY <1>2, <1>6, <3>1
    <3>3. t[Len(t)] = x /\ t[Len(t) - 1] = s[Len(s)]  BY <1>1, <1>3, <2>1
    <3> QED  BY <3>2, <3>3
  <2>5. Chained(g, p, t)
    <3>1. Len(t) # 0 /\ Len(t) # 1 /\ Len(t) \in Nat  BY <1>1, <1>3, <2>1
    <3>2. ASSUME NEW i \in 1 .. Len(t)
          PROVE  /\ g[t[i]].next = IF i = Len(t) THEN Null ELSE t[i + 1]
                 /\ g[t[i]].prev = IF i = 1 THEN t[Len(t)] ELSE t[i - 1]
      <4>1. CASE i = Len(t)  BY <4>1, <2>4, <3>1
      <4>2. CASE i # Len(t)
        <5>1. i \in 1 .. Len(s)  BY <4>2, <1>1, <1>3
        <5> QED  BY <4>2, <5>1, <2>3
      <4> QED  BY <4>1, <4>2
    <3> QED  BY <2>2, <3>1, <3>2 DEF Chained
  <2> QED  BY <1>1, <2>5, SiblingsChained DEF g, t
<1> QED  BY <1>5, <1>6

(* add_item_to_array puts an item that a caller holds behind the children,   *)
(* and no other list, name or text changes.                                  *)
THEOREM AppendKeepsLists ==
  ASSUME NEW h, NEW k, NEW r, ListsInv(h, k, r), NEW p \in Nodes(h), NEW x \in r
  PROVE  /\ ListsInv(add_item_to_array(h, p, x), [k EXCEPT ![p] = Append(k[p], x)], r \ {x})
         /\ Rewired(h, add_item_to_array(h, p, x))
<1> DEFINE g == add_item_to_array(h, p, x)
           s == k[p]
           t == Append(s, x)
<1>1. /\ h \in Heaps /\ Places(h, k) /\ Roots(h, k, r) /\ Pointers(h)
      /\ Siblings(h, p, s) /\ Nodes(h) \subseteq Addr
  BY DEF ListsInv, Nodes
<1>2. s \in Seq(Nodes(h))
  <2>1. s \in Seq(Addr) /\ \A i \in DOMAIN s : s[i] \in Nodes(h)  BY <1>1 DEF Places
  <2> QED  BY <2>1, IsASeq
<1>3. x \in Nodes(h) /\ h[x].next = Null /\ \A i \in DOMAIN s : s[i] # x  BY <1>1 DEF Roots
<1>4. \A i, j \in DOMAIN s : s[i] = s[j] => i = j  BY <1>1 DEF Places
<1>5. Siblings(g, p, t)  BY <1>1, <1>2, <1>3, <1>4, AppendSiblings
<1>6. /\ Rewired(h, g)
      /\ s = <<>> => \A b \in Nodes(h) :
           /\ g[b].child = IF b = p THEN x ELSE h[b].child
           /\ g[b].next = h[b].next
           /\ g[b].prev = IF b = x THEN x ELSE h[b].prev
      /\ s # <<>> => \A b \in Nodes(h) :
           /\ g[b].child = h[b].child
           /\ g[b].next = IF b = s[Len(s)] THEN x ELSE h[b].next
           /\ g[b].prev = IF b = s[1] THEN x ELSE IF b = x THEN s[Len(s)] ELSE h[b].prev
  BY <1>1, <1>2, <1>3, AppendFields
<1>7. /\ t \in Seq(Nodes(h)) /\ DOMAIN t = 1 .. Len(s) + 1 /\ DOMAIN s = 1 .. Len(s)
      /\ Len(s) \in Nat /\ t[Len(s) + 1] = x
      /\ \A i \in 1 .. Len(s) : t[i] = s[i]
      /\ s # <<>> => 1 \in DOMAIN s /\ Len(s) \in DOMAIN s
  <2>1. /\ t \in Seq(Nodes(h)) /\ Len(t) = Len(s) + 1 /\ t[Len(s) + 1] = x
        /\ \A i \in 1 .. Len(s) : t[i] = s[i]
    BY <1>2, <1>3, AppendProperties
  <2>2. DOMAIN s = 1 .. Len(s) /\ Len(s) \in Nat /\ (s # <<>> => Len(s) > 0)  BY <1>2
  <2>3. DOMAIN t = 1 .. Len(t)  BY <2>1
  <2> QED  BY <2>1, <2>2, <2>3
<1> HIDE DEF g, t
<1>8. ASSUME NEW y \in Nodes(h)
      PROVE  {g[y].next, g[y].prev, g[y].child} \subseteq Nodes(h) \cup {Null}
  <2>1. {h[y].next, h[y].prev, h[y].child} \subseteq Nodes(h) \cup {Null}  BY <1>1 DEF Pointers
  <2>2. CASE s = <<>>  BY <2>1, <2>2, <1>3, <1>6
  <2>3. CASE s # <<>>
    <3>1. s[Len(s)] \in Nodes(h)  BY <2>3, <1>1, <1>7 DEF Places
    <3> QED  BY <2>1, <2>3, <3>1, <1>3, <1>6
  <2> QED  BY <2>2, <2>3
<1>9. ASSUME NEW q \in Nodes(h) \ {p}
      PROVE  /\ g[q].child = h[q].child
             /\ \A i \in DOMAIN k[q] : /\ g[k[q][i]].next = h[k[q][i]].next
                                       /\ g[k[q][i]].prev = h[k[q][i]].prev
  <2>1. g[q].child = h[q].child  BY <1>6
  <2>2. ASSUME NEW i \in DOMAIN k[q]
        PROVE  g[k[q][i]].next = h[k[q][i]].next /\ g[k[q][i]].prev = h[k[q][i]].prev
    <3>1. k[q][i] \in Nodes(h) /\ k[q][i] # x  BY <1>1 DEF Places, Roots
    <3>2. \A j \in DOMAIN s : k[q][i] # s[j]  BY <1>1 DEF Places
    <3> QED  BY <3>1, <3>2, <1>6, <1>7
  <2> QED  BY <2>1, <2>2
<1>10. \A i, j \in DOMAIN t : t[i] = t[j] => i = j  BY <1>3, <1>4, <1>7
<1>11. \A i \in DOMAIN t : t[i] \in r \/ \E j \in DOMAIN s : t[i] = s[j]  BY <1>7
<1>12. \A y \in r \ {x} : g[y].next = Null
  <2> SUFFICES ASSUME NEW y \in r \ {x}  PROVE g[y].next = Null  OBVIOUS
  <2>1. y \in Nodes(h) /\ h[y].next = Null /\ \A j \in DOMAIN s : s[j] # y  BY <1>1 DEF Roots
  <2> QED  BY <2>1, <1>6, <1>7
<1>13. \A i \in DOMAIN t : t[i] \notin r \ {x}
  <2>1. \A j \in DOMAIN s : s[j] \notin r  BY <1>1 DEF Roots
  <2> QED  BY <2>1, <1>7
<1>14. r \ {x} \in SUBSET Nodes(h)  BY <1>1 DEF Roots
<1>15. \A y \in r \ {x} : y \in r \/ \E j \in DOMAIN s : y = s[j]  OBVIOUS
<1> DEFINE r2 == r \ {x}
<1> HIDE DEF r2
<1>16. Relisted(h, g, k, r, p, t, r2)
  BY <1>5, <1>6, <1>7, <1>8, <1>9, <1>10, <1>11, <1>12, <1>13, <1>14, <1>15 DEF Relisted, r2
<1>17. ListsInv(g, [k EXCEPT ![p] = t], r2)  BY <1>16, ListsStep
<1> QED  BY <1>6, <1>17 DEF g, t, r2

(***************************************************************************)
(* cJSON_DetachItemViaPointer.                                             *)
(***************************************************************************)
LEMMA RewiredNot == ASSUME NEW h \in Heaps  PROVE Rewired(h, h)
BY DEF Rewired

LEMMA DetachFields ==
  ASSUME NEW h \in Heaps, NEW p \in Nodes(h), NEW s \in Seq(Nodes(h)), Chained(h, p, s),
         \A i, j \in 1 .. Len(s) : s[i] = s[j] => i = j,
         NEW i \in 1 .. Len(s), NEW x, x = s[i], NEW l, l = h[x].prev, NEW n, n = h[x].next,
         NEW g, g = DetachItemViaPointer(h, p, x)
  PROVE  /\ Rewired(h, g)
         /\ \A b \in Nodes(h) :
              /\ g[b].child = IF b = p /\ i = 1 THEN n ELSE h[b].child
              /\ g[b].next = IF b = x THEN Null
                             ELSE IF i # 1 /\ b = l THEN n ELSE h[b].next
              /\ g[b].prev = IF b = x THEN Null
                             ELSE IF (n # Null /\ b = n) \/ (n = Null /\ i # 1 /\ b = s[1])
                             THEN l ELSE h[b].prev
<1>1. /\ Len(s) \in Nat /\ Len(s) # 0 /\ 1 \in 1 .. Len(s) /\ Len(s) \in 1 .. Len(s)
      /\ \A j \in 1 .. Len(s) : s[j] \in Nodes(h)
      /\ Null \notin Nodes(h) /\ Null \in Ptr /\ Nodes(h) \subseteq Ptr
  BY JsonAssumption DEF Ptr, Nodes, Addr
<1>2. PICK c \in Nodes(h) : c = s[1]  BY <1>1
<1>3. h[p].child = c  BY <1>1, <1>2 DEF Chained
<1>4. x \in Nodes(h) /\ (x = c <=> i = 1)  BY <1>1, <1>2
<1>5. l \in Nodes(h)
  <2>1. h[s[i]].prev = IF i = 1 THEN s[Len(s)] ELSE s[i - 1]  BY DEF Chained
  <2>2. i # 1 => i - 1 \in 1 .. Len(s)  BY <1>1, NextTo
  <2> QED  BY <1>1, <2>1, <2>2
<1>6. n \in Nodes(h) \cup {Null}
  <2>1. h[s[i]].next = IF i = Len(s) THEN Null ELSE s[i + 1]  BY DEF Chained
  <2>2. i # Len(s) => i + 1 \in 1 .. Len(s)  BY <1>1, NextTo
  <2> QED  BY <1>1, <2>1, <2>2
<1>7. n \in Ptr /\ l \in Ptr  BY <1>1, <1>5, <1>6
<1> DEFINE h1 == IF i = 1 THEN h ELSE PutNext(h, l, n)
           h2 == IF n = Null THEN h1 ELSE PutPrev(h1, n, l)
           h3 == IF i = 1 THEN PutChild(h2, p, n)
                 ELSE IF n = Null THEN PutPrev(h2, c, l) ELSE h2
           h4 == PutPrev(h3, x, Null)
           h5 == PutNext(h4, x, Null)
<1>8. g = h5
  <2> DEFINE first == x = h[p].child
             k1 == IF first THEN h ELSE PutNext(h, h[x].prev, h[x].next)
             k2 == IF h[x].next = Null THEN k1 ELSE PutPrev(k1, h[x].next, h[x].prev)
             k3 == IF first THEN PutChild(k2, p, h[x].next)
                   ELSE IF h[x].next = Null THEN PutPrev(k2, h[p].child, h[x].prev) ELSE k2
  <2>1. g = PutNext(PutPrev(k3, x, Null), x, Null)
    BY DEF DetachItemViaPointer, PutNext, PutPrev, PutChild
  <2>2. first <=> i = 1  BY <1>3, <1>4
  <2> HIDE DEF first
  <2>3. k1 = h1  BY <2>2
  <2>4. k2 = h2  BY <2>3
  <2>5. k3 = h3  BY <2>2, <2>4, <1>3
  <2> QED  BY <2>1, <2>5
<1>9. /\ Rewired(h, h1)
      /\ \A b \in Nodes(h) : /\ h1[b].next = IF i # 1 /\ b = l THEN n ELSE h[b].next
                             /\ h1[b].prev = h[b].prev /\ h1[b].child = h[b].child
  <2>1. CASE i = 1  BY <2>1, RewiredNot
  <2>2. CASE i # 1  BY <2>2, <1>5, <1>7, WriteNext
  <2> QED  BY <2>1, <2>2
<1> HIDE DEF h1
<1>10. h1 \in Heaps /\ Nodes(h1) = Nodes(h)  BY <1>9 DEF Rewired
<1>11. /\ Rewired(h1, h2)
       /\ \A b \in Nodes(h) : /\ h2[b].prev = IF n # Null /\ b = n THEN l ELSE h1[b].prev
                              /\ h2[b].next = h1[b].next /\ h2[b].child = h1[b].child
  <2>1. CASE n = Null  BY <2>1, <1>10, RewiredNot
  <2>2. CASE n # Null
    <3>1. n \in Nodes(h1)  BY <2>2, <1>6, <1>10
    <3> QED  BY <2>2, <3>1, <1>7, <1>10, WritePrev
  <2> QED  BY <2>1, <2>2
<1> HIDE DEF h2
<1>12. h2 \in Heaps /\ Nodes(h2) = Nodes(h)  BY <1>10, <1>11 DEF Rewired
<1>13. /\ Rewired(h2, h3)
       /\ \A b \in Nodes(h) :
            /\ h3[b].child = IF b = p /\ i = 1 THEN n ELSE h2[b].child
            /\ h3[b].prev = IF n = Null /\ i # 1 /\ b = c THEN l ELSE h2[b].prev
            /\ h3[b].next = h2[b].next
  <2>1. CASE i = 1  BY <2>1, <1>7, <1>12, WriteChild
  <2>2. CASE i # 1 /\ n = Null  BY <2>2, <1>7, <1>12, WritePrev
  <2>3. CASE i # 1 /\ n # Null  BY <2>3, <1>12, RewiredNot
  <2> QED  BY <2>1, <2>2, <2>3
<1> HIDE DEF h3
<1>14. h3 \in Heaps /\ Nodes(h3) = Nodes(h)  BY <1>12, <1>13 DEF Rewired
<1>15. /\ Rewired(h3, h4)
       /\ \A b \in Nodes(h) : /\ h4[b].prev = IF b = x THEN Null ELSE h3[b].prev
                              /\ h4[b].next = h3[b].next /\ h4[b].child = h3[b].child
  BY <1>1, <1>4, <1>14, WritePrev
<1> HIDE DEF h4
<1>16. h4 \in Heaps /\ Nodes(h4) = Nodes(h)  BY <1>14, <1>15 DEF Rewired
<1>17. /\ Rewired(h4, h5)
       /\ \A b \in Nodes(h) : /\ h5[b].next = IF b = x THEN Null ELSE h4[b].next
                              /\ h5[b].prev = h4[b].prev /\ h5[b].child = h4[b].child
  BY <1>1, <1>4, <1>16, WriteNext
<1> HIDE DEF h5
<1>18. Rewired(h, g)
  <2>1. Rewired(h, h2)  BY <1>9, <1>11, RewiredTwice
  <2>2. Rewired(h, h4)  BY <2>1, <1>13, <1>15, RewiredTwice
  <2> QED  BY <2>2, <1>8, <1>17, RewiredTwice
<1>19. ASSUME NEW b \in Nodes(h)
       PROVE  /\ g[b].child = IF b = p /\ i = 1 THEN n ELSE h[b].child
              /\ g[b].next = IF b = x THEN Null
                             ELSE IF i # 1 /\ b = l THEN n ELSE h[b].next
              /\ g[b].prev = IF b = x THEN Null
                             ELSE IF (n # Null /\ b = n) \/ (n = Null /\ i # 1 /\ b = s[1])
                             THEN l ELSE h[b].prev
  <2>1. g[b].child = IF b = p /\ i = 1 THEN n ELSE h[b].child
    BY <1>8, <1>9, <1>11, <1>13, <1>15, <1>17
  <2>2. g[b].next = IF b = x THEN Null ELSE IF i # 1 /\ b = l THEN n ELSE h[b].next
    BY <1>8, <1>9, <1>11, <1>13, <1>15, <1>17
  <2>3. g[b].prev = IF b = x THEN Null
                    ELSE IF (n # Null /\ b = n) \/ (n = Null /\ i # 1 /\ b = s[1])
                    THEN l ELSE h[b].prev
    BY <1>2, <1>8, <1>9, <1>11, <1>13, <1>15, <1>17
  <2> QED  BY <2>1, <2>2, <2>3
<1> QED  BY <1>18, <1>19

LEMMA WithoutProperties ==
  ASSUME NEW S, NEW s \in Seq(S), NEW i \in 1 .. Len(s)
  PROVE  /\ Without(s, i) \in Seq(S)
         /\ Len(Without(s, i)) = Len(s) - 1
         /\ \A j \in 1 .. Len(s) - 1 : Without(s, i)[j] = IF j < i THEN s[j] ELSE s[j + 1]
<1> DEFINE a == SubSeq(s, 1, i - 1)
           b == SubSeq(s, i + 1, Len(s))
<1>1. Len(s) \in Nat /\ i \in Nat /\ 1 <= i /\ i <= Len(s)  OBVIOUS
<1>2. /\ a \in Seq(S) /\ Len(a) = i - 1
      /\ \A j \in 1 .. i - 1 : a[j] = s[j]
  <2>1. \A j \in 1 .. i - 1 : s[j] \in S  OBVIOUS
  <2>2. /\ a \in Seq(S)
        /\ Len(a) = IF 1 <= i - 1 THEN i - 1 - 1 + 1 ELSE 0
        /\ \A j \in 1 .. i - 1 - 1 + 1 : a[j] = s[1 + j - 1]
    BY <2>1, SubSeqProperties, 1 \in Int, i - 1 \in Int
  <2> QED  BY <1>1, <2>2
<1>3. /\ b \in Seq(S) /\ Len(b) = Len(s) - i
      /\ \A j \in 1 .. Len(s) - i : b[j] = s[i + j]
  <2>1. \A j \in i + 1 .. Len(s) : s[j] \in S  OBVIOUS
  <2>2. /\ b \in Seq(S)
        /\ Len(b) = IF i + 1 <= Len(s) THEN Len(s) - (i + 1) + 1 ELSE 0
        /\ \A j \in 1 .. Len(s) - (i + 1) + 1 : b[j] = s[(i + 1) + j - 1]
    BY <2>1, SubSeqProperties, i + 1 \in Int, Len(s) \in Int
  <2> QED  BY <1>1, <2>2
<1> HIDE DEF a, b
<1>4. /\ a \o b \in Seq(S) /\ Len(a \o b) = Len(a) + Len(b)
      /\ \A j \in 1 .. Len(a) + Len(b) :
           (a \o b)[j] = IF j <= Len(a) THEN a[j] ELSE b[j - Len(a)]
  BY <1>2, <1>3, ConcatProperties
<1>5. ASSUME NEW j \in 1 .. Len(s) - 1
      PROVE  (a \o b)[j] = IF j < i THEN s[j] ELSE s[j + 1]
  <2>1. CASE j < i
    <3>1. j \in 1 .. i - 1 /\ j <= Len(a) /\ j \in 1 .. Len(a) + Len(b)
      BY <2>1, <1>1, <1>2, <1>3
    <3> QED  BY <2>1, <3>1, <1>2, <1>4
  <2>2. CASE ~ j < i
    <3>1. /\ j - (i - 1) \in 1 .. Len(s) - i /\ ~ j <= Len(a)
          /\ j \in 1 .. Len(a) + Len(b) /\ i + (j - (i - 1)) = j + 1
      BY <2>2, <1>1, <1>2, <1>3
    <3> QED  BY <2>2, <3>1, <1>2, <1>3, <1>4
  <2> QED  BY <2>1, <2>2
<1>6. Without(s, i) = a \o b  BY DEF Without, a, b
<1> QED  BY <1>1, <1>2, <1>3, <1>4, <1>5, <1>6

LEMMA DetachSiblings ==
  ASSUME NEW h \in Heaps, NEW p \in Nodes(h), NEW s \in Seq(Nodes(h)), Chained(h, p, s),
         \A j, m \in 1 .. Len(s) : s[j] = s[m] => j = m,
         NEW i \in 1 .. Len(s), NEW x, x = s[i]
  PROVE  Chained(DetachItemViaPointer(h, p, x), p, Without(s, i))
<1> DEFINE g == DetachItemViaPointer(h, p, x)
           t == Without(s, i)
           N == Len(s)
           l == h[x].prev
           n == h[x].next
<1>1. /\ N \in Nat /\ i \in Nat /\ 1 <= i /\ i <= N
      /\ \A j \in 1 .. N : s[j] \in Nodes(h)
      /\ Null \notin Nodes(h)
  BY JsonAssumption DEF Nodes, Addr
<1>2. /\ t \in Seq(Nodes(h)) /\ Len(t) = N - 1
      /\ \A j \in 1 .. N - 1 : t[j] = IF j < i THEN s[j] ELSE s[j + 1]
  BY WithoutProperties
<1>3. \A b \in Nodes(h) :
        /\ g[b].child = IF b = p /\ i = 1 THEN n ELSE h[b].child
        /\ g[b].next = IF b = x THEN Null ELSE IF i # 1 /\ b = l THEN n ELSE h[b].next
        /\ g[b].prev = IF b = x THEN Null
                       ELSE IF (n # Null /\ b = n) \/ (n = Null /\ i # 1 /\ b = s[1])
                       THEN l ELSE h[b].prev
  BY DetachFields
<1>4. /\ h[p].child = s[1]
      /\ \A j \in 1 .. N : /\ h[s[j]].next = IF j = N THEN Null ELSE s[j + 1]
                           /\ h[s[j]].prev = IF j = 1 THEN s[N] ELSE s[j - 1]
  BY <1>1 DEF Chained
<1>5. /\ l = IF i = 1 THEN s[N] ELSE s[i - 1]
      /\ n = IF i = N THEN Null ELSE s[i + 1]
  BY <1>1, <1>4
<1>6. n = Null <=> i = N
  <2>1. i # N => i + 1 \in 1 .. N  BY <1>1
  <2> QED  BY <2>1, <1>1, <1>5
<1> HIDE DEF g, t, N, l, n
<1>7. \A j, m \in 1 .. N : s[j] = s[m] => j = m  BY DEF N
<1>8. \A j \in 1 .. N : j # i => s[j] # x  BY <1>1, <1>7
<1>9. g[p].child = IF Len(t) = 0 THEN Null ELSE t[1]
  <2>1. CASE i = 1
    <3>1. g[p].child = n  BY <2>1, <1>3
    <3>2. Len(t) # 0 => 1 \in 1 .. N - 1 /\ t[1] = s[2]  BY <2>1, <1>1, <1>2
    <3> QED  BY <2>1, <3>1, <3>2, <1>1, <1>2, <1>5
  <2>2. CASE i # 1
    <3>1. g[p].child = s[1]  BY <2>2, <1>3, <1>4
    <3>2. N - 1 # 0 /\ 1 \in 1 .. N - 1 /\ 1 < i  BY <2>2, <1>1
    <3>3. Len(t) # 0 /\ t[1] = s[1]  BY <3>2, <1>2
    <3> QED  BY <3>1, <3>3
  <2> QED  BY <2>1, <2>2
<1>10. ASSUME NEW j \in 1 .. N - 1
       PROVE  g[t[j]].next = IF j = Len(t) THEN Null ELSE t[j + 1]
  <2>1. CASE j < i - 1
    <3>1. j \in 1 .. N /\ j # i /\ j # N /\ j + 1 \in 1 .. N - 1 /\ j # Len(t) /\ i # 1
          /\ i - 1 \in 1 .. N /\ j # i - 1
      BY <2>1, <1>1, <1>2
    <3>2. t[j] = s[j] /\ t[j + 1] = s[j + 1]  BY <2>1, <3>1, <1>2
    <3>3. s[j] # l /\ s[j] # x  BY <3>1, <1>5, <1>7, <1>8
    <3>4. g[s[j]].next = s[j + 1]  BY <3>1, <3>3, <1>1, <1>3, <1>4
    <3> QED  BY <3>1, <3>2, <3>4
  <2>2. CASE j = i - 1
    <3>1. j \in 1 .. N /\ j # i /\ i # 1 /\ j < i  BY <2>2, <1>1
    <3>2. t[j] = s[j] /\ s[j] = l  BY <2>2, <3>1, <1>2, <1>5
    <3>3. g[s[j]].next = n  BY <3>1, <3>2, <1>1, <1>3, <1>8
    <3>4. j # Len(t) => j + 1 \in 1 .. N - 1 /\ t[j + 1] = s[i + 1] /\ i # N
      BY <2>2, <1>1, <1>2
    <3>5. j = Len(t) => i = N  BY <2>2, <1>1, <1>2
    <3> QED  BY <3>2, <3>3, <3>4, <3>5, <1>5
  <2>3. CASE ~ j < i
    <3>1. j + 1 \in 1 .. N /\ j + 1 # i /\ (i # 1 => i - 1 \in 1 .. N /\ j + 1 # i - 1)
      BY <2>3, <1>1
    <3>2. t[j] = s[j + 1]  BY <2>3, <1>2
    <3>3. s[j + 1] # x /\ (i # 1 => s[j + 1] # l)  BY <3>1, <1>5, <1>7, <1>8
    <3>4. g[s[j + 1]].next = h[s[j + 1]].next  BY <3>1, <3>3, <1>1, <1>3
    <3>5. j = Len(t) <=> j + 1 = N  BY <1>1, <1>2
    <3>6. j # Len(t) => j + 1 \in 1 .. N - 1 /\ ~ j + 1 < i  BY <2>3, <1>1, <1>2
    <3>7. j # Len(t) => t[j + 1] = s[j + 1 + 1]  BY <3>6, <1>2
    <3> QED  BY <3>1, <3>2, <3>4, <3>5, <3>7, <1>4
  <2> QED  BY <2>1, <2>2, <2>3, <1>1
<1>11. ASSUME NEW j \in 1 .. N - 1
       PROVE  g[t[j]].prev = IF j = 1 THEN t[Len(t)] ELSE t[j - 1]
  <2>1. Len(t) \in 1 .. N - 1 /\ N \in 1 .. N /\ 1 \in 1 .. N /\ N # 1  BY <1>1, <1>2
  <2>2. CASE i = 1
    <3>1. j + 1 \in 1 .. N /\ j + 1 # i /\ ~ j < i /\ i # N /\ i + 1 = 2 /\ 2 \in 1 .. N
      BY <2>2, <1>1
    <3>2. t[j] = s[j + 1] /\ l = s[N] /\ n = s[2] /\ n # Null
      BY <2>2, <3>1, <1>2, <1>5, <1>6
    <3>3. t[Len(t)] = s[N]  BY <2>1, <2>2, <1>1, <1>2
    <3>4. CASE j = 1
      <4>1. g[s[2]].prev = l  BY <3>1, <3>2, <3>4, <1>1, <1>3, <1>8
      <4> QED  BY <3>2, <3>3, <3>4, <4>1
    <3>5. CASE j # 1
      <4>1. s[j + 1] # n  BY <3>1, <3>2, <3>5, <1>7
      <4>2. g[s[j + 1]].prev = h[s[j + 1]].prev  BY <3>1, <3>2, <4>1, <1>1, <1>3, <1>8
      <4>3. h[s[j + 1]].prev = s[j]
        <5>1. j + 1 # 1 /\ j + 1 - 1 = j  BY <1>1
        <5> QED  BY <3>1, <5>1, <1>4
      <4>4. j - 1 \in 1 .. N - 1 /\ ~ j - 1 < i /\ (j - 1) + 1 = j
        BY <2>2, <3>5, <1>1
      <4>5. t[j - 1] = s[j]  BY <4>4, <1>2
      <4> QED  BY <3>2, <3>5, <4>2, <4>3, <4>5
    <3> QED  BY <3>4, <3>5
  <2>3. CASE i # 1 /\ i = N
    <3>1. j \in 1 .. N /\ j < i /\ j # i /\ Len(t) = i - 1 /\ Len(t) < i  BY <2>3, <1>1, <1>2
    <3>2. t[j] = s[j] /\ n = Null /\ l = s[i - 1] /\ t[Len(t)] = s[i - 1]
      BY <2>1, <2>3, <3>1, <1>2, <1>5
    <3>3. CASE j = 1
      <4>1. g[s[1]].prev = l  BY <2>3, <3>1, <3>2, <3>3, <1>1, <1>3, <1>8
      <4> QED  BY <3>2, <3>3, <4>1
    <3>4. CASE j # 1
      <4>1. s[j] # s[1]  BY <2>1, <3>1, <3>4, <1>7
      <4>2. g[s[j]].prev = h[s[j]].prev  BY <3>1, <3>2, <4>1, <1>1, <1>3, <1>8
      <4>3. h[s[j]].prev = s[j - 1]  BY <3>1, <3>4, <1>4
      <4>4. j - 1 \in 1 .. N - 1 /\ j - 1 < i  BY <3>1, <3>4, <1>1
      <4>5. t[j - 1] = s[j - 1]  BY <4>4, <1>2
      <4> QED  BY <3>2, <3>4, <4>2, <4>3, <4>5
    <3> QED  BY <3>3, <3>4
  <2>4. CASE i # 1 /\ i # N
    <3>1. /\ n = s[i + 1] /\ n # Null /\ l = s[i - 1]
          /\ i + 1 \in 1 .. N /\ i - 1 \in 1 .. N - 1
      BY <2>4, <1>1, <1>5, <1>6
    <3>2. t[Len(t)] = s[N] /\ t[i - 1] = s[i - 1]
      <4>1. ~ Len(t) < i /\ Len(t) + 1 = N /\ i - 1 < i  BY <2>4, <1>1, <1>2
      <4> QED  BY <2>1, <3>1, <4>1, <1>2
    <3>3. CASE j < i
      <4>1. j \in 1 .. N /\ j # i /\ j # i + 1  BY <3>3, <1>1
      <4>2. t[j] = s[j] /\ s[j] # n  BY <3>1, <3>3, <4>1, <1>2, <1>7
      <4>3. g[s[j]].prev = h[s[j]].prev  BY <3>1, <4>1, <4>2, <1>1, <1>3, <1>8
      <4>4. j # 1 => j - 1 \in 1 .. N - 1 /\ j - 1 < i  BY <3>3, <1>1
      <4>5. j # 1 => t[j - 1] = s[j - 1]  BY <4>4, <1>2
      <4> QED  BY <3>2, <4>1, <4>2, <4>3, <4>5, <1>4
    <3>4. CASE j = i
      <4>1. t[j] = n /\ n \in Nodes(h) /\ n # x  BY <3>1, <3>4, <1>1, <1>2, <1>8
      <4>2. g[n].prev = l  BY <3>1, <4>1, <1>3
      <4> QED  BY <2>4, <3>1, <3>2, <3>4, <4>1, <4>2
    <3>5. CASE j > i
      <4>1. /\ j + 1 \in 1 .. N /\ j + 1 # i /\ j + 1 # i + 1 /\ ~ j < i /\ j + 1 # 1
            /\ j # 1 /\ j - 1 \in 1 .. N - 1 /\ ~ j - 1 < i /\ j - 1 + 1 = j /\ j + 1 - 1 = j
        BY <3>5, <1>1
      <4>2. t[j] = s[j + 1] /\ s[j + 1] # n  BY <3>1, <4>1, <1>2, <1>7
      <4>3. g[s[j + 1]].prev = h[s[j + 1]].prev  BY <3>1, <4>1, <4>2, <1>1, <1>3, <1>8
      <4>4. h[s[j + 1]].prev = s[j]  BY <4>1, <1>4
      <4>5. t[j - 1] = s[j]  BY <4>1, <1>2
      <4> QED  BY <4>1, <4>2, <4>3, <4>4, <4>5
    <3> QED  BY <3>3, <3>4, <3>5, <1>1
  <2> QED  BY <2>2, <2>3, <2>4
<1>12. Chained(g, p, t)  BY <1>2, <1>9, <1>10, <1>11 DEF Chained
<1> QED  BY <1>12 DEF g, t

(* cJSON_DetachItemViaPointer hands the item at place i to the caller: its   *)
(* neighbours are each other's, and the first one's prev is the last one,    *)
(* also when the item was the first, the last or the only one.               *)
THEOREM DetachKeepsLists ==
  ASSUME NEW h, NEW k, NEW r, ListsInv(h, k, r), NEW p \in Nodes(h), NEW i \in DOMAIN k[p]
  PROVE  /\ ListsInv(DetachItemViaPointer(h, p, k[p][i]),
                     [k EXCEPT ![p] = Without(k[p], i)], r \cup {k[p][i]})
         /\ Rewired(h, DetachItemViaPointer(h, p, k[p][i]))
<1> DEFINE s == k[p]
           x == s[i]
           g == DetachItemViaPointer(h, p, x)
           t == Without(s, i)
           l == h[x].prev
           n == h[x].next
<1>1. /\ h \in Heaps /\ Places(h, k) /\ Roots(h, k, r) /\ Pointers(h)
      /\ Siblings(h, p, s) /\ Null \notin Nodes(h) /\ Nodes(h) \subseteq Addr
  BY JsonAssumption DEF ListsInv, Nodes, Addr
<1>2. s \in Seq(Nodes(h)) /\ x \in Nodes(h)
  <2>1. s \in Seq(Addr) /\ \A j \in DOMAIN s : s[j] \in Nodes(h)  BY <1>1 DEF Places
  <2> QED  BY <2>1, IsASeq
<1>3. DOMAIN s = 1 .. Len(s) /\ Len(s) \in Nat /\ i \in 1 .. Len(s)  BY <1>2
<1>4. \A j, m \in 1 .. Len(s) : s[j] = s[m] => j = m  BY <1>1, <1>3 DEF Places
<1>5. Chained(h, p, s)  BY <1>1, <1>2, SiblingsChained
<1>6. /\ t \in Seq(Nodes(h)) /\ Len(t) = Len(s) - 1 /\ DOMAIN t = 1 .. Len(s) - 1
      /\ \A j \in 1 .. Len(s) - 1 : t[j] = IF j < i THEN s[j] ELSE s[j + 1]
  <2>1. /\ t \in Seq(Nodes(h)) /\ Len(t) = Len(s) - 1
        /\ \A j \in 1 .. Len(s) - 1 : t[j] = IF j < i THEN s[j] ELSE s[j + 1]
    BY <1>2, <1>3, WithoutProperties
  <2>2. DOMAIN t = 1 .. Len(t)  BY <2>1
  <2> QED  BY <2>1, <2>2
<1>7. Siblings(g, p, t)
  <2>1. Chained(g, p, t)  BY <1>1, <1>2, <1>3, <1>4, <1>5, DetachSiblings
  <2> QED  BY <2>1, <1>6, SiblingsChained
<1>8. /\ Rewired(h, g)
      /\ \A b \in Nodes(h) :
           /\ g[b].child = IF b = p /\ i = 1 THEN n ELSE h[b].child
           /\ g[b].next = IF b = x THEN Null ELSE IF i # 1 /\ b = l THEN n ELSE h[b].next
           /\ g[b].prev = IF b = x THEN Null
                          ELSE IF (n # Null /\ b = n) \/ (n = Null /\ i # 1 /\ b = s[1])
                          THEN l ELSE h[b].prev
  BY <1>1, <1>2, <1>3, <1>4, <1>5, DetachFields
<1>9. /\ l \in Nodes(h) \cup {Null} /\ n \in Nodes(h) \cup {Null}
      /\ i # 1 => \E j \in DOMAIN s : l = s[j]
      /\ n # Null => \E j \in DOMAIN s : n = s[j]
      /\ 1 \in DOMAIN s
  <2>1. l \in Nodes(h) \cup {Null} /\ n \in Nodes(h) \cup {Null}  BY <1>1, <1>2 DEF Pointers
  <2>2. /\ n = IF i = Len(s) THEN Null ELSE s[i + 1]
        /\ l = IF i = 1 THEN s[Len(s)] ELSE s[i - 1]
    BY <1>3, <1>5 DEF Chained
  <2>3. (i # Len(s) => i + 1 \in 1 .. Len(s)) /\ (i # 1 => i - 1 \in 1 .. Len(s))
        /\ 1 \in 1 .. Len(s)
    BY <1>3
  <2> QED  BY <2>1, <2>2, <2>3, <1>3
<1> HIDE DEF g, t, l, n
<1>10. ASSUME NEW j \in DOMAIN t
       PROVE  \E m \in DOMAIN s : m # i /\ t[j] = s[m] /\ m = IF j < i THEN j ELSE j + 1
  <2>1. j \in 1 .. Len(s) - 1  BY <1>6
  <2>2. CASE j < i
    <3>1. j \in 1 .. Len(s) /\ j # i  BY <2>1, <2>2, <1>3
    <3> QED  BY <2>1, <2>2, <3>1, <1>3, <1>6
  <2>3. CASE ~ j < i
    <3>1. j + 1 \in 1 .. Len(s) /\ j + 1 # i  BY <2>1, <2>3, <1>3
    <3> QED  BY <2>1, <2>3, <3>1, <1>3, <1>6
  <2> QED  BY <2>2, <2>3
<1>11. ASSUME NEW y \in Nodes(h)
       PROVE  {g[y].next, g[y].prev, g[y].child} \subseteq Nodes(h) \cup {Null}
  <2>1. {h[y].next, h[y].prev, h[y].child} \subseteq Nodes(h) \cup {Null}  BY <1>1 DEF Pointers
  <2> QED  BY <2>1, <1>8, <1>9
<1>12. ASSUME NEW q \in Nodes(h) \ {p}
       PROVE  /\ g[q].child = h[q].child
              /\ \A j \in DOMAIN k[q] : /\ g[k[q][j]].next = h[k[q][j]].next
                                        /\ g[k[q][j]].prev = h[k[q][j]].prev
  <2>1. g[q].child = h[q].child  BY <1>8
  <2>2. ASSUME NEW j \in DOMAIN k[q]
        PROVE  g[k[q][j]].next = h[k[q][j]].next /\ g[k[q][j]].prev = h[k[q][j]].prev
    <3>1. k[q][j] \in Nodes(h)  BY <1>1 DEF Places
    <3>2. \A m \in DOMAIN s : k[q][j] # s[m]  BY <1>1 DEF Places
    <3>3. /\ k[q][j] # x /\ k[q][j] # s[1] /\ (i # 1 => k[q][j] # l)
          /\ (n # Null => k[q][j] # n)
      BY <3>2, <1>9
    <3> HIDE DEF s, x
    <3> QED  BY <3>1, <3>3, <1>8
  <2> QED  BY <2>1, <2>2
<1>13. ASSUME NEW j \in DOMAIN t, NEW m \in DOMAIN t, t[j] = t[m]  PROVE j = m
  <2>1. PICK a \in DOMAIN s : t[j] = s[a] /\ a = IF j < i THEN j ELSE j + 1  BY <1>10
  <2>2. PICK b \in DOMAIN s : t[m] = s[b] /\ b = IF m < i THEN m ELSE m + 1  BY <1>10
  <2>3. a = b  BY <2>1, <2>2, <1>3, <1>4, <1>13
  <2>4. j \in Nat /\ m \in Nat /\ i \in Nat  BY <1>3, <1>6
  <2> QED  BY <2>1, <2>2, <2>3, <2>4
<1>14. \A j \in DOMAIN t : t[j] \in r \/ \E m \in DOMAIN s : t[j] = s[m]  BY <1>10
<1> DEFINE r2 == r \cup {x}
<1>15. ASSUME NEW y \in r2  PROVE g[y].next = Null
  <2>1. CASE y = x  BY <2>1, <1>2, <1>8
  <2>2. CASE y \in r
    <3>1. y \in Nodes(h) /\ h[y].next = Null /\ \A j \in DOMAIN s : s[j] # y
      BY <2>2, <1>1 DEF Roots
    <3>2. i # 1 => y # l  BY <3>1, <1>9
    <3> QED  BY <3>1, <3>2, <1>8
  <2> QED  BY <2>1, <2>2
<1>16. \A y \in r2 : y \in r \/ \E j \in DOMAIN s : y = s[j]  OBVIOUS
<1>17. \A j \in DOMAIN t : t[j] \notin r2
  <2> SUFFICES ASSUME NEW j \in DOMAIN t  PROVE t[j] \notin r2  OBVIOUS
  <2>1. PICK m \in DOMAIN s : m # i /\ t[j] = s[m]  BY <1>10
  <2>2. s[m] # x  BY <2>1, <1>3, <1>4
  <2>3. s[m] \notin r  BY <1>1 DEF Roots
  <2> QED  BY <2>1, <2>2, <2>3
<1>18. r2 \in SUBSET Nodes(h)  BY <1>1, <1>2 DEF Roots
<1> HIDE DEF x, r2
<1>19. Relisted(h, g, k, r, p, t, r2)
  BY <1>6, <1>7, <1>8, <1>11, <1>12, <1>13, <1>14, <1>15, <1>16, <1>17, <1>18 DEF Relisted
<1>20. ListsInv(g, [k EXCEPT ![p] = t], r2)  BY <1>19, ListsStep
<1> QED  BY <1>8, <1>20 DEF g, t, x, r2

(***************************************************************************)
(* cJSON_InsertItemInArray.                                                *)
(***************************************************************************)
(* x goes before the item at place i. *)
PutBefore(h, p, s, i, x) ==
  LET h1 == PutPrev(PutPrev(PutNext(h, x, s[i]), x, h[s[i]].prev), s[i], x)
  IN  IF i = 1 THEN PutChild(h1, p, x) ELSE PutNext(h1, h[s[i]].prev, x)

LEMMA InsertIsPutBefore ==
  ASSUME NEW h, NEW p, NEW s \in Seq(Nodes(h)), Chained(h, p, s), NEW i \in 1 .. Len(s), NEW x,
         \A j, m \in 1 .. Len(s) : s[j] = s[m] => j = m
  PROVE  InsertBefore(h, p, s[i], x) = PutBefore(h, p, s, i, x)
<1>1. Len(s) # 0 /\ 1 \in 1 .. Len(s)  OBVIOUS
<1>2. s[i] = h[p].child <=> i = 1  BY <1>1 DEF Chained
<1> DEFINE first == s[i] = h[p].child
           h1 == PutPrev(PutPrev(PutNext(h, x, s[i]), x, h[s[i]].prev), s[i], x)
<1>3. InsertBefore(h, p, s[i], x)
        = IF first THEN PutChild(h1, p, x) ELSE PutNext(h1, h[s[i]].prev, x)
  BY DEF InsertBefore, PutNext, PutPrev, PutChild
<1>4. first <=> i = 1  BY <1>2
<1> HIDE DEF first
<1> QED  BY <1>3, <1>4 DEF PutBefore

LEMMA InsertFields ==
  ASSUME NEW h \in Heaps, NEW p \in Nodes(h), NEW s \in Seq(Nodes(h)), Chained(h, p, s),
         NEW i \in 1 .. Len(s), NEW a, a = s[i], NEW l, l = h[a].prev,
         NEW x \in Nodes(h), \A j \in 1 .. Len(s) : s[j] # x,
         NEW g, g = PutBefore(h, p, s, i, x)
  PROVE  /\ Rewired(h, g)
         /\ \A b \in Nodes(h) :
              /\ g[b].child = IF b = p /\ i = 1 THEN x ELSE h[b].child
              /\ g[b].next = IF b = x THEN a ELSE IF i # 1 /\ b = l THEN x ELSE h[b].next
              /\ g[b].prev = IF b = x THEN l ELSE IF b = a THEN x ELSE h[b].prev
<1>1. /\ a \in Nodes(h) /\ a # x /\ Nodes(h) \subseteq Ptr  BY DEF Ptr, Nodes
<1>2. l \in Nodes(h) /\ l # x
  <2>1. h[s[i]].prev = IF i = 1 THEN s[Len(s)] ELSE s[i - 1]  BY DEF Chained
  <2>2. (i # 1 => i - 1 \in 1 .. Len(s)) /\ Len(s) \in 1 .. Len(s)  OBVIOUS
  <2> QED  BY <2>1, <2>2
<1> DEFINE h1 == PutNext(h, x, a)
           h2 == PutPrev(h1, x, l)
           h3 == PutPrev(h2, a, x)
           h4 == IF i = 1 THEN PutChild(h3, p, x) ELSE PutNext(h3, l, x)
<1>3. g = h4  BY DEF PutBefore
<1>4. /\ Rewired(h, h1)
      /\ \A b \in Nodes(h) : /\ h1[b].next = IF b = x THEN a ELSE h[b].next
                             /\ h1[b].prev = h[b].prev /\ h1[b].child = h[b].child
  BY <1>1, WriteNext
<1> HIDE DEF h1
<1>5. h1 \in Heaps /\ Nodes(h1) = Nodes(h)  BY <1>4 DEF Rewired
<1>6. /\ Rewired(h1, h2)
      /\ \A b \in Nodes(h) : /\ h2[b].prev = IF b = x THEN l ELSE h1[b].prev
                             /\ h2[b].next = h1[b].next /\ h2[b].child = h1[b].child
  BY <1>1, <1>2, <1>5, WritePrev
<1> HIDE DEF h2
<1>7. h2 \in Heaps /\ Nodes(h2) = Nodes(h)  BY <1>5, <1>6 DEF Rewired
<1>8. /\ Rewired(h2, h3)
      /\ \A b \in Nodes(h) : /\ h3[b].prev = IF b = a THEN x ELSE h2[b].prev
                             /\ h3[b].next = h2[b].next /\ h3[b].child = h2[b].child
  BY <1>1, <1>7, WritePrev
<1> HIDE DEF h3
<1>9. h3 \in Heaps /\ Nodes(h3) = Nodes(h)  BY <1>7, <1>8 DEF Rewired
<1>10. /\ Rewired(h3, h4)
       /\ \A b \in Nodes(h) :
            /\ h4[b].child = IF b = p /\ i = 1 THEN x ELSE h3[b].child
            /\ h4[b].next = IF i # 1 /\ b = l THEN x ELSE h3[b].next
            /\ h4[b].prev = h3[b].prev
  <2>1. CASE i = 1  BY <2>1, <1>1, <1>9, WriteChild
  <2>2. CASE i # 1  BY <2>2, <1>1, <1>2, <1>9, WriteNext
  <2> QED  BY <2>1, <2>2
<1> HIDE DEF h4
<1>11. Rewired(h, g)
  <2>1. Rewired(h, h2)  BY <1>4, <1>6, RewiredTwice
  <2> QED  BY <2>1, <1>3, <1>8, <1>10, RewiredTwice
<1>12. ASSUME NEW b \in Nodes(h)
       PROVE  /\ g[b].child = IF b = p /\ i = 1 THEN x ELSE h[b].child
              /\ g[b].next = IF b = x THEN a ELSE IF i # 1 /\ b = l THEN x ELSE h[b].next
              /\ g[b].prev = IF b = x THEN l ELSE IF b = a THEN x ELSE h[b].prev
  <2>1. g[b].child = IF b = p /\ i = 1 THEN x ELSE h[b].child
    BY <1>3, <1>4, <1>6, <1>8, <1>10
  <2>2. g[b].next = IF b = x THEN a ELSE IF i # 1 /\ b = l THEN x ELSE h[b].next
    BY <1>2, <1>3, <1>4, <1>6, <1>8, <1>10
  <2>3. g[b].prev = IF b = x THEN l ELSE IF b = a THEN x ELSE h[b].prev
    BY <1>1, <1>3, <1>4, <1>6, <1>8, <1>10
  <2> QED  BY <2>1, <2>2, <2>3
<1> QED  BY <1>11, <1>12

LEMMA WithProperties ==
  ASSUME NEW S, NEW s \in Seq(S), NEW i \in 1 .. Len(s), NEW x \in S
  PROVE  /\ With(s, i, x) \in Seq(S)
         /\ Len(With(s, i, x)) = Len(s) + 1
         /\ \A j \in 1 .. Len(s) + 1 :
              With(s, i, x)[j] = IF j < i THEN s[j] ELSE IF j = i THEN x ELSE s[j - 1]
<1> DEFINE a == SubSeq(s, 1, i - 1)
           b == SubSeq(s, i, Len(s))
           c == a \o <<x>>
<1>1. Len(s) \in Nat /\ i \in Nat /\ 1 <= i /\ i <= Len(s)  OBVIOUS
<1>2. /\ a \in Seq(S) /\ Len(a) = i - 1
      /\ \A j \in 1 .. i - 1 : a[j] = s[j]
  <2>1. \A j \in 1 .. i - 1 : s[j] \in S  OBVIOUS
  <2>2. /\ a \in Seq(S)
        /\ Len(a) = IF 1 <= i - 1 THEN i - 1 - 1 + 1 ELSE 0
        /\ \A j \in 1 .. i - 1 - 1 + 1 : a[j] = s[1 + j - 1]
    BY <2>1, SubSeqProperties, 1 \in Int, i - 1 \in Int
  <2> QED  BY <1>1, <2>2
<1>3. /\ b \in Seq(S) /\ Len(b) = Len(s) - i + 1
      /\ \A j \in 1 .. Len(s) - i + 1 : b[j] = s[i + j - 1]
  <2>1. \A j \in i .. Len(s) : s[j] \in S  OBVIOUS
  <2>2. /\ b \in Seq(S)
        /\ Len(b) = IF i <= Len(s) THEN Len(s) - i + 1 ELSE 0
        /\ \A j \in 1 .. Len(s) - i + 1 : b[j] = s[i + j - 1]
    BY <2>1, SubSeqProperties, i \in Int, Len(s) \in Int
  <2> QED  BY <1>1, <2>2
<1>4. With(s, i, x) = c \o b  BY DEF With
<1>5. <<x>> \in Seq(S) /\ Len(<<x>>) = 1 /\ <<x>>[1] = x  OBVIOUS
<1> HIDE DEF a, b
<1>6. /\ c \in Seq(S) /\ Len(c) = i
      /\ \A j \in 1 .. i : c[j] = IF j < i THEN s[j] ELSE x
  <2>1. /\ c \in Seq(S) /\ Len(c) = Len(a) + Len(<<x>>)
        /\ \A j \in 1 .. Len(a) + Len(<<x>>) :
             c[j] = IF j <= Len(a) THEN a[j] ELSE <<x>>[j - Len(a)]
    BY <1>2, <1>5, ConcatProperties
  <2> HIDE DEF c
  <2>2. ASSUME NEW j \in 1 .. i  PROVE c[j] = IF j < i THEN s[j] ELSE x
    <3>1. CASE j < i
      <4>1. j \in 1 .. i - 1 /\ j <= Len(a) /\ j \in 1 .. Len(a) + Len(<<x>>)
        BY <3>1, <1>1, <1>2, <1>5
      <4> QED  BY <3>1, <4>1, <2>1, <1>2
    <3>2. CASE ~ j < i
      <4>1. ~ j <= Len(a) /\ j - Len(a) = 1 /\ j \in 1 .. Len(a) + Len(<<x>>)
        BY <3>2, <1>1, <1>2, <1>5
      <4> QED  BY <3>2, <4>1, <2>1, <1>5
    <3> QED  BY <3>1, <3>2
  <2> QED  BY <2>1, <2>2, <1>1, <1>2, <1>5
<1> HIDE DEF c
<1>7. /\ c \o b \in Seq(S) /\ Len(c \o b) = Len(c) + Len(b)
      /\ \A j \in 1 .. Len(c) + Len(b) :
           (c \o b)[j] = IF j <= Len(c) THEN c[j] ELSE b[j - Len(c)]
  BY <1>3, <1>6, ConcatProperties
<1>8. ASSUME NEW j \in 1 .. Len(s) + 1
      PROVE  (c \o b)[j] = IF j < i THEN s[j] ELSE IF j = i THEN x ELSE s[j - 1]
  <2>1. CASE j <= i
    <3>1. j \in 1 .. i /\ j <= Len(c) /\ j \in 1 .. Len(c) + Len(b)
      BY <2>1, <1>1, <1>3, <1>6
    <3> QED  BY <2>1, <3>1, <1>1, <1>6, <1>7
  <2>2. CASE ~ j <= i
    <3>1. /\ j - i \in 1 .. Len(s) - i + 1 /\ ~ j <= Len(c)
          /\ j \in 1 .. Len(c) + Len(b) /\ i + (j - i) - 1 = j - 1 /\ ~ j < i /\ j # i
      BY <2>2, <1>1, <1>3, <1>6
    <3> QED  BY <3>1, <1>3, <1>6, <1>7
  <2> QED  BY <2>1, <2>2
<1> QED  BY <1>1, <1>3, <1>4, <1>6, <1>7, <1>8

LEMMA InsertSiblings ==
  ASSUME NEW h \in Heaps, NEW p \in Nodes(h), NEW s \in Seq(Nodes(h)), Chained(h, p, s),
         \A j, m \in 1 .. Len(s) : s[j] = s[m] => j = m,
         NEW i \in 1 .. Len(s), NEW x \in Nodes(h), \A j \in 1 .. Len(s) : s[j] # x
  PROVE  Chained(PutBefore(h, p, s, i, x), p, With(s, i, x))
<1> DEFINE g == PutBefore(h, p, s, i, x)
           t == With(s, i, x)
           N == Len(s)
           a == s[i]
           l == h[a].prev
<1>1. /\ N \in Nat /\ i \in Nat /\ 1 <= i /\ i <= N
      /\ \A j \in 1 .. N : s[j] \in Nodes(h) /\ s[j] # x
  OBVIOUS
<1>2. /\ t \in Seq(Nodes(h)) /\ Len(t) = N + 1
      /\ \A j \in 1 .. N + 1 : t[j] = IF j < i THEN s[j] ELSE IF j = i THEN x ELSE s[j - 1]
  <2>1. s \in Seq(Nodes(h)) /\ i \in 1 .. Len(s) /\ x \in Nodes(h)  OBVIOUS
  <2>2. /\ With(s, i, x) \in Seq(Nodes(h))
        /\ Len(With(s, i, x)) = Len(s) + 1
        /\ \A j \in 1 .. Len(s) + 1 :
             With(s, i, x)[j] = IF j < i THEN s[j] ELSE IF j = i THEN x ELSE s[j - 1]
    <3> HIDE DEF g, t, N, a, l
    <3> QED  BY <2>1, WithProperties
  <2> QED  BY <2>2
<1>3. \A b \in Nodes(h) :
        /\ g[b].child = IF b = p /\ i = 1 THEN x ELSE h[b].child
        /\ g[b].next = IF b = x THEN a ELSE IF i # 1 /\ b = l THEN x ELSE h[b].next
        /\ g[b].prev = IF b = x THEN l ELSE IF b = a THEN x ELSE h[b].prev
  BY InsertFields
<1>4. /\ h[p].child = s[1]
      /\ \A j \in 1 .. N : /\ h[s[j]].next = IF j = N THEN Null ELSE s[j + 1]
                           /\ h[s[j]].prev = IF j = 1 THEN s[N] ELSE s[j - 1]
  BY <1>1 DEF Chained
<1>5. l = IF i = 1 THEN s[N] ELSE s[i - 1]  BY <1>1, <1>4
<1>6. a = s[i]  OBVIOUS
<1>7. \A j, m \in 1 .. N : s[j] = s[m] => j = m  BY DEF N
<1> HIDE DEF g, t, N, a, l
<1>8. g[p].child = t[1] /\ Len(t) # 0
  <2>1. 1 \in 1 .. N + 1 /\ Len(t) # 0  BY <1>1, <1>2
  <2>2. CASE i = 1  BY <2>1, <2>2, <1>2, <1>3
  <2>3. CASE i # 1
    <3>1. 1 < i  BY <2>3, <1>1
    <3> QED  BY <2>1, <2>3, <3>1, <1>2, <1>3, <1>4
  <2> QED  BY <2>2, <2>3
<1>9. ASSUME NEW j \in 1 .. N + 1
      PROVE  /\ g[t[j]].next = IF j = Len(t) THEN Null ELSE t[j + 1]
             /\ g[t[j]].prev = IF j = 1 THEN t[Len(t)] ELSE t[j - 1]
  <2>1. N \in 1 .. N /\ N + 1 \in 1 .. N + 1 /\ ~ N + 1 < i /\ N + 1 # i /\ N + 1 - 1 = N
    BY <1>1
  <2>2. t[Len(t)] = s[N]  BY <2>1, <1>2
  <2>3. CASE j = i
    <3>1. t[j] = x /\ g[x].next = a /\ g[x].prev = l  BY <2>3, <1>2, <1>3
    <3>2. /\ j + 1 \in 1 .. N + 1 /\ ~ j + 1 < i /\ j + 1 # i /\ j + 1 - 1 = i /\ j # N + 1
          /\ j # 1 => j - 1 \in 1 .. N + 1 /\ j - 1 < i
      BY <2>3, <1>1
    <3>3. t[j + 1] = a  BY <3>2, <1>2, <1>6
    <3>4. j # 1 => t[j - 1] = s[i - 1]  BY <2>3, <3>2, <1>2
    <3> QED  BY <2>2, <2>3, <3>1, <3>2, <3>3, <3>4, <1>2, <1>5
  <2>4. CASE j < i
    <3>1. /\ j \in 1 .. N /\ j # i /\ j # N + 1 /\ j # N /\ i \in 1 .. N
          /\ j + 1 \in 1 .. N + 1 /\ i # 1 /\ i - 1 \in 1 .. N
          /\ j # 1 => j - 1 \in 1 .. N + 1 /\ j - 1 < i
          /\ j # i - 1 => j + 1 < i
          /\ j = i - 1 => j + 1 = i
      BY <2>4, <1>1
    <3>2. t[j] = s[j] /\ s[j] # a /\ s[j] # x /\ s[j] \in Nodes(h)
      BY <2>4, <3>1, <1>1, <1>2, <1>6, <1>7
    <3>3. g[s[j]].prev = h[s[j]].prev  BY <3>2, <1>3
    <3>4. j # 1 => t[j - 1] = s[j - 1]  BY <3>1, <1>2
    <3>5. g[s[j]].next = t[j + 1]
      <4>1. CASE j = i - 1
        <5>1. s[j] = l  BY <3>1, <4>1, <1>5
        <5>2. t[j + 1] = x  BY <3>1, <4>1, <1>2
        <5> QED  BY <3>1, <3>2, <5>1, <5>2, <1>3
      <4>2. CASE j # i - 1
        <5>1. s[j] # l  BY <3>1, <4>2, <1>5, <1>7
        <5>2. g[s[j]].next = s[j + 1]  BY <3>1, <3>2, <5>1, <1>3, <1>4
        <5>3. t[j + 1] = s[j + 1]  BY <3>1, <4>2, <1>2
        <5> QED  BY <5>2, <5>3
      <4> QED  BY <4>1, <4>2
    <3>6. j = 1 => h[s[j]].prev = s[N]  BY <3>1, <1>4
    <3>7. j # 1 => h[s[j]].prev = s[j - 1]  BY <3>1, <1>4
    <3> QED  BY <2>2, <3>1, <3>2, <3>3, <3>4, <3>5, <3>6, <3>7, <1>2
  <2>5. CASE j > i
    <3>1. /\ j - 1 \in 1 .. N /\ ~ j < i /\ j # i /\ j # 1 /\ j - 1 \in 1 .. N + 1
          /\ i \in 1 .. N /\ (i # 1 => i - 1 \in 1 .. N /\ j - 1 # i - 1)
          /\ (j # N + 1 => j + 1 \in 1 .. N + 1 /\ ~ j + 1 < i /\ j + 1 # i /\ j + 1 - 1 = j
                           /\ j - 1 # N /\ j - 1 + 1 = j)
          /\ (j = N + 1 => j - 1 = N)
          /\ (j - 1 # i => ~ j - 1 < i /\ j - 1 # 1 /\ j - 1 - 1 \in 1 .. N)
      BY <2>5, <1>1
    <3>2. t[j] = s[j - 1] /\ s[j - 1] # x /\ s[j - 1] \in Nodes(h)  BY <3>1, <1>1, <1>2
    <3>3. i # 1 => s[j - 1] # l  BY <3>1, <1>5, <1>7
    <3>4. g[s[j - 1]].next = h[s[j - 1]].next  BY <3>2, <3>3, <1>3
    <3>5. g[s[j - 1]].next = IF j = Len(t) THEN Null ELSE t[j + 1]
      <4>1. CASE j = N + 1  BY <3>1, <3>4, <4>1, <1>2, <1>4
      <4>2. CASE j # N + 1
        <5>1. h[s[j - 1]].next = s[j]  BY <3>1, <4>2, <1>4
        <5>2. t[j + 1] = s[j]  BY <3>1, <4>2, <1>2
        <5> QED  BY <3>4, <4>2, <5>1, <5>2, <1>2
      <4> QED  BY <4>1, <4>2
    <3>6. g[s[j - 1]].prev = t[j - 1]
      <4>1. CASE j - 1 = i
        <5>1. g[s[j - 1]].prev = x  BY <3>2, <4>1, <1>3, <1>6
        <5>2. t[j - 1] = x  BY <3>1, <4>1, <1>2
        <5> QED  BY <5>1, <5>2
      <4>2. CASE j - 1 # i
        <5>1. s[j - 1] # a  BY <3>1, <4>2, <1>6, <1>7
        <5>2. g[s[j - 1]].prev = s[j - 1 - 1]  BY <3>1, <3>2, <4>2, <5>1, <1>3, <1>4
        <5>3. t[j - 1] = s[j - 1 - 1]  BY <3>1, <4>2, <1>2
        <5> QED  BY <5>2, <5>3
      <4> QED  BY <4>1, <4>2
    <3> QED  BY <3>1, <3>2, <3>5, <3>6
  <2> QED  BY <2>3, <2>4, <2>5, <1>1
<1>10. Chained(g, p, t)  BY <1>2, <1>8, <1>9 DEF Chained
<1> QED  BY <1>10 DEF g, t

(* Only p, its children and x change: other lists and held items stay.       *)
LEMMA OthersStay ==
  ASSUME NEW h, NEW k, NEW r, Places(h, k), Roots(h, k, r), NEW p \in Nodes(h), NEW x \in r,
         NEW g, \A b \in Nodes(h) : b # p => g[b].child = h[b].child,
         \A b \in Nodes(h) : b # x /\ (\A j \in DOMAIN k[p] : b # k[p][j]) =>
           g[b].next = h[b].next /\ g[b].prev = h[b].prev
  PROVE  /\ \A q \in Nodes(h) \ {p} :
              /\ g[q].child = h[q].child
              /\ \A j \in DOMAIN k[q] : /\ g[k[q][j]].next = h[k[q][j]].next
                                        /\ g[k[q][j]].prev = h[k[q][j]].prev
         /\ \A y \in r \ {x} : g[y].next = Null
<1>1. ASSUME NEW q \in Nodes(h) \ {p}, NEW j \in DOMAIN k[q]
      PROVE  g[k[q][j]].next = h[k[q][j]].next /\ g[k[q][j]].prev = h[k[q][j]].prev
  <2>1. k[q][j] \in Nodes(h) /\ k[q][j] # x  BY DEF Places, Roots
  <2>2. \A m \in DOMAIN k[p] : k[q][j] # k[p][m]  BY DEF Places
  <2> QED  BY <2>1, <2>2
<1>2. ASSUME NEW y \in r \ {x}  PROVE g[y].next = Null
  <2>1. y \in Nodes(h) /\ h[y].next = Null /\ \A m \in DOMAIN k[p] : y # k[p][m]  BY DEF Roots
  <2> QED  BY <2>1
<1> QED  BY <1>1, <1>2

(* p's children are a sequence without repetition, chained up in its order.  *)
LEMMA ListOf ==
  ASSUME NEW h, NEW k, NEW r, ListsInv(h, k, r), NEW p \in Nodes(h)
  PROVE  /\ k[p] \in Seq(Nodes(h)) /\ DOMAIN k[p] = 1 .. Len(k[p]) /\ Len(k[p]) \in Nat
         /\ Chained(h, p, k[p])
         /\ \A j, m \in 1 .. Len(k[p]) : k[p][j] = k[p][m] => j = m
<1>1. Places(h, k) /\ Siblings(h, p, k[p]) /\ Nodes(h) \subseteq Addr  BY DEF ListsInv, Nodes
<1>2. k[p] \in Seq(Nodes(h))
  <2>1. k[p] \in Seq(Addr) /\ \A j \in DOMAIN k[p] : k[p][j] \in Nodes(h)  BY <1>1 DEF Places
  <2> QED  BY <2>1, IsASeq
<1>3. DOMAIN k[p] = 1 .. Len(k[p]) /\ Len(k[p]) \in Nat  BY <1>2
<1>4. Chained(h, p, k[p])  BY <1>1, <1>2, SiblingsChained
<1> QED  BY <1>1, <1>2, <1>3, <1>4 DEF Places

(* cJSON_InsertItemInArray puts an item that a caller holds before the item  *)
(* it found at place i, also before the first one.                           *)
THEOREM InsertKeepsLists ==
  ASSUME NEW h, NEW k, NEW r, ListsInv(h, k, r), NEW p \in Nodes(h), NEW i \in 1 .. Len(k[p]),
         NEW x \in r
  PROVE  /\ ListsInv(InsertBefore(h, p, k[p][i], x), [k EXCEPT ![p] = With(k[p], i, x)], r \ {x})
         /\ Rewired(h, InsertBefore(h, p, k[p][i], x))
<1>0. PICK s : s = k[p]  OBVIOUS
<1> DEFINE a == s[i]
           g == InsertBefore(h, p, a, x)
           t == With(s, i, x)
           l == h[a].prev
           r2 == r \ {x}
<1>1. h \in Heaps /\ Places(h, k) /\ Roots(h, k, r) /\ Pointers(h)  BY DEF ListsInv
<1>2. /\ s \in Seq(Nodes(h)) /\ DOMAIN s = 1 .. Len(s) /\ Len(s) \in Nat /\ i \in 1 .. Len(s)
      /\ Chained(h, p, s)
      /\ \A j, m \in 1 .. Len(s) : s[j] = s[m] => j = m
  BY <1>0, ListOf
<1>3. x \in Nodes(h) /\ \A j \in 1 .. Len(s) : s[j] # x  BY <1>0, <1>1, <1>2 DEF Roots
<1>4. g = PutBefore(h, p, s, i, x)  BY <1>1, <1>2, <1>3, InsertIsPutBefore
<1>5. /\ t \in Seq(Nodes(h)) /\ DOMAIN t = 1 .. Len(s) + 1
      /\ \A j \in 1 .. Len(s) + 1 : t[j] = IF j < i THEN s[j] ELSE IF j = i THEN x ELSE s[j - 1]
  <2>1. s \in Seq(Nodes(h)) /\ i \in 1 .. Len(s) /\ x \in Nodes(h)  BY <1>2, <1>3
  <2>2. /\ With(s, i, x) \in Seq(Nodes(h)) /\ Len(With(s, i, x)) = Len(s) + 1
        /\ \A j \in 1 .. Len(s) + 1 :
             With(s, i, x)[j] = IF j < i THEN s[j] ELSE IF j = i THEN x ELSE s[j - 1]
    <3> HIDE DEF a, g, l, r2, t
    <3> QED  BY <2>1, WithProperties
  <2>3. DOMAIN With(s, i, x) = 1 .. Len(With(s, i, x))  BY <2>2
  <2> QED  BY <2>2, <2>3
<1>6. Siblings(g, p, t)
  <2>1. Chained(g, p, t)  BY <1>1, <1>2, <1>3, <1>4, InsertSiblings
  <2> QED  BY <2>1, <1>5, SiblingsChained
<1>7. /\ Rewired(h, g)
      /\ \A b \in Nodes(h) :
           /\ g[b].child = IF b = p /\ i = 1 THEN x ELSE h[b].child
           /\ g[b].next = IF b = x THEN a ELSE IF i # 1 /\ b = l THEN x ELSE h[b].next
           /\ g[b].prev = IF b = x THEN l ELSE IF b = a THEN x ELSE h[b].prev
  BY <1>1, <1>2, <1>3, <1>4, InsertFields
<1>8. a \in Nodes(h) /\ l \in Nodes(h) \cup {Null} /\ \E j \in 1 .. Len(s) : l = s[j]
  <2>1. l = IF i = 1 THEN s[Len(s)] ELSE s[i - 1]  BY <1>2 DEF Chained
  <2>2. (i # 1 => i - 1 \in 1 .. Len(s)) /\ Len(s) \in 1 .. Len(s)  BY <1>2
  <2> QED  BY <2>1, <2>2, <1>2
<1> HIDE DEF g, t, l, r2
<1>9. ASSUME NEW j \in DOMAIN t, j # i
      PROVE  \E m \in DOMAIN s : t[j] = s[m] /\ m = IF j < i THEN j ELSE j - 1
  <2>1. (j < i => j \in 1 .. Len(s)) /\ (~ j < i => j - 1 \in 1 .. Len(s))
    BY <1>2, <1>5, <1>9
  <2> QED  BY <2>1, <1>2, <1>5, <1>9
<1>10. i \in DOMAIN t /\ t[i] = x  BY <1>2, <1>5
<1>11. ASSUME NEW y \in Nodes(h)
       PROVE  {g[y].next, g[y].prev, g[y].child} \subseteq Nodes(h) \cup {Null}
  <2>1. {h[y].next, h[y].prev, h[y].child} \subseteq Nodes(h) \cup {Null}  BY <1>1 DEF Pointers
  <2> QED  BY <2>1, <1>3, <1>7, <1>8
<1>12. /\ \A q \in Nodes(h) \ {p} :
            /\ g[q].child = h[q].child
            /\ \A j \in DOMAIN k[q] : /\ g[k[q][j]].next = h[k[q][j]].next
                                      /\ g[k[q][j]].prev = h[k[q][j]].prev
       /\ \A y \in r2 : g[y].next = Null
  <2>1. \A b \in Nodes(h) : b # p => g[b].child = h[b].child  BY <1>7
  <2>2. \A b \in Nodes(h) : b # x /\ (\A j \in DOMAIN k[p] : b # k[p][j]) =>
          g[b].next = h[b].next /\ g[b].prev = h[b].prev
    BY <1>0, <1>2, <1>7, <1>8
  <2> QED  BY <2>1, <2>2, <1>1, OthersStay DEF r2
<1>13. ASSUME NEW j \in DOMAIN t, NEW m \in DOMAIN t, t[j] = t[m]  PROVE j = m
  <2>1. j \in Nat /\ m \in Nat /\ i \in Nat  BY <1>2, <1>5
  <2>2. \A b \in DOMAIN s : s[b] # x  BY <1>2, <1>3
  <2>3. CASE j = i \/ m = i
    <3>1. (j = i => m = i) /\ (m = i => j = i)  BY <1>9, <1>10, <1>13, <2>2
    <3> QED  BY <2>3, <3>1
  <2>4. CASE j # i /\ m # i
    <3>1. PICK b \in DOMAIN s : t[j] = s[b] /\ b = IF j < i THEN j ELSE j - 1  BY <1>9, <2>4
    <3>2. PICK c \in DOMAIN s : t[m] = s[c] /\ c = IF m < i THEN m ELSE m - 1  BY <1>9, <2>4
    <3>3. b = c  BY <3>1, <3>2, <1>2, <1>13
    <3> QED  BY <2>1, <2>4, <3>1, <3>2, <3>3
  <2> QED  BY <2>3, <2>4
<1>14. \A j \in DOMAIN t : t[j] \in r \/ \E m \in DOMAIN s : t[j] = s[m]  BY <1>9, <1>10
<1>15. \A y \in r2 : y \in r \/ \E j \in DOMAIN s : y = s[j]  BY DEF r2
<1>16. \A j \in DOMAIN t : t[j] \notin r2
  <2>1. \A m \in DOMAIN s : s[m] \notin r  BY <1>0, <1>1 DEF Roots
  <2> QED  BY <2>1, <1>9, <1>10 DEF r2
<1>17. r2 \subseteq Nodes(h)  BY <1>1 DEF Roots, r2
<1>18. Relisted(h, g, k, r, p, t, r2)
  BY <1>0, <1>5, <1>6, <1>7, <1>11, <1>12, <1>13, <1>14, <1>15, <1>16, <1>17 DEF Relisted
<1>19. ListsInv(g, [k EXCEPT ![p] = t], r2)  BY <1>18, ListsStep
<1> QED  BY <1>7, <1>0, <1>19 DEF g, t, r2

(***************************************************************************)
(* cJSON_ReplaceItemViaPointer, up to the deletion.                        *)
(***************************************************************************)
PutInstead(h, p, s, i, new) ==
  LET x  == s[i]
      l  == h[x].prev
      n  == h[x].next
      h1 == PutPrev(PutNext(h, new, n), new, l)
      h2 == IF n = Null THEN h1 ELSE PutPrev(h1, n, new)
      h3 == IF i = 1
            THEN PutChild(PutPrev(h2, new, IF Len(s) = 1 THEN new ELSE l), p, new)
            ELSE IF n = Null THEN PutPrev(PutNext(h2, l, new), s[1], new)
            ELSE PutNext(h2, l, new)
  IN  PutPrev(PutNext(h3, x, Null), x, Null)

(* The code sees that the replaced item was alone by its prev, its own one.  *)
LEMMA SupplantIsPutInstead ==
  ASSUME NEW h \in Heaps, NEW p \in Nodes(h), NEW s \in Seq(Nodes(h)), Chained(h, p, s),
         \A j, m \in 1 .. Len(s) : s[j] = s[m] => j = m,
         NEW i \in 1 .. Len(s), NEW new \in Nodes(h), \A j \in 1 .. Len(s) : s[j] # new
  PROVE  Supplant(h, p, s[i], new) = PutInstead(h, p, s, i, new)
<1>1. /\ Len(s) \in Nat /\ Len(s) # 0 /\ 1 \in 1 .. Len(s) /\ Len(s) \in 1 .. Len(s)
      /\ \A j \in 1 .. Len(s) : s[j] \in Nodes(h)
      /\ Null \notin Nodes(h) /\ Null \in Ptr /\ Nodes(h) \subseteq Ptr
  BY JsonAssumption DEF Ptr, Nodes, Addr
<1>2. PICK x \in Nodes(h) : x = s[i] /\ x # new  BY <1>1
<1>3. PICK c \in Nodes(h) : c = s[1] /\ c # new  BY <1>1
<1>4. PICK l \in Nodes(h) : l = h[x].prev /\ l # new
  <2>1. h[s[i]].prev = IF i = 1 THEN s[Len(s)] ELSE s[i - 1]  BY DEF Chained
  <2>2. i # 1 => i - 1 \in 1 .. Len(s)  BY <1>1, NextTo
  <2>3. h[x].prev \in Nodes(h) /\ h[x].prev # new  BY <1>1, <1>2, <2>1, <2>2
  <2> QED  BY <2>3
<1>5. PICK n \in Nodes(h) \cup {Null} : n = h[x].next /\ n # new /\ n # x
  <2>1. h[s[i]].next = IF i = Len(s) THEN Null ELSE s[i + 1]  BY DEF Chained
  <2>2. i # Len(s) => i + 1 \in 1 .. Len(s)  BY <1>1, NextTo
  <2>3. i # Len(s) => s[i + 1] # s[i]  BY <2>2
  <2>4. h[x].next \in Nodes(h) \cup {Null} /\ h[x].next # new /\ h[x].next # x
    BY <1>1, <1>2, <2>1, <2>2, <2>3
  <2> QED  BY <2>4
<1>6. h[p].child = c /\ (c = x <=> i = 1)  BY <1>1, <1>2, <1>3 DEF Chained
<1>7. c = x => (h[c].prev = c <=> Len(s) = 1)
  <2>1. c = x => h[c].prev = s[Len(s)]  BY <1>2, <1>3, <1>6 DEF Chained
  <2> QED  BY <2>1, <1>1, <1>3
<1> DEFINE h1 == PutPrev(PutNext(h, new, n), new, l)
           h2 == IF n = Null THEN h1 ELSE PutPrev(h1, n, new)
<1>8. h1 = [h EXCEPT ![new].next = n, ![new].prev = h[x].prev]
  BY <1>4 DEF PutPrev, PutNext
<1>9. h2 = IF n = Null THEN h1 ELSE [h1 EXCEPT ![n].prev = new]  BY DEF PutPrev
<1>10. /\ h2 \in Heaps /\ new \in Nodes(h2)
       /\ h2[new].prev = l /\ (c = x => h2[c].prev = h[c].prev)
  <2> DEFINE f == PutNext(h, new, n)
  <2>1. /\ Rewired(h, f) /\ \A b \in Nodes(h) : f[b].prev = h[b].prev
    BY <1>1, <1>5, WriteNext
  <2>2. f \in Heaps /\ Nodes(f) = Nodes(h)  BY <2>1 DEF Rewired
  <2> HIDE DEF f
  <2>3. /\ Rewired(f, PutPrev(f, new, l))
        /\ \A b \in Nodes(h) : PutPrev(f, new, l)[b].prev = IF b = new THEN l ELSE f[b].prev
    BY <1>1, <1>4, <2>2, WritePrev
  <2>4. h1 = PutPrev(f, new, l)  BY DEF f
  <2> HIDE DEF h1
  <2>5. /\ h1 \in Heaps /\ Nodes(h1) = Nodes(h)
        /\ \A b \in Nodes(h) : h1[b].prev = IF b = new THEN l ELSE h[b].prev
    BY <2>1, <2>2, <2>3, <2>4 DEF Rewired
  <2>6. CASE n = Null  BY <2>5, <2>6, <1>3
  <2>7. CASE n # Null
    <3>1. /\ Rewired(h1, PutPrev(h1, n, new))
          /\ \A b \in Nodes(h) : PutPrev(h1, n, new)[b].prev = IF b = n THEN new ELSE h1[b].prev
      BY <1>1, <1>5, <2>5, <2>7, WritePrev
    <3> QED  BY <3>1, <2>5, <2>7, <1>3, <1>5 DEF Rewired
  <2> QED  BY <2>6, <2>7
<1> HIDE DEF h1, h2
<1>11. CASE i = 1
  <2> DEFINE v == IF Len(s) = 1 THEN new ELSE l
  <2>1. Supplant(h, p, x, new) =
          [[h2 EXCEPT ![new].prev = IF h2[c].prev = c THEN new ELSE @, ![p].child = new]
             EXCEPT ![x].next = Null, ![x].prev = Null]
    BY <1>5, <1>6, <1>8, <1>9, <1>11 DEF Supplant
  <2>2. (IF h2[c].prev = c THEN new ELSE h2[new].prev) = v  BY <1>6, <1>7, <1>10, <1>11
  <2>3. [h2 EXCEPT ![new].prev = IF h2[c].prev = c THEN new ELSE @, ![p].child = new]
        = PutChild(PutPrev(h2, new, v), p, new)
    BY <2>2 DEF PutChild, PutPrev
  <2>4. PutInstead(h, p, s, i, new) =
          PutPrev(PutNext(PutChild(PutPrev(h2, new, v), p, new), x, Null), x, Null)
    BY <1>2, <1>4, <1>5, <1>11 DEF PutInstead, h1, h2
  <2> HIDE DEF v
  <2> QED  BY <2>1, <2>3, <2>4, <1>2 DEF PutNext, PutPrev
<1>12. CASE i # 1
  <2> DEFINE f == IF n = Null THEN PutPrev(PutNext(h2, l, new), c, new) ELSE PutNext(h2, l, new)
  <2>1. Supplant(h, p, x, new) = [f EXCEPT ![x].next = Null, ![x].prev = Null]
    <3> DEFINE e == [h2 EXCEPT ![l].next = new]
    <3>1. c # x  BY <1>6, <1>12
    <3>2. CASE n = Null
      <4>1. f = [e EXCEPT ![c].prev = new] /\ h2 = h1
        BY <3>2 DEF h2, PutNext, PutPrev
      <4>2. Supplant(h, p, x, new) =
              [[e EXCEPT ![c].prev = new] EXCEPT ![x].next = Null, ![x].prev = Null]
        BY <3>1, <3>2, <4>1, <1>4, <1>5, <1>6, <1>8 DEF Supplant, MakeLast
      <4> HIDE DEF e, f
      <4> QED  BY <4>1, <4>2
    <3>3. CASE n # Null
      <4>1. f = e /\ h2 = [h1 EXCEPT ![n].prev = new]  BY <3>3, <1>9 DEF PutNext
      <4>2. Supplant(h, p, x, new) = [e EXCEPT ![x].next = Null, ![x].prev = Null]
        BY <3>1, <3>3, <4>1, <1>4, <1>5, <1>6, <1>8 DEF Supplant
      <4> HIDE DEF e, f
      <4> QED  BY <4>1, <4>2
    <3> QED  BY <3>2, <3>3
  <2>2. PutInstead(h, p, s, i, new) = PutPrev(PutNext(f, x, Null), x, Null)
    BY <1>2, <1>3, <1>4, <1>5, <1>12 DEF PutInstead, h1, h2
  <2> HIDE DEF f
  <2> QED  BY <2>1, <2>2, <1>2 DEF PutNext, PutPrev
<1> QED  BY <1>11, <1>12

(* What becomes of the fields, when x had l before it and n behind it. *)
Supplanted(h, g, p, s, i, new, x, l, n) ==
  /\ Rewired(h, g)
  /\ \A b \in Nodes(h) :
       /\ g[b].child = IF b = p /\ i = 1 THEN new ELSE h[b].child
       /\ g[b].next = IF b = x THEN Null ELSE IF b = new THEN n
                      ELSE IF i # 1 /\ b = l THEN new ELSE h[b].next
       /\ g[b].prev = IF b = x THEN Null
                      ELSE IF b = new THEN IF Len(s) = 1 THEN new ELSE l
                      ELSE IF (n # Null /\ b = n) \/ (n = Null /\ i # 1 /\ b = s[1])
                      THEN new ELSE h[b].prev

LEMMA SupplantFields ==
  ASSUME NEW h \in Heaps, NEW p \in Nodes(h), NEW s \in Seq(Nodes(h)), Chained(h, p, s),
         NEW i \in 1 .. Len(s), NEW x, x = s[i], NEW l, l = h[x].prev, NEW n, n = h[x].next,
         NEW new \in Nodes(h), \A j \in 1 .. Len(s) : s[j] # new,
         NEW g, g = PutInstead(h, p, s, i, new)
  PROVE  Supplanted(h, g, p, s, i, new, x, l, n)
<1>1. /\ Len(s) \in Nat /\ Len(s) # 0 /\ 1 \in 1 .. Len(s) /\ Len(s) \in 1 .. Len(s)
      /\ \A j \in 1 .. Len(s) : s[j] \in Nodes(h)
      /\ Null \notin Nodes(h) /\ Null \in Ptr /\ Nodes(h) \subseteq Ptr
  BY JsonAssumption DEF Ptr, Nodes, Addr
<1>2. PICK c \in Nodes(h) : c = s[1] /\ c # new  BY <1>1
<1>3. x \in Nodes(h) /\ x # new  BY <1>1
<1>4. l \in Nodes(h) /\ l # new
  <2>1. h[s[i]].prev = IF i = 1 THEN s[Len(s)] ELSE s[i - 1]  BY DEF Chained
  <2>2. i # 1 => i - 1 \in 1 .. Len(s)  BY <1>1, NextTo
  <2> QED  BY <1>1, <2>1, <2>2
<1>5. n \in Nodes(h) \cup {Null} /\ n # new
  <2>1. h[s[i]].next = IF i = Len(s) THEN Null ELSE s[i + 1]  BY DEF Chained
  <2>2. i # Len(s) => i + 1 \in 1 .. Len(s)  BY <1>1, NextTo
  <2> QED  BY <1>1, <2>1, <2>2
<1>6. n \in Ptr /\ l \in Ptr  BY <1>1, <1>4, <1>5
<1> DEFINE u == IF Len(s) = 1 THEN new ELSE l
           h1 == PutNext(h, new, n)
           h2 == PutPrev(h1, new, l)
           h3 == IF n = Null THEN h2 ELSE PutPrev(h2, n, new)
           h4 == IF i = 1 THEN PutPrev(h3, new, u) ELSE PutNext(h3, l, new)
           h5 == IF i = 1 THEN PutChild(h4, p, new)
                 ELSE IF n = Null THEN PutPrev(h4, c, new) ELSE h4
           h6 == PutNext(h5, x, Null)
           h7 == PutPrev(h6, x, Null)
<1>7. g = h7
  <2>1. CASE i = 1  BY <2>1 DEF PutInstead
  <2>2. CASE i # 1  BY <2>2, <1>2 DEF PutInstead
  <2> QED  BY <2>1, <2>2
<1>8. u \in Ptr  BY <1>1, <1>6
<1>9. (i = 1 /\ Len(s) # 1) \/ i # 1 => u = l
  <2>1. i # 1 => Len(s) # 1  BY <1>1
  <2> QED  BY <2>1
<1> HIDE DEF u
<1>10. /\ Rewired(h, h1)
       /\ \A b \in Nodes(h) : /\ h1[b].next = IF b = new THEN n ELSE h[b].next
                              /\ h1[b].prev = h[b].prev /\ h1[b].child = h[b].child
  BY <1>6, WriteNext
<1> HIDE DEF h1
<1>11. h1 \in Heaps /\ Nodes(h1) = Nodes(h)  BY <1>10 DEF Rewired
<1>12. /\ Rewired(h1, h2)
       /\ \A b \in Nodes(h) : /\ h2[b].prev = IF b = new THEN l ELSE h1[b].prev
                              /\ h2[b].next = h1[b].next /\ h2[b].child = h1[b].child
  BY <1>6, <1>11, WritePrev
<1> HIDE DEF h2
<1>13. h2 \in Heaps /\ Nodes(h2) = Nodes(h)  BY <1>11, <1>12 DEF Rewired
<1>14. /\ Rewired(h2, h3)
       /\ \A b \in Nodes(h) : /\ h3[b].prev = IF n # Null /\ b = n THEN new ELSE h2[b].prev
                              /\ h3[b].next = h2[b].next /\ h3[b].child = h2[b].child
  <2>1. CASE n = Null  BY <2>1, <1>13, RewiredNot
  <2>2. CASE n # Null
    <3>1. n \in Nodes(h2) /\ new \in Ptr  BY <2>2, <1>1, <1>5, <1>13
    <3> QED  BY <2>2, <3>1, <1>13, WritePrev
  <2> QED  BY <2>1, <2>2
<1> HIDE DEF h3
<1>15. h3 \in Heaps /\ Nodes(h3) = Nodes(h)  BY <1>13, <1>14 DEF Rewired
<1>16. /\ Rewired(h3, h4)
       /\ \A b \in Nodes(h) : /\ h4[b].prev = IF i = 1 /\ b = new THEN u ELSE h3[b].prev
                              /\ h4[b].next = IF i # 1 /\ b = l THEN new ELSE h3[b].next
                              /\ h4[b].child = h3[b].child
  <2>1. CASE i = 1  BY <2>1, <1>8, <1>15, WritePrev
  <2>2. CASE i # 1  BY <2>2, <1>1, <1>4, <1>15, WriteNext
  <2> QED  BY <2>1, <2>2
<1> HIDE DEF h4
<1>17. h4 \in Heaps /\ Nodes(h4) = Nodes(h)  BY <1>15, <1>16 DEF Rewired
<1>18. /\ Rewired(h4, h5)
       /\ \A b \in Nodes(h) :
            /\ h5[b].child = IF b = p /\ i = 1 THEN new ELSE h4[b].child
            /\ h5[b].prev = IF n = Null /\ i # 1 /\ b = c THEN new ELSE h4[b].prev
            /\ h5[b].next = h4[b].next
  <2>1. CASE i = 1  BY <2>1, <1>1, <1>17, WriteChild
  <2>2. CASE i # 1 /\ n = Null  BY <2>2, <1>1, <1>17, WritePrev
  <2>3. CASE i # 1 /\ n # Null  BY <2>3, <1>17, RewiredNot
  <2> QED  BY <2>1, <2>2, <2>3
<1> HIDE DEF h5
<1>19. h5 \in Heaps /\ Nodes(h5) = Nodes(h)  BY <1>17, <1>18 DEF Rewired
<1>20. /\ Rewired(h5, h6)
       /\ \A b \in Nodes(h) : /\ h6[b].next = IF b = x THEN Null ELSE h5[b].next
                              /\ h6[b].prev = h5[b].prev /\ h6[b].child = h5[b].child
  BY <1>1, <1>3, <1>19, WriteNext
<1> HIDE DEF h6
<1>21. h6 \in Heaps /\ Nodes(h6) = Nodes(h)  BY <1>19, <1>20 DEF Rewired
<1>22. /\ Rewired(h6, h7)
       /\ \A b \in Nodes(h) : /\ h7[b].prev = IF b = x THEN Null ELSE h6[b].prev
                              /\ h7[b].next = h6[b].next /\ h7[b].child = h6[b].child
  BY <1>1, <1>3, <1>21, WritePrev
<1> HIDE DEF h7
<1>23. Rewired(h, g)
  <2>1. Rewired(h, h2)  BY <1>10, <1>12, RewiredTwice
  <2>2. Rewired(h, h4)  BY <2>1, <1>14, <1>16, RewiredTwice
  <2>3. Rewired(h, h6)  BY <2>2, <1>18, <1>20, RewiredTwice
  <2> QED  BY <2>3, <1>7, <1>22, RewiredTwice
<1>24. ASSUME NEW b \in Nodes(h)
       PROVE  /\ g[b].child = IF b = p /\ i = 1 THEN new ELSE h[b].child
              /\ g[b].next = IF b = x THEN Null ELSE IF b = new THEN n
                             ELSE IF i # 1 /\ b = l THEN new ELSE h[b].next
              /\ g[b].prev = IF b = x THEN Null
                             ELSE IF b = new THEN u
                             ELSE IF (n # Null /\ b = n) \/ (n = Null /\ i # 1 /\ b = s[1])
                             THEN new ELSE h[b].prev
  <2>1. g[b].child = IF b = p /\ i = 1 THEN new ELSE h[b].child
    BY <1>7, <1>10, <1>12, <1>14, <1>16, <1>18, <1>20, <1>22
  <2>2. g[b].next = IF b = x THEN Null ELSE IF b = new THEN n
                    ELSE IF i # 1 /\ b = l THEN new ELSE h[b].next
    BY <1>4, <1>7, <1>10, <1>12, <1>14, <1>16, <1>18, <1>20, <1>22
  <2>3. g[b].prev = IF b = x THEN Null ELSE h5[b].prev  BY <1>7, <1>20, <1>22
  <2>4. h5[b].prev = IF n = Null /\ i # 1 /\ b = c THEN new
                     ELSE IF i = 1 /\ b = new THEN u ELSE h3[b].prev
    BY <1>16, <1>18
  <2>5. h3[b].prev = IF n # Null /\ b = n THEN new ELSE IF b = new THEN l ELSE h[b].prev
    BY <1>10, <1>12, <1>14
  <2>6. i # 1 => u = l  BY <1>9
  <2> QED  BY <2>1, <2>2, <2>3, <2>4, <2>5, <2>6, <1>2, <1>5
<1> QED  BY <1>23, <1>24 DEF u, Supplanted

LEMMA SupplantSiblings ==
  ASSUME NEW h \in Heaps, NEW p \in Nodes(h), NEW s \in Seq(Nodes(h)), Chained(h, p, s),
         \A j, m \in 1 .. Len(s) : s[j] = s[m] => j = m,
         NEW i \in 1 .. Len(s), NEW new \in Nodes(h), \A j \in 1 .. Len(s) : s[j] # new
  PROVE  Chained(PutInstead(h, p, s, i, new), p, [s EXCEPT ![i] = new])
<1> DEFINE g == PutInstead(h, p, s, i, new)
           t == [s EXCEPT ![i] = new]
           N == Len(s)
           x == s[i]
           l == h[x].prev
           n == h[x].next
<1>1. /\ N \in Nat /\ i \in Nat /\ 1 <= i /\ i <= N /\ N # 0 /\ 1 \in 1 .. N /\ N \in 1 .. N
      /\ \A j \in 1 .. N : s[j] \in Nodes(h) /\ s[j] # new
      /\ Null \notin Nodes(h)
  BY JsonAssumption DEF Nodes, Addr
<1>2. /\ t \in Seq(Nodes(h)) /\ Len(t) = N
      /\ \A j \in 1 .. N : t[j] = IF j = i THEN new ELSE s[j]
  BY ExceptSeq
<1>3. \A b \in Nodes(h) :
        /\ g[b].child = IF b = p /\ i = 1 THEN new ELSE h[b].child
        /\ g[b].next = IF b = x THEN Null ELSE IF b = new THEN n
                       ELSE IF i # 1 /\ b = l THEN new ELSE h[b].next
        /\ g[b].prev = IF b = x THEN Null
                       ELSE IF b = new THEN IF N = 1 THEN new ELSE l
                       ELSE IF (n # Null /\ b = n) \/ (n = Null /\ i # 1 /\ b = s[1])
                       THEN new ELSE h[b].prev
  <2>1. Supplanted(h, g, p, s, i, new, x, l, n)  BY SupplantFields
  <2> HIDE DEF g, x, l, n
  <2> QED  BY <2>1 DEF Supplanted
<1>4. /\ h[p].child = s[1]
      /\ \A j \in 1 .. N : /\ h[s[j]].next = IF j = N THEN Null ELSE s[j + 1]
                           /\ h[s[j]].prev = IF j = 1 THEN s[N] ELSE s[j - 1]
  BY <1>1 DEF Chained
<1>5. l = IF i = 1 THEN s[N] ELSE s[i - 1]  BY <1>1, <1>4
<1>6. n = IF i = N THEN Null ELSE s[i + 1]  BY <1>1, <1>4
<1>7. x = s[i]  OBVIOUS
<1>8. \A j, m \in 1 .. N : s[j] = s[m] => j = m  BY DEF N
<1> HIDE DEF g, t, N, x, l, n
<1>9. g[p].child = t[1] /\ Len(t) # 0  BY <1>1, <1>2, <1>3, <1>4
<1>10. ASSUME NEW j \in 1 .. N
       PROVE  /\ g[t[j]].next = IF j = Len(t) THEN Null ELSE t[j + 1]
              /\ g[t[j]].prev = IF j = 1 THEN t[Len(t)] ELSE t[j - 1]
  <2>1. /\ (j # N => j + 1 \in 1 .. N) /\ (j # 1 => j - 1 \in 1 .. N)
        /\ (i # N => i + 1 \in 1 .. N) /\ (i # 1 => i - 1 \in 1 .. N)
        /\ j + 1 # j /\ j - 1 # j
    BY <1>1
  <2>2. CASE j = i
    <3>1. t[j] = new /\ new # x  BY <2>2, <1>1, <1>2, <1>7
    <3>2. g[new].next = n /\ g[new].prev = IF N = 1 THEN new ELSE l  BY <3>1, <1>3
    <3>3. j # N => t[j + 1] = s[j + 1]  BY <2>1, <2>2, <1>2
    <3>4. j # 1 => t[j - 1] = s[j - 1]  BY <2>1, <2>2, <1>2
    <3>5. t[N] = IF i = N THEN new ELSE s[N]  BY <1>1, <1>2
    <3> QED  BY <2>2, <3>1, <3>2, <3>3, <3>4, <3>5, <1>1, <1>2, <1>5, <1>6
  <2>3. CASE j # i
    <3>1. t[j] = s[j] /\ s[j] # x /\ s[j] # new /\ s[j] \in Nodes(h)
      BY <2>3, <1>1, <1>2, <1>7, <1>8
    <3>2. g[s[j]].next = IF j = N THEN Null ELSE t[j + 1]
      <4>1. CASE j + 1 = i
        <5>1. i # 1 /\ s[j] = l  BY <4>1, <1>1, <1>5
        <5>2. j # N /\ t[j + 1] = new  BY <4>1, <1>1, <1>2
        <5> QED  BY <3>1, <5>1, <5>2, <1>3
      <4>2. CASE j + 1 # i
        <5>1. i # 1 => j # i - 1  BY <4>2, <1>1
        <5>2. i # 1 => s[j] # l  BY <2>1, <5>1, <1>5, <1>8
        <5>3. g[s[j]].next = h[s[j]].next  BY <3>1, <5>2, <1>3
        <5>4. j # N => t[j + 1] = s[j + 1]  BY <2>1, <4>2, <1>2
        <5> QED  BY <5>3, <5>4, <1>4
      <4> QED  BY <4>1, <4>2
    <3>3. g[s[j]].prev = IF j = 1 THEN t[N] ELSE t[j - 1]
      <4>1. g[s[j]].prev = IF (n # Null /\ s[j] = n) \/ (n = Null /\ i # 1 /\ s[j] = s[1])
                           THEN new ELSE h[s[j]].prev
        BY <3>1, <1>3
      <4>2. n = Null <=> i = N  BY <2>1, <1>1, <1>6
      <4>3. i # N => (s[j] = n <=> j = i + 1)  BY <2>1, <1>6, <1>8
      <4>4. s[j] = s[1] <=> j = 1  BY <1>1, <1>8
      <4>5. t[N] = IF i = N THEN new ELSE s[N]  BY <1>1, <1>2
      <4>6. j # 1 => t[j - 1] = IF j = i + 1 THEN new ELSE s[j - 1]
        <5>1. j # 1 => (j - 1 = i <=> j = i + 1)  BY <1>1
        <5> QED  BY <2>1, <5>1, <1>2
      <4>7. h[s[j]].prev = IF j = 1 THEN s[N] ELSE s[j - 1]  BY <1>4
      <4>8. (j = 1 => j # i + 1) /\ (j = i + 1 => i # N) /\ (i = N /\ j = 1 => i # 1)
        BY <2>3, <1>1
      <4> QED  BY <4>1, <4>2, <4>3, <4>4, <4>5, <4>6, <4>7, <4>8
    <3> QED  BY <3>1, <3>2, <3>3, <1>2
  <2> QED  BY <2>2, <2>3
<1>11. Chained(g, p, t)  BY <1>2, <1>9, <1>10 DEF Chained
<1> QED  BY <1>11 DEF g, t

(* What takes an item's place was held before; the replaced item, the one    *)
(* that cJSON_Delete frees next, is left without siblings like a held one.   *)
THEOREM SupplantKeepsLists ==
  ASSUME NEW h, NEW k, NEW r, ListsInv(h, k, r), NEW p \in Nodes(h), NEW i \in 1 .. Len(k[p]),
         NEW new \in r
  PROVE  /\ ListsInv(Supplant(h, p, k[p][i], new), [k EXCEPT ![p][i] = new],
                     (r \ {new}) \cup {k[p][i]})
         /\ Rewired(h, Supplant(h, p, k[p][i], new))
<1>0. PICK s : s = k[p]  OBVIOUS
<1> DEFINE x == s[i]
           g == Supplant(h, p, x, new)
           t == [s EXCEPT ![i] = new]
           l == h[x].prev
           n == h[x].next
           r2 == (r \ {new}) \cup {x}
<1>1. h \in Heaps /\ Places(h, k) /\ Roots(h, k, r) /\ Pointers(h)  BY DEF ListsInv
<1>2. /\ s \in Seq(Nodes(h)) /\ DOMAIN s = 1 .. Len(s) /\ Len(s) \in Nat /\ i \in 1 .. Len(s)
      /\ Chained(h, p, s)
      /\ \A j, m \in 1 .. Len(s) : s[j] = s[m] => j = m
  BY <1>0, ListOf
<1>3. new \in Nodes(h) /\ \A j \in 1 .. Len(s) : s[j] # new  BY <1>0, <1>1, <1>2 DEF Roots
<1>4. g = PutInstead(h, p, s, i, new)  BY <1>1, <1>2, <1>3, SupplantIsPutInstead
<1>5. /\ t \in Seq(Nodes(h)) /\ DOMAIN t = 1 .. Len(s)
      /\ \A j \in 1 .. Len(s) : t[j] = IF j = i THEN new ELSE s[j]
  BY <1>2, <1>3, ExceptSeq
<1>6. Siblings(g, p, t)
  <2>1. Chained(PutInstead(h, p, s, i, new), p, [s EXCEPT ![i] = new])
    <3> HIDE DEF g, t, l, n, x, r2
    <3> QED  BY <1>1, <1>2, <1>3, SupplantSiblings
  <2>2. Chained(g, p, t)  BY <2>1, <1>4
  <2> QED  BY <2>2, <1>5, SiblingsChained
<1>7. /\ Rewired(h, g)
      /\ \A b \in Nodes(h) :
           /\ g[b].child = IF b = p /\ i = 1 THEN new ELSE h[b].child
           /\ g[b].next = IF b = x THEN Null ELSE IF b = new THEN n
                          ELSE IF i # 1 /\ b = l THEN new ELSE h[b].next
           /\ g[b].prev = IF b = x THEN Null
                          ELSE IF b = new THEN IF Len(s) = 1 THEN new ELSE l
                          ELSE IF (n # Null /\ b = n) \/ (n = Null /\ i # 1 /\ b = s[1])
                          THEN new ELSE h[b].prev
  <2>1. x = s[i] /\ l = h[x].prev /\ n = h[x].next  OBVIOUS
  <2> HIDE DEF g, t, l, n, x, r2
  <2>2. Supplanted(h, g, p, s, i, new, x, l, n)
    BY <2>1, <1>1, <1>2, <1>3, <1>4, SupplantFields
  <2> QED  BY <2>2 DEF Supplanted
<1>8. x \in Nodes(h) /\ 1 \in 1 .. Len(s)  BY <1>2
<1>9. {l, n} \subseteq Nodes(h) \cup {Null}  BY <1>1, <1>8 DEF Pointers
<1>10. (\E j \in 1 .. Len(s) : l = s[j]) /\ (n # Null => \E j \in 1 .. Len(s) : n = s[j])
  <2>1. l = IF i = 1 THEN s[Len(s)] ELSE s[i - 1]  BY <1>2 DEF Chained
  <2>2. n = IF i = Len(s) THEN Null ELSE s[i + 1]  BY <1>2 DEF Chained
  <2>3. /\ (i # 1 => i - 1 \in 1 .. Len(s)) /\ Len(s) \in 1 .. Len(s)
        /\ (i # Len(s) => i + 1 \in 1 .. Len(s))
    <3> HIDE DEF g, t, l, n, x, r2
    <3> QED  BY <1>2, NextTo
  <2> QED  BY <2>1, <2>2, <2>3
<1> HIDE DEF g, t, l, n, x
<1>11. ASSUME NEW y \in Nodes(h)
       PROVE  {g[y].next, g[y].prev, g[y].child} \subseteq Nodes(h) \cup {Null}
  <2>1. {h[y].next, h[y].prev, h[y].child} \subseteq Nodes(h) \cup {Null}  BY <1>1 DEF Pointers
  <2> QED  BY <2>1, <1>3, <1>7, <1>9
<1>12. /\ \A q \in Nodes(h) \ {p} :
            /\ g[q].child = h[q].child
            /\ \A j \in DOMAIN k[q] : /\ g[k[q][j]].next = h[k[q][j]].next
                                      /\ g[k[q][j]].prev = h[k[q][j]].prev
       /\ \A y \in r \ {new} : g[y].next = Null
  <2>1. \A b \in Nodes(h) : b # p => g[b].child = h[b].child  BY <1>7
  <2>2. \A b \in Nodes(h) : b # new /\ (\A j \in DOMAIN k[p] : b # k[p][j]) =>
          g[b].next = h[b].next /\ g[b].prev = h[b].prev
    BY <1>0, <1>2, <1>7, <1>8, <1>10 DEF x
  <2> QED  BY <2>1, <2>2, <1>1, OthersStay
<1>13. \A y \in r2 : g[y].next = Null  BY <1>7, <1>8, <1>12
<1>14. \A j, m \in DOMAIN t : t[j] = t[m] => j = m  BY <1>2, <1>3, <1>5
<1>15. \A j \in DOMAIN t : t[j] \in r \/ \E m \in DOMAIN s : t[j] = s[m]  BY <1>2, <1>5
<1>16. \A y \in r2 : y \in r \/ \E j \in DOMAIN s : y = s[j]  BY <1>2 DEF x
<1>17. ASSUME NEW j \in DOMAIN t  PROVE t[j] \notin r2
  <2>1. CASE j = i  BY <2>1, <1>2, <1>3, <1>5 DEF x
  <2>2. CASE j # i
    <3>1. t[j] = s[j] /\ s[j] # x  BY <2>2, <1>2, <1>5 DEF x
    <3>2. s[j] \notin r  BY <1>0, <1>1, <1>2, <1>5 DEF Roots
    <3> QED  BY <3>1, <3>2
  <2> QED  BY <2>1, <2>2
<1>18. r2 \subseteq Nodes(h)  BY <1>1, <1>8 DEF Roots
<1> HIDE DEF r2
<1>19. Relisted(h, g, k, r, p, t, r2)
  BY <1>0, <1>5, <1>6, <1>7, <1>11, <1>12, <1>13, <1>14, <1>15, <1>16, <1>17, <1>18 DEF Relisted
<1>20. ListsInv(g, [k EXCEPT ![p] = t], r2)  BY <1>19, ListsStep
<1>21. [k EXCEPT ![p] = t] = [k EXCEPT ![p][i] = new]  BY <1>0 DEF t
<1> QED  BY <1>7, <1>0, <1>20, <1>21 DEF g, r2, x

(***************************************************************************)
(* Keys.                                                                   *)
(***************************************************************************)
LEMMA Freed ==
  ASSUME NEW h \in Heaps, NEW O \in SUBSET (Strings(h) \cup {Null})
  PROVE  /\ Deallocate(h, O) \in Heaps
         /\ Nodes(Deallocate(h, O)) = Nodes(h)
         /\ Strings(Deallocate(h, O)) = Strings(h) \ O
         /\ \A a \in Nodes(h) : Deallocate(h, O)[a] = h[a]
<1> DEFINE g == Deallocate(h, O)
<1>1. g = [a \in Addr |-> IF a \in O THEN Free ELSE h[a]]  BY DEF Deallocate
<1>2. g \in Heaps  BY <1>1 DEF Heaps
<1>3. \A a \in Addr : g[a] = IF a \in O THEN Free ELSE h[a]  BY <1>1
<1> HIDE DEF g
<1>4. Nodes(h) \subseteq Addr /\ O \cap Nodes(h) = {}
  BY JsonAssumption DEF Nodes, Strings, Addr
<1>5. \A a \in Nodes(h) : g[a] = h[a]  BY <1>3, <1>4
<1>6. \A a \in Addr : IsNode(g, a) <=> IsNode(h, a)
  <2> SUFFICES ASSUME NEW a \in Addr  PROVE IsNode(g, a) <=> IsNode(h, a)  OBVIOUS
  <2>1. CASE a \in O
    <3>1. ~ IsNode(h, a)  BY <2>1, <1>4 DEF Nodes
    <3>2. ~ IsNode(g, a)  BY <2>1, <1>3 DEF IsNode
    <3> QED  BY <3>1, <3>2
  <2>2. CASE a \notin O  BY <2>2, <1>3 DEF IsNode
  <2> QED  BY <2>1, <2>2
<1>7. Nodes(g) = Nodes(h)  BY <1>6 DEF Nodes
<1>8. Strings(g) = Strings(h) \ O
  <2>1. \A a \in Addr : (g[a] # Free /\ ~ IsNode(g, a))
                        <=> (h[a] # Free /\ ~ IsNode(h, a) /\ a \notin O)
    BY <1>3, <1>6
  <2> QED  BY <2>1 DEF Strings
<1> QED  BY <1>2, <1>5, <1>7, <1>8 DEF g

(* The new string is nobody's yet. *)
LEMMA Duplicated ==
  ASSUME NEW h \in Heaps, NEW s \in Names \cup Texts \cup {Empty}, NEW d, d = cJSON_strdup(h, s)
  PROVE  /\ d.h \in Heaps /\ Nodes(d.h) = Nodes(h)
         /\ \A a \in Nodes(h) : d.h[a] = h[a]
         /\ d.p = Null => d.h = h
         /\ d.p # Null => d.p \in Strings(d.h) \ Strings(h) /\ Strings(h) \subseteq Strings(d.h)
<1>1. CASE \A a \in Addr : h[a] # Free  BY <1>1 DEF cJSON_strdup, Allocate
<1>2. CASE \E a \in Addr : h[a] = Free
  <2> DEFINE e == CHOOSE a \in Addr : h[a] = Free
             c == [text |-> s]
             g == [h EXCEPT ![e] = c]
  <2>1. e \in Addr /\ h[e] = Free  BY <1>2
  <2>2. d.h = g /\ d.p = e  BY <1>2 DEF cJSON_strdup, Allocate
  <2> HIDE DEF e
  <2>3. c \in Block /\ DOMAIN c = {"text"}  BY DEF Block
  <2>4. c # Free  BY <2>3, FreeAssumption
  <2>5. g \in Heaps /\ g[e] = c /\ \A a \in Addr \ {e} : g[a] = h[a]  BY <2>1, <2>3 DEF Heaps
  <2>6. ~ IsNode(g, e) /\ ~ IsNode(h, e)  BY <2>1, <2>3, <2>5 DEF IsNode
  <2> HIDE DEF g, c
  <2>7. \A a \in Addr : IsNode(g, a) <=> IsNode(h, a)  BY <2>5, <2>6 DEF IsNode
  <2>8. Nodes(g) = Nodes(h)  BY <2>7 DEF Nodes
  <2>9. \A a \in Nodes(h) : g[a] = h[a]
    <3>1. \A a \in Nodes(h) : a \in Addr /\ a # e  BY <2>6 DEF Nodes
    <3> QED  BY <3>1, <2>5
  <2>10. e \in Strings(g) \ Strings(h)  BY <2>1, <2>4, <2>5, <2>6 DEF Strings
  <2>11. Strings(h) \subseteq Strings(g)  BY <2>1, <2>5, <2>7 DEF Strings
  <2>12. e # Null  BY <2>1, JsonAssumption DEF Addr
  <2> QED  BY <2>2, <2>5, <2>8, <2>9, <2>10, <2>11, <2>12
<1> QED  BY <1>1, <1>2

(* Where the pointers between items stay, the lists do.                      *)
LEMMA SameLinks ==
  ASSUME NEW h, NEW k, NEW r, ListsInv(h, k, r), NEW g \in Heaps, Nodes(g) = Nodes(h),
         \A a \in Nodes(h) :
           g[a].next = h[a].next /\ g[a].prev = h[a].prev /\ g[a].child = h[a].child,
         \A a \in Nodes(h) :
           /\ g[a].str \in Strings(g) \cup {Null}
           /\ g[a].key \in IF g[a].constKey THEN Literals ELSE Strings(g) \cup {Null},
         Owned(g)
  PROVE  ListsInv(g, k, r)
<1>1. Places(h, k) /\ Roots(h, k, r) /\ Pointers(h) /\ \A p \in Nodes(h) : Siblings(h, p, k[p])
  BY DEF ListsInv
<1>2. Places(g, k)  BY <1>1 DEF Places
<1>3. Roots(g, k, r)  BY <1>1 DEF Roots
<1>4. Pointers(g)  BY <1>1 DEF Pointers
<1>5. ASSUME NEW p \in Nodes(h)  PROVE Siblings(g, p, k[p])
  <2>1. Siblings(h, p, k[p]) /\ \A i \in DOMAIN k[p] : k[p][i] \in Nodes(h)  BY <1>1 DEF Places
  <2> QED  BY <2>1 DEF Siblings
<1> QED  BY <1>2, <1>3, <1>4, <1>5 DEF ListsInv

(* x's old name is freed, if it is x's; the new one is a literal or a string *)
(* that is nobody's.                                                         *)
LEMMA SetKeyKeepsLists ==
  ASSUME NEW h, NEW k, NEW r, ListsInv(h, k, r), NEW x \in Nodes(h),
         NEW const \in BOOLEAN, NEW new, const => new \in Literals,
         ~ const => /\ new \in Strings(h)
                    /\ \A y \in Nodes(h) : new # h[y].str /\ (~ h[y].constKey => new # h[y].key)
  PROVE  /\ ListsInv(SetKey(h, x, new, const), k, r)
         /\ Nodes(SetKey(h, x, new, const)) = Nodes(h)
<1> DEFINE O == OwnedKey(h, x)
           d == Deallocate(h, O)
           c == [h[x] EXCEPT !.key = new, !.constKey = const]
           g == [d EXCEPT ![x] = c]
<1>1. h \in Heaps /\ Pointers(h) /\ Owned(h)  BY DEF ListsInv
<1>2. O \subseteq Strings(h) \cup {Null}  BY <1>1 DEF OwnedKey, Pointers
<1>3. /\ d \in Heaps /\ Nodes(d) = Nodes(h) /\ Strings(d) = Strings(h) \ O
      /\ \A a \in Nodes(h) : d[a] = h[a]
  BY <1>1, <1>2, Freed
<1>4. h[x] \in Node  BY <1>1, NodeCell
<1>5. new \in Ptr \cup Literals  BY DEF Strings, Ptr
<1>6. /\ c \in Node /\ c.key = new /\ c.constKey = const
      /\ c.next = h[x].next /\ c.prev = h[x].prev /\ c.child = h[x].child /\ c.str = h[x].str
  BY <1>4, <1>5 DEF Node
<1> HIDE DEF c
<1>7. SetKey(h, x, new, const) = g
  <2>1. SetKey(h, x, new, const) = [d EXCEPT ![x].key = new, ![x].constKey = const]
    BY DEF SetKey
  <2>2. x \in Addr /\ x \in DOMAIN d /\ d[x] = h[x]  BY <1>3, <1>4 DEF Heaps, Nodes
  <2> HIDE DEF d
  <2> QED  BY <2>1, <2>2 DEF c
<1> HIDE DEF d
<1>8. /\ g \in Heaps /\ Nodes(g) = Nodes(h) /\ Strings(g) = Strings(h) \ O
      /\ \A a \in Nodes(h) : g[a] = IF a = x THEN c ELSE h[a]
  <2>1. /\ g \in Heaps /\ Nodes(g) = Nodes(d) /\ Strings(g) = Strings(d)
        /\ \A a \in Nodes(d) : g[a] = IF a = x THEN c ELSE d[a]
    <3>1. d \in Heaps /\ x \in Nodes(d) /\ c \in Node  BY <1>3, <1>6
    <3> QED  BY <3>1, PutCell
  <2> QED  BY <2>1, <1>3
<1> HIDE DEF g
<1>9. \A a \in Nodes(h) :
        /\ g[a].next = h[a].next /\ g[a].prev = h[a].prev /\ g[a].child = h[a].child
        /\ g[a].str = h[a].str
        /\ g[a].key = IF a = x THEN new ELSE h[a].key
        /\ g[a].constKey = IF a = x THEN const ELSE h[a].constKey
  BY <1>6, <1>8
<1>10. ASSUME NEW a \in Nodes(h), h[a].str # Null  PROVE h[a].str \notin O
  BY <1>1, <1>10 DEF OwnedKey, Owned
<1>11. ASSUME NEW a \in Nodes(h), a # x, ~ h[a].constKey, h[a].key # Null  PROVE h[a].key \notin O
  BY <1>1, <1>11 DEF OwnedKey, Owned
<1>12. ~ const => new \notin O  BY DEF OwnedKey
<1>13. \A a \in Nodes(h) : g[a].str \in Strings(g) \cup {Null}
  BY <1>1, <1>8, <1>9, <1>10 DEF Pointers
<1>14. ASSUME NEW a \in Nodes(h)
       PROVE  g[a].key \in IF g[a].constKey THEN Literals ELSE Strings(g) \cup {Null}
  <2>1. CASE a = x  BY <2>1, <1>8, <1>9, <1>12
  <2>2. CASE a # x
    <3>1. h[a].key \in IF h[a].constKey THEN Literals ELSE Strings(h) \cup {Null}
      BY <1>1 DEF Pointers
    <3> QED  BY <2>2, <3>1, <1>8, <1>9, <1>11
  <2> QED  BY <2>1, <2>2
<1>15. Owned(g)
  <2>1. ASSUME NEW y \in Nodes(h), NEW z \in Nodes(h)
        PROVE  /\ g[y].str # Null /\ g[y].str = g[z].str => y = z
               /\ ~ g[y].constKey /\ g[y].key # Null =>
                    /\ g[y].key # g[z].str
                    /\ ~ g[z].constKey /\ g[y].key = g[z].key => y = z
    <3>1. /\ h[y].str # Null /\ h[y].str = h[z].str => y = z
          /\ ~ h[y].constKey /\ h[y].key # Null =>
               /\ h[y].key # h[z].str
               /\ ~ h[z].constKey /\ h[y].key = h[z].key => y = z
      BY <1>1 DEF Owned
    <3>2. g[y].str # Null /\ g[y].str = g[z].str => y = z  BY <3>1, <1>9
    <3>3. ASSUME ~ g[y].constKey, g[y].key # Null  PROVE g[y].key # g[z].str
      <4>1. CASE y = x  BY <3>3, <4>1, <1>9
      <4>2. CASE y # x  BY <3>1, <3>3, <4>2, <1>9
      <4> QED  BY <4>1, <4>2
    <3>4. ASSUME ~ g[y].constKey, g[y].key # Null, ~ g[z].constKey, g[y].key = g[z].key
          PROVE  y = z
      <4>1. CASE y = x /\ z # x  BY <3>4, <4>1, <1>9
      <4>2. CASE y # x /\ z = x  BY <3>4, <4>2, <1>9
      <4>3. CASE y # x /\ z # x  BY <3>1, <3>4, <4>3, <1>9
      <4> QED  BY <4>1, <4>2, <4>3
    <3> QED  BY <3>2, <3>3, <3>4
  <2> QED  BY <2>1, <1>8 DEF Owned
<1>16. ListsInv(g, k, r)  BY <1>8, <1>9, <1>13, <1>14, <1>15, SameLinks
<1> QED  BY <1>7, <1>8, <1>16

(***************************************************************************)
(* The calls.                                                              *)
(***************************************************************************)
(* What the callers expect of free cells and strings says nothing.           *)
LEMMA ExpectedLists ==
  ASSUME NEW p \in Nodes(heap), NEW s, Nodes(heap') = Nodes(heap), Expect(p, s),
         NEW r, ListsInv(heap', [kids EXCEPT ![p] = s], r), kids \in [Addr -> Seq(Addr)]
  PROVE  ListsInv(heap', kids', r)
<1> DEFINE k == [kids EXCEPT ![p] = s]
<1>1. p \in Addr /\ Nodes(heap) \subseteq Addr  BY DEF Nodes
<1>2. k \in [Addr -> Seq(Addr)]  BY DEF ListsInv, Places
<1>3. \A a \in Addr : k[a] = IF a = p THEN s ELSE kids[a]  OBVIOUS
<1> HIDE DEF k
<1>4. \A a \in Addr : (IsNode(heap', a) <=> a \in Nodes(heap)) /\ (IsNode(heap, a) <=> a \in Nodes(heap))
  <2>1. \A a \in Addr : IsNode(heap', a) <=> a \in Nodes(heap')  BY DEF Nodes
  <2> QED  BY <2>1 DEF Nodes
<1>5. kids' = [a \in Addr |-> IF a \in Nodes(heap) THEN k[a] ELSE <<>>]  BY <1>3, <1>4 DEF Expect
<1>6. kids' \in [Addr -> Seq(Addr)] /\ \A a \in Nodes(heap) : kids'[a] = k[a]
  BY <1>1, <1>2, <1>5
<1>7. ListsInv(heap', k, r)  BY DEF k
<1> QED  BY <1>6, <1>7 DEF ListsInv, Places, Roots

(* cJSON_AddItemToArray, as a step: what the callers expect, the items they  *)
(* still hold and the pointers agree afterwards.                             *)
THEOREM AddToArrayKeepsLists ==
  ASSUME ListsInv(heap, kids, held), NEW p \in Items, NEW x \in held, AddToArray(p, x)
  PROVE  ListsInv(heap', kids', held')
<1>1. p \in Nodes(heap)  BY DEF Items, Nodes
<1>2. heap' = add_item_to_array(heap, p, x) /\ held' = held \ {x} /\ Expect(p, Append(kids[p], x))
  BY DEF AddToArray
<1>3. ListsInv(heap', [kids EXCEPT ![p] = Append(kids[p], x)], held')
  BY <1>1, <1>2, AppendKeepsLists
<1>4. kids \in [Addr -> Seq(Addr)]  BY DEF ListsInv, Places
<1>5. Nodes(heap') = Nodes(heap)
  <2>1. Rewired(heap, heap')  BY <1>1, <1>2, AppendKeepsLists
  <2> QED  BY <2>1 DEF Rewired
<1> QED  BY <1>1, <1>2, <1>3, <1>4, <1>5, ExpectedLists

(* cJSON_AddItemToObject and its like with a literal key, as a step: with    *)
(* memory for the name the item is the object's and has lost its old name,   *)
(* without it nothing has changed.                                           *)
THEOREM AddToObjectKeepsLists ==
  ASSUME ListsInv(heap, kids, held), NEW p \in Items, NEW x \in held, NEW name \in Names,
         NEW const \in BOOLEAN, const => name \in Literals, AddToObject(p, name, x, const)
  PROVE  ListsInv(heap', kids', held')
<1> DEFINE d == IF const THEN [h |-> heap, p |-> name] ELSE cJSON_strdup(heap, name)
           e == SetKey(d.h, x, d.p, const)
           r == add_item_to_object(heap, p, name, x, const)
<1>1. p \in Nodes(heap) /\ x \in Nodes(heap)  BY DEF Items, Nodes, ListsInv, Roots
<1>2. kids \in [Addr -> Seq(Addr)] /\ heap \in Heaps  BY DEF ListsInv, Places
<1>3. /\ heap' = r.h
      /\ held' = IF r.ok THEN held \ {x} ELSE held
      /\ Expect(p, IF r.ok THEN Append(kids[p], x) ELSE kids[p])
  BY DEF AddToObject
<1>4. /\ d.h \in Heaps /\ Nodes(d.h) = Nodes(heap)
      /\ \A a \in Nodes(heap) : d.h[a] = heap[a]
      /\ d.p = Null => d.h = heap
      /\ const => d.h = heap /\ d.p = name
      /\ ~ const /\ d.p # Null => /\ d.p \in Strings(d.h) \ Strings(heap)
                                  /\ Strings(heap) \subseteq Strings(d.h)
  <2>1. CASE const
    <3>1. d.h = heap /\ d.p = name /\ name # Null  BY <2>1, JsonAssumption
    <3> QED  BY <2>1, <3>1, <1>2
  <2>2. CASE ~ const
    <3>1. d = cJSON_strdup(heap, name) /\ name \in Names \cup Texts \cup {Empty}  BY <2>2
    <3> HIDE DEF d
    <3> QED  BY <2>2, <3>1, <1>2, Duplicated
  <2> QED  BY <2>1, <2>2
<1>5. r = IF d.p = Null THEN [h |-> heap, ok |-> FALSE]
          ELSE [h |-> add_item_to_array(e, p, x), ok |-> TRUE]
  BY DEF add_item_to_object
<1> HIDE DEF d, r
<1>6. CASE d.p = Null
  <2>1. ~ r.ok /\ heap' = heap /\ held' = held /\ Expect(p, kids[p])  BY <1>3, <1>4, <1>5, <1>6
  <2>2. [kids EXCEPT ![p] = kids[p]] = kids  BY <1>2
  <2>3. ListsInv(heap', [kids EXCEPT ![p] = kids[p]], held')  BY <2>1, <2>2
  <2> QED  BY <2>1, <2>3, <1>1, <1>2, ExpectedLists
<1>7. CASE d.p # Null
  <2>1. r.ok /\ heap' = add_item_to_array(e, p, x)  BY <1>3, <1>5, <1>7
  <2>2. held' = held \ {x} /\ Expect(p, Append(kids[p], x))  BY <2>1, <1>3
  <2>3. Strings(heap) \subseteq Strings(d.h)  BY <1>4, <1>7
  <2>4. Pointers(heap) /\ Owned(heap)  BY DEF ListsInv
  <2>5. ListsInv(d.h, kids, held)
    <3>1. \A a \in Nodes(heap) :
            /\ d.h[a].str \in Strings(d.h) \cup {Null}
            /\ d.h[a].key \in IF d.h[a].constKey THEN Literals ELSE Strings(d.h) \cup {Null}
      BY <2>3, <2>4, <1>4 DEF Pointers
    <3>2. Owned(d.h)  BY <2>4, <1>4 DEF Owned
    <3> QED  BY <3>1, <3>2, <1>4, SameLinks
  <2>6. ~ const => /\ d.p \in Strings(d.h)
                   /\ \A y \in Nodes(d.h) : /\ d.p # d.h[y].str
                                            /\ ~ d.h[y].constKey => d.p # d.h[y].key
    <3>1. \A y \in Nodes(heap) : /\ heap[y].str \in Strings(heap) \cup {Null}
                                 /\ ~ heap[y].constKey => heap[y].key \in Strings(heap) \cup {Null}
      BY <2>4 DEF Pointers
    <3> QED  BY <3>1, <1>4, <1>7
  <2>7. ListsInv(e, kids, held) /\ Nodes(e) = Nodes(heap)
    <3>1. const => d.p \in Literals  BY <1>4
    <3>2. x \in Nodes(d.h)  BY <1>1, <1>4
    <3>3. ListsInv(e, kids, held) /\ Nodes(e) = Nodes(d.h)
      BY <2>5, <2>6, <3>1, <3>2, SetKeyKeepsLists
    <3> QED  BY <3>3, <1>4
  <2> HIDE DEF e
  <2>8. ListsInv(heap', [kids EXCEPT ![p] = Append(kids[p], x)], held')
    BY <2>1, <2>2, <2>7, <1>1, AppendKeepsLists
  <2>9. Nodes(heap') = Nodes(heap)
    <3>1. Rewired(e, heap')  BY <2>1, <2>7, <1>1, AppendKeepsLists
    <3> QED  BY <3>1, <2>7 DEF Rewired
  <2> QED  BY <2>2, <2>8, <2>9, <1>1, <1>2, ExpectedLists
<1> QED  BY <1>6, <1>7

(* cJSON_DetachItemViaPointer, as a step, when what the code found is what   *)
(* the caller meant.                                                         *)
THEOREM DetachStepKeepsLists ==
  ASSUME ListsInv(heap, kids, held), NEW p \in Items, NEW i \in DOMAIN kids[p],
         Detach(p, kids[p][i], i)
  PROVE  ListsInv(heap', kids', held')
<1>1. p \in Nodes(heap)  BY DEF Items, Nodes
<1>2. /\ heap' = DetachItemViaPointer(heap, p, kids[p][i])
      /\ held' = held \cup {kids[p][i]}
      /\ Expect(p, Without(kids[p], i))
  BY DEF Detach
<1>3. ListsInv(heap', [kids EXCEPT ![p] = Without(kids[p], i)], held')
  BY <1>1, <1>2, DetachKeepsLists
<1>4. kids \in [Addr -> Seq(Addr)]  BY DEF ListsInv, Places
<1>5. Nodes(heap') = Nodes(heap)
  <2>1. Rewired(heap, heap')  BY <1>1, <1>2, DetachKeepsLists
  <2> QED  BY <2>1 DEF Rewired
<1> QED  BY <1>1, <1>2, <1>3, <1>4, <1>5, ExpectedLists

(* With the callers' expectation in step, the invariants the runs check hold:*)
(* the links are the expected ones, and no pointer is left dangling.         *)
LEMMA ListsMatch == ListsInv(heap, kids, held) => SiblingsMatch /\ NoDangling
<1>1. Nodes(heap) = Items /\ Strings(heap) = Blocks  BY DEF Nodes, Items, Strings, Blocks
<1> QED  BY <1>1 DEF ListsInv, Roots, Pointers, SiblingsMatch, NoDangling
=============================================================================
