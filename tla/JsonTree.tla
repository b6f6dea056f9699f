------------------------------ MODULE JsonTree ------------------------------
(* The trees of source/platform/cJSON.cxx on a heap of a few cells, with     *)
(* every failing allocation: parameters and device descriptions are built,   *)
(* searched and freed as such trees.  A cell is free, a cJSON node or a      *)
(* string.  "held" are the items the callers own; "kids" is what they expect *)
(* below each item.  A reference (cJSON_IsReference) is never made here, as  *)
(* nothing in the repository makes one.                                      *)
EXTENDS Integers, Sequences, FiniteSets

CONSTANTS MaxCells,   \* size of the heap
          MaxHeld,    \* bound on the items callers hold
          Names,      \* keys
          Texts,      \* string values
          Literals,   \* the keys callers also pass as string literals
          Scalars,    \* kinds without a string or members: null, true, ...
          Fold(_),    \* a key's lower case
          Empty,      \* the empty string
          Null,       \* the null pointer
          Free        \* an unallocated cell

ASSUME JsonAssumption == /\ MaxCells \in Nat
                         /\ Literals \subseteq Names
                         /\ Null \notin (1 .. MaxCells) \cup Names \cup Texts \cup {Empty}

VARIABLES heap, held, kids

jsonVars == <<heap, held, kids>>

Addr == 1 .. MaxCells
Ptr == Addr \cup {Null}
Parents == {"object", "array"}
(* A key is a heap string, or a literal of the caller (cJSON_StringIsConst). *)
Node == [next : Ptr, prev : Ptr, child : Ptr, kind : Parents \cup Scalars \cup {"string", "invalid"},
         str : Ptr, key : Ptr \cup Literals, constKey : BOOLEAN]
Block == [text : Names \cup Texts \cup {Empty}]
Heaps == [Addr -> Node \cup Block \cup {Free}]

ASSUME FreeAssumption == Free \notin Node \cup Block

IsNode(h, a) == h[a] # Free /\ "kind" \in DOMAIN h[a]
Items == {a \in Addr : IsNode(heap, a)}
Containers == {a \in Items : heap[a].kind \in Parents}

(***************************************************************************)
(* Memory.                                                                 *)
(***************************************************************************)
Allocate(h, c) ==
  IF \A a \in Addr : h[a] # Free THEN [h |-> h, p |-> Null]
  ELSE LET a == CHOOSE a \in Addr : h[a] = Free
       IN  [h |-> [h EXCEPT ![a] = c], p |-> a]

Deallocate(h, S) == [a \in Addr |-> IF a \in S THEN Free ELSE h[a]]

New_Item(h, kind) ==
  Allocate(h, [next |-> Null, prev |-> Null, child |-> Null, kind |-> kind,
               str |-> Null, key |-> Null, constKey |-> FALSE])

cJSON_strdup(h, s) == Allocate(h, [text |-> s])

Text(h, p) == IF p \in Names THEN p ELSE h[p].text

OwnedKey(h, x) == IF h[x].constKey THEN {} ELSE {h[x].key}

(* The item, everything below it, and its siblings from here on. *)
Delete[h \in Heaps, x \in Ptr] ==
  IF x = Null THEN h
  ELSE LET h1 == Delete[h, h[x].child]
       IN  Delete[Deallocate(h1, {h[x].str, x} \cup OwnedKey(h, x)), h[x].next]

(***************************************************************************)
(* Sibling lists.                                                          *)
(***************************************************************************)
get_array_item[h \in Heaps, c \in Ptr, i \in Nat] ==
  IF c = Null \/ i = 0 THEN c ELSE get_array_item[h, h[c].next, i - 1]

SameKey(h, c, name, cs) ==
  IF cs THEN name = Text(h, h[c].key) ELSE Fold(name) = Fold(Text(h, h[c].key))

(* A search for the exact name ends at a member without a name; the other    *)
(* search passes it.                                                         *)
get_object_item[h \in Heaps, c \in Ptr, name \in Names \cup {Empty}, cs \in BOOLEAN] ==
  IF c = Null THEN Null
  ELSE IF h[c].key = Null THEN IF cs THEN Null ELSE get_object_item[h, h[c].next, name, cs]
  ELSE IF SameKey(h, c, name, cs) THEN c
  ELSE get_object_item[h, h[c].next, name, cs]

suffix_object(h, prev, item) == [h EXCEPT ![prev].next = item, ![item].prev = prev]

add_item_to_array(h, p, x) ==
  LET c == h[p].child IN
  IF c = Null THEN [h EXCEPT ![p].child = x, ![x].prev = x, ![x].next = Null]
  ELSE IF h[c].prev = Null THEN h
  ELSE [suffix_object(h, h[c].prev, x) EXCEPT ![c].prev = x]

(* The old key goes once the new one is there. *)
SetKey(h, x, new, const) ==
  [Deallocate(h, OwnedKey(h, x)) EXCEPT ![x].key = new, ![x].constKey = const]

add_item_to_object(h, p, name, x, const) ==
  LET k == IF const THEN [h |-> h, p |-> name] ELSE cJSON_strdup(h, name) IN
  IF k.p = Null THEN [h |-> h, ok |-> FALSE]
  ELSE [h |-> add_item_to_array(SetKey(k.h, x, k.p, const), p, x), ok |-> TRUE]

(* Faulty variant: the first one's prev stays at a last one that has left. *)
DetachKeepingTail(h, p, x) ==
  LET first == x = h[p].child
      n  == h[x].next
      h1 == IF first THEN [h EXCEPT ![p].child = n] ELSE [h EXCEPT ![h[x].prev].next = n]
      h2 == IF n = Null THEN h1 ELSE [h1 EXCEPT ![n].prev = h[x].prev]
  IN  [h2 EXCEPT ![x].prev = Null, ![x].next = Null]

DetachItemViaPointer(h, p, x) ==
  LET first == x = h[p].child
      n  == h[x].next
      h1 == IF first THEN h ELSE [h EXCEPT ![h[x].prev].next = n]
      h2 == IF n = Null THEN h1 ELSE [h1 EXCEPT ![n].prev = h[x].prev]
      h3 == IF first THEN [h2 EXCEPT ![p].child = n]
            ELSE IF n = Null THEN [h2 EXCEPT ![h[p].child].prev = h[x].prev] ELSE h2
  IN  [h3 EXCEPT ![x].prev = Null, ![x].next = Null]

InsertBefore(h, p, after, x) ==
  LET h1 == [h EXCEPT ![x].next = after, ![x].prev = h[after].prev, ![after].prev = x]
  IN  IF after = h[p].child THEN [h1 EXCEPT ![p].child = x]
      ELSE [h1 EXCEPT ![h[after].prev].next = x]

InsertItemInArray(h, p, i, x) ==
  LET after == get_array_item[h, h[p].child, i] IN
  IF after = Null THEN add_item_to_array(h, p, x) ELSE InsertBefore(h, p, after, x)

(* Faulty variant: the replaced item stays the last one. *)
MakeLastNot(h, first, new) == h

MakeLast(h, first, new) == [h EXCEPT ![first].prev = new]

(* x's place in the list is new's. *)
Supplant(h, p, x, new) ==
  LET c  == h[p].child
      n  == h[x].next
      h1 == [h EXCEPT ![new].next = n, ![new].prev = h[x].prev]
      h2 == IF n = Null THEN h1 ELSE [h1 EXCEPT ![n].prev = new]
      h3 == IF c = x
            THEN [h2 EXCEPT ![new].prev = IF h2[c].prev = c THEN new ELSE @, ![p].child = new]
            ELSE LET h4 == [h2 EXCEPT ![h[x].prev].next = new]
                 IN  IF n = Null THEN MakeLast(h4, c, new) ELSE h4
  IN  [h3 EXCEPT ![x].next = Null, ![x].prev = Null]

ReplaceItemViaPointer(h, p, x, new) == Delete[Supplant(h, p, x, new), x]

(***************************************************************************)
(* Making items.                                                           *)
(***************************************************************************)
(* Faulty variant: without room for the text the item is left behind. *)
CreateStringLeaving(h, text) ==
  LET n == New_Item(h, "string")
      s == cJSON_strdup(n.h, text)
  IN  IF n.p = Null THEN n
      ELSE IF s.p = Null THEN [h |-> n.h, p |-> Null]
      ELSE [h |-> [s.h EXCEPT ![n.p].str = s.p], p |-> n.p]

CreateString(h, text) ==
  LET n == New_Item(h, "string")
      s == cJSON_strdup(n.h, text)
  IN  IF n.p = Null THEN n
      ELSE IF s.p = Null THEN [h |-> Delete[n.h, n.p], p |-> Null]
      ELSE [h |-> [s.h EXCEPT ![n.p].str = s.p], p |-> n.p]

(* Puts strings behind each other under a; the first one's prev comes last.  *)
FillArray[h \in Heaps, a \in Addr, texts \in Seq(Texts), last \in Ptr] ==
  IF texts = <<>> THEN [h |-> [h EXCEPT ![h[a].child].prev = last], p |-> a]
  ELSE LET n == CreateString(h, Head(texts))
       IN  IF n.p = Null THEN [h |-> Delete[n.h, a], p |-> Null]
           ELSE FillArray[IF last = Null THEN [n.h EXCEPT ![a].child = n.p]
                          ELSE suffix_object(n.h, last, n.p), a, Tail(texts), n.p]

(* The item itself, without its children. *)
CopyItem(h, x) ==
  LET n == New_Item(h, h[x].kind)
      s == IF h[x].str = Null THEN [h |-> n.h, p |-> Null]
           ELSE cJSON_strdup(n.h, Text(h, h[x].str))
      k == IF h[x].key = Null \/ h[x].constKey THEN [h |-> s.h, p |-> h[x].key]
           ELSE cJSON_strdup(s.h, Text(h, h[x].key))
      g == [k.h EXCEPT ![n.p].str = s.p, ![n.p].key = k.p, ![n.p].constKey = h[x].constKey]
  IN  IF n.p = Null THEN n
      ELSE IF (s.p = Null /\ h[x].str # Null) \/ (k.p = Null /\ h[x].key # Null)
      THEN [h |-> Delete[g, n.p], p |-> Null]
      ELSE [h |-> g, p |-> n.p]

Duplicate[h \in Heaps, x \in Addr, recurse \in BOOLEAN] ==
  LET CopyChildren[g \in Heaps, new \in Addr, c \in Ptr, last \in Ptr] ==
        IF c = Null
        THEN [h |-> IF last = Null THEN g ELSE [g EXCEPT ![g[new].child].prev = last], p |-> new]
        ELSE LET d == Duplicate[g, c, TRUE]
             IN  IF d.p = Null THEN [h |-> Delete[d.h, new], p |-> Null]
                 ELSE CopyChildren[IF last = Null THEN [d.h EXCEPT ![new].child = d.p]
                                   ELSE suffix_object(d.h, last, d.p), new, g[c].next, d.p]
      n == CopyItem(h, x)
  IN  IF n.p = Null \/ ~ recurse THEN n ELSE CopyChildren[n.h, n.p, h[x].child, Null]

(***************************************************************************)
(* What a tree holds.                                                      *)
(***************************************************************************)
Chain[h \in Heaps, c \in Ptr] ==
  IF c = Null THEN <<>> ELSE <<c>> \o Chain[h, h[c].next]

Under[x \in Addr] == {x} \cup UNION {Under[kids[x][i]] : i \in DOMAIN kids[x]}

KeyOf(h, x) == IF h[x].key = Null THEN Null ELSE Text(h, h[x].key)

(* The pairs that must be equal for two arrays, or two objects, to be so: a   *)
(* pair with Null never is.                                                  *)
ItemPairs(h, x, y) ==
  LET s == Chain[h, h[x].child]
      t == Chain[h, h[y].child]
      At(r, i) == IF i \in DOMAIN r THEN r[i] ELSE Null
  IN  {<<At(s, i), At(t, i)>> : i \in DOMAIN s \cup DOMAIN t}

SearchPairs(h, x, y, cs) ==
  LET s == Chain[h, h[x].child] IN
  {<<s[i], IF h[s[i]].key = Null THEN Null
           ELSE get_object_item[h, h[y].child, Text(h, h[s[i]].key), cs]>> : i \in DOMAIN s}

(* Faulty variant: members are searched one way only. *)
MemberPairsOneWay(h, x, y, cs) == SearchPairs(h, x, y, cs)

(* Faulty variant: members are compared place by place. *)
MemberPairsByPlace(h, x, y, cs) ==
  {IF Null \notin {p[1], p[2]} /\ SameKey(h, p[1], KeyOf(h, p[2]), cs) THEN p ELSE <<Null, Null>>
     : p \in ItemPairs(h, x, y)}

MemberPairs(h, x, y, cs) == SearchPairs(h, x, y, cs) \cup SearchPairs(h, y, x, cs)

cJSON_Compare[h \in Heaps, x \in Ptr, y \in Ptr, cs \in BOOLEAN] ==
  LET AllEqual(pairs) == \A p \in pairs : cJSON_Compare[h, p[1], p[2], cs] IN
  /\ Null \notin {x, y}
  /\ h[x].kind = h[y].kind
  /\ \/ x = y
     \/ h[x].kind \in Scalars
     \/ h[x].kind = "string" /\ Text(h, h[x].str) = Text(h, h[y].str)
     \/ h[x].kind = "array" /\ AllEqual(ItemPairs(h, x, y))
     \/ h[x].kind = "object" /\ AllEqual(MemberPairs(h, x, y, cs))

(***************************************************************************)
(* The calls, each with what the caller may expect of the children.        *)
(***************************************************************************)
JsonInit == /\ heap = [a \in Addr |-> Free]
            /\ held = {}
            /\ kids = [a \in Addr |-> <<>>]

(* Items made by the call have the children it gave them, freed ones none.   *)
(* p's children are s now, the others' are as before.                        *)
Expect(p, s) ==
  kids' = [a \in Addr |-> IF ~ IsNode(heap', a) THEN <<>>
                          ELSE IF ~ IsNode(heap, a) THEN Chain[heap', heap'[a].child]
                          ELSE IF a = p THEN s ELSE kids[a]]

(* Nothing is made for want of memory, and then nothing may be left.         *)
Made(r) == /\ Cardinality(held) < MaxHeld
           /\ heap' = r.h
           /\ held' = IF r.p = Null THEN held ELSE held \cup {r.p}
           /\ Expect(Null, <<>>)

Without(s, i) == SubSeq(s, 1, i - 1) \o SubSeq(s, i + 1, Len(s))
With(s, i, x) == SubSeq(s, 1, i - 1) \o <<x>> \o SubSeq(s, i, Len(s))

Create == \/ \E kind \in Parents \cup Scalars : Made(New_Item(heap, kind))
          \/ \E text \in Texts : Made(CreateString(heap, text))

(* With no cell for the array itself, or no strings at all, the code writes  *)
(* through a null pointer (line 2269): callers avoid both.                   *)
CreateStringArray(texts) ==
  LET a == New_Item(heap, "array") IN
  a.p # Null /\ Made(FillArray[a.h, a.p, texts, Null])

CopyOf(x, recurse) == Made(Duplicate[heap, x, recurse])

AddToArray(p, x) ==
  /\ heap[p].kind = "array"
  /\ heap' = add_item_to_array(heap, p, x)
  /\ held' = held \ {x}
  /\ Expect(p, Append(kids[p], x))

(* Without room for the key the item stays with its caller. *)
AddToObject(p, name, x, const) ==
  LET r == add_item_to_object(heap, p, name, x, const) IN
  /\ heap[p].kind = "object"
  /\ heap' = r.h
  /\ held' = IF r.ok THEN held \ {x} ELSE held
  /\ Expect(p, IF r.ok THEN Append(kids[p], x) ELSE kids[p])

(* cJSON_AddTrueToObject and its like: the new item is deleted again when    *)
(* there is no room for its key.                                             *)
AddNewToObject(p, name, n) ==
  LET r == add_item_to_object(n.h, p, name, n.p, FALSE)
  IN  /\ heap[p].kind = "object"
      /\ n.p # Null
      /\ heap' = IF r.ok THEN r.h ELSE Delete[r.h, n.p]
      /\ Expect(p, IF r.ok THEN Append(kids[p], n.p) ELSE kids[p])
      /\ UNCHANGED held

InsertIndexed(p, i, x) ==
  /\ heap[p].kind = "array"
  /\ heap' = InsertItemInArray(heap, p, i, x)
  /\ held' = held \ {x}
  /\ Expect(p, IF i < Len(kids[p]) THEN With(kids[p], i + 1, x) ELSE Append(kids[p], x))

(* x is the item the code finds, i the place the caller means. *)
Detach(p, x, i) ==
  /\ Cardinality(held) < MaxHeld
  /\ x # Null
  /\ heap' = DetachItemViaPointer(heap, p, x)
  /\ held' = held \cup {x}
  /\ Expect(p, Without(kids[p], i))

DetachAndDelete(p, x, i) ==
  /\ x # Null
  /\ heap' = Delete[DetachItemViaPointer(heap, p, x), x]
  /\ Expect(p, Without(kids[p], i))
  /\ UNCHANGED held

(* The named member: the first whose key matches, unless the search is for   *)
(* the exact name and meets a member without a name before.                  *)
Matches(p, name, cs) ==
  {i \in DOMAIN kids[p] : /\ heap[kids[p][i]].key # Null
                          /\ SameKey(heap, kids[p][i], name, cs)
                          /\ cs => \A j \in 1 .. i : heap[kids[p][j]].key # Null}
First(S) == CHOOSE i \in S : \A j \in S : i <= j

DetachOrRemove(p, x, i) == Detach(p, x, i) \/ DetachAndDelete(p, x, i)

TakeAt(p, i) == DetachOrRemove(p, get_array_item[heap, heap[p].child, i], i + 1)

TakeNamed(p, name, cs) ==
  DetachOrRemove(p, get_object_item[heap, heap[p].child, name, cs],
                 First(Matches(p, name, cs)))

Replace(h, p, x, i, new) ==
  /\ heap' = ReplaceItemViaPointer(h, p, x, new)
  /\ held' = held \ {new}
  /\ Expect(p, [kids[p] EXCEPT ![i] = new])

ReplaceIndexed(p, i, new) ==
  LET x == get_array_item[heap, heap[p].child, i] IN
  x # Null /\ Replace(heap, p, x, i + 1, new)

(* The replacement has its new key, or none when there is no room for it,    *)
(* even if nothing is found to be replaced.                                  *)
ReplaceNamed(p, name, new, cs) ==
  LET k == cJSON_strdup(Deallocate(heap, OwnedKey(heap, new)), name)
      h == [k.h EXCEPT ![new].key = k.p, ![new].constKey = FALSE]
      x == get_object_item[h, h[p].child, name, cs]
  IN  /\ heap[p].kind = "object"
      /\ IF x = Null THEN heap' = h /\ UNCHANGED <<held, kids>>
         ELSE Replace(h, p, x, First(Matches(p, name, cs)), new)

DeleteItem(x) ==
  /\ heap' = Delete[heap, x]
  /\ held' = held \ {x}
  /\ Expect(Null, <<>>)

(* An item goes into a tree it does not hold itself. *)
Into(p, x) ==
  \/ AddToArray(p, x)
  \/ \E name \in Names : AddToObject(p, name, x, FALSE)
  \/ \E name \in Literals : AddToObject(p, name, x, TRUE)
  \/ \E i \in 0 .. Len(kids[p]) : InsertIndexed(p, i, x)
  \/ \E i \in 0 .. Len(kids[p]) - 1 : ReplaceIndexed(p, i, x)
  \/ \E name \in Names, cs \in BOOLEAN : ReplaceNamed(p, name, x, cs)

Within(p) ==
  \/ \E name \in Names, kind \in Parents \cup Scalars :
       AddNewToObject(p, name, New_Item(heap, kind))
  \/ \E name \in Names, text \in Texts : AddNewToObject(p, name, CreateString(heap, text))
  \/ \E i \in 0 .. Len(kids[p]) - 1 : TakeAt(p, i)
  \/ \E name \in Names, cs \in BOOLEAN : TakeNamed(p, name, cs)

JsonNext ==
  \/ Create
  \/ \E texts \in UNION {[1 .. n -> Texts] : n \in 1 .. 2} : CreateStringArray(texts)
  \/ \E x \in Items, recurse \in BOOLEAN : CopyOf(x, recurse)
  \/ \E x \in held : DeleteItem(x) \/ \E p \in Containers \ Under[x] : Into(p, x)
  \/ \E p \in Containers : Within(p)
=============================================================================
