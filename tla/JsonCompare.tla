----------------------------- MODULE JsonCompare -----------------------------
(* One tree to be printed, and two to be compared, each built by the calls   *)
(* of JsonTree.tla from a description: what it is, its string, its members   *)
(* and their names.                                                          *)
EXTENDS JsonProps

CONSTANTS Leaves,  \* the leaves of the trees compared: scalars and texts
          Wide     \* how many members an object of leaves has at most

Leaf(l) == [kind |-> IF l \in Scalars THEN l ELSE "string", text |-> l, keys |-> <<>>, members |-> <<>>]
Parent(kind, keys, members) == [kind |-> kind, text |-> Null, keys |-> keys, members |-> members]

NameOrders(n) == {names \in [1 .. n -> Names] : \A i, j \in 1 .. n : i # j => names[i] # names[j]}

ArraysOf(S, n) == {Parent("array", <<>>, members) : members \in [1 .. n -> S]}
ObjectsOf(S, n) ==
  {Parent("object", names, members) : names \in NameOrders(n), members \in [1 .. n -> S]}

LeafTrees == {Leaf(l) : l \in Leaves}
FlatTrees == UNION {ArraysOf(LeafTrees, n) : n \in 0 .. 2}
               \cup UNION {ObjectsOf(LeafTrees, n) : n \in 0 .. Wide}
Pairs == ArraysOf(LeafTrees, 2) \cup ObjectsOf(LeafTrees, 2)
Descriptions == LeafTrees \cup FlatTrees \cup ArraysOf(Pairs, 1) \cup ObjectsOf(Pairs, 1)

(* The keys that are literals are added as such. *)
RECURSIVE Build(_, _), AddMembers(_, _, _, _)
Build(h, d) ==
  IF d.kind = "string" THEN CreateString(h, d.text)
  ELSE LET n == New_Item(h, d.kind) IN [h |-> AddMembers(n.h, n.p, d.keys, d.members), p |-> n.p]

AddMembers(h, p, names, members) ==
  IF members = <<>> THEN h
  ELSE LET n == Build(h, Head(members)) IN
       IF names = <<>> THEN AddMembers(add_item_to_array(n.h, p, n.p), p, <<>>, Tail(members))
       ELSE AddMembers(add_item_to_object(n.h, p, Head(names), n.p, Head(names) \in Literals).h,
                       p, Tail(names), Tail(members))

NoTrees == heap = [a \in Addr |-> Free] /\ held = {} /\ kids = [a \in Addr |-> <<>>]

BuildOne ==
  /\ Cardinality(held) < MaxHeld
  /\ \E d \in Descriptions :
       LET r == Build(heap, d) IN heap' = r.h /\ held' = held \cup {r.p}
  /\ Expect(Null, <<>>)

Spelling(name, cs) == IF cs THEN name ELSE Fold(name)

(* A tree up to the order of an object's members. *)
Meaning[x \in Addr, cs \in BOOLEAN] ==
  LET s == kids[x] IN
  [kind |-> heap[x].kind,
   text |-> IF heap[x].str = Null THEN Null ELSE Text(heap, heap[x].str),
   items |-> IF heap[x].kind = "array" THEN [i \in DOMAIN s |-> Meaning[s[i], cs]] ELSE <<>>,
   members |-> IF heap[x].kind = "object"
               THEN {<<Spelling(KeyOf(heap, s[i]), cs), Meaning[s[i], cs]>> : i \in DOMAIN s}
               ELSE {}]

DistinctKeys(x, cs) ==
  \A o \in Under[x] : heap[o].kind = "object" =>
    \A i, j \in DOMAIN kids[o] :
      /\ heap[kids[o][i]].key # Null
      /\ i # j => ~ SameKey(heap, kids[o][i], KeyOf(heap, kids[o][j]), cs)

(* Of trees whose objects have a name for every member and no name twice,    *)
(* up to case when that is asked, cJSON_Compare, which looks every member of *)
(* one object up in the other and the other way round, is equality up to the *)
(* order of members, and to the case of names when asked.                    *)
CompareIsEquality ==
  \A x, y \in held, cs \in BOOLEAN :
    DistinctKeys(x, cs) /\ DistinctKeys(y, cs) =>
      cJSON_Compare[heap, x, y, cs] = (Meaning[x, cs] = Meaning[y, cs])
=============================================================================
