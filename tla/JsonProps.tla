------------------------------ MODULE JsonProps ------------------------------
(* What must hold of the trees of JsonTree.tla. *)
EXTENDS JsonText, JsonLinks

JsonSpec == JsonInit /\ [][JsonNext]_jsonVars

(* Whatever failed for want of memory, every allocated cell belongs to one   *)
(* tree that a caller holds: none is lost, and none will be freed twice.     *)
NothingLost ==
  LET nodes  == Items
      places == UNION {{<<p, i>> : i \in DOMAIN kids[p]} : p \in nodes}
      fields == {f \in nodes \X {"str", "key"} : heap[f[1]][f[2]] \in Addr}
      OneEach(uses, used, At(_)) == /\ {At(u) : u \in uses} = used
                                    /\ Cardinality(uses) = Cardinality(used)
  IN  /\ nodes = UNION {Under[x] : x \in held}
      /\ OneEach(places, nodes \ held, LAMBDA u : kids[u[1]][u[2]])
      /\ OneEach(fields, Blocks, LAMBDA u : heap[u[1]][u[2]])

(* What a text tells: the members in order, an object's with their names.    *)
Told[h \in Heaps, x \in Addr] ==
  LET s == Chain[h, h[x].child] IN
  [kind |-> h[x].kind,
   text |-> IF h[x].str = Null THEN Null ELSE Text(h, h[x].str),
   keys |-> [i \in DOMAIN s |-> IF h[x].kind = "array" THEN Null
                                 ELSE IF h[s[i]].key = Null THEN Empty ELSE Text(h, h[s[i]].key)],
   members |-> [i \in DOMAIN s |-> Told[h, s[i]]]]

Depth[x \in Addr] ==
  IF heap[x].kind \notin Parents THEN 0
  ELSE 1 + FoldLeft(LAMBDA d, c : IF Depth[c] > d THEN Depth[c] ELSE d, 0, kids[x])

(* The cells a parser needs for the tree: one for each item, string and name.*)
Needed[x \in Addr] ==
  1 + (IF heap[x].kind = "string" THEN 1 ELSE 0)
    + FoldLeft(LAMBDA n, c : n + Needed[c] + (IF heap[x].kind = "object" THEN 1 ELSE 0),
               0, kids[x])

Plenty == 1000
BlankHeap == [a \in Addr |-> Free]
Room == Cardinality({a \in Addr : heap[a] = Free})

(* Any tree is sometimes the only one, after the others were deleted, and    *)
(* without a name of its own, which is not printed: it is enough to print it *)
(* then.                                                                     *)
Alone == {x \in held : held = {x} /\ heap[x].key = Null}

(* What a parser with room left on heap h may make of x's text. *)
Survives(x, h, room, r) ==
  /\ (r.p # Null) = (Depth[x] <= NestingLimit /\ Needed[x] <= room)
  /\ IF r.p = Null THEN r.h = h ELSE Told[r.h, r.p] = Told[heap, x]

ReadBack(x, r) ==
  /\ r.ok
  /\ Survives(x, BlankHeap, MaxCells, Parse(BlankHeap, r.text, TRUE))
  /\ Survives(x, heap, Room, Parse(heap, r.text, FALSE))

(* A printed tree is parsed to the same tree, printed with or without layout *)
(* into a buffer that starts from one byte and has to grow again and again:  *)
(* unless it nests deeper than the parser allows or memory runs out, when    *)
(* nothing is kept of it.                                                    *)
RoundTrip ==
  \A x \in Alone, format \in BOOLEAN : ReadBack(x, print(heap, x, 1, Plenty, format))

(* A text cut short is refused, and everything built for it is freed.        *)
CutTextLeavesNothing ==
  \A x \in Alone \cap Containers :
    LET text == print(heap, x, 1, Plenty, FALSE).text IN
    \A n \in 0 .. Len(text) - 2 :
      Parse(heap, Append(SubSeq(text, 1, n), Nul), FALSE) = [h |-> heap, p |-> Null]

Fits(p, text) == ~ p.overrun /\ (p.ok => Append(Content(p), Nul) = text)

(* No write runs over the buffer, whether it grows, cannot grow for want of  *)
(* memory, or is the caller's; and the caller's is large enough with the     *)
(* five bytes more than the text that cJSON.hxx recommends.                  *)
PrintFits ==
  \A x \in Alone, format \in BOOLEAN :
    LET text == print(heap, x, 1, Plenty, format).text IN
    \A spare \in {0, 5} :
      LET p == PrintPreallocated(heap, x, Bytes(text) + spare, format)
      IN  /\ Fits(p, text) /\ (spare = 5 => p.ok)
          /\ Fits(PrintBuffered(heap, x, 0, 1, format), text)

(* Two heaps that hold the same trees differ in addresses only, which no     *)
(* call looks at: TLC may keep one of them, unless something is wrong.       *)
Walk[c \in Ptr] == IF c = Null THEN <<>> ELSE <<c>> \o Walk[heap[c].next]

Value[x \in Addr] ==
  <<heap[x].kind, heap[x].constKey, KeyOf(heap, x),
    IF heap[x].str = Null THEN Null ELSE Text(heap, heap[x].str),
    LET s == Walk[heap[x].child] IN [i \in DOMAIN s |-> Value[s[i]]]>>

Forest ==
  LET v == [x \in held |-> Value[x]] IN
  {<<v[x], Cardinality({y \in held : v[y] = v[x]})>> : x \in held}

TreesView ==
  IF heap \in Heaps /\ SiblingsMatch /\ NoDangling /\ NothingLost THEN <<Forest>> ELSE jsonVars
=============================================================================
