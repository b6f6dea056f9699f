----------------------------- MODULE JsonLinks -----------------------------
(* What must hold of the pointers of JsonTree.tla.                           *)
EXTENDS JsonTree

Blocks == {a \in Addr : heap[a] # Free /\ ~ IsNode(heap, a)}

Nth(s, i) == IF i \in DOMAIN s THEN s[i] ELSE Null

(* p's children are s, in this order: forwards over next, backwards over     *)
(* prev, with the first one's prev at the last one.                          *)
Siblings(h, p, s) ==
  /\ h[p].child = Nth(s, 1)
  /\ \A i \in DOMAIN s : /\ h[s[i]].next = Nth(s, i + 1)
                         /\ h[s[i]].prev = Nth(s, IF i = 1 THEN Len(s) ELSE i - 1)

(* The children of every item are the ones its callers put there, in their   *)
(* order: forwards over next, backwards over prev, with the first one's prev *)
(* at the last one, where add_item_to_array appends.  An item its caller     *)
(* holds has no siblings, which cJSON_Delete would free with it.             *)
SiblingsMatch ==
  /\ \A p \in Items : Siblings(heap, p, kids[p])
  /\ \A x \in held : heap[x].next = Null

(* No live item points to a freed cell, or to a string as to an item.        *)
NoDangling ==
  \A x \in Items :
    /\ {heap[x].next, heap[x].prev, heap[x].child} \subseteq Items \cup {Null}
    /\ heap[x].str \in Blocks \cup {Null}
    /\ heap[x].key \in IF heap[x].constKey THEN Literals ELSE Blocks \cup {Null}
=============================================================================
