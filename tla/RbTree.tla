------------------------------- MODULE RbTree -------------------------------
(* The red-black tree of source/platform/alter/map.cxx that std::map stands  *)
(* on: the system call table, the parameters, the caches and the device      *)
(* manager's maps.  A node is named by its key.  "up", "left" and "right"    *)
(* are _M_parent, _M_left and _M_right; the header's are the root, the       *)
(* leftmost and the rightmost node.  Reading a field of Null is a null       *)
(* dereference, which TLC reports.  rotate_left and rotate_right, and the    *)
(* two halves of each rebalancing, are mirror images: one definition takes   *)
(* the side.  A call is a first step that links or unlinks the node and one  *)
(* step for every turn of the loop that rebalances.                          *)
EXTENDS Integers

CONSTANTS Keys,     \* keys, compared with <
          Header,   \* the header node inside the map object
          Null      \* the null pointer

ASSUME RbAssumption == /\ Keys \subseteq Int
                       /\ Header \notin Keys /\ Null \notin Keys /\ Header # Null

VARIABLES tree,     \* the fields of every node
          call      \* the locals of the call under way: __x, its parent, and
                    \* the node to be freed

rbVars == <<tree, call>>

Node == Keys \cup {Header}
Ptr == Node \cup {Null}
Sides == {"left", "right"}
Trees == [Node -> [up : Ptr, left : Ptr, right : Ptr, red : BOOLEAN]]

Other(s) == IF s = "left" THEN "right" ELSE "left"

root(t) == t[Header].up
IsRed(t, x) == x # Null /\ t[x].red
Linked(t) == {k \in Keys : t[k].up # Null}

(* The side of p on which x hangs. *)
Side(t, x, p) == IF x = t[p].left THEN "left" ELSE "right"

Paint(t, x, r) == [t EXCEPT ![x].red = r]
SetUp(t, x, p) == IF x = Null THEN t ELSE [t EXCEPT ![x].up = p]
SetChild(t, x, s, y) == [t EXCEPT ![x][s] = y]

(* Whatever pointed down to x points to y: the root or a child of x's parent. *)
Relink(t, x, y) ==
  IF root(t) = x THEN SetUp(t, Header, y)
  ELSE SetChild(t, t[x].up, Side(t, x, t[x].up), y)

(* x goes down on side s, its other child comes up. *)
Rotate(t, x, s) ==
  LET y == t[x][Other(s)]
      c == t[y][s]
      u == SetUp(SetUp(SetChild(t, x, Other(s), c), c, x), y, t[x].up)
  IN  SetUp(SetChild(Relink(u, x, y), y, s, x), x, y)

(* The red child of x away from s comes up and they exchange colours.        *)
Lift(t, x, s) == Rotate(Paint(Paint(t, t[x][Other(s)], FALSE), x, TRUE), x, s)

(* _S_minimum and _S_maximum, and the inner loops of increment and decrement. *)
Descend(t, x, s) ==
  LET d[n \in Node] == IF t[n][s] = Null THEN n ELSE d[t[n][s]] IN d[x]

Climb(t, x, s) ==
  LET c[n \in Linked(t) \cup {Header}] ==
        IF n = t[t[n].up][s] THEN c[t[n].up] ELSE n
  IN  c[x]

_Rb_tree_increment(t, x) ==
  IF t[x].right # Null THEN Descend(t, t[x].right, "left")
  ELSE LET c == Climb(t, x, "right") IN
       IF t[c].right # t[c].up THEN t[c].up ELSE c

(* Faulty variant: without the loop that goes up.                             *)
DecrementOneUp(t, x) ==
  IF t[x].red /\ t[t[x].up].up = x THEN t[x].right
  ELSE IF t[x].left # Null THEN Descend(t, t[x].left, "right")
  ELSE t[x].up

_Rb_tree_decrement(t, x) ==
  IF t[x].red /\ t[t[x].up].up = x THEN t[x].right
  ELSE IF t[x].left # Null THEN Descend(t, t[x].left, "right")
  ELSE t[Climb(t, x, "left")].up

_Rb_tree_black_count(t, x) ==
  LET sum[n \in Linked(t)] ==
        (IF t[n].red THEN 0 ELSE 1) + (IF n = root(t) THEN 0 ELSE sum[t[n].up])
  IN  sum[x]

(***************************************************************************)
(* Insertion.                                                              *)
(***************************************************************************)
Link(t, x, p, s) ==
  LET new == [up |-> p, left |-> Null, right |-> Null, red |-> TRUE]
      u   == SetChild([t EXCEPT ![x] = new], p, s, x)
  IN  IF p = Header THEN SetChild(SetUp(u, Header, x), Header, "right", x)
      ELSE IF p = t[Header][s] THEN SetChild(u, Header, s, x)
      ELSE u

(* The parent and its sibling give their colour to the grandparent. *)
Recolor(t, p, y, pp) == Paint(Paint(Paint(t, p, FALSE), y, FALSE), pp, TRUE)

(* The grandparent goes down and x's parent takes its place and colour. *)
Raise(t, x) ==
  LET p  == t[x].up
      pp == t[p].up
  IN  Lift(t, pp, Other(Side(t, p, pp)))

(* std::map's search for the place of k (libstdc++, not in the repository):  *)
(* it needs _Rb_tree_decrement to find whether k is there already.           *)
Toward(k, p) == IF p = Header \/ k < p THEN "left" ELSE "right"
Beneath(t, k, p) == IF p = Header THEN root(t) ELSE t[p][Toward(k, p)]

Position(t, k) ==
  LET w[p \in Node] == IF Beneath(t, k, p) = Null THEN p ELSE w[Beneath(t, k, p)]
      p == w[Header]
      s == Toward(k, p)
      first  == s = "left" /\ p = t[Header].left
      before == IF s = "right" THEN p ELSE _Rb_tree_decrement(t, p)
  IN  [p |-> p, s |-> s, found |-> ~ first /\ ~ before < k]

(***************************************************************************)
(* Erasure.                                                                *)
(***************************************************************************)
(* Faulty variant: a rightmost node with a left child hands over to its       *)
(* parent.                                                                   *)
EdgeIsParent(t, z, s) == IF t[Header][s] # z THEN t[Header][s] ELSE t[z].up

(* The leftmost or rightmost node once z, which has one child at most, is    *)
(* gone.                                                                     *)
Edge(t, z, s) ==
  IF t[Header][s] # z THEN t[Header][s]
  ELSE IF t[z][Other(s)] = Null THEN t[z].up
  ELSE Descend(t, t[z][Other(s)], s)

(* z with one child x at most: x takes its place. *)
UnlinkOne(t, z, x) ==
  LET u == Relink(SetUp(t, x, t[z].up), z, x)
      v == SetChild(u, Header, "left", Edge(t, z, "left"))
  IN  SetChild(v, Header, "right", Edge(t, z, "right"))

(* z with two children: y, which follows it, takes its place and its colour, *)
(* and x takes y's place.                                                    *)
UnlinkTwo(t, z, y, x) ==
  LET u == SetChild(SetUp(t, t[z].left, y), y, "left", t[z].left)
      v == SetChild(SetUp(u, x, t[y].up), t[y].up, "left", x)
      w == SetUp(SetChild(v, y, "right", t[z].right), t[z].right, y)
  IN  Paint(SetUp(Relink(IF y = t[z].right THEN u ELSE w, z, y), y, t[z].up), y, t[z].red)

(* The node that is moved or removed, __y, and the child it leaves behind. *)
Leaver(t, z) ==
  IF t[z].left # Null /\ t[z].right # Null THEN Descend(t, t[z].right, "left") ELSE z
OnlyChild(t, y) == IF t[y].left = Null THEN t[y].right ELSE t[y].left

Unlink(t, z) ==
  LET y == Leaver(t, z) IN
  IF y = z THEN UnlinkOne(t, z, OnlyChild(t, z)) ELSE UnlinkTwo(t, z, y, OnlyChild(t, y))

Blacken(t, x) == IF x = Null THEN t ELSE Paint(t, x, FALSE)

(* The sibling of x's place is black after RaiseSibling, and its child away  *)
(* from x red after RaiseNephew.                                             *)
RaiseSibling(t, xp, s) ==
  IF t[t[xp][Other(s)]].red THEN Lift(t, xp, s) ELSE t

(* Faulty variant: the sibling's near child stays where it is. *)
RaiseNoNephew(t, w, s) == t

RaiseNephew(t, w, s) ==
  IF IsRed(t, t[w][Other(s)]) THEN t ELSE Lift(t, w, Other(s))

Settle(t, xp, s) ==
  LET w  == t[xp][Other(s)]
      t1 == Paint(Paint(t, w, t[xp].red), xp, FALSE)
  IN  Rotate(Blacken(t1, t[w][Other(s)]), xp, s)

(***************************************************************************)
(* std::map as the platform uses it.                                       *)
(***************************************************************************)
Freed == [up |-> Null, left |-> Null, right |-> Null, red |-> FALSE]
NoCall == [op |-> "none", x |-> Null, xp |-> Null, z |-> Null]

RbInit ==
  /\ tree = [[n \in Node |-> Freed] EXCEPT
               ![Header] = [up |-> Null, left |-> Header, right |-> Header, red |-> TRUE]]
  /\ call = NoCall

(* operator[] with a new key, for which a node is allocated; with a known    *)
(* one it changes the value only.                                            *)
Insert(k) ==
  LET at == Position(tree, k) IN
  /\ call = NoCall
  /\ ~ at.found
  /\ tree' = Link(tree, k, at.p, at.s)
  /\ call' = [NoCall EXCEPT !.op = "insert", !.x = k]

(* A turn of the loop, which needs the red uncle y or rotates, and its end. *)
RebalanceInsert ==
  LET x  == call.x
      p  == tree[x].up
      pp == tree[p].up
      s  == Side(tree, p, pp)
      y  == tree[pp][Other(s)]
      inner == x = tree[p][Other(s)]
  IN
  /\ call.op = "insert"
  /\ IF x = root(tree) \/ ~ tree[p].red
     THEN tree' = Paint(tree, root(tree), FALSE) /\ call' = NoCall
     ELSE IF IsRed(tree, y)
     THEN tree' = Recolor(tree, p, y, pp) /\ call' = [call EXCEPT !.x = pp]
     ELSE /\ tree' = IF inner THEN Raise(Rotate(tree, p, s), p) ELSE Raise(tree, x)
          /\ call' = [call EXCEPT !.x = IF inner THEN p ELSE x]

(* The node z is out of the tree and is freed, which ends the call. *)
Release(t, z) == [t EXCEPT ![z] = Freed]

(* The red colour that goes away is missed nowhere. *)
Erase(z) ==
  LET y == Leaver(tree, z)
      t == Unlink(tree, z)
  IN
  /\ call = NoCall
  /\ z \in Linked(tree)
  /\ IF tree[y].red
     THEN tree' = Release(t, z) /\ UNCHANGED call
     ELSE /\ tree' = t
          /\ call' = [op |-> "erase", x |-> OnlyChild(tree, y), z |-> z,
                      xp |-> IF y # z /\ y = tree[z].right THEN y ELSE tree[y].up]

(* A turn of the loop, which passes the missing black on or settles it, and  *)
(* its end.                                                                  *)
RebalanceErase ==
  LET x  == call.x
      xp == call.xp
      s  == Side(tree, x, xp)
      t  == RaiseSibling(tree, xp, s)
      w  == t[xp][Other(s)]
  IN
  /\ call.op = "erase"
  /\ IF x = root(tree) \/ IsRed(tree, x)
     THEN tree' = Release(Blacken(tree, x), call.z) /\ call' = NoCall
     ELSE IF \A c \in Sides : ~ IsRed(t, t[w][c])
     THEN tree' = Paint(t, w, TRUE) /\ call' = [call EXCEPT !.x = xp, !.xp = t[xp].up]
     ELSE /\ tree' = Release(Blacken(Settle(RaiseNephew(t, w, s), xp, s), x), call.z)
          /\ call' = NoCall

RbNext == (\E k \in Keys : Insert(k) \/ Erase(k)) \/ RebalanceInsert \/ RebalanceErase

RbSpec == RbInit /\ [][RbNext]_rbVars

(* Insertion and erasure leave no red node below a red one and as many black *)
(* nodes above every missing child: a search in a full table stays short.    *)
RedBlack ==
  LET tips == {x \in Linked(tree) : Null \in {tree[x].left, tree[x].right}} IN
  call = NoCall =>
    /\ tree[Header].red
    /\ \A x \in Linked(tree) : IsRed(tree, x) => ~ IsRed(tree, tree[x].up)
    /\ \A x, y \in tips : _Rb_tree_black_count(tree, x) = _Rb_tree_black_count(tree, y)

(* Walking back from end() with _Rb_tree_decrement undoes every increment,   *)
(* the first step finding the rightmost node through the header's colour and *)
(* the last ending at begin().                                               *)
WalksBack ==
  call = NoCall /\ root(tree) # Null =>
    /\ _Rb_tree_decrement(tree, Header) = Descend(tree, root(tree), "right")
    /\ tree[Header].left = Descend(tree, root(tree), "left")
    /\ \A x \in Linked(tree) :
         x # tree[Header].left =>
           _Rb_tree_increment(tree, _Rb_tree_decrement(tree, x)) = x

(* Between two calls operator[] and find come to the node of every key that  *)
(* is in the map and to none for a key that is not: no rotation hides a node *)
(* from the search, and _Rb_tree_decrement finds the neighbour it compares.  *)
SearchFinds ==
  call = NoCall => \A k \in Keys : Position(tree, k).found <=> k \in Linked(tree)

(* A call adds or removes its key when it links or unlinks the node, and no  *)
(* rotation after it changes what a walk from begin() with                   *)
(* _Rb_tree_increment meets: exactly the keys inserted and not erased, in    *)
(* order.  The node that waits to be freed is not among them.                *)
InTree == Linked(tree) \ {call.z}
MapSteps == [x \in InTree \cup {Header} |->
               IF x = Header THEN tree[Header].left ELSE _Rb_tree_increment(tree, x)]
Map == INSTANCE OrderedSet WITH Elements <- Keys, End <- Header, keys <- InTree, after <- MapSteps
MapSpec == Map!Spec
=============================================================================
