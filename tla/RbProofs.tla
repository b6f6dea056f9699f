------------------------------ MODULE RbProofs ------------------------------
(* Theorems about RbTree.tla, for any set of integers as keys: the tree is   *)
(* red and black and ordered, iterators and the search find their way, and   *)
(* it implements OrderedSet at every turn of the rebalancing loops.          *)
(*                                                                           *)
(* The inductive invariant RbInv says of some set L of keys, the nodes in    *)
(* the tree:                                                                 *)
(*   - pointers down and up agree and no other key is linked (Shape);        *)
(*   - every node has bounds, the nearest nodes above it that the search     *)
(*     leaves on either side, and its key lies between them (Sorted);        *)
(*   - every node has a black height and no red node is below a red one,     *)
(*     but for the one place that the loop under way has still to mend: the  *)
(*     red node of an insertion (Fixing), the missing black of an erasure    *)
(*     (Erasing); between calls there is none (Balanced).                    *)
(* Black heights and bounds are functions of which the invariant says only   *)
(* that they exist: each step gives those of the new tree.  Twice the height *)
(* grows on the way up once red nodes are told from black ones (Ranked), so  *)
(* every walk ends, and what holds at its end holds at its start because no  *)
(* node of least rank is a counterexample (NatMin).                          *)
EXTENDS RbTree, WellFoundedInduction, TLAPS

LEMMA SideFacts ==
  ASSUME NEW s \in Sides
  PROVE  /\ Other(s) \in Sides /\ Other(s) # s /\ Other(Other(s)) = s
         /\ \A q \in Sides : q # s => q = Other(s)
BY DEF Sides, Other


(***************************************************************************)
(* Walks: from a node on to nx[n] until one in stop.  The recursive          *)
(* functions of the model have a value whether the walk ends or not, and     *)
(* a measure that falls along it shows that it ends.                       *)
(***************************************************************************)
LEMMA NatMin ==
  ASSUME NEW T, T \subseteq Nat, T # {}
  PROVE  \E m \in T : \A n \in T : m <= n
<1> DEFINE R == {ss \in Nat \X Nat : ss[1] < ss[2]}
<1>0. IsWellFoundedOn(R, Nat)
  BY NatLessThanWellFounded DEF OpToRel
<1>1. PICK m \in T : \A n \in T : ~ (<<n, m>> \in R)
  <2> HIDE DEF R
  <2> QED BY <1>0, WFMin
<1>2. ASSUME NEW n \in T PROVE m <= n
  <2>1. n \in Nat /\ m \in Nat
    OBVIOUS
  <2>2. ~ (<<n, m>> \in R)
    BY <1>1
  <2>3. ~ n < m
    BY <2>1, <2>2
  <2> QED BY <2>1, <2>3
<1> QED BY <1>2

GoesOn(S, stop, nx) == \A n \in S : n \notin stop => nx[n] \in S
Follows(g, S, stop, nx) == g = [n \in S |-> IF n \in stop THEN n ELSE g[nx[n]]]
Reaches(g, S, stop, nx) == \A n \in S : g[n] = IF n \in stop THEN n ELSE g[nx[n]]
Falls(A, stop, nx, rank) ==
  /\ \A n \in A : rank[n] \in Nat
  /\ \A n \in A : n \notin stop => nx[n] \in A /\ rank[nx[n]] < rank[n]

LEMMA FollowExists ==
  ASSUME NEW S, NEW stop, NEW nx, GoesOn(S, stop, nx)
  PROVE  \E g : Follows(g, S, stop, nx)
<1> USE DEF GoesOn
<1> DEFINE Closed(C) == \A n \in C : n \notin stop => nx[n] \in C
           Reach(x) == {y \in S : \A C \in SUBSET S : x \in C /\ Closed(C) => y \in C}
           g == [x \in S |-> CHOOSE y : y \in Reach(x) \cap stop]
<1>1. ASSUME NEW x \in S, x \in stop PROVE g[x] = x
  <2>1. {x} \in SUBSET S /\ Closed({x})
    BY <1>1
  <2>2. Reach(x) = {x}
    BY <2>1
  <2>3. Reach(x) \cap stop = {x}
    BY <1>1, <2>2
  <2> QED BY <2>3
<1>2. ASSUME NEW x \in S, x \notin stop PROVE g[x] = g[nx[x]]
  <2>1. nx[x] \in S
    BY <1>2
  <2>2. ASSUME NEW y \in Reach(x) \cap stop PROVE y \in Reach(nx[x])
    <3> SUFFICES ASSUME NEW C \in SUBSET S, nx[x] \in C, Closed(C) PROVE y \in C
      OBVIOUS
    <3>1. C \cup {x} \in SUBSET S /\ Closed(C \cup {x}) /\ x \in C \cup {x}
      OBVIOUS
    <3>2. y \in C \cup {x}
      BY <3>1
    <3> QED BY <3>2, <1>2
  <2>3. ASSUME NEW y \in Reach(nx[x]) PROVE y \in Reach(x)
    <3> SUFFICES ASSUME NEW C \in SUBSET S, x \in C, Closed(C) PROVE y \in C
      OBVIOUS
    <3>1. nx[x] \in C
      BY <1>2
    <3> QED BY <3>1
  <2>4. Reach(x) \cap stop = Reach(nx[x]) \cap stop
    BY <2>2, <2>3
  <2>5. g[x] = (CHOOSE y : y \in Reach(x) \cap stop) /\ g[nx[x]] = (CHOOSE y : y \in Reach(nx[x]) \cap stop)
    BY <2>1
  <2> QED BY <2>4, <2>5
<1>3. g = [n \in S |-> g[n]]
  OBVIOUS
<1> HIDE DEF g
<1>4. [n \in S |-> g[n]] = [n \in S |-> IF n \in stop THEN n ELSE g[nx[n]]]
  BY <1>1, <1>2
<1>5. Follows(g, S, stop, nx)
  BY <1>3, <1>4 DEF Follows
<1> QED BY <1>5

LEMMA FollowEnds ==
  ASSUME NEW g, NEW S, NEW stop, NEW nx, NEW A, A \subseteq S, NEW rank,
         Reaches(g, S, stop, nx), Falls(A, stop, nx, rank), NEW x \in A
  PROVE  g[x] \in A /\ g[x] \in stop
<1> USE DEF Reaches, Falls
<1> DEFINE Bad == {n \in A : ~ (g[n] \in A /\ g[n] \in stop)}
           T == {rank[n] : n \in Bad}
<1> SUFFICES ASSUME x \in Bad PROVE FALSE
  OBVIOUS
<1>1. T \subseteq Nat /\ T # {}
  OBVIOUS
<1>2. PICK m \in T : \A k \in T : m <= k
  <2> HIDE DEF T
  <2> QED BY <1>1, NatMin
<1>3. PICK n \in Bad : m = rank[n]
  OBVIOUS
<1>4. n \notin stop
  OBVIOUS
<1>5. nx[n] \in A /\ rank[nx[n]] < rank[n] /\ g[n] = g[nx[n]]
  BY <1>4
<1>6. nx[n] \in Bad
  BY <1>5
<1>7. rank[nx[n]] \in T
  BY <1>6
<1>8. rank[n] <= rank[nx[n]] /\ rank[n] \in Nat /\ rank[nx[n]] \in Nat
  BY <1>2, <1>3, <1>5, <1>7
<1> QED BY <1>5, <1>8
(***************************************************************************)
(* What each write changes: one field of one node.                         *)
(***************************************************************************)
PutsChild(t, u, x, s, v) ==
  /\ u \in Trees
  /\ \A n \in Node : u[n].red = t[n].red /\ u[n].up = t[n].up
  /\ \A n \in Node, q \in Sides : u[n][q] = IF n = x /\ q = s THEN v ELSE t[n][q]

PutsUp(t, u, x, v) ==
  /\ u \in Trees
  /\ \A n \in Node : u[n].red = t[n].red /\ u[n].up = IF n = x THEN v ELSE t[n].up
  /\ \A n \in Node, q \in Sides : u[n][q] = t[n][q]

Paints(t, u, x, r) ==
  /\ u \in Trees
  /\ \A n \in Node : u[n].red = (IF n = x THEN r ELSE t[n].red) /\ u[n].up = t[n].up
  /\ \A n \in Node, q \in Sides : u[n][q] = t[n][q]

Relinks(t, u, x, y) ==
  /\ u \in Trees
  /\ \A n \in Node : /\ u[n].red = t[n].red
                     /\ u[n].up = IF n = Header /\ root(t) = x THEN y ELSE t[n].up
  /\ \A n \in Node, q \in Sides :
       u[n][q] = IF root(t) # x /\ n = t[x].up /\ q = Side(t, x, t[x].up)
                 THEN y ELSE t[n][q]

LEMMA SetChildFields ==
  ASSUME NEW t \in Trees, NEW x \in Node, NEW s \in Sides, NEW v \in Ptr
  PROVE  PutsChild(t, SetChild(t, x, s, v), x, s, v)
BY DEF Trees, Sides, SetChild, PutsChild

LEMMA SetUpFields ==
  ASSUME NEW t \in Trees, NEW x \in Ptr, NEW v \in Ptr
  PROVE  PutsUp(t, SetUp(t, x, v), x, v)
BY RbAssumption DEF Trees, Sides, SetUp, Ptr, Node, PutsUp

LEMMA PaintFields ==
  ASSUME NEW t \in Trees, NEW x \in Node, NEW r \in BOOLEAN
  PROVE  Paints(t, Paint(t, x, r), x, r)
BY DEF Trees, Sides, Paint, Paints

LEMMA RelinkFields ==
  ASSUME NEW t \in Trees, NEW x \in Node, NEW y \in Ptr, t[x].up \in Node
  PROVE  Relinks(t, Relink(t, x, y), x, y)
<1>1. CASE root(t) = x
  <2>1. Header \in Ptr /\ Relink(t, x, y) = SetUp(t, Header, y)
    BY <1>1 DEF Ptr, Node, Relink
  <2>2. PutsUp(t, Relink(t, x, y), Header, y)
    BY <2>1, SetUpFields
  <2> QED BY <1>1, <2>2 DEF PutsUp, Relinks
<1>2. CASE root(t) # x
  <2>1. /\ Side(t, x, t[x].up) \in Sides
        /\ Relink(t, x, y) = SetChild(t, t[x].up, Side(t, x, t[x].up), y)
    BY <1>2 DEF Side, Sides, Relink
  <2>2. PutsChild(t, Relink(t, x, y), t[x].up, Side(t, x, t[x].up), y)
    BY <2>1, SetChildFields
  <2> QED BY <1>2, <2>2 DEF PutsChild, Relinks
<1> QED BY <1>1, <1>2

(***************************************************************************)
(* What a rotation writes.                                                 *)
(***************************************************************************)
Rotated(t, u, x, y, s, c, p) ==
  /\ u \in Trees
  /\ \A n \in Node : u[n].red = t[n].red
  /\ \A n \in Node : u[n].up = IF n = x THEN y
                               ELSE IF n = y THEN p
                               ELSE IF n = c THEN x
                               ELSE IF n = Header /\ root(t) = x THEN y
                               ELSE t[n].up
  /\ \A n \in Node, q \in Sides :
       u[n][q] = IF n = x /\ q = Other(s) THEN c
                 ELSE IF n = y /\ q = s THEN x
                 ELSE IF root(t) # x /\ n = p /\ q = Side(t, x, p) THEN y
                 ELSE t[n][q]

LEMMA RotateFields ==
  ASSUME NEW t \in Trees, NEW x \in Keys, NEW s \in Sides, NEW y \in Keys,
         y = t[x][Other(s)], x # y, t[x].up \in Node, t[x].up # x, t[x].up # y,
         t[y][s] # x, t[y][s] # y, t[y][s] # Header
  PROVE  Rotated(t, Rotate(t, x, s), x, y, s, t[y][s], t[x].up)
<1>0. PICK c, p : c = t[y][s] /\ p = t[x].up
  OBVIOUS
<1>1. /\ x \in Node /\ y \in Node /\ x \in Ptr /\ y \in Ptr /\ c \in Ptr /\ p \in Node /\ p \in Ptr
      /\ Header \in Node /\ Other(s) \in Sides /\ Other(s) # s
      /\ x # Header /\ y # Header /\ p # x /\ p # y /\ c # x /\ c # y /\ c # Header
  BY <1>0, RbAssumption, SideFacts DEF Trees, Node, Ptr, Sides
<1>2. PICK a, b, d, e, f, g :
        /\ a = SetChild(t, x, Other(s), c)
        /\ b = SetUp(a, c, x)
        /\ d = SetUp(b, y, p)
        /\ e = Relink(d, x, y)
        /\ f = SetChild(e, y, s, x)
        /\ g = SetUp(f, x, y)
  OBVIOUS
<1>3. g = Rotate(t, x, s)
  BY <1>0, <1>2 DEF Rotate
<1>a. PutsChild(t, a, x, Other(s), c)
  BY <1>1, <1>2, SetChildFields
<1>at. a \in Trees
  BY <1>a DEF PutsChild
<1>b. PutsUp(a, b, c, x)
  BY <1>1, <1>2, <1>at, SetUpFields
<1>bt. b \in Trees
  BY <1>b DEF PutsUp
<1>d. PutsUp(b, d, y, p)
  BY <1>1, <1>2, <1>bt, SetUpFields
<1>dt. d \in Trees
  BY <1>d DEF PutsUp
<1>4. root(d) = root(t) /\ d[x].up = p /\ Side(d, x, p) = Side(t, x, p)
  <2>1. d[Header].up = t[Header].up /\ d[x].up = p
    BY <1>0, <1>1, <1>a, <1>b, <1>d DEF PutsChild, PutsUp
  <2>2. d[p]["left"] = t[p]["left"]
    BY <1>1, <1>a, <1>b, <1>d DEF PutsChild, PutsUp, Sides
  <2> QED BY <2>1, <2>2 DEF root, Side, Sides
<1>e. Relinks(d, e, x, y)
  BY <1>1, <1>2, <1>dt, <1>4, RelinkFields
<1>et. e \in Trees
  BY <1>e DEF Relinks
<1>f. PutsChild(e, f, y, s, x)
  BY <1>1, <1>2, <1>et, SetChildFields
<1>ft. f \in Trees
  BY <1>f DEF PutsChild
<1>g. PutsUp(f, g, x, y)
  BY <1>1, <1>2, <1>ft, SetUpFields
<1>gt. g \in Trees
  BY <1>g DEF PutsUp
<1>5. \A n \in Node : g[n].red = t[n].red
  BY <1>a, <1>b, <1>d, <1>e, <1>f, <1>g DEF PutsChild, PutsUp, Relinks
<1>7. \A n \in Node :
        g[n].up = IF n = x THEN y
                  ELSE IF n = y THEN p
                  ELSE IF n = c THEN x
                  ELSE IF n = Header /\ root(t) = x THEN y
                  ELSE t[n].up
  <2> TAKE n \in Node
  <2> QED BY <1>1, <1>4, <1>a, <1>b, <1>d, <1>e, <1>f, <1>g DEF PutsChild, PutsUp, Relinks
<1>6. \A n \in Node, q \in Sides :
        g[n][q] = IF n = x /\ q = Other(s) THEN c
                  ELSE IF n = y /\ q = s THEN x
                  ELSE IF root(t) # x /\ n = p /\ q = Side(t, x, p) THEN y
                  ELSE t[n][q]
  <2> TAKE n \in Node, q \in Sides
  <2> QED BY <1>1, <1>4, <1>a, <1>b, <1>d, <1>e, <1>f, <1>g DEF PutsChild, PutsUp, Relinks
<1>8. Rotated(t, g, x, y, s, c, p)
  BY <1>gt, <1>5, <1>6, <1>7 DEF Rotated
<1> QED BY <1>0, <1>3, <1>8

(***************************************************************************)
(* The tree's shape: L are the nodes that hang in it.                      *)
(***************************************************************************)
Shape(t, L) ==
  /\ t \in Trees /\ L \subseteq Keys /\ t[Header].red
  /\ root(t) \in L \cup {Null}
  /\ root(t) = Null => L = {}
  /\ root(t) # Null => t[root(t)].up = Header
  /\ \A n \in L, s \in Sides :
       t[n][s] # Null => t[n][s] \in L /\ t[t[n][s]].up = n /\ t[n][Other(s)] # t[n][s]
  /\ \A n \in L : n # root(t) => t[n].up \in L /\ \E s \in Sides : t[t[n].up][s] = n

LEMMA ShapeFacts ==
  ASSUME NEW t, NEW L, Shape(t, L)
  PROVE  /\ t \in Trees /\ L \subseteq Keys /\ L \subseteq Node /\ L \subseteq Ptr
         /\ Header \in Node /\ Header \in Ptr /\ Null \in Ptr /\ Null \notin Node
         /\ Header \notin L /\ Null \notin L /\ Header # Null
BY RbAssumption DEF Shape, Node, Ptr

LEMMA ParentFacts ==
  ASSUME NEW t, NEW L, Shape(t, L), NEW n \in L
  PROVE  /\ t[n].up \in Node
         /\ n = root(t) => t[n].up = Header
         /\ n # root(t) => /\ t[n].up \in L
                           /\ Side(t, n, t[n].up) \in Sides
                           /\ t[t[n].up][Side(t, n, t[n].up)] = n
         /\ \A s \in Sides : \A m \in L : t[m][s] = n =>
              n # root(t) /\ m = t[n].up /\ s = Side(t, n, m) /\ t[m][Other(s)] # n
<1>0. Header \notin L /\ Null \notin L /\ L \subseteq Node /\ Header \in Node
  BY ShapeFacts
<1>1. n = root(t) => t[n].up = Header
  BY <1>0 DEF Shape
<1>2. n # root(t) => /\ t[n].up \in L
                     /\ Side(t, n, t[n].up) \in Sides
                     /\ t[t[n].up][Side(t, n, t[n].up)] = n
  BY <1>0 DEF Shape, Side, Sides
<1>3. ASSUME NEW s \in Sides, NEW m \in L, t[m][s] = n
      PROVE  n # root(t) /\ m = t[n].up /\ s = Side(t, n, m) /\ t[m][Other(s)] # n
  <2>1. m = t[n].up /\ t[m][Other(s)] # n
    BY <1>0, <1>3 DEF Shape
  <2>2. n # root(t)
    BY <1>0, <1>1, <2>1
  <2>3. s = Side(t, n, m)
    BY <1>3, <2>1 DEF Side, Sides, Other
  <2> QED BY <2>1, <2>2, <2>3
<1> QED BY <1>0, <1>1, <1>2, <1>3

(* A rotation keeps the shape. *)
LEMMA RotateWrites ==
  ASSUME NEW t, NEW L, Shape(t, L), NEW x \in L, NEW s \in Sides, NEW y \in L,
         y = t[x][Other(s)], x # y, t[x].up # x, t[x].up # y
  PROVE  /\ Rotated(t, Rotate(t, x, s), x, y, s, t[y][s], t[x].up)
         /\ t[y][s] # x /\ t[y][s] # y /\ t[y][s] # Header
<1>0. /\ x \in Keys /\ y \in Keys /\ t \in Trees /\ Header \notin L /\ Header # Null
      /\ Other(s) \in Sides
  BY ShapeFacts, SideFacts
<1>1. t[x].up \in Node
  BY ParentFacts
<1>2. y # Null /\ t[y].up = x
  BY <1>0, ShapeFacts DEF Shape
<1>3. t[y][s] # x /\ t[y][s] # y /\ t[y][s] # Header
  BY <1>0, <1>2, ShapeFacts DEF Shape
<1> QED BY <1>0, <1>1, <1>3, RotateFields

LEMMA RotateShape ==
  ASSUME NEW t, NEW L, Shape(t, L), NEW x \in L, NEW s \in Sides, NEW y \in L,
         y = t[x][Other(s)], x # y, t[x].up # x, t[x].up # y
  PROVE  Shape(Rotate(t, x, s), L)
<1>0. PICK u, c, p, o : u = Rotate(t, x, s) /\ c = t[y][s] /\ p = t[x].up /\ o = Other(s)
  OBVIOUS
<1>1. Rotated(t, u, x, y, s, c, p) /\ c # x /\ c # y /\ c # Header
  BY <1>0, RotateWrites
<1>2. /\ L \subseteq Node /\ Header \in Node /\ Header \notin L /\ Null \notin L /\ Header # Null
      /\ L \subseteq Keys /\ o \in Sides /\ o # s /\ s = Other(o) /\ p \in Node
      /\ \A q \in Sides : q # s => q = o
  BY <1>0, ShapeFacts, SideFacts, ParentFacts
<1>3. /\ t[y].up = x /\ t[x][o] = y /\ x # y /\ p # x /\ p # y
      /\ c # Null => c \in L /\ t[c].up = y
      /\ t[y][o] # c \/ c = Null
      /\ t[x][s] # y
  BY <1>0, <1>2 DEF Shape
<1>4. /\ \A n \in Node : u[n].up = IF n = x THEN y
                                   ELSE IF n = y THEN p
                                   ELSE IF n = c THEN x
                                   ELSE IF n = Header /\ root(t) = x THEN y
                                   ELSE t[n].up
      /\ u \in Trees /\ u[Header].red
  BY <1>1, <1>2 DEF Rotated, Shape
<1>5. PICK pq : pq = Side(t, x, p)
  OBVIOUS
<1>6. \A n \in Node, q \in Sides :
        u[n][q] = IF n = x /\ q = o THEN c
                  ELSE IF n = y /\ q = s THEN x
                  ELSE IF root(t) # x /\ n = p /\ q = pq THEN y
                  ELSE t[n][q]
  BY <1>0, <1>1, <1>5 DEF Rotated
<1>7. /\ root(t) = x => p = Header
      /\ root(t) # x => p \in L /\ pq \in Sides /\ t[p][pq] = x
  BY <1>0, <1>5, ParentFacts
<1>8. root(u) = IF root(t) = x THEN y ELSE root(t)
  BY <1>1, <1>2, <1>4 DEF root
<1>9. /\ root(u) \in L \cup {Null}
      /\ root(u) = Null => L = {}
      /\ root(u) # Null => u[root(u)].up = Header
  <2>1. CASE root(t) = x
    BY <2>1, <1>2, <1>3, <1>4, <1>7, <1>8
  <2>2. CASE root(t) # x
    <3>1. root(t) # Null => /\ root(t) \in L /\ t[root(t)].up = Header
                            /\ root(t) # y /\ root(t) # c
      BY <1>2, <1>3, <2>2 DEF Shape
    <3>2. root(t) = Null => L = {}
      BY DEF Shape
    <3> QED BY <2>2, <3>1, <3>2, <1>2, <1>4, <1>8
  <2> QED BY <2>1, <2>2
<1>10. ASSUME NEW n \in L, NEW q \in Sides, u[n][q] # Null
       PROVE  u[n][q] \in L /\ u[u[n][q]].up = n
  <2>0. t[n][q] # Null => t[n][q] \in L /\ t[t[n][q]].up = n /\ t[n][Other(q)] # t[n][q]
    BY DEF Shape
  <2>1. CASE n = x /\ q = o
    BY <2>1, <1>10, <1>1, <1>2, <1>3, <1>4, <1>6
  <2>2. CASE n = y /\ q = s
    BY <2>2, <1>1, <1>2, <1>3, <1>4, <1>6
  <2>3. CASE root(t) # x /\ n = p /\ q = pq
    BY <2>3, <1>1, <1>2, <1>3, <1>4, <1>6
  <2>4. CASE ~ (n = x /\ q = o) /\ ~ (n = y /\ q = s) /\ ~ (root(t) # x /\ n = p /\ q = pq)
    <3>1. u[n][q] = t[n][q] /\ t[n][q] \in L /\ t[t[n][q]].up = n
      BY <2>4, <2>0, <1>10, <1>2, <1>6
    <3>2. t[n][q] # x
      BY <2>4, <3>1, <1>0, <1>5, ParentFacts
    <3>3. t[n][q] # y
      BY <2>4, <3>1, <1>2, <1>3, <1>5, ParentFacts
    <3>4. t[n][q] # c
      BY <2>4, <3>1, <1>0, <1>2, <1>3, <2>0
    <3> QED BY <3>1, <3>2, <3>3, <3>4, <1>2, <1>4
  <2> QED BY <2>1, <2>2, <2>3, <2>4
<1>11. ASSUME NEW n \in L, NEW q \in Sides, u[n][q] # Null
       PROVE  u[n][Other(q)] # u[n][q]
  <2>0. /\ \A r \in Sides : t[n][r] # Null => t[n][r] \in L /\ t[t[n][r]].up = n /\ t[n][Other(r)] # t[n][r]
        /\ Other(q) \in Sides /\ Other(q) # q /\ Other(Other(q)) = q
    BY SideFacts DEF Shape
  <2>1. CASE n = x
    BY <2>0, <2>1, <1>11, <1>1, <1>2, <1>3, <1>6
  <2>2. CASE n = y
    BY <2>0, <2>2, <1>11, <1>1, <1>2, <1>3, <1>6
  <2>3. CASE n # x /\ n # y /\ n = p
    BY <2>0, <2>3, <1>11, <1>1, <1>2, <1>3, <1>6
  <2>4. CASE n # x /\ n # y /\ n # p
    BY <2>0, <2>4, <1>11, <1>2, <1>6
  <2> QED BY <2>1, <2>2, <2>3, <2>4
<1>12. ASSUME NEW n \in L, n # root(u)
       PROVE  u[n].up \in L /\ \E q \in Sides : u[u[n].up][q] = n
  <2>1. CASE n = x
    BY <2>1, <1>2, <1>3, <1>4, <1>6
  <2>2. CASE n = y
    BY <2>2, <1>12, <1>2, <1>3, <1>4, <1>6, <1>7, <1>8
  <2>3. CASE n = c
    BY <2>3, <1>1, <1>2, <1>3, <1>4, <1>6
  <2>4. CASE n # x /\ n # y /\ n # c
    <3>1. n # root(t)
      BY <2>4, <1>12, <1>3, <1>7, <1>8 DEF Shape
    <3>2. u[n].up = t[n].up /\ t[n].up \in L
      BY <2>4, <3>1, <1>2, <1>4 DEF Shape
    <3>3. PICK q \in Sides : t[t[n].up][q] = n
      BY <3>1 DEF Shape
    <3>4. u[t[n].up][q] = n
      BY <2>4, <3>2, <3>3, <1>0, <1>2, <1>3, <1>6, <1>7
    <3> QED BY <3>2, <3>4
  <2> QED BY <2>1, <2>2, <2>3, <2>4
<1> QED BY <1>0, <1>2, <1>4, <1>9, <1>10, <1>11, <1>12 DEF Shape

(* What a rotation is to the nodes around it: y stands where x stood. *)
Turned(t, u, L, x, y, s, c) ==
  /\ u[x][s] = t[x][s] /\ u[x][Other(s)] = c
  /\ u[y][s] = x /\ u[y][Other(s)] = t[y][Other(s)]
  /\ \A n \in L, q \in Sides :
       n # x /\ n # y => t[n][q] # y /\ u[n][q] = IF t[n][q] = x THEN y ELSE t[n][q]
  /\ u[x].up = y /\ u[y].up = t[x].up
  /\ c # Null => c \in L /\ c # x /\ c # y /\ u[c].up = x /\ t[c].up = y
  /\ \A n \in L : n # x /\ n # y /\ n # c => u[n].up = t[n].up
  /\ root(u) = IF root(t) = x THEN y ELSE root(t)
  /\ \A q \in Sides : u[Header][q] = t[Header][q]
  /\ \A n \in Keys : n \notin L => u[n].up = t[n].up

LEMMA RotateSeen ==
  ASSUME NEW t, NEW L, Shape(t, L), NEW x \in L, NEW s \in Sides, NEW y \in L,
         y = t[x][Other(s)], x # y, t[x].up # x, t[x].up # y
  PROVE  /\ Turned(t, Rotate(t, x, s), L, x, y, s, t[y][s])
         /\ \A n \in Node : Rotate(t, x, s)[n].red = t[n].red
<1>0. PICK u, c, p, o, pq : /\ u = Rotate(t, x, s) /\ c = t[y][s] /\ p = t[x].up /\ o = Other(s)
                            /\ pq = Side(t, x, p)
  OBVIOUS
<1>1. Rotated(t, u, x, y, s, c, p) /\ c # x /\ c # y /\ c # Header
  BY <1>0, RotateWrites
<1>2. /\ L \subseteq Node /\ Header \in Node /\ Header \notin L /\ Null \notin L /\ Header # Null
      /\ L \subseteq Keys /\ o \in Sides /\ o # s /\ s = Other(o) /\ p \in Node /\ Keys \subseteq Node
      /\ t \in Trees
  BY <1>0, ShapeFacts, SideFacts, ParentFacts DEF Node
<1>3. /\ t[y].up = x /\ t[x][o] = y /\ x # y /\ p # x /\ p # y
      /\ c # Null => c \in L /\ t[c].up = y
  BY <1>0, <1>2 DEF Shape
<1>4. /\ \A n \in Node : u[n].up = IF n = x THEN y
                                   ELSE IF n = y THEN p
                                   ELSE IF n = c THEN x
                                   ELSE IF n = Header /\ root(t) = x THEN y
                                   ELSE t[n].up
      /\ \A n \in Node : u[n].red = t[n].red
      /\ u \in Trees
  BY <1>1 DEF Rotated
<1>6. \A n \in Node, q \in Sides :
        u[n][q] = IF n = x /\ q = o THEN c
                  ELSE IF n = y /\ q = s THEN x
                  ELSE IF root(t) # x /\ n = p /\ q = pq THEN y
                  ELSE t[n][q]
  BY <1>0, <1>1 DEF Rotated
<1>7. /\ root(t) = x => p = Header
      /\ root(t) # x => p \in L /\ pq \in Sides /\ t[p][pq] = x
  BY <1>0, ParentFacts
<1>8. root(u) = IF root(t) = x THEN y ELSE root(t)
  BY <1>1, <1>2, <1>4 DEF root
<1>9. ASSUME NEW n \in L, NEW q \in Sides, n # x, n # y
      PROVE  t[n][q] # y /\ u[n][q] = IF t[n][q] = x THEN y ELSE t[n][q]
  <2>1. t[n][q] # y
    BY <1>3, <1>9, ParentFacts
  <2>2. t[n][q] = x => root(t) # x /\ n = p /\ q = pq
    BY <1>0, ParentFacts
  <2> QED BY <2>1, <2>2, <1>2, <1>6, <1>7, <1>9
<1>10. /\ u[x][s] = t[x][s] /\ u[x][o] = c
       /\ u[y][s] = x /\ u[y][o] = t[y][o]
  BY <1>2, <1>3, <1>6
<1>11. /\ u[x].up = y /\ u[y].up = p
       /\ c # Null => c \in L /\ c # x /\ c # y /\ u[c].up = x /\ t[c].up = y
       /\ \A n \in L : n # x /\ n # y /\ n # c => u[n].up = t[n].up
  BY <1>1, <1>2, <1>3, <1>4
<1>12. ASSUME NEW n \in Keys, n \notin L PROVE u[n].up = t[n].up
  <2>1. n \in Node /\ n # x /\ n # y /\ n # Header /\ n # p /\ n # c /\ n # Null
    BY <1>12, <1>2, <1>3, <1>7, RbAssumption
  <2> QED BY <2>1, <1>4
<1>13. ASSUME NEW q \in Sides PROVE u[Header][q] = t[Header][q]
  BY <1>2, <1>6, <1>7
<1> QED BY <1>0, <1>4, <1>8, <1>9, <1>10, <1>11, <1>12, <1>13 DEF Turned

(***************************************************************************)
(* Painting keeps the shape.                                               *)
(***************************************************************************)
SamePointers(t, u) ==
  /\ u \in Trees
  /\ \A n \in Node : u[n].up = t[n].up
  /\ \A n \in Node, q \in Sides : u[n][q] = t[n][q]

LEMMA PaintsSame ==
  ASSUME NEW t, NEW u, NEW x, NEW r, Paints(t, u, x, r)
  PROVE  SamePointers(t, u)
BY DEF Paints, SamePointers

LEMMA SameTrans ==
  ASSUME NEW t, NEW u, NEW w, SamePointers(t, u), SamePointers(u, w)
  PROVE  SamePointers(t, w)
BY DEF SamePointers

LEMMA SameShape ==
  ASSUME NEW t, NEW L, NEW u, Shape(t, L), SamePointers(t, u), u[Header].red
  PROVE  Shape(u, L) /\ root(u) = root(t) /\ \A n \in L, p \in L : Side(u, n, p) = Side(t, n, p)
<1>0. L \subseteq Node /\ Header \in Node
  BY ShapeFacts
<1>1. root(u) = root(t)
  BY <1>0 DEF SamePointers, root
<1>2. root(t) # Null => root(t) \in Node
  BY <1>0 DEF Shape
<1>3. \A n \in L, s \in Sides :
       u[n][s] # Null => u[n][s] \in L /\ u[u[n][s]].up = n /\ u[n][Other(s)] # u[n][s]
  BY <1>0, SideFacts DEF SamePointers, Shape
<1>4. \A n \in L : n # root(u) => u[n].up \in L /\ \E s \in Sides : u[u[n].up][s] = n
  BY <1>0, <1>1 DEF SamePointers, Shape
<1>5. \A n \in L, p \in L : Side(u, n, p) = Side(t, n, p)
  <2>1. ASSUME NEW p \in L PROVE u[p]["left"] = t[p]["left"]
    BY <1>0 DEF SamePointers, Sides
  <2> QED BY <2>1 DEF Side
<1> QED BY <1>0, <1>1, <1>2, <1>3, <1>4, <1>5 DEF SamePointers, Shape

(***************************************************************************)
(* Black heights.  H gives every node the number of black nodes from it down *)
(* to a missing child.  Where a black node is missing, at the child of dn on *)
(* side ds, the parent counts one more; with dn the header none is missing.  *)
(* No red node is below a red one, but perhaps v or a child of w.            *)
(***************************************************************************)
Gap(dn, ds, n, q) == IF n = dn /\ q = ds THEN 1 ELSE 0
Weight(t, n) == IF t[n].red THEN 0 ELSE 1
Level(t, H, dn, ds, n) ==
  \A q \in Sides : H[n] = H[t[n][q]] + Gap(dn, ds, n, q) + Weight(t, n)

Bounded(L, H) == \E b \in Nat : \A n \in L : H[n] <= b

Heights(t, L, H, dn, ds) ==
  /\ H \in [Ptr -> Nat] /\ H[Null] = 0 /\ Bounded(L, H)
  /\ \A n \in L : Level(t, H, dn, ds, n)

Colors(t, L, v, w) ==
  \A n \in L : n # v /\ t[n].up # w /\ t[n].red => ~ t[t[n].up].red

LEMMA GapNat ==
  ASSUME NEW dn, NEW ds, NEW t, NEW n
  PROVE  Gap(dn, ds, n, "left") \in 0..1 /\ Gap(dn, ds, n, "right") \in 0..1 /\ Weight(t, n) \in 0..1
BY DEF Gap, Weight

(* Neither a node nor two of them are above themselves. *)
NoLoop(t, L) == \A n \in L : t[n].up # n /\ (t[n].up \in L => t[t[n].up].up # n)

LEMMA NoLoops ==
  ASSUME NEW t, NEW L, NEW H, NEW dn, NEW ds, NEW v, NEW w,
         Shape(t, L), Heights(t, L, H, dn, ds), Colors(t, L, v, w),
         \/ w = Null /\ (v \in L => t[v].up # v)
         \/ v = w /\ (v \in L => ~ t[v].red)
  PROVE  NoLoop(t, L)
<1>0. L \subseteq Node /\ L \subseteq Ptr /\ Header \notin L /\ Null \notin L
  BY ShapeFacts
<1>1. ASSUME NEW n \in L, t[n].up \in L
      PROVE  /\ H[t[n].up] \in Nat /\ H[n] \in Nat /\ H[n] <= H[t[n].up]
             /\ H[n] = H[t[n].up] => t[t[n].up].red
  <2>1. n # root(t)
    BY <1>0, <1>1, ParentFacts
  <2>2. PICK p, q : p = t[n].up /\ q = Side(t, n, t[n].up)
    OBVIOUS
  <2>3. q \in Sides /\ t[p][q] = n /\ p \in L
    BY <2>1, <2>2, ParentFacts
  <2>4. H[p] = H[n] + Gap(dn, ds, p, q) + Weight(t, p)
    BY <2>3 DEF Heights, Level
  <2>5. H[p] \in Nat /\ H[n] \in Nat
    BY <2>3, <1>0 DEF Heights
  <2> QED BY <2>2, <2>4, <2>5 DEF Gap, Weight
<1>2. ASSUME NEW n \in L PROVE t[n].up # n
  <2>1. SUFFICES ASSUME t[n].up = n PROVE FALSE
    OBVIOUS
  <2>2. t[n].red
    BY <1>1, <2>1
  <2> QED BY <1>0, <2>1, <2>2 DEF Colors
<1>3. ASSUME NEW n \in L, t[n].up \in L PROVE t[t[n].up].up # n
  <2>1. SUFFICES ASSUME t[t[n].up].up = n PROVE FALSE
    OBVIOUS
  <2>2. PICK p \in L : p = t[n].up
    BY <1>3
  <2>3. t[p].red /\ t[n].red
    BY <1>1, <2>1, <2>2
  <2> QED BY <1>0, <1>2, <2>1, <2>2, <2>3 DEF Colors
<1> QED BY <1>2, <1>3 DEF NoLoop

(* G is H with new values at x, y and z.                                     *)
Put(H, G, x, a, y, b, z, c) ==
  /\ G \in [Ptr -> Nat] /\ G[x] = a /\ G[y] = b /\ G[z] = c
  /\ \A n \in Ptr : n # x /\ n # y /\ n # z => G[n] = H[n]

LEMMA HeightPut ==
  ASSUME NEW H \in [Ptr -> Nat], NEW x \in Ptr, NEW y \in Ptr, NEW z \in Ptr,
         NEW a \in Nat, NEW b \in Nat, NEW c \in Nat, x # y, z = x => c = a, z = y => c = b
  PROVE  \E G : Put(H, G, x, a, y, b, z, c)
<1> DEFINE G == [n \in Ptr |-> IF n = x THEN a ELSE IF n = y THEN b ELSE IF n = z THEN c ELSE H[n]]
<1>1. Put(H, G, x, a, y, b, z, c)
  BY DEF Put
<1> QED BY <1>1

LEMMA BoundedPut ==
  ASSUME NEW L, L \subseteq Ptr, NEW H \in [Ptr -> Nat], Bounded(L, H), NEW G,
         NEW x \in Ptr, NEW y \in Ptr, NEW z \in Ptr, NEW a, NEW b, NEW c, Put(H, G, x, a, y, b, z, c)
  PROVE  Bounded(L, G)
<1>1. PICK m \in Nat : \A n \in L : H[n] <= m
  BY DEF Bounded
<1>2. G[x] \in Nat /\ G[y] \in Nat /\ G[z] \in Nat
  BY DEF Put
<1>3. PICK d : d = m + G[x] + G[y] + G[z]
  OBVIOUS
<1>4. ASSUME NEW n \in L PROVE G[n] <= d
  <2>1. H[n] \in Nat /\ H[n] <= m
    BY <1>1
  <2>2. G[n] \in {H[n], G[x], G[y], G[z]}
    BY DEF Put
  <2> QED BY <1>2, <1>3, <2>1, <2>2
<1>5. d \in Nat
  BY <1>2, <1>3
<1> QED BY <1>4, <1>5 DEF Bounded

(* Where a child of n is, seen from n. *)
LEMMA ChildFacts ==
  ASSUME NEW t, NEW L, Shape(t, L), NEW n \in L, NEW q \in Sides
  PROVE  /\ t[n][q] \in Ptr
         /\ t[n][q] # Null => t[n][q] \in L /\ t[t[n][q]].up = n /\ t[n][Other(q)] # t[n][q]
BY ShapeFacts DEF Shape

LEMMA NoGap ==
  ASSUME NEW n, n # Header, NEW q
  PROVE  Gap(Header, "left", n, q) = 0
BY DEF Gap

(***************************************************************************)
(* A rotation at x toward s that brings y up, and painting before it.      *)
(***************************************************************************)
Hinge(t, L, x, s, y) ==
  /\ x \in L /\ s \in Sides /\ y \in L
  /\ y = t[x][Other(s)] /\ x # y /\ t[x].up # x /\ t[x].up # y

LEMMA HingeFacts ==
  ASSUME NEW t, NEW L, Shape(t, L), NEW x, NEW s, NEW y, Hinge(t, L, x, s, y)
  PROVE  /\ x \in L /\ y \in L /\ x # y /\ s \in Sides /\ Other(s) \in Sides /\ Other(s) # s
         /\ x \in Ptr /\ y \in Ptr /\ x \in Node /\ y \in Node /\ x # Header /\ y # Header
         /\ x # Null /\ y # Null /\ x \in Keys /\ y \in Keys
         /\ t[x][Other(s)] = y /\ t[y].up = x /\ t[x][s] # y /\ t[x][s] # x
         /\ t[y][s] # x /\ t[y][s] # y /\ t[y][Other(s)] # x /\ t[y][Other(s)] # y
         /\ t[x][s] \in Ptr /\ t[y][s] \in Ptr /\ t[y][Other(s)] \in Ptr
         /\ t[x].up # x /\ t[x].up # y
<1>1. /\ x \in L /\ y \in L /\ x # y /\ s \in Sides /\ t[x][Other(s)] = y
      /\ t[x].up # x /\ t[x].up # y
  BY DEF Hinge
<1>2. Other(s) \in Sides /\ Other(s) # s /\ Other(Other(s)) = s
  BY <1>1, SideFacts
<1>3. /\ x \in Ptr /\ y \in Ptr /\ x \in Node /\ y \in Node /\ x # Header /\ y # Header
      /\ x # Null /\ y # Null /\ x \in Keys /\ y \in Keys
  BY <1>1, ShapeFacts
<1>4. t[y].up = x /\ t[x][s] # y
  BY <1>1, <1>2, <1>3, ChildFacts
<1>5. t[x][s] # x /\ t[x][s] \in Ptr
  BY <1>1, <1>3, ChildFacts
<1>6. t[y][s] # x /\ t[y][s] # y /\ t[y][s] \in Ptr
  BY <1>1, <1>3, <1>4, ChildFacts
<1>7. t[y][Other(s)] # x /\ t[y][Other(s)] # y /\ t[y][Other(s)] \in Ptr
  BY <1>1, <1>2, <1>3, <1>4, ChildFacts
<1> QED BY <1>1, <1>2, <1>3, <1>4, <1>5, <1>6, <1>7

LEMMA NoLoopHinge ==
  ASSUME NEW t, NEW L, Shape(t, L), NoLoop(t, L), NEW x \in L, NEW s \in Sides, t[x][Other(s)] # Null
  PROVE  Hinge(t, L, x, s, t[x][Other(s)])
<1>1. Other(s) \in Sides
  BY SideFacts
<1>2. PICK y : y = t[x][Other(s)]
  OBVIOUS
<1>3. y \in L /\ t[y].up = x
  BY <1>1, <1>2, ChildFacts
<1>4. x # y /\ t[x].up # x /\ t[x].up # y
  BY <1>3 DEF NoLoop
<1>5. Hinge(t, L, x, s, y)
  BY <1>2, <1>3, <1>4 DEF Hinge
<1> QED BY <1>2, <1>5

LEMMA SameHinge ==
  ASSUME NEW t, NEW L, Shape(t, L), NEW x, NEW s, NEW y, Hinge(t, L, x, s, y),
         NEW u, SamePointers(t, u)
  PROVE  Hinge(u, L, x, s, y)
<1>1. x \in Node /\ Other(s) \in Sides
  BY HingeFacts
<1>2. u[x].up = t[x].up /\ u[x][Other(s)] = t[x][Other(s)]
  BY <1>1 DEF SamePointers
<1> QED BY <1>2 DEF Hinge

LEMMA SameTurned ==
  ASSUME NEW t, NEW L, Shape(t, L), NEW x, NEW s, NEW y, Hinge(t, L, x, s, y),
         NEW u, SamePointers(t, u), NEW v, NEW c, Turned(u, v, L, x, y, s, c)
  PROVE  Turned(t, v, L, x, y, s, c)
<1>1. x \in Node /\ y \in Node /\ s \in Sides /\ Other(s) \in Sides /\ L \subseteq Node
  BY HingeFacts, ShapeFacts
<1>2. /\ \A n \in Node : u[n].up = t[n].up
      /\ \A n \in Node, q \in Sides : u[n][q] = t[n][q]
  BY DEF SamePointers
<1>3. Header \in Node /\ Keys \subseteq Node
  BY DEF Node
<1>4. root(u) = root(t)
  BY <1>2, <1>3 DEF root
<1>5. /\ v[x][s] = t[x][s] /\ v[x][Other(s)] = c
      /\ v[y][s] = x /\ v[y][Other(s)] = t[y][Other(s)]
  BY <1>1, <1>2 DEF Turned
<1>6. \A n \in L, q \in Sides :
        n # x /\ n # y => t[n][q] # y /\ v[n][q] = IF t[n][q] = x THEN y ELSE t[n][q]
  BY <1>1, <1>2 DEF Turned
<1>7. v[x].up = y /\ v[y].up = t[x].up
  BY <1>1, <1>2 DEF Turned
<1>8. c # Null => c \in L /\ c # x /\ c # y /\ v[c].up = x /\ t[c].up = y
  BY <1>1, <1>2 DEF Turned
<1>9. \A n \in L : n # x /\ n # y /\ n # c => v[n].up = t[n].up
  BY <1>1, <1>2 DEF Turned
<1>10. root(v) = IF root(t) = x THEN y ELSE root(t)
  BY <1>4 DEF Turned
<1>11. /\ \A q \in Sides : v[Header][q] = t[Header][q]
       /\ \A n \in Keys : n \notin L => v[n].up = t[n].up
  BY <1>2, <1>3 DEF Turned
<1> QED BY <1>5, <1>6, <1>7, <1>8, <1>9, <1>10, <1>11 DEF Turned

(* Painting some nodes and rotating, as one step on the pointers. *)
LEMMA RotateAfter ==
  ASSUME NEW t, NEW L, Shape(t, L), NEW x, NEW s, NEW y, Hinge(t, L, x, s, y),
         NEW u, SamePointers(t, u), u[Header].red
  PROVE  /\ Shape(Rotate(u, x, s), L)
         /\ Turned(t, Rotate(u, x, s), L, x, y, s, t[y][s])
         /\ \A n \in Node : Rotate(u, x, s)[n].red = u[n].red
<1>1. Shape(u, L) /\ Hinge(u, L, x, s, y)
  BY SameShape, SameHinge
<1>2. /\ x \in L /\ y \in L /\ s \in Sides
      /\ y = u[x][Other(s)] /\ x # y /\ u[x].up # x /\ u[x].up # y
  BY <1>1 DEF Hinge
<1>3. /\ Turned(u, Rotate(u, x, s), L, x, y, s, u[y][s])
      /\ \A n \in Node : Rotate(u, x, s)[n].red = u[n].red
  BY <1>1, <1>2, RotateSeen
<1>4. Shape(Rotate(u, x, s), L)
  BY <1>1, <1>2, RotateShape
<1>5. u[y][s] = t[y][s]
  BY HingeFacts DEF SamePointers
<1>6. Turned(t, Rotate(u, x, s), L, x, y, s, u[y][s])
  BY <1>3, SameTurned
<1> QED BY <1>3, <1>4, <1>5, <1>6

(* The nodes that take no part in the rotation see the same heights below. *)
LEMMA ElsewhereHeights ==
  ASSUME NEW t, NEW L, Shape(t, L), NEW x, NEW s, NEW y, Hinge(t, L, x, s, y),
         NEW u, NEW c, Turned(t, u, L, x, y, s, c),
         NEW H, NEW G, NEW f, f = y \/ (f = t[y][Other(s)] /\ f # Null),
         G[y] = H[x], \A n \in Ptr : n # x /\ n # y /\ n # f => G[n] = H[n],
         NEW n \in L, NEW q \in Sides, n # x, n # y
  PROVE  G[u[n][q]] = H[t[n][q]]
<1>1. t[n][q] # y /\ u[n][q] = IF t[n][q] = x THEN y ELSE t[n][q]
  BY DEF Turned
<1>2. t[n][q] \in Ptr
  BY ChildFacts
<1>3. CASE t[n][q] = x
  BY <1>1, <1>3
<1>4. CASE t[n][q] # x
  <2>1. t[n][q] # f
    <3>1. CASE f = y
      BY <3>1, <1>1
    <3>2. CASE f = t[y][Other(s)] /\ f # Null
      <4>1. y \in L /\ Other(s) \in Sides
        BY HingeFacts
      <4>2. f \in L /\ t[f].up = y
        BY <3>2, <4>1, ChildFacts
      <4>3. t[n][q] # Null => t[t[n][q]].up = n
        BY ChildFacts
      <4> QED BY <3>2, <4>2, <4>3
    <3> QED BY <3>1, <3>2
  <2> QED BY <1>1, <1>2, <1>4, <2>1
<1> QED BY <1>3, <1>4

(***************************************************************************)
(* Order.  K gives every node the nearest nodes above it that the search    *)
(* leaves on the right and on the left, the header standing for none; the    *)
(* header points to the nodes that have none.                              *)
(***************************************************************************)
Before(s, a, b) == IF s = "left" THEN a < b ELSE b < a

(* A child keeps the bound on its own side and has its parent as the other   *)
(* one.                                                                      *)
Bounds(t, L, K) ==
  /\ K \in [L -> [Sides -> L \cup {Header}]]
  /\ root(t) # Null => \A s \in Sides : K[root(t)][s] = Header
  /\ \A n \in L, s \in Sides :
       t[n][s] # Null => K[t[n][s]][s] = K[n][s] /\ K[t[n][s]][Other(s)] = n
  /\ \A n \in L, s \in Sides : K[n][s] # Header => Before(s, K[n][s], n)

(* The header's left and right are the nodes with no bound on that side.     *)
Edges(t, L, K) ==
  \A s \in Sides :
    IF root(t) = Null THEN t[Header][s] = Header
    ELSE t[Header][s] \in L /\ t[t[Header][s]][s] = Null /\ K[t[Header][s]][s] = Header

Sorted(t, L) == \E K : Bounds(t, L, K) /\ Edges(t, L, K)

(* What the rebalancing leaves alone. *)
Keeps(t, u, L) ==
  /\ \A n \in Keys : n \notin L => u[n].up = t[n].up
  /\ Sorted(t, L) => Sorted(u, L)

LEMMA KeepsTrans ==
  ASSUME NEW t, NEW u, NEW v, NEW L, Keeps(t, u, L), Keeps(u, v, L)
  PROVE  Keeps(t, v, L)
BY DEF Keeps

LEMMA SameKeeps ==
  ASSUME NEW t, NEW L, Shape(t, L), NEW u, SamePointers(t, u)
  PROVE  Keeps(t, u, L)
<1>1. L \subseteq Node /\ Header \in Node /\ Keys \subseteq Node
  BY ShapeFacts DEF Node
<1>2. root(u) = root(t)
  BY <1>1 DEF SamePointers, root
<1>3. ASSUME NEW K, Bounds(t, L, K) PROVE Bounds(u, L, K)
  <2>1. \A n \in L, s \in Sides :
          u[n][s] # Null => K[u[n][s]][s] = K[n][s] /\ K[u[n][s]][Other(s)] = n
    BY <1>1, <1>3 DEF Bounds, SamePointers
  <2> QED BY <2>1, <1>2, <1>3 DEF Bounds
<1>4. ASSUME NEW K, Edges(t, L, K) PROVE Edges(u, L, K)
  <2>1. \A s \in Sides : u[Header][s] = t[Header][s]
    BY <1>1 DEF SamePointers
  <2>2. \A n \in L, s \in Sides : u[n][s] = t[n][s]
    BY <1>1 DEF SamePointers
  <2> QED BY <2>1, <2>2, <1>2, <1>4 DEF Edges
<1>5. Sorted(t, L) => Sorted(u, L)
  BY <1>3, <1>4 DEF Sorted
<1>6. \A n \in Keys : u[n].up = t[n].up
  BY <1>1 DEF SamePointers
<1> QED BY <1>5, <1>6 DEF Keeps

LEMMA TurnedKeeps ==
  ASSUME NEW t, NEW L, Shape(t, L), NEW x, NEW s, NEW y, Hinge(t, L, x, s, y),
         NEW u, Turned(t, u, L, x, y, s, t[y][s])
  PROVE  Keeps(t, u, L)
<1> DEFINE o == Other(s)
           c == t[y][s]
<1>1. /\ x \in L /\ y \in L /\ x # y /\ s \in Sides /\ o \in Sides /\ o # s /\ Other(o) = s
      /\ x # Null /\ y # Null /\ x \in Keys /\ y \in Keys /\ x # Header /\ y # Header
      /\ t[x][o] = y /\ t[x][s] # y /\ t[x][s] # x /\ c # x /\ c # y /\ t[y][o] # x /\ t[y][o] # y
      /\ \A q \in Sides : q # s => q = o
  BY HingeFacts, SideFacts
<1>2. /\ u[x][s] = t[x][s] /\ u[x][o] = c
      /\ u[y][s] = x /\ u[y][o] = t[y][o]
      /\ \A n \in L, q \in Sides :
           n # x /\ n # y => t[n][q] # y /\ u[n][q] = IF t[n][q] = x THEN y ELSE t[n][q]
      /\ root(u) = IF root(t) = x THEN y ELSE root(t)
      /\ \A q \in Sides : u[Header][q] = t[Header][q]
      /\ \A n \in Keys : n \notin L => u[n].up = t[n].up
  BY DEF Turned
<1>3. /\ L \subseteq Keys /\ Header \notin L /\ Null \notin L /\ root(t) \in L \cup {Null}
      /\ t[y].up = x /\ (root(t) # Null => t[root(t)].up = Header)
  BY ShapeFacts, HingeFacts DEF Shape
<1>4. ASSUME NEW K, Bounds(t, L, K), Edges(t, L, K)
      PROVE  \E J : Bounds(u, L, J) /\ Edges(u, L, J)
  <2>1. /\ K \in [L -> [Sides -> L \cup {Header}]]
        /\ root(t) # Null => \A q \in Sides : K[root(t)][q] = Header
        /\ \A n \in L, q \in Sides :
             t[n][q] # Null => K[t[n][q]][q] = K[n][q] /\ K[t[n][q]][Other(q)] = n
        /\ \A n \in L, q \in Sides : K[n][q] # Header => Before(q, K[n][q], n)
    BY <1>4 DEF Bounds
  <2>2. K[y][o] = K[x][o] /\ K[y][s] = x
    BY <1>1, <2>1
  <2>3. c # Null => c \in L /\ K[c][s] = x /\ K[c][o] = y
    <3>1. c # Null => c \in L
      BY <1>1, ChildFacts
    <3> QED BY <3>1, <1>1, <2>1, <2>2
  <2>4. Before(o, y, x)
    <3>1. Before(s, x, y)
      BY <1>1, <2>1, <2>2
    <3> QED BY <3>1, <1>1 DEF Before, Sides
  <2> DEFINE J == [n \in L |-> [q \in Sides |->
                     IF n = y THEN K[x][q] ELSE IF n = x /\ q = o THEN y ELSE K[n][q]]]
  <2>5. J \in [L -> [Sides -> L \cup {Header}]]
    BY <1>1, <2>1
  <2>6. \A n \in L, q \in Sides :
          J[n][q] = IF n = y THEN K[x][q] ELSE IF n = x /\ q = o THEN y ELSE K[n][q]
    OBVIOUS
  <2> HIDE DEF J
  <2>7. root(u) # Null => \A q \in Sides : J[root(u)][q] = Header
    <3>1. root(t) # y
      BY <1>1, <1>3
    <3> QED BY <3>1, <1>1, <1>2, <1>3, <2>1, <2>6
  <2>8. ASSUME NEW n \in L, NEW q \in Sides, u[n][q] # Null
        PROVE  J[u[n][q]][q] = J[n][q] /\ J[u[n][q]][Other(q)] = n
    <3>0. Other(q) \in Sides /\ (q = s => Other(q) = o) /\ (q = o => Other(q) = s) /\ Other(q) # q
      BY <1>1, SideFacts
    <3>1. CASE n = x /\ q = s
      <4>1. u[n][q] = t[x][s] /\ t[x][s] \in L
        BY <3>1, <2>8, <1>1, <1>2, ChildFacts
      <4>2. K[t[x][s]][s] = K[x][s] /\ K[t[x][s]][o] = x
        BY <4>1, <1>1, <1>3, <2>1
      <4> QED BY <4>1, <4>2, <3>1, <1>1, <2>6
    <3>2. CASE n = x /\ q = o
      BY <3>2, <2>8, <1>1, <1>2, <2>3, <2>6
    <3>3. CASE n = y /\ q = s
      BY <3>3, <1>1, <1>2, <2>6
    <3>4. CASE n = y /\ q = o
      <4>1. u[n][q] = t[y][o] /\ t[y][o] \in L
        BY <3>4, <2>8, <1>1, <1>2, ChildFacts
      <4>2. K[t[y][o]][o] = K[y][o] /\ K[t[y][o]][s] = y
        BY <4>1, <1>1, <1>3, <2>1
      <4> QED BY <4>1, <4>2, <3>4, <1>1, <2>2, <2>6
    <3>5. CASE n # x /\ n # y
      <4>0. t[n][q] # y /\ u[n][q] = IF t[n][q] = x THEN y ELSE t[n][q]
        BY <3>5, <1>2
      <4>1. t[n][q] # Null /\ t[n][q] \in L
        BY <4>0, <2>8, <1>1, ChildFacts
      <4>2. K[t[n][q]][q] = K[n][q] /\ K[t[n][q]][Other(q)] = n
        BY <4>1, <2>1
      <4>3. J[n][q] = K[n][q]
        BY <3>5, <2>6
      <4>4. CASE t[n][q] = x
        BY <4>4, <4>0, <4>2, <4>3, <3>0, <1>1, <2>6
      <4>5. CASE t[n][q] # x
        BY <4>5, <4>0, <4>1, <4>2, <4>3, <3>0, <2>6
      <4> QED BY <4>4, <4>5
    <3> QED BY <3>1, <3>2, <3>3, <3>4, <3>5, <1>1
  <2>9. ASSUME NEW n \in L, NEW q \in Sides, J[n][q] # Header
        PROVE  Before(q, J[n][q], n)
    <3>1. CASE n = y /\ q = o
      BY <3>1, <2>9, <1>1, <2>1, <2>2, <2>6
    <3>2. CASE n = y /\ q = s
      <4>1. J[n][q] = K[x][s] /\ K[x][s] \in L /\ Before(s, K[x][s], x) /\ Before(s, x, y)
        BY <3>2, <2>9, <1>1, <2>1, <2>2, <2>6
      <4>2. K[x][s] \in Int /\ x \in Int /\ y \in Int
        BY <4>1, <1>1, <1>3, RbAssumption
      <4>3. Before(s, K[x][s], y)
        BY <4>1, <4>2 DEF Before
      <4> QED BY <4>1, <4>3, <3>2
    <3>3. CASE n = x /\ q = o
      BY <3>3, <1>1, <2>4, <2>6
    <3>4. CASE n # y /\ ~ (n = x /\ q = o)
      BY <3>4, <2>9, <2>1, <2>6
    <3> QED BY <3>1, <3>2, <3>3, <3>4, <1>1
  <2>10. Bounds(u, L, J)
    BY <2>5, <2>7, <2>8, <2>9 DEF Bounds
  <2>11. ASSUME NEW q \in Sides
         PROVE  IF root(u) = Null THEN u[Header][q] = Header
                ELSE u[Header][q] \in L /\ u[u[Header][q]][q] = Null /\ J[u[Header][q]][q] = Header
    <3>1. root(t) # Null
      BY <1>1 DEF Shape
    <3>2. root(u) # Null
      BY <3>1, <1>1, <1>2
    <3>3. PICK e : e = t[Header][q]
      OBVIOUS
    <3>4. e \in L /\ t[e][q] = Null /\ K[e][q] = Header /\ u[Header][q] = e
      BY <3>1, <3>3, <1>2, <1>4 DEF Edges
    <3>5. CASE e = x
      <4>1. q = s
        BY <3>4, <3>5, <1>1
      <4> QED BY <4>1, <3>2, <3>4, <3>5, <1>1, <1>2, <2>6
    <3>6. CASE e = y
      <4>1. q = o
        BY <3>4, <3>6, <1>1, <2>2
      <4> QED BY <4>1, <3>2, <3>4, <3>6, <1>1, <1>2, <2>2, <2>6
    <3>7. CASE e # x /\ e # y
      BY <3>2, <3>4, <3>7, <1>1, <1>2, <2>6
    <3> QED BY <3>5, <3>6, <3>7
  <2>12. Edges(u, L, J)
    BY <2>11 DEF Edges
  <2> QED BY <2>10, <2>12
<1>5. Sorted(t, L) => Sorted(u, L)
  BY <1>4 DEF Sorted
<1> QED BY <1>2, <1>5 DEF Keeps

(***************************************************************************)
(* Lift: the black x goes down and its red child y comes up.               *)
(***************************************************************************)
LiftView(t, u, L, x, s, y) ==
  /\ Shape(u, L) /\ Turned(t, u, L, x, y, s, t[y][s])
  /\ \A n \in Node : u[n].red = IF n = x THEN TRUE ELSE IF n = y THEN FALSE ELSE t[n].red

LEMMA LiftViews ==
  ASSUME NEW t, NEW L, Shape(t, L), NEW x, NEW s, NEW y, Hinge(t, L, x, s, y)
  PROVE  LiftView(t, Lift(t, x, s), L, x, s, y)
<1>1. /\ x \in Node /\ y \in Node /\ t \in Trees /\ t[x][Other(s)] = y /\ x # y
      /\ FALSE \in BOOLEAN /\ TRUE \in BOOLEAN /\ Header \in Node /\ x # Header /\ y # Header
  BY HingeFacts, ShapeFacts
<1>2. PICK a, b, u : a = Paint(t, y, FALSE) /\ b = Paint(a, x, TRUE) /\ u = Rotate(b, x, s)
  OBVIOUS
<1>3. u = Lift(t, x, s)
  BY <1>1, <1>2 DEF Lift
<1>4. Paints(t, a, y, FALSE)
  BY <1>1, <1>2, PaintFields
<1>5. a \in Trees
  BY <1>4 DEF Paints
<1>6. Paints(a, b, x, TRUE)
  BY <1>1, <1>2, <1>5, PaintFields
<1>7. SamePointers(t, b)
  BY <1>4, <1>6, PaintsSame, SameTrans
<1>8. \A n \in Node : b[n].red = IF n = x THEN TRUE ELSE IF n = y THEN FALSE ELSE t[n].red
  <2> TAKE n \in Node
  <2>1. b[n].red = IF n = x THEN TRUE ELSE a[n].red
    BY <1>6 DEF Paints
  <2>2. a[n].red = IF n = y THEN FALSE ELSE t[n].red
    BY <1>4 DEF Paints
  <2> QED BY <2>1, <2>2
<1>9. b[Header].red
  <2>1. t[Header].red
    BY DEF Shape
  <2> QED BY <2>1, <1>1, <1>8
<1>10. Shape(u, L) /\ Turned(t, u, L, x, y, s, t[y][s]) /\ \A n \in Node : u[n].red = b[n].red
  <2>1. /\ Shape(Rotate(b, x, s), L) /\ Turned(t, Rotate(b, x, s), L, x, y, s, t[y][s])
        /\ \A n \in Node : Rotate(b, x, s)[n].red = b[n].red
    BY <1>7, <1>9, RotateAfter
  <2> QED BY <2>1, <1>2
<1>11. LiftView(t, u, L, x, s, y)
  BY <1>8, <1>10 DEF LiftView
<1> QED BY <1>3, <1>11

LEMMA LevelFacts ==
  ASSUME NEW t, NEW L, Shape(t, L), NEW H, NEW dn, NEW ds, Heights(t, L, H, dn, ds), NEW n \in L
  PROVE  /\ H \in [Ptr -> Nat] /\ H[n] \in Nat
         /\ \A q \in Sides : /\ t[n][q] \in Ptr /\ H[t[n][q]] \in Nat
                             /\ H[n] = H[t[n][q]] + Gap(dn, ds, n, q) + Weight(t, n)
<1>1. H \in [Ptr -> Nat] /\ n \in Ptr /\ \A q \in Sides : t[n][q] \in Ptr
  BY ShapeFacts, ChildFacts DEF Heights
<1>2. \A q \in Sides : H[n] = H[t[n][q]] + Gap(dn, ds, n, q) + Weight(t, n)
  BY DEF Heights, Level
<1> QED BY <1>1, <1>2

LEMMA LiftHeights ==
  ASSUME NEW t, NEW L, Shape(t, L), NEW x, NEW s, NEW y, Hinge(t, L, x, s, y),
         NEW H, NEW dn, NEW ds, Heights(t, L, H, dn, ds), ~ t[x].red, t[y].red,
         dn = x => ds = s, dn # y,
         NEW u, LiftView(t, u, L, x, s, y)
  PROVE  \E G : Heights(u, L, G, dn, ds)
<1> DEFINE o == Other(s)
           c == t[y][s]
           gx == Gap(dn, ds, x, s)
<1>1. /\ x \in L /\ y \in L /\ x # y /\ s \in Sides /\ o \in Sides /\ o # s
      /\ x \in Ptr /\ y \in Ptr /\ x \in Node /\ y \in Node /\ x # Null /\ y # Null
      /\ t[x][o] = y /\ t[x][s] # y /\ t[x][s] # x /\ c # x /\ c # y /\ t[y][o] # x /\ t[y][o] # y
      /\ t[x][s] \in Ptr /\ c \in Ptr /\ t[y][o] \in Ptr
      /\ \A q \in Sides : q # s => q = o
  BY HingeFacts, SideFacts
<1>2. /\ Shape(u, L) /\ Turned(t, u, L, x, y, s, c)
      /\ \A n \in Node : u[n].red = IF n = x THEN TRUE ELSE IF n = y THEN FALSE ELSE t[n].red
  BY DEF LiftView
<1>3. /\ H \in [Ptr -> Nat] /\ H[Null] = 0 /\ Bounded(L, H) /\ Null \in Ptr
      /\ L \subseteq Ptr /\ L \subseteq Node /\ Null \notin L
  BY ShapeFacts DEF Heights
<1>4. /\ Weight(t, x) = 1 /\ Weight(t, y) = 0 /\ Weight(u, x) = 0 /\ Weight(u, y) = 1
      /\ \A n \in L : n # x /\ n # y => Weight(u, n) = Weight(t, n)
  BY <1>1, <1>2, <1>3 DEF Weight
<1>5. /\ Gap(dn, ds, x, o) = 0 /\ Gap(dn, ds, y, s) = 0 /\ Gap(dn, ds, y, o) = 0 /\ gx \in Nat
  BY <1>1 DEF Gap
<1>6. /\ H[x] \in Nat /\ H[y] \in Nat /\ H[t[x][s]] \in Nat /\ H[c] \in Nat /\ H[t[y][o]] \in Nat
      /\ H[x] = H[t[x][s]] + gx + 1 /\ H[x] = H[y] + 0 + 1
      /\ H[y] = H[c] + 0 + 0 /\ H[y] = H[t[y][o]] + 0 + 0
  BY <1>1, <1>4, <1>5, LevelFacts
<1>7. PICK G : Put(H, G, x, H[y], y, H[x], y, H[x])
  BY <1>1, <1>3, <1>6, HeightPut
<1>8. Bounded(L, G)
  BY <1>1, <1>3, <1>7, BoundedPut
<1>9. /\ G \in [Ptr -> Nat] /\ G[x] = H[y] /\ G[y] = H[x]
      /\ \A n \in Ptr : n # x /\ n # y => G[n] = H[n]
  BY <1>7 DEF Put
<1>10. /\ G[Null] = 0 /\ G[t[x][s]] = H[t[x][s]] /\ G[c] = H[c] /\ G[t[y][o]] = H[t[y][o]]
  BY <1>1, <1>3, <1>9
<1>11. u[x][s] = t[x][s] /\ u[x][o] = c /\ u[y][s] = x /\ u[y][o] = t[y][o]
  BY <1>2 DEF Turned
<1>12. Level(u, G, dn, ds, x)
  <2>1. G[x] = G[u[x][s]] + Gap(dn, ds, x, s) + Weight(u, x)
    BY <1>4, <1>5, <1>6, <1>9, <1>10, <1>11
  <2>2. G[x] = G[u[x][o]] + Gap(dn, ds, x, o) + Weight(u, x)
    BY <1>4, <1>5, <1>6, <1>9, <1>10, <1>11
  <2> QED BY <2>1, <2>2, <1>1 DEF Level
<1>13. Level(u, G, dn, ds, y)
  <2>1. G[y] = G[u[y][s]] + Gap(dn, ds, y, s) + Weight(u, y)
    BY <1>4, <1>5, <1>6, <1>9, <1>10, <1>11
  <2>2. G[y] = G[u[y][o]] + Gap(dn, ds, y, o) + Weight(u, y)
    BY <1>4, <1>5, <1>6, <1>9, <1>10, <1>11
  <2> QED BY <2>1, <2>2, <1>1 DEF Level
<1>14. ASSUME NEW n \in L, n # x, n # y PROVE Level(u, G, dn, ds, n)
  <2>1. \A q \in Sides : G[u[n][q]] = H[t[n][q]]
    BY <1>2, <1>9, <1>14, ElsewhereHeights
  <2>2. \A q \in Sides : H[n] = H[t[n][q]] + Gap(dn, ds, n, q) + Weight(t, n)
    BY LevelFacts
  <2>3. G[n] = H[n] /\ Weight(u, n) = Weight(t, n)
    BY <1>3, <1>4, <1>9, <1>14
  <2> QED BY <2>1, <2>2, <2>3 DEF Level
<1>15. Heights(u, L, G, dn, ds)
  BY <1>8, <1>9, <1>10, <1>12, <1>13, <1>14 DEF Heights
<1> QED BY <1>15

(* v and v2 are the nodes whose parent may be red. *)
LEMMA LiftColors ==
  ASSUME NEW t, NEW L, Shape(t, L), NEW x, NEW s, NEW y, Hinge(t, L, x, s, y),
         NEW v, NEW w, Colors(t, L, v, w),
         ~ IsRed(t, t[x][s]), ~ IsRed(t, t[y][s]), NEW v2, v2 = v \/ v = t[y][Other(s)],
         NEW u, LiftView(t, u, L, x, s, y)
  PROVE  Colors(u, L, v2, w)
<1> SUFFICES ASSUME NEW n \in L, n # v2, u[n].up # w, u[n].red PROVE ~ u[u[n].up].red
  BY DEF Colors
<1>1. /\ x \in L /\ y \in L /\ x # y /\ s \in Sides /\ Other(s) \in Sides
      /\ x \in Node /\ y \in Node /\ x # Null /\ y # Null /\ t[x][Other(s)] = y
      /\ x # Header /\ y # Header
      /\ \A q \in Sides : q # s => q = Other(s)
  BY HingeFacts, SideFacts
<1>2. /\ Turned(t, u, L, x, y, s, t[y][s])
      /\ \A m \in Node : u[m].red = IF m = x THEN TRUE ELSE IF m = y THEN FALSE ELSE t[m].red
      /\ L \subseteq Node /\ Null \notin L
  BY ShapeFacts DEF LiftView
<1>3. n # y
  BY <1>1, <1>2
<1>4. CASE n = x
  BY <1>1, <1>2, <1>4 DEF Turned
<1>5. CASE n # x
  <2>1. t[n].red
    BY <1>2, <1>3, <1>5
  <2>2. n # t[y][s] /\ n # t[x][s]
    BY <2>1, <1>2 DEF IsRed
  <2>3. u[n].up = t[n].up
    BY <2>2, <1>2, <1>3, <1>5 DEF Turned
  <2>4. CASE t[n].up = x
    <3>1. n # root(t)
      BY <2>4, <1>1, ParentFacts
    <3>2. PICK q \in Sides : t[x][q] = n
      BY <3>1, <2>4, ParentFacts
    <3> QED BY <3>2, <2>2, <1>1, <1>3
  <2>5. CASE t[n].up = y
    BY <2>3, <2>5, <1>1, <1>2
  <2>6. CASE t[n].up # x /\ t[n].up # y
    <3>1. n # v
      <4>1. SUFFICES ASSUME n = v, v # v2 PROVE FALSE
        OBVIOUS
      <4>2. v = t[y][Other(s)] /\ v # Null
        BY <4>1, <1>2
      <4>3. t[n].up = y
        BY <4>1, <4>2, <1>1, ChildFacts
      <4> QED BY <4>3, <2>6
    <3>2. ~ t[t[n].up].red
      BY <3>1, <2>1, <2>3 DEF Colors
    <3>3. t[n].up \in Node
      BY ParentFacts
    <3> QED BY <3>2, <3>3, <2>3, <2>6, <1>2
  <2> QED BY <2>4, <2>5, <2>6
<1> QED BY <1>4, <1>5

(***************************************************************************)
(* The loop of the insertion: x is red, and so may its parent be.          *)
(***************************************************************************)
Fixing(t, L, H, x) ==
  /\ Shape(t, L) /\ Heights(t, L, H, Header, "left") /\ Colors(t, L, x, Null)
  /\ x \in L /\ t[x].red /\ t[x].up # x

LEMMA FixingFacts ==
  ASSUME NEW t, NEW L, NEW H, NEW x, Fixing(t, L, H, x), x # root(t), t[t[x].up].red
  PROVE  /\ NoLoop(t, L)
         /\ t[x].up \in L /\ t[x].up # root(t) /\ t[t[x].up].up \in L
         /\ ~ t[t[t[x].up].up].red
<1>1. NoLoop(t, L)
  BY NoLoops, ShapeFacts DEF Fixing
<1>2. t[x].up \in L /\ t[x].up # x
  BY ParentFacts DEF Fixing
<1>3. t[t[x].up].up \in Node /\ ~ t[t[t[x].up].up].red
  BY <1>2, ParentFacts, ShapeFacts DEF Fixing, Colors
<1>4. t[x].up # root(t)
  BY <1>2, <1>3, ParentFacts DEF Fixing, Shape
<1> QED BY <1>1, <1>2, <1>3, <1>4, ParentFacts DEF Fixing

(* The parent p, the grandparent pp and the uncle y of x. *)
Around(t, x, p, pp, y) ==
  /\ p = t[x].up /\ pp = t[p].up /\ y = t[pp][Other(Side(t, p, pp))]
  /\ t[p].red

LEMMA RecolorKeeps ==
  ASSUME NEW t, NEW L, NEW H, NEW x, Fixing(t, L, H, x), x # root(t),
         NEW p, NEW pp, NEW y, Around(t, x, p, pp, y), IsRed(t, y)
  PROVE  Keeps(t, Recolor(t, p, y, pp), L) /\ \E G : Fixing(Recolor(t, p, y, pp), L, G, pp)
<1> DEFINE u == Recolor(t, p, y, pp)
<1>0. Shape(t, L) /\ Heights(t, L, H, Header, "left") /\ Colors(t, L, x, Null)
  BY DEF Fixing
<1>x. x \in L /\ p = t[x].up /\ pp = t[p].up /\ y = t[pp][Other(Side(t, p, pp))] /\ t[p].red
  BY DEF Fixing, Around
<1>1. /\ NoLoop(t, L) /\ p \in L /\ pp \in L /\ p # root(t) /\ ~ t[pp].red
      /\ L \subseteq Node /\ L \subseteq Ptr /\ t \in Trees /\ Header \in Node /\ Header \notin L
      /\ Null \notin L /\ Null \in Ptr
  BY <1>0, <1>x, FixingFacts, ShapeFacts
<1>2. /\ y \in L /\ t[y].red /\ t[y].up = pp /\ y # p /\ p # pp /\ y # pp /\ y # Null
      /\ \A q \in Sides : t[pp][q] \in {p, y}
  <2>1. /\ Side(t, p, pp) \in Sides /\ t[pp][Side(t, p, pp)] = p
    <3>1. Shape(t, L) /\ p \in L /\ p # root(t) /\ pp = t[p].up
      BY <1>0, <1>1, <1>x
    <3> QED BY <3>1, ParentFacts
  <2>2. /\ Other(Side(t, p, pp)) \in Sides
        /\ \A q \in Sides : q # Side(t, p, pp) => q = Other(Side(t, p, pp))
    BY <2>1, SideFacts
  <2>3. y # Null /\ t[y].red
    BY DEF IsRed
  <2>4. t[pp][Side(t, p, pp)] # Null
    BY <1>1, <2>1
  <2>5. y \in L /\ t[y].up = pp /\ y # p
    <3>1. PICK r, o : r = Side(t, p, pp) /\ o = Other(r)
      OBVIOUS
    <3>2. r \in Sides /\ o \in Sides /\ o = Other(r) /\ t[pp][r] = p /\ t[pp][o] = y /\ p # Null
      BY <1>x, <1>1, <2>1, <2>2, <3>1
    <3>3. t[pp][Other(r)] # t[pp][r]
      BY <1>0, <1>1, <3>2, ChildFacts
    <3>4. y \in L /\ t[y].up = pp
      BY <1>0, <1>1, <2>3, <3>2, ChildFacts
    <3> QED BY <3>2, <3>3, <3>4
  <2>6. p # pp /\ y # pp /\ y # Null
    BY <1>1, <1>x, <2>3, <2>5 DEF NoLoop
  <2>7. \A q \in Sides : t[pp][q] \in {p, y}
    BY <1>x, <2>1, <2>2
  <2> QED BY <2>3, <2>5, <2>6, <2>7
<1>3. /\ SamePointers(t, u)
      /\ \A n \in Node : u[n].red = IF n = pp THEN TRUE ELSE IF n \in {p, y} THEN FALSE ELSE t[n].red
  <2>0. FALSE \in BOOLEAN /\ TRUE \in BOOLEAN /\ p \in Node /\ y \in Node /\ pp \in Node
    BY <1>1, <1>2
  <2>1. PICK a, b : a = Paint(t, p, FALSE) /\ b = Paint(a, y, FALSE) /\ u = Paint(b, pp, TRUE)
    BY DEF Recolor
  <2>2. Paints(t, a, p, FALSE)
    BY <2>0, <2>1, <1>1, PaintFields
  <2>3. a \in Trees
    BY <2>2 DEF Paints
  <2>4. Paints(a, b, y, FALSE)
    BY <2>0, <2>1, <2>3, PaintFields
  <2>5. b \in Trees
    BY <2>4 DEF Paints
  <2>6. Paints(b, u, pp, TRUE)
    BY <2>0, <2>1, <2>5, PaintFields
  <2>7. SamePointers(t, u)
    BY <2>2, <2>4, <2>6, PaintsSame, SameTrans
  <2>8. \A n \in Node : u[n].red = IF n = pp THEN TRUE ELSE IF n \in {p, y} THEN FALSE ELSE t[n].red
    <3> TAKE n \in Node
    <3>1. u[n].red = IF n = pp THEN TRUE ELSE b[n].red
      BY <2>6 DEF Paints
    <3>2. b[n].red = IF n = y THEN FALSE ELSE a[n].red
      BY <2>4 DEF Paints
    <3>3. a[n].red = IF n = p THEN FALSE ELSE t[n].red
      BY <2>2 DEF Paints
    <3> QED BY <3>1, <3>2, <3>3
  <2> QED BY <2>7, <2>8
<1> HIDE DEF u
<1>h. u[Header].red
  <2>1. t[Header].red
    BY <1>0 DEF Shape
  <2> QED BY <2>1, <1>1, <1>2, <1>3
<1>4. Shape(u, L)
  BY <1>0, <1>3, <1>h, SameShape
<1>5. H \in [Ptr -> Nat] /\ H[Null] = 0 /\ p \in Ptr /\ y \in Ptr /\ H[p] \in Nat /\ H[y] \in Nat
  BY <1>0, <1>1, <1>2 DEF Heights
<1>a. PICK a, b : a = H[p] + 1 /\ b = H[y] + 1
  OBVIOUS
<1>b. a \in Nat /\ b \in Nat
  BY <1>a, <1>5
<1>c. p # y
  BY <1>2
<1>d. PICK G : Put(H, G, p, a, y, b, y, b)
  BY <1>5, <1>b, <1>c, HeightPut
<1>e. Bounded(L, G)
  BY <1>0, <1>1, <1>5, <1>d, BoundedPut DEF Heights
<1>G. /\ G \in [Ptr -> Nat] /\ G[p] = a /\ G[y] = b
      /\ \A n \in Ptr : n # p /\ n # y => G[n] = H[n]
  BY <1>d DEF Put
<1>8. Heights(u, L, G, Header, "left")
  <2>1. G[Null] = 0
    BY <1>1, <1>2, <1>5, <1>G
  <2>2. ASSUME NEW n \in L, NEW q \in Sides
        PROVE  G[n] = G[u[n][q]] + Gap(Header, "left", n, q) + Weight(u, n)
    <3>1. PICK c : c = t[n][q]
      OBVIOUS
    <3>2. c \in Ptr /\ (c # Null => c \in L /\ t[c].up = n)
      BY <1>0, <3>1, ChildFacts
    <3>a. u[n][q] = c
      BY <3>1, <1>1, <1>3 DEF SamePointers
    <3>3. H[n] = H[c] + Gap(Header, "left", n, q) + Weight(t, n)
      BY <3>1, <1>0 DEF Heights, Level
    <3>4. H[n] \in Nat /\ H[c] \in Nat /\ n \in Ptr /\ n \in Node
      BY <3>2, <1>1, <1>5
    <3>5. Gap(Header, "left", n, q) = 0
      BY <1>1, NoGap
    <3>6. CASE n = pp
      <4>1. c \in {p, y}
        BY <3>1, <3>6, <1>2
      <4>2. G[c] = H[c] + 1 /\ G[n] = H[n]
        BY <4>1, <3>4, <3>6, <1>2, <1>a, <1>G
      <4>3. Weight(t, n) = 1 /\ Weight(u, n) = 0
        BY <3>6, <1>1, <1>3 DEF Weight
      <4> QED BY <4>2, <4>3, <3>a, <3>3, <3>4, <3>5
    <3>7. CASE n \in {p, y}
      <4>0. t[p].up = pp /\ t[y].up = pp /\ pp # n /\ p # Null /\ y # Null
        BY <3>7, <1>x, <1>1, <1>2
      <4>1. c # p /\ c # y
        BY <4>0, <3>2
      <4>2. G[c] = H[c] /\ G[n] = H[n] + 1
        BY <4>1, <3>2, <3>7, <1>a, <1>G
      <4>3. Weight(t, n) = 0 /\ Weight(u, n) = 1
        BY <3>4, <3>7, <1>x, <1>1, <1>2, <1>3 DEF Weight
      <4> QED BY <4>2, <4>3, <3>a, <3>3, <3>4, <3>5
    <3>8. CASE n # pp /\ n # p /\ n # y
      <4>0. t[p].up = pp /\ t[y].up = pp /\ pp # n /\ p # Null /\ y # Null
        BY <3>8, <1>x, <1>1, <1>2
      <4>1. c # p /\ c # y
        BY <4>0, <3>2
      <4>2. G[c] = H[c] /\ G[n] = H[n]
        BY <4>1, <3>2, <3>4, <3>8, <1>G
      <4>3. Weight(t, n) = Weight(u, n)
        BY <3>4, <3>8, <1>3 DEF Weight
      <4> QED BY <4>2, <4>3, <3>a, <3>3, <3>4, <3>5
    <3> QED BY <3>6, <3>7, <3>8
  <2> QED BY <2>1, <2>2, <1>e, <1>G DEF Heights, Level
<1>6. Colors(u, L, pp, Null)
  <2> SUFFICES ASSUME NEW n \in L, n # pp, u[n].red PROVE ~ u[u[n].up].red
    BY DEF Colors
  <2>1. t[n].red /\ n \notin {p, y} /\ u[n].up = t[n].up /\ t[n].up \in Node
    BY <1>1, <1>3, <1>0, ParentFacts DEF SamePointers
  <2>2. t[n].up # pp
    <3>1. SUFFICES ASSUME t[n].up = pp PROVE FALSE
      OBVIOUS
    <3>2. n # root(t)
      BY <3>1, <1>0, <1>1, ParentFacts
    <3>3. Side(t, n, pp) \in Sides /\ t[pp][Side(t, n, pp)] = n
      BY <3>1, <3>2, <1>0, ParentFacts
    <3> QED BY <3>3, <2>1, <1>2
  <2>3. CASE n = x
    BY <2>1, <2>2, <2>3, <1>x, <1>1, <1>3
  <2>4. CASE n # x
    <3>1. t[n].up # Null
      BY <2>1, <1>0, ShapeFacts
    <3>2. ~ t[t[n].up].red
      BY <2>1, <2>4, <3>1, <1>0 DEF Colors
    <3> QED BY <3>2, <2>1, <2>2, <1>3
  <2> QED BY <2>3, <2>4
<1>7. u[pp].red /\ u[pp].up # pp
  BY <1>1, <1>3 DEF SamePointers, NoLoop
<1>9. pp \in L
  BY <1>1
<1>10. Fixing(u, L, G, pp)
  BY <1>4, <1>6, <1>7, <1>8, <1>9 DEF Fixing
<1>11. Keeps(t, u, L)
  BY <1>0, <1>3, SameKeeps
<1> QED BY <1>10, <1>11 DEF u

(* What is around a red x below a red parent, on side s of its grandparent. *)
LEMMA AroundFacts ==
  ASSUME NEW t, NEW L, NEW H, NEW x, Fixing(t, L, H, x), x # root(t),
         NEW p, NEW pp, NEW y, Around(t, x, p, pp, y)
  PROVE  \E s \in Sides :
           /\ s = Side(t, p, pp) /\ Other(s) \in Sides /\ Other(s) # s /\ Other(Other(s)) = s
           /\ t[pp][s] = p /\ t[pp][Other(s)] = y /\ y # p
           /\ (t[p][s] = x \/ t[p][Other(s)] = x)
<1>0. Shape(t, L)
  BY DEF Fixing
<1>x. x \in L /\ p = t[x].up /\ pp = t[p].up /\ y = t[pp][Other(Side(t, p, pp))] /\ t[p].red
  BY DEF Fixing, Around
<1>1. p \in L /\ pp \in L /\ p # root(t) /\ Null \notin L
  <2>1. t[x].up \in L /\ t[x].up # root(t) /\ t[t[x].up].up \in L
    BY <1>x, FixingFacts
  <2>2. Null \notin L
    BY <1>0, ShapeFacts
  <2> QED BY <1>x, <2>1, <2>2
<1>2. PICK s : s = Side(t, p, pp)
  OBVIOUS
<1>3. s \in Sides /\ t[pp][s] = p
  BY <1>0, <1>x, <1>1, <1>2, ParentFacts
<1>4. Other(s) \in Sides /\ Other(s) # s /\ Other(Other(s)) = s /\ \A q \in Sides : q # s => q = Other(s)
  BY <1>3, SideFacts
<1>5. t[pp][Other(s)] = y
  BY <1>x, <1>2
<1>6. y # p
  <2>1. t[pp][s] # Null => t[pp][Other(s)] # t[pp][s]
    BY <1>0, <1>1, <1>3, ChildFacts
  <2> QED BY <2>1, <1>1, <1>3, <1>5
<1>7. t[p][s] = x \/ t[p][Other(s)] = x
  <2>1. \E q \in Sides : t[p][q] = x
    <3>1. Shape(t, L) /\ x \in L /\ p = t[x].up
      BY <1>0, <1>x
    <3> QED BY <3>1, ParentFacts
  <2> QED BY <2>1, <1>4
<1> QED BY <1>2, <1>3, <1>4, <1>5, <1>6, <1>7

LEMMA AroundNodes ==
  ASSUME NEW t, NEW L, NEW H, NEW x, Fixing(t, L, H, x), x # root(t),
         NEW p, NEW pp, NEW y, Around(t, x, p, pp, y)
  PROVE  /\ Shape(t, L) /\ Heights(t, L, H, Header, "left") /\ Colors(t, L, x, Null) /\ NoLoop(t, L)
         /\ x \in L /\ p \in L /\ pp \in L /\ t[x].up = p /\ t[p].up = pp
         /\ t[x].red /\ t[p].red /\ ~ t[pp].red /\ p # root(t) /\ x # p /\ x # pp /\ p # pp
<1>1. p = t[x].up /\ pp = t[p].up /\ t[p].red
  BY DEF Around
<1>2. /\ NoLoop(t, L) /\ p \in L /\ pp \in L /\ p # root(t) /\ ~ t[pp].red /\ x \in L /\ t[x].red
  BY <1>1, FixingFacts DEF Fixing
<1>3. x # p /\ x # pp /\ p # pp
  BY <1>1, <1>2 DEF NoLoop
<1> QED BY <1>1, <1>2, <1>3 DEF Fixing

(* x is the outer child of p, or the inner one before p goes down.           *)
Outer(t, x, p, pp) == x = t[p][Side(t, p, pp)]

LEMMA RaiseKeeps ==
  ASSUME NEW t, NEW L, NEW H, NEW x, Fixing(t, L, H, x), x # root(t),
         NEW p, NEW pp, NEW y, Around(t, x, p, pp, y), ~ IsRed(t, y), Outer(t, x, p, pp)
  PROVE  Keeps(t, Raise(t, x), L) /\ \E G : Fixing(Raise(t, x), L, G, x)
<1>1. /\ Shape(t, L) /\ Heights(t, L, H, Header, "left") /\ Colors(t, L, x, Null) /\ NoLoop(t, L)
      /\ x \in L /\ p \in L /\ pp \in L /\ t[x].up = p /\ t[p].up = pp
      /\ t[x].red /\ t[p].red /\ ~ t[pp].red /\ p # root(t) /\ x # p /\ x # pp /\ p # pp
      /\ L \subseteq Node /\ Header \notin L /\ Null \notin L
  BY AroundNodes, ShapeFacts
<1>2. PICK b \in Sides : /\ b = Side(t, p, pp)
                         /\ t[pp][b] = p /\ t[pp][Other(b)] = y /\ y # p
  BY AroundFacts
<1>3. PICK s : s \in Sides /\ s = Other(b) /\ Other(s) = b /\ b # s
  BY SideFacts
<1>4. Hinge(t, L, pp, s, p)
  <2>1. Hinge(t, L, pp, s, t[pp][Other(s)])
    BY <1>1, <1>2, <1>3, NoLoopHinge
  <2> QED BY <2>1, <1>2, <1>3
<1>5. t[p][b] = x
  BY <1>2 DEF Outer
<1>6. Raise(t, x) = Lift(t, pp, s)
  BY <1>1, <1>2, <1>3 DEF Raise
<1>7. PICK u : u = Lift(t, pp, s) /\ LiftView(t, u, L, pp, s, p)
  BY <1>1, <1>4, LiftViews
<1>8. PICK G : Heights(u, L, G, Header, "left")
  BY <1>1, <1>4, <1>7, LiftHeights
<1>9. ~ IsRed(t, t[p][s])
  <2>1. SUFFICES ASSUME t[p][s] # Null, t[t[p][s]].red PROVE FALSE
    BY DEF IsRed
  <2>2. t[p][s] \in L /\ t[t[p][s]].up = p /\ t[p][s] # t[p][b]
    BY <1>1, <1>3, <2>1, ChildFacts
  <2>3. ~ t[p].red
    BY <2>1, <2>2, <1>1, <1>5 DEF Colors
  <2> QED BY <2>3, <1>1
<1>10. Colors(u, L, x, Null)
  <2>1. ~ IsRed(t, t[pp][s])
    BY <1>2, <1>3
  <2> QED BY <2>1, <1>1, <1>4, <1>7, <1>9, LiftColors
<1>11. Shape(u, L) /\ u[x].red
  BY <1>1, <1>7 DEF LiftView
<1>12. Turned(t, u, L, pp, p, s, t[p][s])
  BY <1>7 DEF LiftView
<1>13. u[x].up # x
  <2>1. x # t[p][s]
    BY <1>1, <1>9 DEF IsRed
  <2>2. u[x].up = t[x].up
    BY <2>1, <1>1, <1>12 DEF Turned
  <2> QED BY <2>2, <1>1
<1>14. Fixing(u, L, G, x)
  BY <1>1, <1>8, <1>10, <1>11, <1>13 DEF Fixing
<1>15. Keeps(t, u, L)
  BY <1>1, <1>4, <1>12, TurnedKeeps
<1> QED BY <1>6, <1>7, <1>14, <1>15

Inside(t, x, p, pp, s, u) == s = Side(t, p, pp) /\ x = t[p][Other(s)] /\ u = Rotate(t, p, s)

(* An inner x: its parent goes down first, and is then the outer one. *)
LEMMA InnerKeeps ==
  ASSUME NEW t, NEW L, NEW H, NEW x, Fixing(t, L, H, x), x # root(t),
         NEW p, NEW pp, NEW y, Around(t, x, p, pp, y),
         NEW s, NEW u, Inside(t, x, p, pp, s, u)
  PROVE  /\ Keeps(t, u, L) /\ Fixing(u, L, H, p) /\ p # root(u)
         /\ Around(u, p, x, pp, y) /\ Outer(u, p, x, pp) /\ (IsRed(u, y) <=> IsRed(t, y))
<1>1. /\ Shape(t, L) /\ Heights(t, L, H, Header, "left") /\ Colors(t, L, x, Null) /\ NoLoop(t, L)
      /\ x \in L /\ p \in L /\ pp \in L /\ t[x].up = p /\ t[p].up = pp
      /\ t[x].red /\ t[p].red /\ ~ t[pp].red /\ p # root(t) /\ x # p /\ x # pp /\ p # pp
      /\ L \subseteq Node /\ L \subseteq Ptr /\ Header \notin L /\ Null \notin L
  BY AroundNodes, ShapeFacts
<1>3. /\ s \in Sides /\ Other(s) \in Sides /\ Other(s) # s
      /\ t[pp][s] = p /\ t[pp][Other(s)] = y /\ y # p
  <2>1. PICK b \in Sides : /\ b = Side(t, p, pp) /\ Other(b) \in Sides /\ Other(b) # b
                           /\ t[pp][b] = p /\ t[pp][Other(b)] = y /\ y # p
    BY AroundFacts
  <2>2. s = b
    BY <2>1 DEF Inside
  <2> QED BY <2>1, <2>2
<1>c. t[p][Other(s)] = x
  BY DEF Inside
<1>4. Hinge(t, L, p, s, x)
  <2>1. Hinge(t, L, p, s, t[p][Other(s)])
    BY <1>1, <1>3, <1>c, NoLoopHinge
  <2> QED BY <2>1, <1>c
<1>5. SamePointers(t, t) /\ t[Header].red
  BY <1>1 DEF SamePointers, Shape
<1>6. /\ Shape(u, L) /\ Turned(t, u, L, p, x, s, t[x][s])
      /\ \A n \in Node : u[n].red = t[n].red
  <2>1. /\ Shape(Rotate(t, p, s), L)
        /\ Turned(t, Rotate(t, p, s), L, p, x, s, t[x][s])
        /\ \A n \in Node : Rotate(t, p, s)[n].red = t[n].red
    BY <1>1, <1>4, <1>5, RotateAfter
  <2>2. u = Rotate(t, p, s)
    BY DEF Inside
  <2> QED BY <2>1, <2>2
<1>7. Keeps(t, u, L)
  BY <1>1, <1>4, <1>6, TurnedKeeps
<1>8. /\ u[p][s] = t[p][s] /\ u[p][Other(s)] = t[x][s]
      /\ u[x][s] = p /\ u[x][Other(s)] = t[x][Other(s)]
      /\ \A n \in L, q \in Sides :
           n # p /\ n # x => t[n][q] # x /\ u[n][q] = IF t[n][q] = p THEN x ELSE t[n][q]
      /\ u[p].up = x /\ u[x].up = pp
      /\ t[x][s] # Null => t[x][s] \in L /\ u[t[x][s]].up = p /\ t[t[x][s]].up = x
      /\ \A n \in L : n # p /\ n # x /\ n # t[x][s] => u[n].up = t[n].up
      /\ root(u) = IF root(t) = p THEN x ELSE root(t)
  BY <1>1, <1>6 DEF Turned
<1>9. p # root(u)
  BY <1>1, <1>3, <1>8
<1>10. H[p] = H[x]
  <2>1. H[p] = H[x] + Gap(Header, "left", p, Other(s)) + Weight(t, p) /\ H[x] \in Nat
    BY <1>1, <1>3, <1>c, LevelFacts
  <2>2. Gap(Header, "left", p, Other(s)) = 0 /\ Weight(t, p) = 0
    BY <1>1 DEF Gap, Weight
  <2> QED BY <2>1, <2>2
<1>11. ASSUME NEW n \in L PROVE Level(u, H, Header, "left", n)
  <2>1. /\ H[n] \in Nat /\ H[p] \in Nat /\ H[x] \in Nat
        /\ \A q \in Sides : H[n] = H[t[n][q]] + Gap(Header, "left", n, q) + Weight(t, n)
        /\ \A q \in Sides : H[p] = H[t[p][q]] + Gap(Header, "left", p, q) + Weight(t, p)
        /\ \A q \in Sides : H[x] = H[t[x][q]] + Gap(Header, "left", x, q) + Weight(t, x)
    BY <1>1, LevelFacts
  <2>2. Weight(u, n) = Weight(t, n) /\ Weight(u, x) = 0 /\ Weight(u, p) = 0
    BY <1>1, <1>6 DEF Weight
  <2>3. \A q \in Sides : Gap(Header, "left", n, q) = 0 /\ Gap(Header, "left", x, q) = 0 /\ Gap(Header, "left", p, q) = 0
    BY <1>1 DEF Gap
  <2>4. /\ \A q \in Sides : H[t[x][q]] \in Nat /\ H[x] = H[t[x][q]]
        /\ \A q \in Sides : H[t[p][q]] \in Nat /\ H[p] = H[t[p][q]]
    <3>1. Weight(t, x) = 0 /\ Weight(t, p) = 0
      BY <1>1 DEF Weight
    <3> QED BY <1>1, <2>1, <2>3, <3>1, LevelFacts
  <2>5. \A q \in Sides : q # s => q = Other(s)
    BY <1>3, SideFacts
  <2>6. CASE n = p
    BY <2>2, <2>3, <2>4, <2>5, <2>6, <1>3, <1>8, <1>10 DEF Level
  <2>7. CASE n = x
    BY <2>1, <2>2, <2>3, <2>4, <2>5, <2>7, <1>3, <1>8, <1>10 DEF Level
  <2>8. CASE n # x /\ n # p
    <3>1. ASSUME NEW q \in Sides PROVE H[u[n][q]] = H[t[n][q]]
      BY <2>8, <1>8, <1>10
    <3> QED BY <3>1, <2>1, <2>2 DEF Level
  <2> QED BY <2>6, <2>7, <2>8
<1>12. Heights(u, L, H, Header, "left")
  BY <1>1, <1>11 DEF Heights
<1>13. Colors(u, L, p, Null)
  <2> SUFFICES ASSUME NEW n \in L, n # p, u[n].red PROVE ~ u[u[n].up].red
    BY DEF Colors
  <2>1. CASE n = x
    BY <2>1, <1>1, <1>6, <1>8
  <2>2. CASE n # x
    <3>1. t[n].red /\ t[n].up \in Node /\ t[n].up # Null
      BY <1>1, <1>6, ParentFacts, ShapeFacts
    <3>2. ~ t[t[n].up].red
      BY <2>2, <3>1, <1>1 DEF Colors
    <3>3. n # t[x][s]
      BY <3>2, <1>1, <1>8
    <3>4. u[n].up = t[n].up
      BY <2>2, <3>3, <1>8
    <3> QED BY <3>1, <3>2, <3>4, <1>6
  <2> QED BY <2>1, <2>2
<1>14. Fixing(u, L, H, p)
  BY <1>1, <1>3, <1>6, <1>8, <1>12, <1>13 DEF Fixing
<1>15. Side(u, x, pp) = s /\ u[pp][Other(s)] = y
  <2>1. u[pp][s] = x
    BY <1>1, <1>3, <1>8
  <2>2. t[pp][Other(s)] # p
    BY <1>1, <1>3, ChildFacts
  <2>3. u[pp][Other(s)] = y
    BY <1>1, <1>3, <1>8, <2>2
  <2>4. Side(u, x, pp) = s
    BY <1>1, <1>3, <1>6, <2>1, ParentFacts
  <2> QED BY <2>3, <2>4
<1>16. Around(u, p, x, pp, y) /\ Outer(u, p, x, pp)
  <2>1. u[p].up = x /\ u[x].up = pp /\ u[x].red
    BY <1>1, <1>6, <1>8
  <2>2. u[x][s] = p
    BY <1>8
  <2> QED BY <2>1, <2>2, <1>15 DEF Around, Outer
<1>17. IsRed(u, y) <=> IsRed(t, y)
  <2>1. y # Null => y \in Node
    BY <1>1, <1>3, ChildFacts
  <2> QED BY <2>1, <1>6 DEF IsRed
<1> QED BY <1>7, <1>9, <1>14, <1>16, <1>17

(***************************************************************************)
(* The end of either loop: a node is painted black.                        *)
(***************************************************************************)
(* Between calls, and with nothing left to mend.                             *)
Balanced(t, L) ==
  /\ Shape(t, L) /\ \E H : Heights(t, L, H, Header, "left")
  /\ Colors(t, L, Null, Null)

LEMMA SameBalance ==
  ASSUME NEW t, NEW L, Shape(t, L), NEW u, SamePointers(t, u), \A n \in Node : u[n].red = t[n].red
  PROVE  /\ Shape(u, L)
         /\ \A H, dn, ds : Heights(t, L, H, dn, ds) => Heights(u, L, H, dn, ds)
         /\ \A v, w : Colors(t, L, v, w) => Colors(u, L, v, w)
<1>1. L \subseteq Node /\ Header \in Node /\ \A n \in L : t[n].up \in Node
  BY ShapeFacts, ParentFacts
<1>2. u[Header].red
  BY <1>1 DEF Shape
<1>3. Shape(u, L)
  BY <1>2, SameShape
<1>4. ASSUME NEW H, NEW dn, NEW ds, Heights(t, L, H, dn, ds) PROVE Heights(u, L, H, dn, ds)
  <2>1. ASSUME NEW n \in L PROVE Level(u, H, dn, ds, n)
    <3>1. Level(t, H, dn, ds, n)
      BY <1>4 DEF Heights
    <3>2. \A q \in Sides : u[n][q] = t[n][q]
      BY <1>1 DEF SamePointers
    <3>3. Weight(u, n) = Weight(t, n)
      BY <1>1 DEF Weight
    <3> QED BY <3>1, <3>2, <3>3 DEF Level
  <2> QED BY <1>4, <2>1 DEF Heights
<1>5. ASSUME NEW v, NEW w, Colors(t, L, v, w) PROVE Colors(u, L, v, w)
  <2>1. \A n \in L : u[n].up = t[n].up /\ u[n].red = t[n].red /\ u[t[n].up].red = t[t[n].up].red
    BY <1>1 DEF SamePointers
  <2> QED BY <1>5, <2>1 DEF Colors
<1> QED BY <1>3, <1>4, <1>5

(* A black node is missing in x's place, if that is not the root's. *)
Missing(t, L, x, dn, ds) ==
  IF x = root(t) THEN dn = Header ELSE dn \in L /\ ds \in Sides /\ t[dn][ds] = x

(* Painting a red x makes up for it. *)
LEMMA BlackenHeights ==
  ASSUME NEW t, NEW L, Shape(t, L), NEW H, NEW dn, NEW ds, Heights(t, L, H, dn, ds),
         NEW x \in L, t[x].red, t[x].up # x,
         Missing(t, L, x, dn, ds),
         NEW u, Paints(t, u, x, FALSE)
  PROVE  \E G : Heights(u, L, G, Header, "left")
<1>1. /\ L \subseteq Node /\ L \subseteq Ptr /\ Header \notin L /\ Null \notin L
      /\ H \in [Ptr -> Nat] /\ H[Null] = 0 /\ Bounded(L, H) /\ x \in Ptr /\ H[x] \in Nat /\ Null \in Ptr
  BY ShapeFacts DEF Heights
<1>2. PICK a, z : a = H[x] + 1 /\ z = Null
  OBVIOUS
<1>3. a \in Nat
  BY <1>1, <1>2
<1>4. PICK G : Put(H, G, x, a, Null, 0, Null, 0)
  <2>1. 0 \in Nat /\ Null # x
    BY <1>1
  <2> QED BY <2>1, <1>1, <1>3, HeightPut
<1>5. G \in [Ptr -> Nat] /\ G[Null] = 0 /\ G[x] = H[x] + 1 /\ \A n \in Ptr : n # x => G[n] = H[n]
  BY <1>1, <1>2, <1>4 DEF Put
<1>6. Bounded(L, G)
  BY <1>1, <1>4, BoundedPut
<1>7. ASSUME NEW n \in L, NEW q \in Sides
      PROVE  G[n] = G[u[n][q]] + Gap(Header, "left", n, q) + Weight(u, n)
  <2>1. PICK c : c = t[n][q]
    OBVIOUS
  <2>2. c \in Ptr /\ (c # Null => t[c].up = n)
    BY <2>1, ChildFacts
  <2>3. u[n][q] = c
    BY <2>1, <1>1 DEF Paints
  <2>4. H[n] = H[c] + Gap(dn, ds, n, q) + Weight(t, n) /\ H[n] \in Nat /\ H[c] \in Nat
    BY <2>1, LevelFacts
  <2>5. Gap(Header, "left", n, q) = 0
    BY <1>1, NoGap
  <2>6. CASE n = x
    <3>1. c # x /\ ~ (n = dn /\ q = ds)
      BY <2>1, <2>2, <2>6, <1>1 DEF Missing
    <3>2. G[c] = H[c] /\ G[n] = H[n] + 1
      BY <3>1, <2>2, <2>6, <1>5
    <3>3. Weight(t, n) = 0 /\ Weight(u, n) = 1 /\ Gap(dn, ds, n, q) = 0
      BY <3>1, <2>6, <1>1 DEF Weight, Gap, Paints
    <3> QED BY <3>2, <3>3, <2>3, <2>4, <2>5
  <2>7. CASE n # x /\ c = x
    <3>1. n = dn /\ q = ds
      <4>1. x # root(t) /\ n = t[x].up /\ q = Side(t, x, n)
        <5>1. t[n][q] = x
          BY <2>1, <2>7
        <5> QED BY <5>1, ParentFacts
      <4>2. dn \in L /\ ds \in Sides /\ t[dn][ds] = x
        BY <4>1 DEF Missing
      <4>3. dn = t[x].up /\ ds = Side(t, x, dn)
        BY <4>2, ParentFacts
      <4> QED BY <4>1, <4>3
    <3>2. G[c] = H[c] + 1 /\ G[n] = H[n]
      BY <2>7, <1>1, <1>5
    <3>3. Weight(u, n) = Weight(t, n) /\ Gap(dn, ds, n, q) = 1 /\ Weight(t, n) \in Nat
      BY <3>1, <2>7, <1>1 DEF Weight, Gap, Paints
    <3> QED BY <3>2, <3>3, <2>3, <2>4, <2>5
  <2>8. CASE n # x /\ c # x
    <3>1. ~ (n = dn /\ q = ds)
      BY <2>1, <2>8, <1>1 DEF Missing
    <3>2. G[c] = H[c] /\ G[n] = H[n]
      BY <2>2, <2>8, <1>1, <1>5
    <3>3. Weight(u, n) = Weight(t, n) /\ Gap(dn, ds, n, q) = 0
      BY <3>1, <2>8, <1>1 DEF Weight, Gap, Paints
    <3> QED BY <3>2, <3>3, <2>3, <2>4, <2>5
  <2> QED BY <2>6, <2>7, <2>8
<1> QED BY <1>5, <1>6, <1>7 DEF Heights, Level

LEMMA BlackenBalances ==
  ASSUME NEW t, NEW L, Shape(t, L), NEW H, NEW dn, NEW ds, Heights(t, L, H, dn, ds),
         NEW x \in L, t[x].red, t[x].up # x,
         Missing(t, L, x, dn, ds),
         NEW w, Colors(t, L, x, w), w \in {x, Null}
  PROVE  Keeps(t, Paint(t, x, FALSE), L) /\ Balanced(Paint(t, x, FALSE), L)
<1>1. t \in Trees /\ x \in Node /\ FALSE \in BOOLEAN /\ L \subseteq Node /\ Header # x /\ Header \in Node /\ Null \notin L
  BY ShapeFacts
<1>2. PICK u : u = Paint(t, x, FALSE) /\ Paints(t, u, x, FALSE)
  BY <1>1, PaintFields
<1>3. SamePointers(t, u)
  BY <1>2, PaintsSame
<1>4. \A n \in Node : u[n].red = IF n = x THEN FALSE ELSE t[n].red
  BY <1>2 DEF Paints
<1>5. Shape(u, L)
  <2>1. u[Header].red
    BY <1>1, <1>4 DEF Shape
  <2> QED BY <2>1, <1>3, SameShape
<1>6. \E G : Heights(u, L, G, Header, "left")
  BY <1>2, BlackenHeights
<1>7. Colors(u, L, Null, Null)
  <2> SUFFICES ASSUME NEW n \in L, u[n].red PROVE ~ u[u[n].up].red
    BY DEF Colors
  <2>1. n # x /\ t[n].red /\ u[n].up = t[n].up /\ t[n].up \in Node /\ t[n].up # Null
    <3>1. n \in Node /\ t[n].up \in Node /\ Null \notin Node
      BY <1>1, ParentFacts, ShapeFacts
    <3>2. u[n].up = t[n].up
      BY <3>1, <1>3 DEF SamePointers
    <3> QED BY <3>1, <3>2, <1>4
  <2>2. CASE t[n].up = x
    BY <2>1, <2>2, <1>1, <1>4
  <2>3. CASE t[n].up # x
    <3>1. ~ t[t[n].up].red
      BY <2>1, <2>3 DEF Colors
    <3> QED BY <2>1, <2>3, <3>1, <1>4
  <2> QED BY <2>2, <2>3
<1>8. Keeps(t, u, L)
  BY <1>3, SameKeeps
<1> QED BY <1>2, <1>5, <1>6, <1>7, <1>8 DEF Balanced

(* A node that is black already changes nothing. *)
LEMMA BlackStays ==
  ASSUME NEW t, NEW L, Balanced(t, L), NEW x \in Node, ~ t[x].red
  PROVE  Keeps(t, Paint(t, x, FALSE), L) /\ Balanced(Paint(t, x, FALSE), L)
<1>1. Shape(t, L) /\ t \in Trees /\ FALSE \in BOOLEAN
  BY ShapeFacts DEF Balanced
<1>2. PICK u : u = Paint(t, x, FALSE) /\ Paints(t, u, x, FALSE)
  BY <1>1, PaintFields
<1>3. SamePointers(t, u)
  BY <1>2, PaintsSame
<1>4. ASSUME NEW n \in Node PROVE u[n].red = t[n].red
  <2>1. u[n].red = IF n = x THEN FALSE ELSE t[n].red
    BY <1>2 DEF Paints
  <2>2. t[n].red \in BOOLEAN
    BY <1>1 DEF Trees
  <2> QED BY <2>1, <2>2
<1>5. Balanced(u, L)
  BY <1>1, <1>3, <1>4, SameBalance DEF Balanced
<1>6. Keeps(t, u, L)
  BY <1>1, <1>3, SameKeeps
<1> QED BY <1>2, <1>5, <1>6

LEMMA InsertEnds ==
  ASSUME NEW t, NEW L, NEW H, NEW x, Fixing(t, L, H, x), x = root(t) \/ ~ t[t[x].up].red
  PROVE  /\ Keeps(t, Paint(t, root(t), FALSE), L) /\ Balanced(Paint(t, root(t), FALSE), L)
<1>1. /\ Shape(t, L) /\ Heights(t, L, H, Header, "left") /\ Colors(t, L, x, Null)
      /\ x \in L /\ t[x].red /\ t[x].up # x
  BY DEF Fixing
<1>2. PICK r : r = root(t)
  OBVIOUS
<1>3. r \in L /\ t[r].up = Header /\ t[Header].red /\ r \in Node /\ Header # Null /\ r # Null
  BY <1>1, <1>2, ShapeFacts DEF Shape
<1>4. CASE t[r].red
  <2>1. r = x
    BY <1>1, <1>3, <1>4 DEF Colors
  <2>2. Missing(t, L, x, Header, "left")
    BY <1>2, <2>1 DEF Missing
  <2> QED BY <1>1, <1>2, <2>1, <2>2, BlackenBalances
<1>5. CASE ~ t[r].red
  <2>1. ~ t[t[x].up].red
    BY <1>1, <1>2, <1>5
  <2>2. Colors(t, L, Null, Null)
    BY <1>1, <2>1 DEF Colors
  <2>3. Balanced(t, L)
    BY <1>1, <2>2 DEF Balanced
  <2> QED BY <1>2, <1>3, <1>5, <2>3, BlackStays
<1> QED BY <1>4, <1>5

(***************************************************************************)
(* The loop of the erasure: a black node is missing in x's place.          *)
(***************************************************************************)
Erasing(t, L, H, x, xp, s) ==
  /\ Shape(t, L) /\ Heights(t, L, H, xp, s) /\ Colors(t, L, x, x)
  /\ x \in L \cup {Null} /\ Missing(t, L, x, xp, s)

(* The loop goes on. *)
Turn(t, L, H, x, xp, s) == Erasing(t, L, H, x, xp, s) /\ x # root(t) /\ ~ IsRed(t, x)

LEMMA TurnFacts ==
  ASSUME NEW t, NEW L, NEW H, NEW x, NEW xp, NEW s, Turn(t, L, H, x, xp, s)
  PROVE  /\ Shape(t, L) /\ Heights(t, L, H, xp, s) /\ Colors(t, L, x, x) /\ NoLoop(t, L)
         /\ xp \in L /\ s \in Sides /\ Other(s) \in Sides /\ Other(s) # s /\ Other(Other(s)) = s
         /\ t[xp][s] = x /\ x # xp /\ x # root(t) /\ x \in Ptr
         /\ x \in L => t[x].up = xp /\ ~ t[x].red
         /\ x \notin L => x = Null
         /\ t[xp].up # x /\ t[xp].up # xp
<1>1. /\ Shape(t, L) /\ Heights(t, L, H, xp, s) /\ Colors(t, L, x, x)
      /\ x \in L \cup {Null} /\ x # root(t) /\ ~ IsRed(t, x)
      /\ xp \in L /\ s \in Sides /\ t[xp][s] = x
  BY DEF Turn, Erasing, Missing
<1>2. Null \notin L /\ L \subseteq Ptr /\ L \subseteq Node /\ Null \in Ptr /\ Null \notin Node
  BY <1>1, ShapeFacts
<1>3. x \in L => ~ t[x].red
  BY <1>1, <1>2 DEF IsRed
<1>4. NoLoop(t, L)
  BY <1>1, <1>3, NoLoops
<1>5. x \in L => t[x].up = xp
  BY <1>1, <1>2, ChildFacts
<1>6. x # xp /\ t[xp].up # xp /\ t[xp].up # x
  <2>1. t[xp].up \in Node
    BY <1>1, ParentFacts
  <2> QED BY <2>1, <1>1, <1>2, <1>4, <1>5 DEF NoLoop
<1> QED BY <1>1, <1>2, <1>3, <1>4, <1>5, <1>6, SideFacts

(* The sibling w is there, and heavier by the missing node. *)
LEMMA SiblingFacts ==
  ASSUME NEW t, NEW L, NEW H, NEW x, NEW xp, NEW s, Turn(t, L, H, x, xp, s)
  PROVE  \E w \in L : /\ t[xp][Other(s)] = w /\ t[w].up = xp /\ w # x /\ w # xp /\ w # root(t)
                      /\ H[w] \in Nat /\ H[x] \in Nat /\ H[xp] \in Nat
                      /\ H[w] = H[x] + 1 /\ H[xp] = H[w] + Weight(t, xp)
                      /\ Hinge(t, L, xp, s, w) /\ s = Side(t, x, xp)
<1>1. /\ Shape(t, L) /\ Heights(t, L, H, xp, s) /\ NoLoop(t, L)
      /\ xp \in L /\ s \in Sides /\ Other(s) \in Sides /\ Other(s) # s /\ Other(Other(s)) = s
      /\ t[xp][s] = x
  BY TurnFacts
<1>2. PICK w : w = t[xp][Other(s)]
  OBVIOUS
<1>3. /\ H[xp] \in Nat /\ H[x] \in Nat /\ H[w] \in Nat
      /\ H[xp] = H[x] + Gap(xp, s, xp, s) + Weight(t, xp)
      /\ H[xp] = H[w] + Gap(xp, s, xp, Other(s)) + Weight(t, xp)
  BY <1>1, <1>2, LevelFacts
<1>4. Gap(xp, s, xp, s) = 1 /\ Gap(xp, s, xp, Other(s)) = 0 /\ Weight(t, xp) \in Nat
  BY <1>1 DEF Gap, Weight
<1>5. H[w] = H[x] + 1 /\ H[xp] = H[w] + Weight(t, xp)
  BY <1>3, <1>4
<1>6. w # Null
  <2>1. H[Null] = 0
    BY <1>1 DEF Heights
  <2> QED BY <2>1, <1>3, <1>5
<1>7. w # x
  BY <1>3, <1>5
<1>8. w \in L /\ t[w].up = xp
  BY <1>1, <1>2, <1>6, ChildFacts
<1>9. w # xp
  BY <1>1, <1>8 DEF NoLoop
<1>10. Hinge(t, L, xp, s, w)
  <2>1. t[xp][Other(s)] # Null
    BY <1>2, <1>6
  <2>2. Hinge(t, L, xp, s, t[xp][Other(s)])
    BY <2>1, <1>1, NoLoopHinge
  <2> QED BY <2>2, <1>2
<1>11. s = Side(t, x, xp)
  <2>1. CASE s = "left"
    BY <2>1, <1>1 DEF Side
  <2>2. CASE s = "right"
    BY <2>2, <1>1, <1>2, <1>7 DEF Side, Other
  <2> QED BY <2>1, <2>2, <1>1 DEF Sides
<1>12. w # root(t)
  <2>1. t[xp][Other(s)] = w
    BY <1>2
  <2> QED BY <2>1, <1>1, <1>8, ParentFacts
<1> QED BY <1>2, <1>3, <1>5, <1>7, <1>8, <1>9, <1>10, <1>11, <1>12

(* Of the turn's first part: w is black afterwards. *)
LEMMA SiblingKeeps ==
  ASSUME NEW t, NEW L, NEW H, NEW x, NEW xp, NEW s, Turn(t, L, H, x, xp, s)
  PROVE  /\ Keeps(t, RaiseSibling(t, xp, s), L)
         /\ \E G : Turn(RaiseSibling(t, xp, s), L, G, x, xp, s)
         /\ ~ RaiseSibling(t, xp, s)[RaiseSibling(t, xp, s)[xp][Other(s)]].red
<1>1. /\ Shape(t, L) /\ Heights(t, L, H, xp, s) /\ Colors(t, L, x, x) /\ NoLoop(t, L)
      /\ xp \in L /\ s \in Sides /\ Other(s) \in Sides /\ Other(s) # s /\ Other(Other(s)) = s
      /\ t[xp][s] = x /\ x # xp /\ x # root(t) /\ x \in Ptr
      /\ x \in L => t[x].up = xp /\ ~ t[x].red
      /\ x \notin L => x = Null
      /\ t[xp].up # x /\ t[xp].up # xp
      /\ L \subseteq Node /\ Null \notin L
  BY TurnFacts, ShapeFacts
<1>2. PICK w \in L : /\ t[xp][Other(s)] = w /\ t[w].up = xp /\ w # x /\ w # xp
                    /\ Hinge(t, L, xp, s, w)
  BY SiblingFacts
<1>3. CASE ~ t[w].red
  <2>1. RaiseSibling(t, xp, s) = t
    BY <1>2, <1>3 DEF RaiseSibling
  <2>2. Keeps(t, t, L)
    BY DEF Keeps
  <2> QED BY <1>2, <1>3, <2>1, <2>2
<1>4. CASE t[w].red
  <2>1. PICK u : u = Lift(t, xp, s)
    OBVIOUS
  <2>2. u = RaiseSibling(t, xp, s)
    BY <1>2, <1>4, <2>1 DEF RaiseSibling
  <2>3. LiftView(t, u, L, xp, s, w)
    BY <1>1, <1>2, <2>1, LiftViews
  <2>4. ~ t[xp].red
    BY <1>1, <1>2, <1>4 DEF Colors
  <2>5. PICK G : Heights(u, L, G, xp, s)
    BY <1>1, <1>2, <1>4, <2>3, <2>4, LiftHeights
  <2>6. t[w][s] # Null => t[w][s] \in L /\ ~ t[t[w][s]].red
    <3>1. SUFFICES ASSUME t[w][s] # Null PROVE t[w][s] \in L /\ ~ t[t[w][s]].red
      OBVIOUS
    <3>2. t[w][s] \in L /\ t[t[w][s]].up = w
      BY <3>1, <1>1, <1>2, ChildFacts
    <3>3. t[w][s] # x /\ w # x
      BY <3>2, <1>1, <1>2
    <3> QED BY <3>2, <3>3, <1>1, <1>4 DEF Colors
  <2>7. Colors(u, L, x, x)
    <3>1. ~ IsRed(t, t[xp][s]) /\ ~ IsRed(t, t[w][s])
      BY <1>1, <2>6 DEF IsRed
    <3> QED BY <3>1, <1>1, <1>2, <2>3, LiftColors
  <2>8. /\ Shape(u, L) /\ Turned(t, u, L, xp, w, s, t[w][s])
        /\ \A n \in Node : u[n].red = IF n = xp THEN TRUE ELSE IF n = w THEN FALSE ELSE t[n].red
    BY <2>3 DEF LiftView
  <2>9. /\ u[xp][s] = x /\ u[xp][Other(s)] = t[w][s]
        /\ root(u) = IF root(t) = xp THEN w ELSE root(t)
        /\ t[w][s] # Null => t[w][s] # xp /\ t[w][s] # w
    BY <2>8, <1>1 DEF Turned
  <2>10. x # root(u)
    BY <2>9, <1>1, <1>2
  <2>11. ~ IsRed(u, x)
    BY <2>8, <1>1, <1>2 DEF IsRed
  <2>12. Turn(u, L, G, x, xp, s)
    BY <1>1, <2>5, <2>7, <2>8, <2>9, <2>10, <2>11 DEF Turn, Erasing, Missing
  <2>13. ~ u[u[xp][Other(s)]].red
    <3>1. PICK v \in L : u[xp][Other(s)] = v
      BY <2>12, SiblingFacts
    <3>2. v = t[w][s] /\ v # Null
      BY <3>1, <2>9, <1>1
    <3>3. v # xp /\ v # w /\ ~ t[v].red
      BY <3>2, <2>6, <2>9
    <3> QED BY <3>1, <3>3, <2>8, <1>1
  <2>14. Keeps(t, u, L)
    BY <1>1, <1>2, <2>8, TurnedKeeps
  <2> QED BY <2>2, <2>12, <2>13, <2>14
<1> QED BY <1>3, <1>4

(* Both children of the sibling w are black: it turns red, and the place     *)
(* where a node is missing is the parent's.                                *)
LEMMA PassOnKeeps ==
  ASSUME NEW t, NEW L, NEW H, NEW x, NEW xp, NEW s, Turn(t, L, H, x, xp, s),
         NEW w, w = t[xp][Other(s)], ~ t[w].red, \A c \in Sides : ~ IsRed(t, t[w][c])
  PROVE  /\ Keeps(t, Paint(t, w, TRUE), L)
         /\ \E G, q : Erasing(Paint(t, w, TRUE), L, G, xp, t[xp].up, q)
<1>1. /\ Shape(t, L) /\ Heights(t, L, H, xp, s) /\ Colors(t, L, x, x) /\ NoLoop(t, L)
      /\ xp \in L /\ s \in Sides /\ Other(s) \in Sides /\ Other(s) # s /\ Other(Other(s)) = s
      /\ t[xp][s] = x /\ x # xp /\ x # root(t) /\ x \in Ptr
      /\ x \in L => t[x].up = xp /\ ~ t[x].red
      /\ x \notin L => x = Null
      /\ t[xp].up # x /\ t[xp].up # xp
      /\ L \subseteq Node /\ L \subseteq Ptr /\ Null \notin L /\ Header \notin L /\ t \in Trees
      /\ Header \in Node /\ Null \in Ptr
  BY TurnFacts, ShapeFacts
<1>2. /\ w \in L /\ t[xp][Other(s)] = w /\ t[w].up = xp /\ w # x /\ w # xp
      /\ H[w] \in Nat /\ H[x] \in Nat /\ H[xp] \in Nat
      /\ H[w] = H[x] + 1 /\ H[xp] = H[w] + Weight(t, xp)
  BY SiblingFacts
<1>3. PICK u : u = Paint(t, w, TRUE) /\ Paints(t, u, w, TRUE)
  <2>1. w \in Node /\ TRUE \in BOOLEAN
    BY <1>1, <1>2
  <2> QED BY <2>1, <1>1, PaintFields
<1>4. SamePointers(t, u)
  BY <1>3, PaintsSame
<1>5. \A n \in Node : u[n].red = IF n = w THEN TRUE ELSE t[n].red
  BY <1>3 DEF Paints
<1>6. Shape(u, L) /\ root(u) = root(t)
  <2>1. u[Header].red
    BY <1>1, <1>5 DEF Shape
  <2> QED BY <2>1, <1>1, <1>4, SameShape
<1>7. PICK g, q : g = t[xp].up /\ q = Side(t, xp, g)
  OBVIOUS
<1>8. /\ xp = root(t) => g = Header
      /\ xp # root(t) => g \in L /\ q \in Sides /\ t[g][q] = xp
      /\ g # xp /\ g # w
  <2>1. g # w
    BY <1>1, <1>2, <1>7 DEF NoLoop
  <2> QED BY <2>1, <1>1, <1>7, ParentFacts
<1>9. Missing(u, L, xp, g, q)
  BY <1>4, <1>6, <1>8, <1>1 DEF Missing, SamePointers
<1>10. PICK a, b : a = H[xp] - 1 /\ b = H[w] - 1
  OBVIOUS
<1>11. a \in Nat /\ b \in Nat /\ H[xp] = a + 1 /\ H[w] = b + 1 /\ H[x] = b /\ a = b + Weight(t, xp)
       /\ Weight(t, xp) \in Nat
  BY <1>2, <1>10 DEF Weight
<1>12. H \in [Ptr -> Nat] /\ H[Null] = 0 /\ Bounded(L, H) /\ xp \in Ptr /\ w \in Ptr
  BY <1>1, <1>2 DEF Heights
<1>13. PICK G : Put(H, G, xp, a, w, b, w, b)
  <2>1. xp # w
    BY <1>2
  <2> QED BY <2>1, <1>11, <1>12, HeightPut
<1>14. Bounded(L, G)
  BY <1>1, <1>12, <1>13, BoundedPut
<1>15. /\ G \in [Ptr -> Nat] /\ G[xp] = a /\ G[w] = b
       /\ \A n \in Ptr : n # xp /\ n # w => G[n] = H[n]
  BY <1>13 DEF Put
<1>16. ASSUME NEW n \in L, NEW r \in Sides
       PROVE  G[n] = G[u[n][r]] + Gap(g, q, n, r) + Weight(u, n)
  <2>1. PICK c : c = t[n][r]
    OBVIOUS
  <2>2. c \in Ptr /\ (c # Null => c \in L /\ t[c].up = n)
    BY <1>1, <2>1, ChildFacts
  <2>3. u[n][r] = c
    BY <1>1, <1>4, <2>1 DEF SamePointers
  <2>4. H[n] = H[c] + Gap(xp, s, n, r) + Weight(t, n) /\ H[n] \in Nat /\ H[c] \in Nat
    BY <1>1, <2>1, LevelFacts
  <2>5. r = s \/ r = Other(s)
    BY <1>1, SideFacts
  <2>6. CASE n = w
    <3>1. c # w /\ c # xp
      BY <1>1, <1>2, <2>2, <2>6 DEF NoLoop
    <3>2. G[c] = H[c] /\ G[n] = b
      BY <3>1, <2>2, <2>6, <1>15
    <3>3. Gap(xp, s, n, r) = 0 /\ Gap(g, q, n, r) = 0 /\ Weight(t, n) = 1 /\ Weight(u, n) = 0
      BY <2>6, <1>1, <1>2, <1>5, <1>8 DEF Gap, Weight
    <3> QED BY <3>2, <3>3, <2>3, <2>4, <2>6, <1>11
  <2>7. CASE n = xp
    <3>1. Gap(g, q, n, r) = 0 /\ Weight(u, n) = Weight(t, n)
      BY <2>7, <1>1, <1>2, <1>5, <1>8 DEF Gap, Weight
    <3>2. G[c] = b
      <4>1. CASE r = s
        <5>1. c = x
          BY <4>1, <2>1, <2>7, <1>1
        <5> QED BY <5>1, <1>1, <1>2, <1>11, <1>15
      <4>2. CASE r = Other(s)
        BY <4>2, <2>1, <2>7, <1>2, <1>15
      <4> QED BY <4>1, <4>2, <2>5
    <3> QED BY <3>1, <3>2, <2>3, <2>7, <1>11, <1>15
  <2>8. CASE n # w /\ n # xp
    <3>1. c # w
      BY <2>2, <2>8, <1>1, <1>2
    <3>2. Gap(xp, s, n, r) = 0 /\ Weight(u, n) = Weight(t, n) /\ G[n] = H[n]
      BY <2>8, <1>1, <1>5, <1>15 DEF Gap, Weight
    <3>3. CASE c = xp
      <4>1. t[n][r] = xp
        BY <3>3, <2>1
      <4>2. n = g /\ r = q
        BY <4>1, <1>1, <1>7, ParentFacts
      <4>3. Gap(g, q, n, r) = 1 /\ Weight(t, n) \in Nat
        BY <4>2 DEF Gap, Weight
      <4> QED BY <4>3, <3>2, <3>3, <2>3, <2>4, <1>11, <1>15
    <3>4. CASE c # xp
      <4>1. ~ (n = g /\ r = q)
        BY <3>4, <2>1, <1>1, <1>8
      <4>2. Gap(g, q, n, r) = 0
        BY <4>1 DEF Gap
      <4>3. G[c] = H[c]
        BY <3>1, <3>4, <2>2, <1>15
      <4> QED BY <4>2, <4>3, <3>2, <2>3, <2>4
    <3> QED BY <3>3, <3>4
  <2> QED BY <2>6, <2>7, <2>8
<1>17. Heights(u, L, G, g, q)
  <2>1. G[Null] = 0
    BY <1>1, <1>2, <1>12, <1>15
  <2> QED BY <2>1, <1>14, <1>15, <1>16 DEF Heights, Level
<1>18. Colors(u, L, xp, xp)
  <2> SUFFICES ASSUME NEW n \in L, n # xp, u[n].up # xp, u[n].red PROVE ~ u[u[n].up].red
    BY DEF Colors
  <2>1. u[n].up = t[n].up /\ t[n].up \in Node
    BY <1>1, <1>4, ParentFacts DEF SamePointers
  <2>2. n # w /\ t[n].red /\ n # x
    BY <2>1, <1>1, <1>2, <1>5
  <2>3. CASE t[n].up = x
    BY <2>1, <2>3, <1>1, <1>2, <1>5, ShapeFacts
  <2>4. CASE t[n].up = w
    <3>1. n # root(t)
      BY <2>4, <1>1, <1>2, ParentFacts
    <3>2. PICK r \in Sides : t[w][r] = n
      BY <3>1, <2>4, <1>1, ParentFacts
    <3> QED BY <3>2, <2>2, <1>1 DEF IsRed
  <2>5. CASE t[n].up # x /\ t[n].up # w
    <3>1. ~ t[t[n].up].red
      BY <2>2, <2>5, <1>1 DEF Colors
    <3> QED BY <3>1, <2>1, <2>5, <1>5
  <2> QED BY <2>3, <2>4, <2>5
<1>19. Erasing(u, L, G, xp, g, q)
  BY <1>1, <1>6, <1>9, <1>17, <1>18 DEF Erasing
<1>20. Keeps(t, u, L)
  BY <1>1, <1>4, SameKeeps
<1> QED BY <1>3, <1>7, <1>19, <1>20

(* The sibling is black and its child away from x red. *)
Ready(t, L, H, x, xp, s) ==
  /\ Turn(t, L, H, x, xp, s) /\ ~ t[t[xp][Other(s)]].red
  /\ IsRed(t, t[t[xp][Other(s)]][Other(s)])

LEMMA NephewKeeps ==
  ASSUME NEW t, NEW L, NEW H, NEW x, NEW xp, NEW s, Turn(t, L, H, x, xp, s),
         NEW w, w = t[xp][Other(s)], ~ t[w].red, ~ \A c \in Sides : ~ IsRed(t, t[w][c])
  PROVE  /\ Keeps(t, RaiseNephew(t, w, s), L)
         /\ \E G : Ready(RaiseNephew(t, w, s), L, G, x, xp, s)
<1>1. /\ Shape(t, L) /\ Heights(t, L, H, xp, s) /\ Colors(t, L, x, x) /\ NoLoop(t, L)
      /\ xp \in L /\ s \in Sides /\ Other(s) \in Sides /\ Other(s) # s /\ Other(Other(s)) = s
      /\ t[xp][s] = x /\ x # xp /\ x # root(t) /\ x \in Ptr
      /\ x \in L => t[x].up = xp /\ ~ t[x].red
      /\ x \notin L => x = Null
      /\ L \subseteq Node /\ Null \notin L
  BY TurnFacts, ShapeFacts
<1>2. w \in L /\ t[xp][Other(s)] = w /\ t[w].up = xp /\ w # x /\ w # xp /\ w # root(t)
  BY SiblingFacts
<1>3. CASE IsRed(t, t[w][Other(s)])
  <2>1. RaiseNephew(t, w, s) = t
    BY <1>3 DEF RaiseNephew
  <2>2. Keeps(t, t, L)
    BY DEF Keeps
  <2>3. Ready(t, L, H, x, xp, s)
    BY <1>2, <1>3 DEF Ready
  <2> QED BY <2>1, <2>2, <2>3
<1>4. CASE ~ IsRed(t, t[w][Other(s)])
  <2>1. PICK n : n = t[w][s]
    OBVIOUS
  <2>2. IsRed(t, n)
    BY <1>1, <1>4, <2>1, SideFacts
  <2>3. n # Null /\ t[n].red
    BY <2>2 DEF IsRed
  <2>4. n \in L /\ t[n].up = w
    BY <1>1, <1>2, <2>1, <2>3, ChildFacts
  <2>5. n # w /\ n # xp /\ n # x
    BY <1>1, <1>2, <2>4 DEF NoLoop
  <2>6. Hinge(t, L, w, Other(s), n)
    <3>1. t[w][Other(Other(s))] # Null /\ t[w][Other(Other(s))] = n
      BY <1>1, <2>1, <2>3
    <3>2. Hinge(t, L, w, Other(s), t[w][Other(Other(s))])
      BY <1>1, <1>2, <3>1, NoLoopHinge
    <3> QED BY <3>1, <3>2
  <2>7. PICK u : u = Lift(t, w, Other(s)) /\ LiftView(t, u, L, w, Other(s), n)
    BY <1>1, <2>6, LiftViews
  <2>8. u = RaiseNephew(t, w, s)
    BY <1>4, <2>7 DEF RaiseNephew
  <2>9. PICK G : Heights(u, L, G, xp, s)
    BY <1>1, <1>2, <2>3, <2>5, <2>6, <2>7, LiftHeights
  <2>10. ~ IsRed(t, t[n][Other(s)])
    <3>1. SUFFICES ASSUME t[n][Other(s)] # Null PROVE ~ t[t[n][Other(s)]].red
      BY DEF IsRed
    <3>2. t[n][Other(s)] \in L /\ t[t[n][Other(s)]].up = n
      BY <3>1, <1>1, <2>4, ChildFacts
    <3>3. t[n][Other(s)] # x
      BY <3>2, <1>1, <2>5
    <3> QED BY <3>2, <3>3, <1>1, <2>3, <2>5 DEF Colors
  <2>11. Colors(u, L, x, x)
    BY <1>1, <1>4, <2>6, <2>7, <2>10, LiftColors
  <2>12. /\ Shape(u, L) /\ Turned(t, u, L, w, n, Other(s), t[n][Other(s)])
         /\ \A m \in Node : u[m].red = IF m = w THEN TRUE ELSE IF m = n THEN FALSE ELSE t[m].red
    BY <2>7 DEF LiftView
  <2>13. /\ u[xp][s] = x /\ u[xp][Other(s)] = n /\ root(u) = root(t) /\ u[n][Other(s)] = w
    BY <2>5, <2>12, <1>1, <1>2 DEF Turned
  <2>14. ~ IsRed(u, x)
    BY <2>5, <2>12, <1>1, <1>2 DEF IsRed
  <2>15. Turn(u, L, G, x, xp, s)
    BY <1>1, <2>9, <2>11, <2>12, <2>13, <2>14 DEF Turn, Erasing, Missing
  <2>16. Ready(u, L, G, x, xp, s)
    <3>1. ~ u[n].red /\ u[w].red /\ w # Null
      BY <1>1, <1>2, <2>4, <2>5, <2>12
    <3> QED BY <3>1, <2>13, <2>15 DEF Ready, IsRed
  <2>17. Keeps(t, u, L)
    BY <1>1, <2>6, <2>12, TurnedKeeps
  <2> QED BY <2>8, <2>16, <2>17
<1> QED BY <1>3, <1>4

(* The last turn: the sibling w comes up in the parent's colour, and its red *)
(* child f makes up for the missing node.                                  *)
LEMMA SettleKeeps ==
  ASSUME NEW t, NEW L, NEW H, NEW x, NEW xp, NEW s, Ready(t, L, H, x, xp, s)
  PROVE  /\ Keeps(t, Settle(t, xp, s), L) /\ Balanced(Settle(t, xp, s), L)
         /\ x \in L => ~ Settle(t, xp, s)[x].red
<1>0. Turn(t, L, H, x, xp, s)
  BY DEF Ready
<1>1. /\ Shape(t, L) /\ Heights(t, L, H, xp, s) /\ Colors(t, L, x, x) /\ NoLoop(t, L)
      /\ xp \in L /\ s \in Sides /\ Other(s) \in Sides /\ Other(s) # s /\ Other(Other(s)) = s
      /\ t[xp][s] = x /\ x # xp /\ x # root(t) /\ x \in Ptr
      /\ x \in L => t[x].up = xp /\ ~ t[x].red
      /\ x \notin L => x = Null
      /\ t[xp].up # x /\ t[xp].up # xp
      /\ L \subseteq Node /\ L \subseteq Ptr /\ Null \notin L /\ Header \notin L /\ t \in Trees
      /\ Header \in Node /\ Null \in Ptr
  BY <1>0, TurnFacts, ShapeFacts
<1>2. PICK w \in L : /\ t[xp][Other(s)] = w /\ t[w].up = xp /\ w # x /\ w # xp
                    /\ H[w] \in Nat /\ H[x] \in Nat /\ H[xp] \in Nat
                    /\ H[w] = H[x] + 1 /\ H[xp] = H[w] + Weight(t, xp)
                    /\ Hinge(t, L, xp, s, w)
  BY <1>0, SiblingFacts
<1>3. PICK f, c : f = t[w][Other(s)] /\ c = t[w][s]
  OBVIOUS
<1>4. /\ ~ t[w].red /\ f \in L /\ t[f].red /\ t[f].up = w /\ t[w][Other(s)] = f /\ f # Null
      /\ t[w][s] = c /\ c # f /\ c \in Ptr /\ (c # Null => t[c].up = w)
  <2>1. ~ t[w].red /\ f # Null /\ t[f].red
    BY <1>2, <1>3 DEF Ready, IsRed
  <2>2. f \in L /\ t[f].up = w
    BY <1>1, <1>3, <2>1, ChildFacts
  <2>3. c # f /\ c \in Ptr /\ (c # Null => t[c].up = w)
    BY <1>1, <1>3, <2>1, ChildFacts
  <2> QED BY <1>3, <2>1, <2>2, <2>3
<1>5. f # w /\ f # xp /\ f # x /\ c # w /\ c # xp
  BY <1>1, <1>2, <1>4 DEF NoLoop
<1>6. PICK r, a, b, d, u :
        /\ r = t[xp].red /\ a = Paint(t, w, r) /\ b = Paint(a, xp, FALSE) /\ d = Paint(b, f, FALSE)
        /\ u = Rotate(d, xp, s)
  OBVIOUS
<1>7. u = Settle(t, xp, s)
  <2>1. a = Paint(t, t[xp][Other(s)], t[xp].red) /\ f = t[t[xp][Other(s)]][Other(s)]
    BY <1>2, <1>4, <1>6
  <2>2. Blacken(b, f) = d
    BY <1>4, <1>6 DEF Blacken
  <2> QED BY <1>6, <2>1, <2>2 DEF Settle
<1>8. r \in BOOLEAN /\ FALSE \in BOOLEAN /\ w \in Node /\ xp \in Node /\ f \in Node
  BY <1>1, <1>2, <1>4, <1>6 DEF Trees
<1>9. Paints(t, a, w, r)
  BY <1>1, <1>6, <1>8, PaintFields
<1>10. a \in Trees
  BY <1>9 DEF Paints
<1>11. Paints(a, b, xp, FALSE)
  BY <1>6, <1>8, <1>10, PaintFields
<1>12. b \in Trees
  BY <1>11 DEF Paints
<1>13. Paints(b, d, f, FALSE)
  BY <1>6, <1>8, <1>12, PaintFields
<1>14. SamePointers(t, d)
  BY <1>9, <1>11, <1>13, PaintsSame, SameTrans
<1>15. \A n \in Node : d[n].red = IF n = f \/ n = xp THEN FALSE ELSE IF n = w THEN r ELSE t[n].red
  <2> TAKE n \in Node
  <2>1. d[n].red = IF n = f THEN FALSE ELSE b[n].red
    BY <1>13 DEF Paints
  <2>2. b[n].red = IF n = xp THEN FALSE ELSE a[n].red
    BY <1>11 DEF Paints
  <2>3. a[n].red = IF n = w THEN r ELSE t[n].red
    BY <1>9 DEF Paints
  <2> QED BY <2>1, <2>2, <2>3
<1>16. d[Header].red
  BY <1>1, <1>2, <1>4, <1>15 DEF Shape
<1>17. /\ Shape(u, L) /\ Turned(t, u, L, xp, w, s, c)
       /\ \A n \in Node : u[n].red = d[n].red
  <2>1. /\ Shape(Rotate(d, xp, s), L) /\ Turned(t, Rotate(d, xp, s), L, xp, w, s, t[w][s])
        /\ \A n \in Node : Rotate(d, xp, s)[n].red = d[n].red
    BY <1>1, <1>2, <1>14, <1>16, RotateAfter
  <2> QED BY <2>1, <1>4, <1>6
<1>18. Keeps(t, u, L)
  BY <1>1, <1>2, <1>3, <1>17, TurnedKeeps
<1>19. /\ u[xp][s] = x /\ u[xp][Other(s)] = c /\ u[w][s] = xp /\ u[w][Other(s)] = f
       /\ u[xp].up = w /\ u[w].up = t[xp].up
       /\ c # Null => c \in L /\ u[c].up = xp
       /\ \A n \in L : n # xp /\ n # w /\ n # c => u[n].up = t[n].up
  BY <1>1, <1>4, <1>17 DEF Turned
<1>34. /\ \A n \in Node : u[n].red = IF n = f \/ n = xp THEN FALSE ELSE IF n = w THEN r ELSE t[n].red
       /\ r = t[xp].red
  <2>1. r = t[xp].red
    BY <1>6
  <2>2. \A n \in Node : u[n].red = d[n].red
    BY <1>17
  <2> QED BY <2>1, <2>2, <1>15
<1>20. /\ Weight(t, w) = 1 /\ Weight(t, f) = 0 /\ Weight(u, xp) = 1 /\ Weight(u, f) = 1
       /\ Weight(u, w) = Weight(t, xp) /\ Weight(t, xp) \in Nat
       /\ \A n \in L : n # xp /\ n # w /\ n # f => Weight(u, n) = Weight(t, n)
  <2>1. ~ u[xp].red /\ ~ u[f].red /\ (u[w].red <=> t[xp].red)
    BY <1>2, <1>5, <1>8, <1>34
  <2>2. \A n \in L : n # xp /\ n # w /\ n # f => u[n].red = t[n].red
    BY <1>1, <1>34
  <2> QED BY <2>1, <2>2, <1>4 DEF Weight
<1>21. /\ H[c] \in Nat /\ H[f] \in Nat /\ H[c] = H[x] /\ H[f] = H[x] /\ H[xp] = H[x] + 1 + Weight(t, xp)
  <2>1. /\ H[w] = H[c] + Gap(xp, s, w, s) + Weight(t, w)
        /\ H[w] = H[f] + Gap(xp, s, w, Other(s)) + Weight(t, w)
        /\ H[c] \in Nat /\ H[f] \in Nat
    BY <1>1, <1>4, LevelFacts
  <2>2. Gap(xp, s, w, s) = 0 /\ Gap(xp, s, w, Other(s)) = 0
    BY <1>2 DEF Gap
  <2> QED BY <2>1, <2>2, <1>2, <1>20
<1>22. /\ H \in [Ptr -> Nat] /\ H[Null] = 0 /\ Bounded(L, H) /\ xp \in Ptr /\ w \in Ptr /\ f \in Ptr
       /\ xp # Null /\ w # Null
  BY <1>1, <1>2, <1>4 DEF Heights
<1>23. PICK a1, a2, a3 : a1 = H[x] + 1 /\ a2 = H[xp] /\ a3 = H[f] + 1
  OBVIOUS
<1>24. a1 \in Nat /\ a2 \in Nat /\ a3 \in Nat /\ a3 = a1 /\ a2 = a1 + Weight(t, xp)
  BY <1>2, <1>21, <1>23
<1>25. PICK G : Put(H, G, xp, a1, w, a2, f, a3)
  BY <1>2, <1>5, <1>22, <1>24, HeightPut
<1>26. Bounded(L, G)
  BY <1>1, <1>22, <1>25, BoundedPut
<1>27. /\ G \in [Ptr -> Nat] /\ G[xp] = a1 /\ G[w] = a2 /\ G[f] = a3 /\ G[w] = H[xp]
       /\ \A n \in Ptr : n # xp /\ n # w /\ n # f => G[n] = H[n]
  BY <1>23, <1>25 DEF Put
<1>28. G[Null] = 0 /\ G[x] = H[x] /\ G[c] = H[x]
  BY <1>1, <1>2, <1>4, <1>5, <1>21, <1>22, <1>27
<1>29. \A q \in Sides : q = s \/ q = Other(s)
  BY <1>1, SideFacts
<1>30. Level(u, G, Header, "left", xp)
  <2>1. \A q \in Sides : Gap(Header, "left", xp, q) = 0
    BY <1>1 DEF Gap
  <2>2. \A q \in Sides : G[u[xp][q]] = H[x]
    BY <1>19, <1>28, <1>29
  <2> QED BY <2>1, <2>2, <1>2, <1>20, <1>23, <1>27 DEF Level
<1>31. Level(u, G, Header, "left", w)
  <2>1. \A q \in Sides : Gap(Header, "left", w, q) = 0
    BY <1>1, <1>2 DEF Gap
  <2>2. \A q \in Sides : G[u[w][q]] = a1
    BY <1>19, <1>24, <1>27, <1>29
  <2>3. /\ G[w] = a1 + Weight(t, xp) /\ Weight(u, w) = Weight(t, xp)
        /\ a1 \in Nat /\ Weight(t, xp) \in Nat
    BY <1>20, <1>24, <1>27
  <2> QED BY <2>1, <2>2, <2>3 DEF Level
<1>32. ASSUME NEW n \in L, n # xp, n # w PROVE Level(u, G, Header, "left", n)
  <2>1. ASSUME NEW q \in Sides PROVE G[u[n][q]] = H[t[n][q]]
    <3>1. Shape(t, L) /\ Hinge(t, L, xp, s, w) /\ Turned(t, u, L, xp, w, s, c)
      BY <1>1, <1>2, <1>17
    <3>2. G[w] = H[xp] /\ \A k \in Ptr : k # xp /\ k # w /\ k # f => G[k] = H[k]
      BY <1>27
    <3>3. f = w \/ (f = t[w][Other(s)] /\ f # Null)
      BY <1>4
    <3>4. n # xp /\ n # w
      BY <1>32
    <3> QED BY <3>1, <3>2, <3>3, <3>4, ElsewhereHeights
  <2>2. \A q \in Sides : /\ H[n] = H[t[n][q]] + Gap(xp, s, n, q) + Weight(t, n)
                         /\ H[t[n][q]] \in Nat /\ H[n] \in Nat
    BY <1>1, LevelFacts
  <2>3. \A q \in Sides : Gap(xp, s, n, q) = 0 /\ Gap(Header, "left", n, q) = 0
    BY <1>1, <1>32 DEF Gap
  <2>4. CASE n = f
    <3>1. G[n] = H[n] + 1 /\ Weight(t, n) = 0 /\ Weight(u, n) = 1
      BY <2>4, <1>20, <1>23, <1>27
    <3> QED BY <3>1, <2>1, <2>2, <2>3 DEF Level
  <2>5. CASE n # f
    <3>1. G[n] = H[n] /\ Weight(u, n) = Weight(t, n)
      BY <2>5, <1>1, <1>20, <1>27, <1>32
    <3> QED BY <3>1, <2>1, <2>2, <2>3 DEF Level
  <2> QED BY <2>4, <2>5
<1>33. Heights(u, L, G, Header, "left")
  BY <1>26, <1>27, <1>28, <1>30, <1>31, <1>32 DEF Heights
<1>35. Colors(u, L, Null, Null)
  <2> SUFFICES ASSUME NEW n \in L, u[n].red PROVE ~ u[u[n].up].red
    BY DEF Colors
  <2>1. n # f /\ n # xp /\ t[n].up \in Node /\ n \in Node
    BY <1>1, <1>34, ParentFacts
  <2>2. CASE n = w
    <3>1. t[xp].red /\ u[w].up = t[xp].up /\ t[xp].up \in Node
      <4>1. u[w].red /\ w # f /\ w # xp
        BY <2>2, <1>2, <1>5
      <4>2. t[xp].red
        BY <4>1, <1>8, <1>34
      <4> QED BY <4>2, <1>1, <1>19, ParentFacts
    <3>2. ~ t[t[xp].up].red
      BY <3>1, <1>1 DEF Colors
    <3>3. t[xp].up # w
      BY <1>1, <1>2 DEF NoLoop
    <3> QED BY <2>2, <3>1, <3>2, <3>3, <1>34
  <2>3. CASE n # w /\ n = c
    BY <2>3, <1>1, <1>8, <1>19, <1>34
  <2>4. CASE n # w /\ n # c
    <3>1. u[n].up = t[n].up /\ t[n].red /\ n # x
      BY <2>1, <2>4, <1>1, <1>19, <1>34
    <3>2. t[n].up # w
      <4>1. SUFFICES ASSUME t[n].up = w PROVE FALSE
        OBVIOUS
      <4>2. n # root(t)
        BY <4>1, <1>1, <1>2, ParentFacts
      <4>3. PICK q \in Sides : t[w][q] = n
        BY <4>1, <4>2, <1>1, ParentFacts
      <4> QED BY <4>3, <2>1, <2>4, <1>4, <1>29
    <3>3. t[n].up = x => ~ t[t[n].up].red
      BY <2>1, <1>1, ShapeFacts
    <3>4. ~ t[t[n].up].red
      BY <3>1, <3>3, <1>1 DEF Colors
    <3> QED BY <3>1, <3>2, <3>4, <2>1, <1>34
  <2> QED BY <2>2, <2>3, <2>4
<1>36. x \in L => ~ u[x].red
  BY <1>1, <1>2, <1>34
<1>37. Balanced(u, L)
  BY <1>17, <1>33, <1>35 DEF Balanced
<1> QED BY <1>7, <1>18, <1>36, <1>37

LEMMA EraseEnds ==
  ASSUME NEW t, NEW L, NEW H, NEW x, NEW xp, NEW s, Erasing(t, L, H, x, xp, s),
         x = root(t) \/ IsRed(t, x)
  PROVE  Keeps(t, Blacken(t, x), L) /\ Balanced(Blacken(t, x), L)
<1>1. /\ Shape(t, L) /\ Heights(t, L, H, xp, s) /\ Colors(t, L, x, x)
      /\ x \in L \cup {Null} /\ Missing(t, L, x, xp, s)
      /\ L \subseteq Node /\ Null \notin L /\ Header \notin L
  BY ShapeFacts DEF Erasing
<1>2. CASE x = Null
  <2>1. Blacken(t, x) = t /\ L = {}
    BY <1>1, <1>2 DEF Blacken, IsRed, Shape
  <2>2. Heights(t, L, H, Header, "left") /\ Colors(t, L, Null, Null)
    BY <1>1, <2>1 DEF Heights, Colors
  <2>3. Balanced(t, L)
    BY <1>1, <2>2 DEF Balanced
  <2>4. Keeps(t, t, L)
    BY DEF Keeps
  <2> QED BY <2>1, <2>3, <2>4
<1>3. CASE x # Null /\ t[x].red
  <2>1. x \in L /\ Blacken(t, x) = Paint(t, x, FALSE)
    BY <1>1, <1>3 DEF Blacken
  <2>2. t[x].up # x
    <3>1. CASE x = root(t)
      BY <3>1, <2>1, <1>1, ParentFacts
    <3>2. CASE x # root(t)
      <4>1. xp \in L /\ s \in Sides /\ t[xp][s] = x
        BY <3>2, <1>1 DEF Missing
      <4>2. t[x].up = xp
        BY <4>1, <2>1, <1>1, ParentFacts
      <4>3. xp # x
        <5>1. /\ H[xp] = H[t[xp][s]] + Gap(xp, s, xp, s) + Weight(t, xp)
              /\ H[xp] \in Nat /\ H[t[xp][s]] \in Nat
          BY <4>1, <1>1, LevelFacts
        <5>2. Gap(xp, s, xp, s) = 1 /\ Weight(t, xp) \in Nat
          BY DEF Gap, Weight
        <5> QED BY <5>1, <5>2, <4>1
      <4> QED BY <4>2, <4>3
    <3> QED BY <3>1, <3>2
  <2> QED BY <2>1, <2>2, <1>1, <1>3, BlackenBalances
<1>4. CASE x # Null /\ ~ t[x].red
  <2>1. x \in L /\ x \in Node /\ Blacken(t, x) = Paint(t, x, FALSE) /\ x = root(t) /\ xp = Header
    BY <1>1, <1>4 DEF Blacken, IsRed, Missing
  <2>2. Heights(t, L, H, Header, "left")
    <3>1. \A n \in L : \A q \in Sides : Gap(xp, s, n, q) = Gap(Header, "left", n, q)
      BY <1>1, <2>1 DEF Gap
    <3> QED BY <3>1, <1>1 DEF Heights, Level
  <2>3. Colors(t, L, Null, Null)
    BY <1>1, <1>4 DEF Colors
  <2>4. Balanced(t, L)
    BY <1>1, <2>2, <2>3 DEF Balanced
  <2> QED BY <2>1, <2>4, <1>4, BlackStays
<1> QED BY <1>2, <1>3, <1>4

(***************************************************************************)
(* A measure that grows on the way up: twice the black height, and one more *)
(* for a red node.                                                         *)
(***************************************************************************)
Ranked(t, L, R, m) ==
  /\ m \in Nat
  /\ \A n \in L : /\ R[n] \in Nat /\ R[n] <= m
                  /\ n # root(t) => R[n] < R[t[n].up]

LEMMA Ranks ==
  ASSUME NEW t, NEW L, Balanced(t, L)
  PROVE  \E R, m : Ranked(t, L, R, m)
<1>1. PICK H : Shape(t, L) /\ Heights(t, L, H, Header, "left") /\ Colors(t, L, Null, Null)
  BY DEF Balanced
<1>2. PICK b \in Nat : \A n \in L : H[n] <= b
  BY <1>1 DEF Heights, Bounded
<1>3. Null \notin L /\ Header \notin L /\ L \subseteq Ptr /\ Null \notin Node
  BY <1>1, ShapeFacts
<1> DEFINE R == [n \in L |-> H[n] + H[n] + IF t[n].red THEN 1 ELSE 0]
           m == b + b + 1
<1>4. m \in Nat
  OBVIOUS
<1>5. ASSUME NEW n \in L PROVE R[n] \in Nat /\ R[n] <= m
  <2>1. H[n] \in Nat /\ H[n] <= b
    BY <1>1, <1>2, LevelFacts
  <2> QED BY <2>1
<1>6. ASSUME NEW n \in L, n # root(t) PROVE R[n] < R[t[n].up]
  <2>1. PICK p, q : p = t[n].up /\ q = Side(t, n, p)
    OBVIOUS
  <2>2. p \in L /\ q \in Sides /\ t[p][q] = n
    BY <1>1, <1>6, <2>1, ParentFacts
  <2>3. H[p] = H[t[p][q]] + Gap(Header, "left", p, q) + Weight(t, p) /\ H[p] \in Nat /\ H[n] \in Nat
    BY <1>1, <2>2, LevelFacts
  <2>4. Gap(Header, "left", p, q) = 0
    BY <2>2, <1>3 DEF Gap
  <2>5. t[n].red => ~ t[p].red
    BY <1>1, <1>3, <2>1, <2>2 DEF Colors
  <2>6. H[p] = H[n] + Weight(t, p)
    BY <2>2, <2>3, <2>4 DEF Weight
  <2>7. CASE t[p].red
    <3>1. H[p] = H[n] /\ ~ t[n].red
      BY <2>3, <2>5, <2>6, <2>7 DEF Weight
    <3>2. R[p] = H[n] + H[n] + 1 /\ R[n] = H[n] + H[n] + 0
      BY <3>1, <2>2, <2>7
    <3> QED BY <3>2, <2>1, <2>3
  <2>8. CASE ~ t[p].red
    <3>1. H[p] = H[n] + 1
      BY <2>6, <2>8 DEF Weight
    <3>2. R[p] = H[p] + H[p] + 0 /\ R[n] \in {H[n] + H[n] + 0, H[n] + H[n] + 1}
      BY <2>2, <2>8
    <3> QED BY <3>1, <3>2, <2>1, <2>3
  <2> QED BY <2>7, <2>8
<1> HIDE DEF R, m
<1>7. Ranked(t, L, R, m)
  BY <1>4, <1>5, <1>6 DEF Ranked
<1> QED BY <1>7

(* A set of nodes that goes on upwards from every node but top reaches top. *)
LEMMA UpTo ==
  ASSUME NEW t, NEW L, NEW R, NEW m, Ranked(t, L, R, m), NEW C, C \subseteq L, C # {},
         NEW top, \A n \in C : n # top => n # root(t) /\ t[n].up \in C
  PROVE  top \in C
<1> SUFFICES ASSUME top \notin C PROVE FALSE
  OBVIOUS
<1> DEFINE T == {m - R[n] : n \in C}
<1>1. \A n \in C : m - R[n] \in Nat /\ R[n] \in Nat /\ m \in Nat
  BY DEF Ranked
<1>2. T \subseteq Nat /\ T # {}
  BY <1>1
<1>3. PICK k \in T : \A j \in T : k <= j
  <2> HIDE DEF T
  <2> QED BY <1>2, NatMin
<1>4. PICK n \in C : k = m - R[n]
  OBVIOUS
<1>5. t[n].up \in C /\ R[n] < R[t[n].up]
  BY DEF Ranked
<1>6. m - R[n] <= m - R[t[n].up]
  BY <1>3, <1>4, <1>5
<1>7. R[n] \in Nat /\ R[t[n].up] \in Nat /\ m \in Nat
  BY <1>1, <1>5
<1> QED BY <1>5, <1>6, <1>7

LEMMA RankDown ==
  ASSUME NEW t, NEW L, Shape(t, L), NEW R, NEW m, Ranked(t, L, R, m), NEW n \in L, NEW s \in Sides,
         t[n][s] # Null
  PROVE  t[n][s] \in L /\ R[t[n][s]] < R[n]
<1>1. PICK c : c = t[n][s]
  OBVIOUS
<1>2. c \in L /\ t[c].up = n
  BY <1>1, ChildFacts
<1>3. c # root(t)
  <2>1. t[n][s] = c
    BY <1>1
  <2> QED BY <2>1, <1>2, ParentFacts
<1> QED BY <1>1, <1>2, <1>3 DEF Ranked

(* Going down on one side ends in a set that holds the way. *)
LEMMA DescendWalk ==
  ASSUME NEW t \in Trees, NEW s \in Sides
  PROVE  \E d : /\ \A x \in Node : Descend(t, x, s) = d[x]
                /\ \A n \in Node : d[n] = IF t[n][s] = Null THEN n ELSE d[t[n][s]]
<1>0. PICK S, stop, nx : S = Node /\ stop = {n \in Node : t[n][s] = Null} /\ nx = [n \in Node |-> t[n][s]]
  OBVIOUS
<1>1. GoesOn(S, stop, nx)
  BY <1>0 DEF Trees, Ptr, Sides, GoesOn
<1>2. PICK g : Follows(g, S, stop, nx)
  BY <1>1, FollowExists
<1>a. \A n \in Node : (IF n \in stop THEN n ELSE g[nx[n]]) = IF t[n][s] = Null THEN n ELSE g[t[n][s]]
  BY <1>0
<1>b. [n \in S |-> IF n \in stop THEN n ELSE g[nx[n]]] = [n \in Node |-> IF t[n][s] = Null THEN n ELSE g[t[n][s]]]
  BY <1>0, <1>a
<1>3. g = [n \in Node |-> IF t[n][s] = Null THEN n ELSE g[t[n][s]]]
  BY <1>2, <1>b DEF Follows
<1> DEFINE d == CHOOSE d : d = [n \in Node |-> IF t[n][s] = Null THEN n ELSE d[t[n][s]]]
<1>4. d = [n \in Node |-> IF t[n][s] = Null THEN n ELSE d[t[n][s]]]
  BY <1>3
<1>5. \A x \in Node : Descend(t, x, s) = d[x]
  BY DEF Descend
<1> HIDE DEF d
<1>6. \A n \in Node : d[n] = IF t[n][s] = Null THEN n ELSE d[t[n][s]]
  BY <1>4
<1> QED BY <1>5, <1>6

LEMMA DescendEnds ==
  ASSUME NEW t, NEW L, Shape(t, L), NEW R, NEW m, Ranked(t, L, R, m), NEW s \in Sides,
         NEW A, A \subseteq L, \A n \in A : t[n][s] # Null => t[n][s] \in A, NEW x \in A
  PROVE  Descend(t, x, s) \in A /\ t[Descend(t, x, s)][s] = Null
<1>1. t \in Trees /\ L \subseteq Node
  BY ShapeFacts
<1>2. PICK d : /\ \A n \in Node : Descend(t, n, s) = d[n]
               /\ \A n \in Node : d[n] = IF t[n][s] = Null THEN n ELSE d[t[n][s]]
  BY <1>1, DescendWalk
<1>0. PICK S, stop, nx : S = Node /\ stop = {n \in Node : t[n][s] = Null} /\ nx = [n \in Node |-> t[n][s]]
  OBVIOUS
<1>3. Reaches(d, S, stop, nx)
  BY <1>0, <1>2 DEF Reaches
<1>4. \A n \in A : R[n] \in Nat
  BY DEF Ranked
<1>5. Falls(A, stop, nx, R)
  BY <1>0, <1>1, <1>4, RankDown DEF Falls
<1>6. A \subseteq S
  BY <1>0, <1>1
<1>7. d[x] \in A /\ d[x] \in stop
  BY <1>3, <1>5, <1>6, FollowEnds
<1> QED BY <1>0, <1>1, <1>2, <1>7

(***************************************************************************)
(* Ways through an ordered tree: what comes before and after a node, and     *)
(* where the search for a key ends.                                        *)
(***************************************************************************)
Ordered(t, L, K, R, m) == Shape(t, L) /\ Bounds(t, L, K) /\ Edges(t, L, K) /\ Ranked(t, L, R, m)

LEMMA OrderedFacts ==
  ASSUME NEW t, NEW L, NEW K, NEW R, NEW m, Ordered(t, L, K, R, m)
  PROVE  /\ Shape(t, L) /\ Bounds(t, L, K) /\ Edges(t, L, K) /\ Ranked(t, L, R, m)
         /\ t \in Trees /\ L \subseteq Keys /\ L \subseteq Node /\ Header \in Node
         /\ Header \notin L /\ Null \notin L /\ Null \notin Node /\ Header # Null
BY ShapeFacts DEF Ordered

LEMMA UpFacts ==
  ASSUME NEW t, NEW L, NEW K, NEW R, NEW m, Ordered(t, L, K, R, m), NEW n \in L, n # root(t)
  PROVE  \E p \in L, q \in Sides : /\ t[n].up = p /\ t[p][q] = n /\ t[p][Other(q)] # n
                                   /\ K[n][q] = K[p][q] /\ K[n][Other(q)] = p
                                   /\ R[p] \in Nat /\ R[n] \in Nat /\ m \in Nat
                                   /\ R[n] < R[p] /\ R[p] <= m
<1>1. Shape(t, L) /\ Bounds(t, L, K) /\ Ranked(t, L, R, m) /\ Null \notin L
  BY OrderedFacts
<1>2. PICK p, q : p = t[n].up /\ q = Side(t, n, p)
  OBVIOUS
<1>3. p \in L /\ q \in Sides /\ t[p][q] = n
  BY <1>1, <1>2, ParentFacts
<1>4. t[p][Other(q)] # n
  BY <1>1, <1>3, ParentFacts
<1>5. t[p][q] # Null
  BY <1>1, <1>3
<1>6. K[n][q] = K[p][q] /\ K[n][Other(q)] = p
  BY <1>1, <1>3, <1>5 DEF Bounds
<1>7. /\ R[p] \in Nat /\ R[n] \in Nat /\ m \in Nat
      /\ R[n] < R[p] /\ R[p] <= m
  BY <1>1, <1>2, <1>3 DEF Ranked
<1> QED BY <1>2, <1>3, <1>4, <1>6, <1>7

(* The subtree between k and the other bound hangs from Top. *)
Top(t, s, k) == IF k = Header THEN root(t) ELSE t[k][Other(s)]

LEMMA TopEnds ==
  ASSUME NEW t, NEW L, NEW K, NEW R, NEW m, Ordered(t, L, K, R, m), NEW s \in Sides, NEW a \in L
  PROVE  /\ Top(t, s, K[a][s]) \in L
         /\ Descend(t, Top(t, s, K[a][s]), s) = Descend(t, a, s)
<1>1. /\ Shape(t, L) /\ Bounds(t, L, K) /\ Ranked(t, L, R, m) /\ t \in Trees
      /\ L \subseteq Node /\ Header \notin L /\ Null \notin L
  BY OrderedFacts
<1>2. PICK d : /\ \A n \in Node : Descend(t, n, s) = d[n]
               /\ \A n \in Node : d[n] = IF t[n][s] = Null THEN n ELSE d[t[n][s]]
  BY <1>1, DescendWalk
<1>3. PICK k, top, C : k = K[a][s] /\ top = Top(t, s, k) /\ C = {n \in L : K[n][s] = k /\ d[n] = d[a]}
  OBVIOUS
<1>4. ASSUME NEW n \in C, n # top PROVE n # root(t) /\ t[n].up \in C
  <2>1. n \in L /\ K[n][s] = k /\ d[n] = d[a]
    BY <1>3
  <2>2. n # root(t)
    <3>1. SUFFICES ASSUME n = root(t) PROVE FALSE
      OBVIOUS
    <3>2. K[n][s] = Header
      BY <2>1, <3>1, <1>1 DEF Bounds
    <3> QED BY <2>1, <3>1, <3>2, <1>3, <1>4 DEF Top
  <2>3. PICK p \in L, q \in Sides : /\ t[n].up = p /\ t[p][q] = n
                                    /\ K[n][q] = K[p][q] /\ K[n][Other(q)] = p
    BY <2>1, <2>2, UpFacts
  <2>4. q = s
    <3>1. SUFFICES ASSUME q # s PROVE FALSE
      OBVIOUS
    <3>2. Other(q) = s /\ Other(s) = q
      BY <3>1, SideFacts
    <3>3. k = p
      BY <2>1, <2>3, <3>2
    <3>4. top = n
      BY <2>3, <3>2, <3>3, <1>1, <1>3 DEF Top
    <3> QED BY <3>4, <1>4
  <2>5. d[p] = d[n]
    <3>1. t[p][s] = n /\ n # Null /\ p \in Node
      BY <2>1, <2>3, <2>4, <1>1
    <3> QED BY <3>1, <1>2
  <2>6. K[p][s] = k
    BY <2>1, <2>3, <2>4
  <2>7. p \in C
    BY <2>1, <2>5, <2>6, <1>3
  <2> QED BY <2>2, <2>3, <2>7
<1>5. a \in C /\ C \subseteq L
  BY <1>3
<1>6. C # {}
  BY <1>5
<1>7. top \in C
  BY <1>1, <1>4, <1>5, <1>6, UpTo
<1>8. top \in L /\ d[top] = d[a]
  BY <1>3, <1>7
<1>9. Descend(t, top, s) = Descend(t, a, s)
  BY <1>1, <1>2, <1>8
<1> QED BY <1>3, <1>8, <1>9

(* Of the nodes with one bound only one has no child on that side. *)
LEMMA OneEnds ==
  ASSUME NEW t, NEW L, NEW K, NEW R, NEW m, Ordered(t, L, K, R, m), NEW s \in Sides,
         NEW a \in L, NEW b \in L, K[a][s] = K[b][s], t[a][s] = Null, t[b][s] = Null
  PROVE  a = b
<1>1. Shape(t, L) /\ t \in Trees /\ L \subseteq Node
  BY OrderedFacts
<1>2. PICK d : /\ \A n \in Node : Descend(t, n, s) = d[n]
               /\ \A n \in Node : d[n] = IF t[n][s] = Null THEN n ELSE d[t[n][s]]
  BY <1>1, DescendWalk
<1>3. Descend(t, a, s) = a /\ Descend(t, b, s) = b
  BY <1>1, <1>2
<1>4. Descend(t, Top(t, s, K[a][s]), s) = Descend(t, a, s)
  BY TopEnds
<1>5. Descend(t, Top(t, s, K[b][s]), s) = Descend(t, b, s)
  BY TopEnds
<1> QED BY <1>3, <1>4, <1>5

(* Beneath a child of n, on the side of n: the neighbour of n. *)
LEMMA DescendNext ==
  ASSUME NEW t, NEW L, NEW K, NEW R, NEW m, Ordered(t, L, K, R, m), NEW s \in Sides,
         NEW n \in L, t[n][Other(s)] # Null
  PROVE  \E y \in L : /\ y = Descend(t, t[n][Other(s)], s)
                      /\ t[y][s] = Null /\ K[y][s] = n
<1>1. /\ Shape(t, L) /\ Bounds(t, L, K) /\ Ranked(t, L, R, m)
  BY OrderedFacts
<1>2. Other(s) \in Sides /\ Other(Other(s)) = s
  BY SideFacts
<1>3. PICK A, c : A = {a \in L : K[a][s] = n} /\ c = t[n][Other(s)]
  OBVIOUS
<1>4. c \in L
  BY <1>1, <1>2, <1>3, ChildFacts
<1>5. K[c][s] = n
  BY <1>1, <1>2, <1>3 DEF Bounds
<1>6. c \in A /\ A \subseteq L
  BY <1>3, <1>4, <1>5
<1>7. ASSUME NEW a \in A, t[a][s] # Null PROVE t[a][s] \in A
  <2>1. a \in L /\ K[a][s] = n
    BY <1>3
  <2>2. t[a][s] \in L
    BY <1>1, <1>7, <2>1, ChildFacts
  <2>3. K[t[a][s]][s] = n
    BY <1>1, <1>7, <2>1 DEF Bounds
  <2> QED BY <2>2, <2>3, <1>3
<1>8. Descend(t, c, s) \in A /\ t[Descend(t, c, s)][s] = Null
  BY <1>1, <1>6, <1>7, DescendEnds
<1> QED BY <1>3, <1>8

LEMMA DescendEdge ==
  ASSUME NEW t, NEW L, NEW K, NEW R, NEW m, Ordered(t, L, K, R, m), NEW s \in Sides, root(t) # Null
  PROVE  /\ Descend(t, root(t), s) = t[Header][s] /\ t[Header][s] \in L
         /\ K[t[Header][s]][s] = Header /\ t[t[Header][s]][s] = Null
<1>1. /\ Shape(t, L) /\ Bounds(t, L, K) /\ Ranked(t, L, R, m) /\ L \subseteq Node /\ t \in Trees
  BY OrderedFacts
<1>2. PICK e : e = t[Header][s]
  OBVIOUS
<1>3. e \in L /\ t[e][s] = Null /\ K[e][s] = Header
  BY <1>2, OrderedFacts DEF Edges
<1>4. Top(t, s, K[e][s]) = root(t)
  BY <1>3 DEF Top
<1>5. Descend(t, root(t), s) = Descend(t, e, s)
  BY <1>3, <1>4, TopEnds
<1>6. PICK d : /\ \A n \in Node : Descend(t, n, s) = d[n]
               /\ \A n \in Node : d[n] = IF t[n][s] = Null THEN n ELSE d[t[n][s]]
  BY <1>1, DescendWalk
<1>7. Descend(t, e, s) = e
  BY <1>1, <1>3, <1>6
<1> QED BY <1>2, <1>3, <1>5, <1>7

(* Every other node without a child on a side has a neighbour above. *)
LEMMA EdgeOnly ==
  ASSUME NEW t, NEW L, NEW K, NEW R, NEW m, Ordered(t, L, K, R, m), NEW s \in Sides,
         NEW n \in L, t[n][s] = Null, n # t[Header][s]
  PROVE  K[n][s] \in L
<1>1. Shape(t, L) /\ Bounds(t, L, K)
  BY OrderedFacts
<1>2. root(t) # Null
  BY <1>1 DEF Shape
<1>3. PICK e : e = t[Header][s]
  OBVIOUS
<1>4. e \in L /\ K[e][s] = Header /\ t[e][s] = Null
  BY <1>2, <1>3, DescendEdge
<1>5. K[n][s] # Header
  BY <1>3, <1>4, OneEnds
<1>6. K[n][s] \in L \cup {Header}
  BY <1>1 DEF Bounds
<1> QED BY <1>5, <1>6

(***************************************************************************)
(* Going up.                                                               *)
(***************************************************************************)
(* Every node in the tree is linked, and what else is leads to it.           *)
Covers(t, L) == L \subseteq Linked(t) /\ \A n \in Linked(t) : t[n].up \in Linked(t) \cup {Header}

LEMMA LinkedCovers ==
  ASSUME NEW t, NEW L, Shape(t, L), Linked(t) = L
  PROVE  Covers(t, L)
<1>1. ASSUME NEW n \in L PROVE t[n].up \in L \cup {Header}
  BY ParentFacts
<1> QED BY <1>1 DEF Covers

LEMMA ClimbWalk ==
  ASSUME NEW t, NEW L, Shape(t, L), Covers(t, L), L # {}, NEW s \in Sides
  PROVE  \E c : /\ \A x \in L : Climb(t, x, s) = c[x]
                /\ c[Header] = Header
                /\ \A n \in L : c[n] = IF n = t[t[n].up][s] THEN c[t[n].up] ELSE n
<1>0. /\ L \subseteq Node /\ Header \notin L /\ Null \notin L /\ root(t) \in L
      /\ Header # Null /\ t[root(t)].up = Header
  <2>1. root(t) # Null
    BY DEF Shape
  <2> QED BY <2>1, ShapeFacts DEF Shape
<1>1. PICK S, stop, nx : /\ S = Linked(t) \cup {Header}
                         /\ stop = {n \in S : n # t[t[n].up][s]}
                         /\ nx = [n \in S |-> t[n].up]
  OBVIOUS
<1>2. L \subseteq Linked(t) /\ \A n \in Linked(t) : t[n].up \in S
  BY <1>1 DEF Covers
<1>3. Header \in stop
  <2>1. t[Header].up = root(t)
    BY DEF root
  <2>2. t[root(t)][s] # Header
    BY <1>0, ChildFacts
  <2> QED BY <2>1, <2>2, <1>1
<1>4. GoesOn(S, stop, nx)
  BY <1>1, <1>2, <1>3 DEF GoesOn
<1>5. PICK g : Follows(g, S, stop, nx)
  BY <1>4, FollowExists
<1>6. \A n \in S : (IF n \in stop THEN n ELSE g[nx[n]]) = IF n = t[t[n].up][s] THEN g[t[n].up] ELSE n
  BY <1>1
<1>7. g = [n \in Linked(t) \cup {Header} |-> IF n = t[t[n].up][s] THEN g[t[n].up] ELSE n]
  <2>1. g = [n \in S |-> IF n \in stop THEN n ELSE g[nx[n]]]
    BY <1>5 DEF Follows
  <2>2. [n \in S |-> IF n \in stop THEN n ELSE g[nx[n]]]
        = [n \in S |-> IF n = t[t[n].up][s] THEN g[t[n].up] ELSE n]
    BY <1>6
  <2> QED BY <2>1, <2>2, <1>1
<1> DEFINE c == CHOOSE c : c = [n \in Linked(t) \cup {Header} |->
                                  IF n = t[t[n].up][s] THEN c[t[n].up] ELSE n]
<1>8. c = [n \in Linked(t) \cup {Header} |-> IF n = t[t[n].up][s] THEN c[t[n].up] ELSE n]
  BY <1>7
<1>9. \A x \in L : Climb(t, x, s) = c[x]
  BY DEF Climb
<1> HIDE DEF c
<1>10. \A n \in L : c[n] = IF n = t[t[n].up][s] THEN c[t[n].up] ELSE n
  BY <1>2, <1>8
<1>11. c[Header] = Header
  <2>1. Header # t[t[Header].up][s]
    BY <1>1, <1>3
  <2> QED BY <2>1, <1>8
<1> QED BY <1>9, <1>10, <1>11

LEMMA ClimbEnds ==
  ASSUME NEW t, NEW L, NEW K, NEW R, NEW m, Ordered(t, L, K, R, m), Covers(t, L),
         NEW s \in Sides, NEW x \in L, K[x][s] \in L
  PROVE  \E e \in L : e = Climb(t, x, s) /\ t[e].up = K[x][s] /\ t[K[x][s]][Other(s)] = e
<1>1. Shape(t, L) /\ Bounds(t, L, K) /\ Ranked(t, L, R, m) /\ Header \notin L
  BY OrderedFacts
<1>2. PICK c : /\ \A n \in L : Climb(t, n, s) = c[n]
               /\ \A n \in L : c[n] = IF n = t[t[n].up][s] THEN c[t[n].up] ELSE n
  BY <1>1, ClimbWalk
<1>3. PICK k, A, S, stop, nx, rank :
        /\ k = K[x][s] /\ A = {n \in L : K[n][s] = k} /\ S = L
        /\ stop = {n \in L : n # t[t[n].up][s]} /\ nx = [n \in L |-> t[n].up]
        /\ rank = [n \in L |-> m - R[n]]
  OBVIOUS
<1>4. Reaches(c, S, stop, nx)
  BY <1>2, <1>3 DEF Reaches
<1>5. ASSUME NEW n \in A
      PROVE  /\ n \in L /\ rank[n] \in Nat
             /\ n \notin stop => t[n].up \in A /\ rank[t[n].up] < rank[n]
             /\ n \in stop => t[n].up = k /\ t[k][Other(s)] = n
  <2>1. n \in L /\ K[n][s] = k /\ k \in L
    BY <1>3
  <2>2. n # root(t)
    <3>1. n = root(t) => K[n][s] = Header
      BY <2>1, <1>1 DEF Bounds, Shape
    <3> QED BY <2>1, <3>1, <1>1
  <2>3. PICK p \in L, q \in Sides : /\ t[n].up = p /\ t[p][q] = n /\ t[p][Other(q)] # n
                                    /\ K[n][q] = K[p][q] /\ K[n][Other(q)] = p
                                    /\ R[p] \in Nat /\ R[n] \in Nat /\ m \in Nat
                                    /\ R[n] < R[p] /\ R[p] <= m
    BY <2>1, <2>2, UpFacts
  <2>4. rank[n] = m - R[n] /\ rank[p] = m - R[p]
    BY <2>1, <1>3
  <2>5. rank[n] \in Nat /\ rank[p] < rank[n]
    BY <2>3, <2>4
  <2>6. CASE q = s
    <3>1. n \notin stop
      BY <2>1, <2>3, <2>6, <1>3
    <3>2. p \in A
      BY <2>1, <2>3, <2>6, <1>3
    <3> QED BY <3>1, <3>2, <2>1, <2>3, <2>5
  <2>7. CASE q # s
    <3>1. Other(q) = s /\ Other(s) = q
      BY <2>7, SideFacts
    <3>2. n \in stop
      BY <2>1, <2>3, <3>1, <1>3
    <3>3. k = p
      BY <2>1, <2>3, <3>1
    <3> QED BY <3>1, <3>2, <3>3, <2>1, <2>3, <2>5
  <2> QED BY <2>6, <2>7
<1>6. Falls(A, stop, nx, rank)
  <2>1. \A n \in A : nx[n] = t[n].up
    BY <1>3
  <2> QED BY <2>1, <1>5 DEF Falls
<1>7. A \subseteq S /\ x \in A
  BY <1>3
<1>8. c[x] \in A /\ c[x] \in stop
  BY <1>4, <1>6, <1>7, FollowEnds
<1>9. c[x] \in L /\ t[c[x]].up = k /\ t[k][Other(s)] = c[x]
  BY <1>5, <1>8
<1> QED BY <1>2, <1>3, <1>9

(***************************************************************************)
(* _Rb_tree_increment and _Rb_tree_decrement.                              *)
(***************************************************************************)
(* What a walk through the tree between two calls may rely on.               *)
Walkable(t, L, K, R, m) ==
  /\ Ordered(t, L, K, R, m) /\ Linked(t) = L /\ L # {}
  /\ NoLoop(t, L) /\ ~ t[root(t)].red

LEMMA WalkableFacts ==
  ASSUME NEW t, NEW L, NEW K, NEW R, NEW m, Walkable(t, L, K, R, m)
  PROVE  /\ Ordered(t, L, K, R, m) /\ Linked(t) = L
         /\ Shape(t, L) /\ NoLoop(t, L)
         /\ root(t) \in L /\ root(t) # Null /\ t[root(t)].up = Header /\ ~ t[root(t)].red
<1>1. Ordered(t, L, K, R, m) /\ Linked(t) = L /\ L # {} /\ NoLoop(t, L) /\ ~ t[root(t)].red
  BY DEF Walkable
<1>2. Shape(t, L)
  BY <1>1, OrderedFacts
<1> QED BY <1>1, <1>2 DEF Shape

LEMMA IncrementUp ==
  ASSUME NEW t, NEW L, NEW K, NEW R, NEW m, Ordered(t, L, K, R, m), Covers(t, L),
         NEW x \in L, t[x].right = Null, K[x]["right"] \in L
  PROVE  _Rb_tree_increment(t, x) = K[x]["right"]
<1>1. Shape(t, L) /\ Ranked(t, L, R, m) /\ Null \notin L
  BY OrderedFacts
<1>2. "right" \in Sides /\ Other("right") = "left"
  BY DEF Sides, Other
<1>3. PICK c, k : c = Climb(t, x, "right") /\ k = K[x]["right"]
  OBVIOUS
<1>4. c \in L /\ t[c].up = k /\ k \in L /\ t[k]["left"] = c
  BY <1>1, <1>2, <1>3, ClimbEnds
<1>5. t[c].right # k
  <2>1. SUFFICES ASSUME t[c].right = k PROVE FALSE
    OBVIOUS
  <2>2. t[c]["right"] = k /\ "left" \in Sides
    BY <2>1 DEF Sides
  <2>3. R[k] < R[c]
    BY <2>2, <1>1, <1>2, <1>4, RankDown
  <2>4. R[c] < R[k]
    BY <2>2, <1>1, <1>4, RankDown
  <2>5. R[c] \in Nat /\ R[k] \in Nat
    BY <1>1, <1>4 DEF Ranked
  <2> QED BY <2>3, <2>4, <2>5
<1>6. _Rb_tree_increment(t, x) = IF t[c].right # t[c].up THEN t[c].up ELSE c
  BY <1>3 DEF _Rb_tree_increment
<1> QED BY <1>3, <1>4, <1>5, <1>6

LEMMA IncrementDown ==
  ASSUME NEW t, NEW L, NEW K, NEW R, NEW m, Ordered(t, L, K, R, m),
         NEW x \in L, t[x].right # Null
  PROVE  \E y \in L : y = _Rb_tree_increment(t, x) /\ t[y].left = Null /\ K[y]["left"] = x
<1>2. "left" \in Sides /\ Other("left") = "right"
  BY DEF Sides, Other
<1>3. t[x][Other("left")] # Null
  BY <1>2
<1>4. PICK y \in L : y = Descend(t, t[x][Other("left")], "left") /\ t[y]["left"] = Null /\ K[y]["left"] = x
  BY <1>2, <1>3, DescendNext
<1>5. _Rb_tree_increment(t, x) = Descend(t, t[x].right, "left")
  BY DEF _Rb_tree_increment
<1> QED BY <1>2, <1>4, <1>5

(* No node below the header passes for the header. *)
LEMMA NotHeader ==
  ASSUME NEW t, NEW L, NEW K, NEW R, NEW m, Walkable(t, L, K, R, m), NEW x \in L
  PROVE  ~ (t[x].red /\ t[t[x].up].up = x)
<1>1. Shape(t, L) /\ NoLoop(t, L) /\ ~ t[root(t)].red
  BY WalkableFacts
<1>2. CASE x = root(t)
  BY <1>1, <1>2
<1>3. CASE x # root(t)
  BY <1>1, <1>3, ParentFacts DEF NoLoop
<1> QED BY <1>2, <1>3

LEMMA DecrementUp ==
  ASSUME NEW t, NEW L, NEW K, NEW R, NEW m, Walkable(t, L, K, R, m),
         NEW x \in L, t[x].left = Null, x # t[Header].left
  PROVE  /\ _Rb_tree_decrement(t, x) = K[x]["left"] /\ K[x]["left"] \in L
         /\ t[K[x]["left"]].right # Null
<1>1. /\ Ordered(t, L, K, R, m) /\ Linked(t) = L /\ Shape(t, L) /\ Null \notin L
  BY WalkableFacts, OrderedFacts
<1>2. "left" \in Sides /\ Other("left") = "right" /\ t[x]["left"] = Null /\ x # t[Header]["left"]
  BY DEF Sides, Other
<1>3. K[x]["left"] \in L
  BY <1>1, <1>2, EdgeOnly
<1>4. PICK e \in L : e = Climb(t, x, "left") /\ t[e].up = K[x]["left"] /\ t[K[x]["left"]]["right"] = e
  BY <1>1, <1>2, <1>3, LinkedCovers, ClimbEnds
<1>5. _Rb_tree_decrement(t, x) = t[Climb(t, x, "left")].up
  BY NotHeader DEF _Rb_tree_decrement
<1> QED BY <1>1, <1>3, <1>4, <1>5

LEMMA DecrementDown ==
  ASSUME NEW t, NEW L, NEW K, NEW R, NEW m, Walkable(t, L, K, R, m),
         NEW x \in L, t[x].left # Null
  PROVE  \E y \in L : y = _Rb_tree_decrement(t, x) /\ t[y].right = Null /\ K[y]["right"] = x
<1>1. Ordered(t, L, K, R, m)
  BY WalkableFacts
<1>2. "right" \in Sides /\ Other("right") = "left"
  BY DEF Sides, Other
<1>3. t[x][Other("right")] # Null
  BY <1>2
<1>4. PICK y \in L : y = Descend(t, t[x][Other("right")], "right") /\ t[y]["right"] = Null /\ K[y]["right"] = x
  BY <1>1, <1>2, <1>3, DescendNext
<1>5. _Rb_tree_decrement(t, x) = Descend(t, t[x].left, "right")
  BY NotHeader DEF _Rb_tree_decrement
<1> QED BY <1>2, <1>4, <1>5

LEMMA DecrementUndone ==
  ASSUME NEW t, NEW L, NEW K, NEW R, NEW m, Walkable(t, L, K, R, m),
         NEW x \in L, x # t[Header].left
  PROVE  _Rb_tree_increment(t, _Rb_tree_decrement(t, x)) = x
<1>1. Ordered(t, L, K, R, m) /\ "left" \in Sides /\ Covers(t, L)
  BY WalkableFacts, LinkedCovers DEF Sides
<1>2. CASE t[x].left # Null
  <2>1. PICK y \in L : y = _Rb_tree_decrement(t, x) /\ t[y].right = Null /\ K[y]["right"] = x
    BY <1>2, DecrementDown
  <2>2. K[y]["right"] \in L
    BY <2>1
  <2>3. _Rb_tree_increment(t, y) = K[y]["right"]
    BY <2>1, <2>2, <1>1, IncrementUp
  <2> QED BY <2>1, <2>3
<1>3. CASE t[x].left = Null
  <2>1. PICK y \in L : y = _Rb_tree_decrement(t, x) /\ y = K[x]["left"] /\ t[y].right # Null
    BY <1>3, DecrementUp
  <2>2. PICK z \in L : z = _Rb_tree_increment(t, y) /\ t[z].left = Null /\ K[z]["left"] = y
    BY <2>1, <1>1, IncrementDown
  <2>3. K[z]["left"] = K[x]["left"] /\ t[z]["left"] = Null /\ t[x]["left"] = Null
    BY <2>1, <2>2, <1>3
  <2>4. z = x
    BY <2>3, <1>1, OneEnds
  <2> QED BY <2>1, <2>2, <2>4
<1> QED BY <1>2, <1>3

LEMMA DecrementHeader ==
  ASSUME NEW t, NEW L, NEW K, NEW R, NEW m, Walkable(t, L, K, R, m)
  PROVE  /\ _Rb_tree_decrement(t, Header) = Descend(t, root(t), "right")
         /\ t[Header].left = Descend(t, root(t), "left")
<1>1. /\ Ordered(t, L, K, R, m) /\ Shape(t, L) /\ root(t) # Null /\ t[root(t)].up = Header
  BY WalkableFacts
<1>2. "left" \in Sides /\ "right" \in Sides
  BY DEF Sides
<1>3. Descend(t, root(t), "left") = t[Header]["left"]
  BY <1>1, <1>2, DescendEdge
<1>4. Descend(t, root(t), "right") = t[Header]["right"]
  BY <1>1, <1>2, DescendEdge
<1>5. t[Header].red /\ t[t[Header].up].up = Header
  BY <1>1 DEF Shape, root
<1>6. _Rb_tree_decrement(t, Header) = t[Header].right
  BY <1>5 DEF _Rb_tree_decrement
<1> QED BY <1>3, <1>4, <1>6

(***************************************************************************)
(* The search for a key's place.                                           *)
(***************************************************************************)
LEMMA SearchWalk ==
  ASSUME NEW t, NEW L, Shape(t, L), NEW k \in Keys
  PROVE  \E w : /\ \A p \in Node : w[p] = IF Beneath(t, k, p) = Null THEN p ELSE w[Beneath(t, k, p)]
                /\ Position(t, k).p = w[Header] /\ Position(t, k).s = Toward(k, w[Header])
                /\ Position(t, k).found
                   = (/\ ~ (Toward(k, w[Header]) = "left" /\ w[Header] = t[Header].left)
                      /\ ~ (IF Toward(k, w[Header]) = "right" THEN w[Header]
                            ELSE _Rb_tree_decrement(t, w[Header])) < k)
<1>1. t \in Trees /\ Header \in Node /\ root(t) \in Ptr
  BY ShapeFacts DEF Trees, root, Node
<1>2. PICK S, stop, nx : /\ S = Node /\ stop = {p \in Node : Beneath(t, k, p) = Null}
                         /\ nx = [p \in Node |-> Beneath(t, k, p)]
  OBVIOUS
<1>3. \A p \in Node : Beneath(t, k, p) \in Ptr
  BY <1>1 DEF Beneath, Toward, Trees
<1>4. GoesOn(S, stop, nx)
  BY <1>2, <1>3 DEF GoesOn, Ptr
<1>5. PICK g : Follows(g, S, stop, nx)
  BY <1>4, FollowExists
<1>6. \A p \in Node : (IF p \in stop THEN p ELSE g[nx[p]])
                      = IF Beneath(t, k, p) = Null THEN p ELSE g[Beneath(t, k, p)]
  BY <1>2
<1>7. g = [p \in Node |-> IF Beneath(t, k, p) = Null THEN p ELSE g[Beneath(t, k, p)]]
  <2>1. g = [p \in S |-> IF p \in stop THEN p ELSE g[nx[p]]]
    BY <1>5 DEF Follows
  <2>2. [p \in S |-> IF p \in stop THEN p ELSE g[nx[p]]]
        = [p \in Node |-> IF Beneath(t, k, p) = Null THEN p ELSE g[Beneath(t, k, p)]]
    BY <1>2, <1>6
  <2> QED BY <2>1, <2>2
<1> DEFINE w == CHOOSE w : w = [p \in Node |-> IF Beneath(t, k, p) = Null THEN p ELSE w[Beneath(t, k, p)]]
<1>8. w = [p \in Node |-> IF Beneath(t, k, p) = Null THEN p ELSE w[Beneath(t, k, p)]]
  BY <1>7
<1>9. Position(t, k) = [p |-> w[Header], s |-> Toward(k, w[Header]),
                        found |-> /\ ~ (Toward(k, w[Header]) = "left" /\ w[Header] = t[Header].left)
                                  /\ ~ (IF Toward(k, w[Header]) = "right" THEN w[Header]
                                        ELSE _Rb_tree_decrement(t, w[Header])) < k]
  BY DEF Position
<1> HIDE DEF w
<1>10. \A p \in Node : w[p] = IF Beneath(t, k, p) = Null THEN p ELSE w[Beneath(t, k, p)]
  BY <1>8
<1>11. /\ Position(t, k).p = w[Header] /\ Position(t, k).s = Toward(k, w[Header])
       /\ Position(t, k).found
          = (/\ ~ (Toward(k, w[Header]) = "left" /\ w[Header] = t[Header].left)
             /\ ~ (IF Toward(k, w[Header]) = "right" THEN w[Header]
                   ELSE _Rb_tree_decrement(t, w[Header])) < k)
  BY <1>9
<1> QED BY <1>10, <1>11

Searches(t, k, w) == \A p \in Node : w[p] = IF Beneath(t, k, p) = Null THEN p ELSE w[Beneath(t, k, p)]

LEMMA TowardFacts ==
  ASSUME NEW k \in Keys, NEW p \in Keys
  PROVE  /\ Toward(k, p) \in Sides
         /\ k < p => Toward(k, p) = "left"
         /\ ~ k < p => Toward(k, p) = "right"
         /\ k \in Int /\ p \in Int
BY RbAssumption DEF Toward, Sides

LEMMA SearchEnds ==
  ASSUME NEW t, NEW L, NEW K, NEW R, NEW m, Ordered(t, L, K, R, m), NEW k \in Keys,
         NEW w, Searches(t, k, w), NEW A, A \subseteq L,
         \A n \in A : t[n][Toward(k, n)] # Null => t[n][Toward(k, n)] \in A, NEW x \in A
  PROVE  w[x] \in A /\ t[w[x]][Toward(k, w[x])] = Null
<1>1. /\ Shape(t, L) /\ Ranked(t, L, R, m) /\ L \subseteq Keys /\ L \subseteq Node /\ Header \notin L
  BY OrderedFacts
<1>2. PICK S, stop, nx : /\ S = Node /\ stop = {p \in Node : Beneath(t, k, p) = Null}
                         /\ nx = [p \in Node |-> Beneath(t, k, p)]
  OBVIOUS
<1>3. Reaches(w, S, stop, nx)
  BY <1>2 DEF Searches, Reaches
<1>4. ASSUME NEW n \in A
      PROVE  /\ R[n] \in Nat
             /\ n \notin stop => nx[n] \in A /\ R[nx[n]] < R[n]
             /\ n \in stop => t[n][Toward(k, n)] = Null
  <2>1. n \in L /\ n \in Node /\ n \in Keys /\ n # Header
    BY <1>1
  <2>2. PICK c, q : c = t[n][q] /\ q = Toward(k, n)
    OBVIOUS
  <2>3. nx[n] = c /\ (n \in stop <=> c = Null)
    BY <2>1, <2>2, <1>2 DEF Beneath
  <2>4. q \in Sides
    BY <2>1, <2>2, TowardFacts
  <2>5. R[n] \in Nat
    BY <2>1, <1>1 DEF Ranked
  <2>6. c # Null => R[c] < R[n]
    BY <2>1, <2>2, <2>4, <1>1, RankDown
  <2> QED BY <2>2, <2>3, <2>5, <2>6
<1>5. Falls(A, stop, nx, R)
  BY <1>4 DEF Falls
<1>6. A \subseteq S
  BY <1>1, <1>2
<1>7. w[x] \in A /\ w[x] \in stop
  BY <1>3, <1>5, <1>6, FollowEnds
<1> QED BY <1>4, <1>7

LEMMA SearchDown ==
  ASSUME NEW t, NEW L, NEW K, NEW R, NEW m, Ordered(t, L, K, R, m), NEW k \in Keys,
         NEW w, Searches(t, k, w), NEW n \in L, NEW c \in L, c = t[n][Toward(k, n)]
  PROVE  w[n] = w[c]
<1>1. n \in Node /\ n # Header /\ c # Null
  BY OrderedFacts
<1>2. Beneath(t, k, n) = c
  BY <1>1 DEF Beneath
<1>3. w[n] = IF Beneath(t, k, n) = Null THEN n ELSE w[Beneath(t, k, n)]
  BY <1>1 DEF Searches
<1> QED BY <1>1, <1>2, <1>3

(* Where k is, or is to be: its bounds there. *)
Cuts(K, n, k) == \A q \in Sides : K[n][q] # Header => Before(q, K[n][q], k)

LEMMA CutsUp ==
  ASSUME NEW t, NEW L, NEW K, NEW R, NEW m, Ordered(t, L, K, R, m), NEW k \in Keys,
         NEW n \in L, n # root(t), Cuts(K, n, k)
  PROVE  t[n].up \in L /\ Cuts(K, t[n].up, k) /\ t[t[n].up][Toward(k, t[n].up)] = n
<1>1. /\ Shape(t, L) /\ Bounds(t, L, K) /\ L \subseteq Keys /\ Header \notin L /\ L \subseteq Int
  BY OrderedFacts, RbAssumption
<1>2. PICK p \in L, q \in Sides : /\ t[n].up = p /\ t[p][q] = n
                                  /\ K[n][q] = K[p][q] /\ K[n][Other(q)] = p
  BY UpFacts
<1>3. Before(Other(q), p, k)
  BY <1>1, <1>2, SideFacts DEF Cuts
<1>4. Toward(k, p) = q
  <2>1. CASE q = "left"
    <3>1. k < p
      BY <2>1, <1>3 DEF Before, Other
    <3> QED BY <2>1, <3>1, <1>1, TowardFacts
  <2>2. CASE q = "right"
    <3>1. p < k
      BY <2>2, <1>3 DEF Before, Other
    <3>2. ~ k < p
      BY <3>1, <1>1, RbAssumption
    <3> QED BY <2>2, <3>2, <1>1, TowardFacts
  <2> QED BY <2>1, <2>2 DEF Sides
<1>5. ASSUME NEW r \in Sides, K[p][r] # Header PROVE Before(r, K[p][r], k)
  <2>1. K[p][r] \in L /\ Before(r, K[p][r], p)
    BY <1>1, <1>5 DEF Bounds
  <2>2. CASE r = q
    BY <2>2, <1>2, <1>5 DEF Cuts
  <2>3. CASE r # q
    <3>1. Before(r, p, k)
      BY <2>3, <1>3, SideFacts
    <3>2. K[p][r] \in Int /\ p \in Int /\ k \in Int
      BY <2>1, <1>1, RbAssumption
    <3> QED BY <2>1, <3>1, <3>2 DEF Before
  <2> QED BY <2>2, <2>3
<1> QED BY <1>2, <1>4, <1>5 DEF Cuts

(* From the root the search comes by every node that it could start from. *)
LEMMA SearchMeets ==
  ASSUME NEW t, NEW L, NEW K, NEW R, NEW m, Ordered(t, L, K, R, m), NEW k \in Keys,
         NEW w, Searches(t, k, w), NEW n \in L, Cuts(K, n, k)
  PROVE  w[Header] = w[n]
<1>1. /\ Shape(t, L) /\ Ranked(t, L, R, m) /\ Header \in Node
  BY OrderedFacts
<1>2. PICK C : C = {a \in L : w[a] = w[n] /\ Cuts(K, a, k)}
  OBVIOUS
<1>3. ASSUME NEW a \in C, a # root(t) PROVE a # root(t) /\ t[a].up \in C
  <2>1. a \in L /\ w[a] = w[n] /\ Cuts(K, a, k)
    BY <1>2
  <2>2. PICK p : p = t[a].up
    OBVIOUS
  <2>3. p \in L /\ Cuts(K, p, k) /\ t[p][Toward(k, p)] = a
    BY <2>1, <2>2, <1>3, CutsUp
  <2>4. w[p] = w[a]
    BY <2>1, <2>3, SearchDown
  <2> QED BY <2>1, <2>2, <2>3, <2>4, <1>2, <1>3
<1>4. n \in C /\ C \subseteq L
  BY <1>2
<1>5. C # {}
  BY <1>4
<1>6. root(t) \in C
  BY <1>1, <1>3, <1>4, <1>5, UpTo
<1>7. w[root(t)] = w[n] /\ root(t) # Null
  BY <1>2, <1>6, OrderedFacts
<1>8. Beneath(t, k, Header) = root(t)
  BY DEF Beneath
<1>9. w[Header] = IF Beneath(t, k, Header) = Null THEN Header ELSE w[Beneath(t, k, Header)]
  BY <1>1 DEF Searches
<1> QED BY <1>7, <1>8, <1>9

(* From the node of k the search goes down to where k would follow it.       *)
LEMMA SearchTaken ==
  ASSUME NEW t, NEW L, NEW K, NEW R, NEW m, Ordered(t, L, K, R, m), NEW k \in L,
         NEW w, Searches(t, k, w)
  PROVE  \/ w[k] = k
         \/ \E e \in L : w[k] = e /\ K[e]["left"] = k /\ t[e].left = Null /\ Toward(k, e) = "left"
<1>1. /\ Shape(t, L) /\ Bounds(t, L, K)
      /\ L \subseteq Keys /\ k \in Keys /\ Header \notin L /\ Null \notin L
  BY OrderedFacts
<1>5. "left" \in Sides /\ "right" \in Sides /\ Other("right") = "left"
  BY DEF Sides, Other
<1>6. Toward(k, k) = "right"
  <2>1. ~ k < k
    BY <1>1, RbAssumption
  <2> QED BY <2>1, <1>1, TowardFacts
<1>7. CASE t[k]["right"] = Null
  <2>1. w[k] = k
    <3>1. k \in Node /\ k # Header
      BY <1>1 DEF Node
    <3>2. Beneath(t, k, k) = Null
      BY <3>1, <1>6, <1>7 DEF Beneath
    <3> QED BY <3>1, <3>2 DEF Searches
  <2> QED BY <2>1
<1>8. CASE t[k]["right"] # Null
  <2>1. PICK c, A : c = t[k]["right"] /\ A = {a \in L : K[a]["left"] = k}
    OBVIOUS
  <2>2. c \in L /\ K[c]["left"] = k
    <3>1. c \in L
      BY <2>1, <1>1, <1>5, <1>8, ChildFacts
    <3> QED BY <3>1, <2>1, <1>1, <1>5, <1>8 DEF Bounds
  <2>3. w[k] = w[c]
    BY <2>1, <2>2, <1>1, <1>6, SearchDown
  <2>4. ASSUME NEW a \in A
        PROVE  /\ a \in L /\ Toward(k, a) = "left" /\ K[a]["left"] = k
               /\ t[a]["left"] # Null => t[a]["left"] \in A
    <3>1. a \in L /\ K[a]["left"] = k
      BY <2>1
    <3>2. k < a
      <4>1. Before("left", k, a)
        BY <3>1, <1>1, <1>5 DEF Bounds
      <4> QED BY <4>1 DEF Before
    <3>3. Toward(k, a) = "left"
      BY <3>1, <3>2, <1>1, TowardFacts
    <3>4. t[a]["left"] # Null => t[a]["left"] \in L /\ K[t[a]["left"]]["left"] = K[a]["left"]
      BY <3>1, <1>1, <1>5, ChildFacts DEF Bounds
    <3> QED BY <3>1, <3>3, <3>4, <2>1
  <2>5. w[c] \in A /\ t[w[c]][Toward(k, w[c])] = Null
    <3>1. A \subseteq L /\ c \in A
      BY <2>1, <2>2
    <3>2. \A a \in A : t[a][Toward(k, a)] # Null => t[a][Toward(k, a)] \in A
      BY <2>4
    <3> QED BY <3>1, <3>2, <1>1, SearchEnds
  <2>6. PICK e : e = w[c]
    OBVIOUS
  <2>7. e \in L /\ Toward(k, e) = "left" /\ K[e]["left"] = k /\ t[e].left = Null
    BY <2>4, <2>5, <2>6
  <2> QED BY <2>3, <2>6, <2>7
<1> QED BY <1>7, <1>8

(* A key that is in the tree is found. *)
LEMMA PositionTaken ==
  ASSUME NEW t, NEW L, NEW K, NEW R, NEW m, Walkable(t, L, K, R, m), NEW k \in L
  PROVE  Position(t, k).found
<1>1. /\ Ordered(t, L, K, R, m) /\ Shape(t, L) /\ Bounds(t, L, K) /\ Edges(t, L, K) /\ root(t) # Null
      /\ L \subseteq Keys /\ k \in Keys /\ Header \notin L /\ Null \notin L
  BY WalkableFacts, OrderedFacts
<1>2. PICK w : /\ Searches(t, k, w)
               /\ Position(t, k).found
                  = (/\ ~ (Toward(k, w[Header]) = "left" /\ w[Header] = t[Header].left)
                     /\ ~ (IF Toward(k, w[Header]) = "right" THEN w[Header]
                           ELSE _Rb_tree_decrement(t, w[Header])) < k)
  BY <1>1, SearchWalk DEF Searches
<1>3. Cuts(K, k, k)
  BY <1>1 DEF Bounds, Cuts
<1>4. w[Header] = w[k]
  BY <1>1, <1>2, <1>3, SearchMeets
<1>5. "left" \in Sides /\ "right" \in Sides /\ Other("right") = "left"
  BY DEF Sides, Other
<1>6. ~ k < k
  BY <1>1, RbAssumption
<1>7. CASE w[k] = k
  <2>1. Toward(k, k) = "right"
    BY <1>1, <1>6, TowardFacts
  <2> QED BY <2>1, <1>2, <1>4, <1>6, <1>7
<1>8. CASE \E e \in L : /\ w[k] = e /\ K[e]["left"] = k /\ t[e].left = Null
                        /\ Toward(k, e) = "left"
  <2>1. PICK e \in L : /\ w[k] = e /\ K[e]["left"] = k /\ t[e].left = Null
                       /\ Toward(k, e) = "left"
    BY <1>8
  <2>2. e # t[Header].left
    <3>1. K[t[Header]["left"]]["left"] = Header
      BY <1>1, <1>5 DEF Edges
    <3> QED BY <3>1, <2>1, <1>1
  <2>3. _Rb_tree_decrement(t, e) = k
    BY <2>1, <2>2, DecrementUp
  <2>4. w[Header] = e /\ Toward(k, w[Header]) = "left" /\ "left" # "right"
    BY <2>1, <1>4
  <2>5. (IF Toward(k, w[Header]) = "right" THEN w[Header]
         ELSE _Rb_tree_decrement(t, w[Header])) = k
    BY <2>3, <2>4
  <2> QED BY <2>2, <2>4, <2>5, <1>2, <1>6
<1> QED BY <1>1, <1>2, <1>7, <1>8, SearchTaken

(* The bounds of a node that has no child toward k keep k out, or k is it.   *)
LEMMA CutsOut ==
  ASSUME NEW t, NEW L, NEW K, NEW R, NEW m, Ordered(t, L, K, R, m), NEW k \in L, NEW a \in L,
         a # k, t[a][Toward(k, a)] = Null
  PROVE  ~ Cuts(K, a, k)
<1>1. SUFFICES ASSUME Cuts(K, a, k) PROVE FALSE
  OBVIOUS
<1>2. /\ Shape(t, L) /\ Bounds(t, L, K)
      /\ L \subseteq Keys /\ L \subseteq Node /\ k \in Keys /\ Header \notin L
  BY OrderedFacts
<1>3. PICK w : Searches(t, k, w)
  <2>1. PICK w : /\ \A p \in Node : w[p] = IF Beneath(t, k, p) = Null THEN p ELSE w[Beneath(t, k, p)]
                 /\ Position(t, k).p = w[Header] /\ Position(t, k).s = Toward(k, w[Header])
                 /\ Position(t, k).found
                    = (/\ ~ (Toward(k, w[Header]) = "left" /\ w[Header] = t[Header].left)
                       /\ ~ (IF Toward(k, w[Header]) = "right" THEN w[Header]
                             ELSE _Rb_tree_decrement(t, w[Header])) < k)
    BY <1>2, SearchWalk
  <2> QED BY <2>1 DEF Searches
<1>4. Cuts(K, k, k)
  BY <1>2 DEF Bounds, Cuts
<1>5. w[a] = w[k]
  <2>1. w[Header] = w[a]
    BY <1>1, <1>2, <1>3, SearchMeets
  <2>2. w[Header] = w[k]
    BY <1>2, <1>3, <1>4, SearchMeets
  <2> QED BY <2>1, <2>2
<1>6. w[a] = a
  <2>1. Beneath(t, k, a) = Null
    BY <1>2 DEF Beneath
  <2> QED BY <2>1, <1>2, <1>3 DEF Searches
<1>7. PICK e \in L : w[k] = e /\ K[e]["left"] = k
  <2>1. w[k] # k
    BY <1>5, <1>6
  <2> QED BY <2>1, <1>3, SearchTaken
<1>8. K[a]["left"] = k
  BY <1>5, <1>6, <1>7
<1>9. K[a]["left"] # Header /\ "left" \in Sides
  BY <1>2, <1>8 DEF Sides
<1>10. Before("left", k, k)
  BY <1>1, <1>8, <1>9 DEF Cuts
<1>11. ~ k < k
  BY <1>2, RbAssumption
<1> QED BY <1>10, <1>11 DEF Before

(* The place of another key: a free side where it is in order.              *)
Free(t, L, K, k, p, s) ==
  /\ p \in L /\ s \in Sides /\ t[p][s] = Null /\ Before(s, k, p) /\ Cuts(K, p, k)

LEMMA PositionFree ==
  ASSUME NEW t, NEW L, NEW K, NEW R, NEW m, Walkable(t, L, K, R, m), NEW k \in Keys,
         k \notin L
  PROVE  /\ ~ Position(t, k).found
         /\ Free(t, L, K, k, Position(t, k).p, Position(t, k).s)
<1>0. k \notin L
  OBVIOUS
<1>1. /\ Ordered(t, L, K, R, m) /\ Shape(t, L) /\ Bounds(t, L, K) /\ Edges(t, L, K)
      /\ root(t) \in L /\ root(t) # Null
      /\ L \subseteq Keys /\ k \in Keys /\ Header \notin L /\ Null \notin L /\ Header \in Node
  BY WalkableFacts, OrderedFacts
<1>2. PICK w : /\ Searches(t, k, w)
               /\ Position(t, k).p = w[Header] /\ Position(t, k).s = Toward(k, w[Header])
               /\ Position(t, k).found
                  = (/\ ~ (Toward(k, w[Header]) = "left" /\ w[Header] = t[Header].left)
                     /\ ~ (IF Toward(k, w[Header]) = "right" THEN w[Header]
                           ELSE _Rb_tree_decrement(t, w[Header])) < k)
  BY <1>1, SearchWalk DEF Searches
<1>3. w[Header] = w[root(t)]
  <2>1. Beneath(t, k, Header) = root(t)
    BY DEF Beneath
  <2> QED BY <2>1, <1>1, <1>2 DEF Searches
<1>4. "left" \in Sides /\ "right" \in Sides /\ Other("right") = "left" /\ Other("left") = "right"
      /\ \A q \in Sides : q \in {"left", "right"}
  BY DEF Sides, Other
<1>5. PICK A : A = {a \in L : /\ K[a]["left"] # Header => ~ k < K[a]["left"]
                              /\ K[a]["right"] # Header => k < K[a]["right"]}
  OBVIOUS
<1>6. root(t) \in A /\ A \subseteq L
  <2>1. K[root(t)]["left"] = Header /\ K[root(t)]["right"] = Header
    BY <1>1, <1>4 DEF Bounds
  <2> QED BY <2>1, <1>1, <1>5
<1>7. ASSUME NEW a \in A, t[a][Toward(k, a)] # Null PROVE t[a][Toward(k, a)] \in A
  <2>1. a \in L /\ a \in Keys
    BY <1>1, <1>5
  <2>2. PICK q, c : q = Toward(k, a) /\ c = t[a][q]
    OBVIOUS
  <2>3. q \in Sides
    BY <2>1, <2>2, TowardFacts
  <2>4. c \in L /\ K[c][q] = K[a][q] /\ K[c][Other(q)] = a
    <3>1. t[a][q] # Null
      BY <2>2, <1>7
    <3>2. c \in L
      BY <3>1, <2>1, <2>2, <2>3, <1>1, ChildFacts
    <3> QED BY <3>1, <3>2, <2>1, <2>2, <2>3, <1>1 DEF Bounds
  <2>5. CASE k < a
    <3>1. q = "left"
      BY <2>1, <2>2, <2>5, TowardFacts
    <3>2. K[c]["left"] = K[a]["left"] /\ K[c]["right"] = a
      BY <2>4, <3>1, <1>4
    <3> QED BY <2>2, <2>4, <2>5, <3>2, <1>5
  <2>6. CASE ~ k < a
    <3>1. q = "right"
      BY <2>1, <2>2, <2>6, TowardFacts
    <3>2. K[c]["right"] = K[a]["right"] /\ K[c]["left"] = a
      BY <2>4, <3>1, <1>4
    <3> QED BY <2>2, <2>4, <2>6, <3>2, <1>5
  <2> QED BY <2>5, <2>6
<1>8. PICK p, s : p = w[Header] /\ s = Toward(k, p)
  OBVIOUS
<1>9. p \in A /\ t[p][s] = Null
  BY <1>1, <1>2, <1>3, <1>6, <1>7, <1>8, SearchEnds
<1>10. /\ p \in L /\ p \in Keys /\ s \in Sides /\ p # k
       /\ K[p]["left"] # Header => ~ k < K[p]["left"]
       /\ K[p]["right"] # Header => k < K[p]["right"]
  BY <1>0, <1>1, <1>5, <1>8, <1>9, TowardFacts
<1>11. Before(s, k, p)
  <2>1. k \in Int /\ p \in Int
    BY <1>10, TowardFacts
  <2>2. CASE k < p
    <3>1. s = "left"
      BY <2>2, <1>8, <1>10, TowardFacts
    <3> QED BY <2>2, <3>1 DEF Before
  <2>3. CASE ~ k < p
    <3>1. s = "right"
      BY <2>3, <1>8, <1>10, TowardFacts
    <3>2. p < k
      BY <2>1, <2>3, <1>10
    <3> QED BY <3>1, <3>2 DEF Before
  <2> QED BY <2>2, <2>3
<1>12. Cuts(K, p, k)
  <2>1. ASSUME K[p]["left"] # Header PROVE K[p]["left"] < k
    <3>1. K[p]["left"] \in L
      BY <2>1, <1>1, <1>4, <1>10 DEF Bounds
    <3>2. K[p]["left"] # k /\ K[p]["left"] \in Int /\ k \in Int
      BY <3>1, <1>0, <1>1, RbAssumption
    <3> QED BY <2>1, <3>2, <1>10
  <2>2. ASSUME NEW q \in Sides, K[p][q] # Header PROVE Before(q, K[p][q], k)
    <3>1. CASE q = "left"
      BY <3>1, <2>1, <2>2 DEF Before
    <3>2. CASE q = "right"
      BY <3>2, <2>2, <1>10 DEF Before
    <3> QED BY <3>1, <3>2, <1>4
  <2> QED BY <2>2 DEF Cuts
<1>13. Free(t, L, K, k, p, s)
  BY <1>9, <1>10, <1>11, <1>12 DEF Free
<1>14. ~ Position(t, k).found
  <2>1. CASE s = "right"
    <3>1. p < k
      BY <2>1, <1>11 DEF Before
    <3> QED BY <2>1, <3>1, <1>2, <1>8
  <2>2. CASE s = "left" /\ p # t[Header].left
    <3>1. t[p].left = Null
      BY <2>2, <1>9
    <3>2. _Rb_tree_decrement(t, p) = K[p]["left"] /\ K[p]["left"] \in L
      BY <2>2, <3>1, <1>10, DecrementUp
    <3>3. Before("left", K[p]["left"], k)
      BY <3>2, <1>1, <1>4, <1>12 DEF Cuts
    <3>4. K[p]["left"] < k /\ s # "right"
      BY <2>2, <3>3 DEF Before
    <3> QED BY <3>2, <3>4, <1>2, <1>8
  <2>3. CASE s = "left" /\ p = t[Header].left
    BY <2>3, <1>2, <1>8
  <2> QED BY <2>1, <2>2, <2>3, <1>4, <1>10
<1> QED BY <1>2, <1>8, <1>13, <1>14

(* The empty tree. *)
LEMMA PositionEmpty ==
  ASSUME NEW t, NEW L, Shape(t, L), root(t) = Null, t[Header].left = Header, NEW k \in Keys
  PROVE  ~ Position(t, k).found /\ Position(t, k).p = Header /\ Position(t, k).s = "left"
<1>1. Header \in Node
  BY ShapeFacts
<1>2. PICK w : /\ Searches(t, k, w)
               /\ Position(t, k).p = w[Header] /\ Position(t, k).s = Toward(k, w[Header])
               /\ Position(t, k).found
                  = (/\ ~ (Toward(k, w[Header]) = "left" /\ w[Header] = t[Header].left)
                     /\ ~ (IF Toward(k, w[Header]) = "right" THEN w[Header]
                           ELSE _Rb_tree_decrement(t, w[Header])) < k)
  BY SearchWalk DEF Searches
<1>3. Beneath(t, k, Header) = Null
  BY DEF Beneath
<1>4. w[Header] = Header
  BY <1>1, <1>2, <1>3 DEF Searches
<1>5. Toward(k, Header) = "left"
  BY DEF Toward
<1> QED BY <1>2, <1>4, <1>5
(***************************************************************************)
(* The walk: from each node to the next larger one.                        *)
(***************************************************************************)

(* No node is in order between a and the neighbour that a has above it, on a *)
(* side where a has no child.                                                *)
LEMMA NoneBetween ==
  ASSUME NEW t, NEW L, NEW K, NEW R, NEW m, Ordered(t, L, K, R, m), NEW s \in Sides,
         NEW a \in L, NEW n \in L, t[a][s] = Null, Before(s, n, a)
  PROVE  K[a][s] \in L /\ ~ Before(s, K[a][s], n)
<1>1. Shape(t, L) /\ Bounds(t, L, K) /\ L \subseteq Keys /\ Header \notin L /\ L \subseteq Int
  BY OrderedFacts, RbAssumption
<1>2. a # n /\ Toward(n, a) = s
  <2>1. CASE s = "left"
    <3>1. n < a
      BY <2>1 DEF Before
    <3> QED BY <3>1, <2>1, <1>1, TowardFacts
  <2>2. CASE s = "right"
    <3>1. a < n
      BY <2>2 DEF Before
    <3>2. ~ n < a
      BY <3>1, <1>1
    <3> QED BY <3>1, <3>2, <2>2, <1>1, TowardFacts
  <2> QED BY <2>1, <2>2 DEF Sides
<1>3. ~ Cuts(K, a, n)
  BY <1>2, CutsOut
<1>4. PICK q \in Sides : K[a][q] # Header /\ ~ Before(q, K[a][q], n)
  BY <1>3 DEF Cuts
<1>5. K[a][q] \in L /\ Before(q, K[a][q], a)
  BY <1>1, <1>4 DEF Bounds
<1>6. q = s
  <2>1. SUFFICES ASSUME q # s PROVE FALSE
    OBVIOUS
  <2>2. q = Other(s)
    BY <2>1, SideFacts
  <2>3. Before(q, a, n)
    BY <2>2 DEF Before, Other, Sides
  <2>4. PICK b \in L : b = K[a][q]
    BY <1>5
  <2>5. b \in Int /\ a \in Int /\ n \in Int /\ Before(q, b, a)
    BY <2>4, <1>1, <1>5
  <2>6. Before(q, b, n)
    BY <2>3, <2>5 DEF Before
  <2> QED BY <2>4, <2>6, <1>4
<1> QED BY <1>4, <1>5, <1>6

LEMMA IncrementLast ==
  ASSUME NEW t, NEW L, NEW K, NEW R, NEW m, Ordered(t, L, K, R, m), Covers(t, L),
         NEW x \in L, t[x].right = Null, K[x]["right"] = Header
  PROVE  _Rb_tree_increment(t, x) = Header
<1>1. /\ Shape(t, L) /\ Bounds(t, L, K) /\ Edges(t, L, K) /\ Ranked(t, L, R, m)
      /\ Header \notin L /\ Null \notin L /\ Header # Null
  BY OrderedFacts
<1>2. /\ "right" \in Sides /\ "left" \in Sides /\ Other("right") = "left" /\ Other("left") = "right"
      /\ \A q \in Sides : q \in {"left", "right"}
  BY DEF Sides, Other
<1>3. root(t) \in L /\ t[root(t)].up = Header /\ t[Header].up = root(t)
  <2>1. root(t) # Null
    BY <1>1 DEF Shape
  <2> QED BY <2>1, <1>1 DEF Shape, root
<1>4. PICK c : /\ \A n \in L : Climb(t, n, "right") = c[n]
               /\ c[Header] = Header
               /\ \A n \in L : c[n] = IF n = t[t[n].up]["right"] THEN c[t[n].up] ELSE n
  BY <1>1, <1>2, <1>3, ClimbWalk
<1>5. PICK e : e = c[x]
  OBVIOUS
<1>6. _Rb_tree_increment(t, x) = IF t[e].right # t[e].up THEN t[e].up ELSE e
  BY <1>4, <1>5 DEF _Rb_tree_increment
<1>7. CASE root(t) = t[Header].right
  <2>1. t[root(t)]["right"] = Null /\ K[root(t)]["right"] = Header
    BY <1>1, <1>2, <1>3, <1>7 DEF Edges
  <2>2. x = root(t)
    BY <2>1, <1>2, <1>3, OneEnds
  <2>3. e = Header
    BY <2>2, <1>3, <1>4, <1>5, <1>7
  <2>4. t[e].right = t[e].up
    BY <2>3, <1>3, <1>7
  <2> QED BY <2>3, <2>4, <1>6
<1>8. CASE root(t) # t[Header].right
  <2>1. PICK A, stop, nx, rank :
          /\ A = {n \in L : K[n]["right"] = Header}
          /\ stop = {n \in L : n # t[t[n].up]["right"]} /\ nx = [n \in L |-> t[n].up]
          /\ rank = [n \in L |-> m - R[n]]
    OBVIOUS
  <2>2. Reaches(c, L, stop, nx)
    BY <1>4, <2>1 DEF Reaches
  <2>3. ASSUME NEW n \in A
        PROVE  /\ n \in L /\ rank[n] \in Nat
               /\ n \notin stop => t[n].up \in A /\ rank[t[n].up] < rank[n]
               /\ n \in stop => n = root(t)
    <3>1. n \in L /\ K[n]["right"] = Header /\ rank[n] = m - R[n]
      BY <2>1
    <3>2. CASE n = root(t)
      <4>1. n \in stop
        BY <3>1, <3>2, <2>1, <1>3, <1>8
      <4>2. rank[n] \in Nat
        BY <3>1, <1>1 DEF Ranked
      <4> QED BY <3>1, <3>2, <4>1, <4>2
    <3>3. CASE n # root(t)
      <4>1. PICK p \in L, q \in Sides : /\ t[n].up = p /\ t[p][q] = n /\ t[p][Other(q)] # n
                                        /\ K[n][q] = K[p][q] /\ K[n][Other(q)] = p
                                        /\ R[p] \in Nat /\ R[n] \in Nat /\ m \in Nat
                                        /\ R[n] < R[p] /\ R[p] <= m
        BY <3>1, <3>3, UpFacts
      <4>2. q = "right"
        BY <3>1, <4>1, <1>1, <1>2
      <4>3. rank[p] = m - R[p]
        BY <4>1, <2>1
      <4>4. rank[n] \in Nat /\ rank[p] < rank[n]
        BY <3>1, <4>1, <4>3
      <4>5. n \notin stop /\ p \in A
        BY <3>1, <4>1, <4>2, <2>1
      <4> QED BY <3>1, <4>1, <4>4, <4>5
    <3> QED BY <3>2, <3>3
  <2>4. Falls(A, stop, nx, rank)
    <3>1. \A n \in A : nx[n] = t[n].up
      BY <2>1
    <3> QED BY <3>1, <2>3 DEF Falls
  <2>5. A \subseteq L /\ x \in A
    BY <2>1
  <2>6. c[x] \in A /\ c[x] \in stop
    BY <2>2, <2>4, <2>5, FollowEnds
  <2>7. e = root(t)
    BY <2>3, <2>6, <1>5
  <2>8. t[e].right # t[e].up
    <3>1. t[e]["right"] # Header
      BY <2>7, <1>1, <1>2, <1>3, ChildFacts
    <3> QED BY <3>1, <2>7, <1>3
  <2> QED BY <2>7, <2>8, <1>3, <1>6
<1> QED BY <1>7, <1>8

(* y is the least of S above x, or the header if there is none. *)
StepsTo(S, x, y) ==
  IF Map!Above(S, x) = {} THEN y = Header
  ELSE y \in Map!Above(S, x) /\ \A n \in Map!Above(S, x) : y <= n

LEMMA StepIs ==
  ASSUME NEW S, S \subseteq Keys, NEW x \in S \cup {Header}, NEW y, StepsTo(S, x, y)
  PROVE  Map!Steps(S)[x] = y
<1>1. Map!Above(S, x) \subseteq Int
  BY RbAssumption DEF Map!Above
<1>2. PICK A : A = Map!Above(S, x)
  OBVIOUS
<1>3. Map!Steps(S)[x] = IF A = {} THEN Header ELSE CHOOSE z \in A : \A n \in A : z <= n
  BY <1>2 DEF Map!Steps
<1>4. CASE A = {}
  BY <1>2, <1>3, <1>4 DEF StepsTo
<1>5. CASE A # {}
  <2>1. y \in A /\ \A n \in A : y <= n
    BY <1>2, <1>5 DEF StepsTo
  <2>2. ASSUME NEW z \in A, \A n \in A : z <= n PROVE z = y
    BY <2>1, <2>2, <1>1, <1>2
  <2>3. (CHOOSE z \in A : \A n \in A : z <= n) = y
    BY <2>1, <2>2
  <2> QED BY <2>3, <1>3, <1>5
<1> QED BY <1>4, <1>5

LEMMA StepAbove ==
  ASSUME NEW S, NEW x, NEW y, y \in S, x = Header \/ x < y,
         \A n \in S : x = Header \/ x < n => y <= n
  PROVE  StepsTo(S, x, y)
BY DEF StepsTo, Map!Above

LEMMA StepEnds ==
  ASSUME NEW S, NEW x, \A n \in S : ~ (x = Header \/ x < n)
  PROVE  StepsTo(S, x, Header)
BY DEF StepsTo, Map!Above

LEMMA FirstSteps ==
  ASSUME NEW t, NEW L, NEW K, NEW R, NEW m, Ordered(t, L, K, R, m)
  PROVE  StepsTo(L, Header, t[Header].left)
<1>1. /\ Shape(t, L) /\ Bounds(t, L, K) /\ Edges(t, L, K) /\ L \subseteq Keys /\ L \subseteq Int
      /\ Header \notin L /\ "left" \in Sides
  BY OrderedFacts, RbAssumption DEF Sides
<1>2. CASE root(t) = Null
  <2>1. L = {} /\ t[Header]["left"] = Header
    BY <1>1, <1>2 DEF Shape, Edges
  <2>2. StepsTo(L, Header, Header)
    BY <2>1, StepEnds
  <2> QED BY <2>1, <2>2
<1>3. CASE root(t) # Null
  <2>1. PICK e : e = t[Header]["left"]
    OBVIOUS
  <2>2. e \in L /\ t[e]["left"] = Null /\ K[e]["left"] = Header
    BY <2>1, <1>1, <1>3 DEF Edges
  <2>3. ASSUME NEW n \in L PROVE e <= n
    <3>1. SUFFICES ASSUME n < e PROVE FALSE
      BY <2>2, <1>1
    <3>2. Before("left", n, e)
      BY <3>1 DEF Before
    <3>3. K[e]["left"] \in L
      BY <3>2, <2>2, <1>1, NoneBetween
    <3> QED BY <3>3, <2>2, <1>1
  <2>4. StepsTo(L, Header, e)
    BY <2>2, <2>3, StepAbove
  <2> QED BY <2>1, <2>4
<1> QED BY <1>2, <1>3

LEMMA IncrementSteps ==
  ASSUME NEW t, NEW L, NEW K, NEW R, NEW m, Ordered(t, L, K, R, m), Covers(t, L), NEW x \in L
  PROVE  StepsTo(L, x, _Rb_tree_increment(t, x))
<1>1. /\ Shape(t, L) /\ Bounds(t, L, K) /\ L \subseteq Keys /\ L \subseteq Int
      /\ Header \notin L /\ "left" \in Sides /\ "right" \in Sides
  BY OrderedFacts, RbAssumption DEF Sides
<1>2. CASE t[x].right # Null
  <2>1. PICK y \in L : y = _Rb_tree_increment(t, x) /\ t[y].left = Null /\ K[y]["left"] = x
    BY <1>2, IncrementDown
  <2>2. Before("left", x, y)
    <3>1. K[y]["left"] # Header
      BY <2>1, <1>1
    <3> QED BY <3>1, <2>1, <1>1 DEF Bounds
  <2>3. x < y
    BY <2>2 DEF Before
  <2>4. ASSUME NEW n \in L, x < n PROVE y <= n
    <3>1. SUFFICES ASSUME n < y PROVE FALSE
      BY <2>1, <1>1
    <3>2. Before("left", n, y)
      BY <3>1 DEF Before
    <3>3. ~ Before("left", K[y]["left"], n)
      BY <3>2, <2>1, <1>1, NoneBetween
    <3> QED BY <3>3, <2>1, <2>4 DEF Before
  <2>5. StepsTo(L, x, y)
    BY <2>3, <2>4, <1>1, StepAbove
  <2> QED BY <2>1, <2>5
<1>3. CASE t[x].right = Null /\ K[x]["right"] \in L
  <2>1. PICK y \in L : y = K[x]["right"]
    BY <1>3
  <2>2. _Rb_tree_increment(t, x) = y
    BY <2>1, <1>3, IncrementUp
  <2>3. Before("right", y, x)
    BY <2>1, <1>1 DEF Bounds
  <2>4. x < y
    BY <2>3 DEF Before
  <2>5. ASSUME NEW n \in L, x < n PROVE y <= n
    <3>1. Before("right", n, x) /\ t[x]["right"] = Null
      BY <2>5, <1>3 DEF Before
    <3>2. ~ Before("right", K[x]["right"], n)
      BY <3>1, <1>1, NoneBetween
    <3>3. ~ n < y
      BY <3>2, <2>1 DEF Before
    <3> QED BY <3>3, <1>1
  <2>6. StepsTo(L, x, y)
    BY <2>4, <2>5, <1>1, StepAbove
  <2> QED BY <2>2, <2>6
<1>4. CASE t[x].right = Null /\ K[x]["right"] \notin L
  <2>1. K[x]["right"] = Header
    BY <1>1, <1>4 DEF Bounds
  <2>2. _Rb_tree_increment(t, x) = Header
    BY <2>1, <1>4, IncrementLast
  <2>3. ASSUME NEW n \in L, x < n PROVE FALSE
    <3>1. Before("right", n, x) /\ t[x]["right"] = Null
      BY <2>3, <1>4 DEF Before
    <3> QED BY <3>1, <1>1, <1>4, NoneBetween
  <2>4. StepsTo(L, x, Header)
    BY <2>3, <1>1, StepEnds
  <2> QED BY <2>2, <2>4
<1> QED BY <1>2, <1>3, <1>4


(***************************************************************************)
(* _Rb_tree_black_count: every node without two children counts the same.   *)
(***************************************************************************)
LEMMA CountStep ==
  ASSUME NEW t, NEW L, NEW H, Shape(t, L), Heights(t, L, H, Header, "left"), NEW n \in L, n # root(t)
  PROVE  /\ t[n].up \in L /\ H[t[n].up] = H[n] + Weight(t, t[n].up)
         /\ H[t[n].up] \in Nat /\ H[n] \in Nat
<1>1. PICK p, q : p = t[n].up /\ q = Side(t, n, p)
  OBVIOUS
<1>2. p \in L /\ q \in Sides /\ t[p][q] = n
  BY <1>1, ParentFacts
<1>3. H[p] = H[t[p][q]] + Gap(Header, "left", p, q) + Weight(t, p) /\ H[p] \in Nat /\ H[t[p][q]] \in Nat
  BY <1>2, LevelFacts
<1>4. Gap(Header, "left", p, q) = 0
  BY <1>2, NoGap, ShapeFacts
<1>5. Weight(t, p) \in Nat
  BY DEF Weight
<1> QED BY <1>1, <1>2, <1>3, <1>4, <1>5

LEMMA CountTips ==
  ASSUME NEW t, NEW L, NEW H, Shape(t, L), Heights(t, L, H, Header, "left"),
         NEW R, NEW m, Ranked(t, L, R, m), Linked(t) = L,
         NEW x \in L, Null \in {t[x].left, t[x].right}
  PROVE  _Rb_tree_black_count(t, x) = H[root(t)]
<1>1. /\ root(t) \in L /\ Null \notin L /\ Header \notin L /\ L \subseteq Ptr
      /\ \A n \in L : H[n] \in Nat /\ Weight(t, n) \in Nat
      /\ H[root(t)] \in Nat /\ H[Null] = 0
  <2>1. root(t) \in L
    BY DEF Shape
  <2>2. \A n \in L : H[n] \in Nat
    BY ShapeFacts DEF Heights
  <2> QED BY <2>1, <2>2, ShapeFacts DEF Heights, Weight
<1>2. PICK h, c : h = H[root(t)] /\ c = [n \in L |-> Weight(t, n) + (h - H[n])]
  OBVIOUS
<1>3. ASSUME NEW n \in L
      PROVE  c[n] = Weight(t, n) + (IF n = root(t) THEN 0 ELSE c[t[n].up])
  <2>1. c[n] = Weight(t, n) + (h - H[n])
    BY <1>2
  <2>2. CASE n = root(t)
    BY <2>1, <2>2, <1>1, <1>2
  <2>3. CASE n # root(t)
    <3>1. PICK p : p = t[n].up
      OBVIOUS
    <3>2. p \in L /\ H[p] = H[n] + Weight(t, p) /\ H[p] \in Nat /\ H[n] \in Nat
      BY <2>3, <3>1, CountStep
    <3>3. c[p] = Weight(t, p) + (h - H[p])
      BY <3>2, <1>2
    <3>4. h \in Nat /\ Weight(t, p) \in Nat /\ Weight(t, n) \in Nat
      BY <3>2, <1>1, <1>2
    <3>5. c[p] = h - H[n]
      BY <3>2, <3>3, <3>4
    <3> QED BY <2>1, <2>3, <3>1, <3>5
  <2> QED BY <2>2, <2>3
<1>4. \A n : Weight(t, n) = IF t[n].red THEN 0 ELSE 1
  BY DEF Weight
<1>5. c = [n \in Linked(t) |-> (IF t[n].red THEN 0 ELSE 1) + (IF n = root(t) THEN 0 ELSE c[t[n].up])]
  <2>1. c = [n \in L |-> c[n]]
    BY <1>2
  <2>2. [n \in L |-> c[n]]
        = [n \in L |-> (IF t[n].red THEN 0 ELSE 1) + (IF n = root(t) THEN 0 ELSE c[t[n].up])]
    BY <1>3, <1>4
  <2> QED BY <2>1, <2>2
<1> DEFINE sum == CHOOSE sum : sum = [n \in Linked(t) |->
                     (IF t[n].red THEN 0 ELSE 1) + (IF n = root(t) THEN 0 ELSE sum[t[n].up])]
<1>6. sum = [n \in Linked(t) |->
               (IF t[n].red THEN 0 ELSE 1) + (IF n = root(t) THEN 0 ELSE sum[t[n].up])]
  BY <1>5
<1>7. _Rb_tree_black_count(t, x) = sum[x]
  BY DEF _Rb_tree_black_count
<1> HIDE DEF sum
<1>8. \A n \in L : sum[n] = Weight(t, n) + (IF n = root(t) THEN 0 ELSE sum[t[n].up])
  BY <1>4, <1>6
<1>9. PICK C : C = {n \in L : sum[n] # c[n]}
  OBVIOUS
<1>10. ASSUME NEW n \in C, n # root(t) PROVE n # root(t) /\ t[n].up \in C
  <2>1. n \in L /\ sum[n] # c[n]
    BY <1>9
  <2>2. t[n].up \in L
    BY <2>1, <1>10, ParentFacts
  <2>3. sum[n] = Weight(t, n) + sum[t[n].up] /\ c[n] = Weight(t, n) + c[t[n].up]
    BY <2>1, <1>3, <1>8, <1>10
  <2>4. sum[t[n].up] # c[t[n].up]
    BY <2>1, <2>3
  <2> QED BY <2>2, <2>4, <1>9, <1>10
<1>11. root(t) \notin C
  <2>1. sum[root(t)] = Weight(t, root(t)) + 0 /\ c[root(t)] = Weight(t, root(t)) + 0
    BY <1>1, <1>3, <1>8
  <2> QED BY <2>1, <1>9
<1>12. C = {}
  <2>1. C \subseteq L
    BY <1>9
  <2> QED BY <2>1, <1>10, <1>11, UpTo
<1>13. sum[x] = c[x]
  BY <1>9, <1>12
<1>14. H[x] = Weight(t, x)
  <2>1. PICK q \in Sides : t[x][q] = Null
    <3>1. "left" \in Sides /\ "right" \in Sides
      BY DEF Sides
    <3> QED BY <3>1
  <2>2. H[x] = H[t[x][q]] + Gap(Header, "left", x, q) + Weight(t, x)
    BY <2>1, LevelFacts
  <2>3. Gap(Header, "left", x, q) = 0
    BY <1>1, NoGap
  <2> QED BY <2>1, <2>2, <2>3, <1>1
<1>15. c[x] = Weight(t, x) + (h - H[x])
  BY <1>2
<1> QED BY <1>1, <1>2, <1>7, <1>13, <1>14, <1>15

(***************************************************************************)
(* Linking a new node.                                                     *)
(***************************************************************************)
(* u is t with the red x hung under p on side s.                             *)
Hangs(t, u, x, p, s) ==
  /\ u \in Trees
  /\ \A n \in Node : /\ u[n].red = IF n = x THEN TRUE ELSE t[n].red
                     /\ u[n].up = IF n = x THEN p ELSE IF n = Header /\ p = Header THEN x ELSE t[n].up
  /\ \A n \in Node, q \in Sides :
       u[n][q] = IF n = x THEN Null
                 ELSE IF n = p /\ q = s THEN x
                 ELSE IF n = Header /\ (p = Header \/ (p = t[Header][s] /\ q = s)) THEN x
                 ELSE t[n][q]

LEMMA LinkFields ==
  ASSUME NEW t \in Trees, NEW x \in Keys, NEW p \in Node, p # x, NEW s \in Sides,
         p = Header => s = "left"
  PROVE  Hangs(t, Link(t, x, p, s), x, p, s)
<1>1. /\ x \in Node /\ x \in Ptr /\ Header \in Node /\ Header \in Ptr /\ x # Header /\ p \in Ptr
      /\ "right" \in Sides /\ "left" # "right" /\ \A q \in Sides : q \in {"left", "right"}
      /\ Null \in Ptr
  BY RbAssumption DEF Node, Ptr, Sides
<1>2. PICK a, u : /\ a = [t EXCEPT ![x] = [up |-> p, left |-> Null, right |-> Null, red |-> TRUE]]
                  /\ u = SetChild(a, p, s, x)
  OBVIOUS
<1>3. /\ a \in Trees
      /\ \A n \in Node : /\ a[n].red = IF n = x THEN TRUE ELSE t[n].red
                         /\ a[n].up = IF n = x THEN p ELSE t[n].up
      /\ \A n \in Node, q \in Sides : a[n][q] = IF n = x THEN Null ELSE t[n][q]
  <2>1. a \in Trees
    BY <1>1, <1>2 DEF Trees
  <2>2. \A n \in Node : a[n] = IF n = x THEN [up |-> p, left |-> Null, right |-> Null, red |-> TRUE] ELSE t[n]
    BY <1>1, <1>2 DEF Trees
  <2>3. \A n \in Node, q \in Sides : a[n][q] = IF n = x THEN Null ELSE t[n][q]
    BY <2>2 DEF Sides
  <2>4. ASSUME NEW n \in Node PROVE a[n].red = IF n = x THEN TRUE ELSE t[n].red
    <3>1. CASE n = x
      <4>1. a[n] = [up |-> p, left |-> Null, right |-> Null, red |-> TRUE]
        BY <3>1, <2>2
      <4>2. a[n].red = TRUE
        BY <4>1
      <4> QED BY <4>2, <3>1
    <3>2. CASE n # x
      BY <3>2, <2>2
    <3> QED BY <3>1, <3>2
  <2>5. ASSUME NEW n \in Node PROVE a[n].up = IF n = x THEN p ELSE t[n].up
    BY <2>2
  <2> QED BY <2>1, <2>3, <2>4, <2>5
<1>4. PutsChild(a, u, p, s, x)
  BY <1>1, <1>2, <1>3, SetChildFields
<1>5. u \in Trees
  BY <1>4 DEF PutsChild
<1>6. CASE p = Header
  <2>1. PICK b, v : b = SetUp(u, Header, x) /\ v = SetChild(b, Header, "right", x)
    OBVIOUS
  <2>2. PutsUp(u, b, Header, x)
    BY <2>1, <1>1, <1>5, SetUpFields
  <2>3. b \in Trees
    BY <2>2 DEF PutsUp
  <2>4. PutsChild(b, v, Header, "right", x)
    BY <2>1, <2>3, <1>1, SetChildFields
  <2>5. v = Link(t, x, p, s)
    BY <2>1, <1>2, <1>6 DEF Link
  <2>6. v \in Trees
    BY <2>4 DEF PutsChild
  <2>7. \A n \in Node : /\ v[n].red = IF n = x THEN TRUE ELSE t[n].red
                        /\ v[n].up = IF n = x THEN p ELSE IF n = Header THEN x ELSE t[n].up
    <3> TAKE n \in Node
    <3>1. v[n].red = b[n].red /\ v[n].up = b[n].up
      BY <2>4 DEF PutsChild
    <3>2. b[n].red = u[n].red /\ b[n].up = IF n = Header THEN x ELSE u[n].up
      BY <2>2 DEF PutsUp
    <3>3. u[n].red = a[n].red /\ u[n].up = a[n].up
      BY <1>4 DEF PutsChild
    <3>4. a[n].red = IF n = x THEN TRUE ELSE t[n].red
      BY <1>3
    <3>5. a[n].up = IF n = x THEN p ELSE t[n].up
      BY <1>3
    <3>6. v[n].red = IF n = x THEN TRUE ELSE t[n].red
      BY <3>1, <3>2, <3>3, <3>4
    <3>7. v[n].up = IF n = x THEN p ELSE IF n = Header THEN x ELSE t[n].up
      BY <3>1, <3>2, <3>3, <3>5, <1>1
    <3> QED BY <3>6, <3>7
  <2>8. \A n \in Node, q \in Sides :
          v[n][q] = IF n = x THEN Null ELSE IF n = Header THEN x ELSE t[n][q]
    <3> TAKE n \in Node, q \in Sides
    <3>1. v[n][q] = IF n = Header /\ q = "right" THEN x ELSE b[n][q]
      BY <2>4 DEF PutsChild
    <3>2. b[n][q] = u[n][q]
      BY <2>2 DEF PutsUp
    <3>3. u[n][q] = IF n = Header /\ q = "left" THEN x ELSE a[n][q]
      BY <1>4, <1>6 DEF PutsChild
    <3>4. a[n][q] = IF n = x THEN Null ELSE t[n][q]
      BY <1>3
    <3>5. q = "left" \/ q = "right"
      BY <1>1
    <3> QED BY <3>1, <3>2, <3>3, <3>4, <3>5, <1>1
  <2>9. Hangs(t, v, x, p, s)
    BY <2>6, <2>7, <2>8, <1>6 DEF Hangs
  <2> QED BY <2>5, <2>9
<1>7. CASE p # Header /\ p = t[Header][s]
  <2>1. PICK v : v = SetChild(u, Header, s, x)
    OBVIOUS
  <2>2. v = Link(t, x, p, s)
    BY <2>1, <1>2, <1>7 DEF Link
  <2>3. PutsChild(u, v, Header, s, x)
    BY <2>1, <1>1, <1>5, SetChildFields
  <2>4. v \in Trees
    BY <2>3 DEF PutsChild
  <2>5. \A n \in Node : /\ v[n].red = IF n = x THEN TRUE ELSE t[n].red
                        /\ v[n].up = IF n = x THEN p ELSE t[n].up
    BY <2>3, <1>3, <1>4 DEF PutsChild
  <2>6. \A n \in Node, q \in Sides :
          v[n][q] = IF n = x THEN Null
                    ELSE IF n = p /\ q = s THEN x
                    ELSE IF n = Header /\ q = s THEN x ELSE t[n][q]
    <3> TAKE n \in Node, q \in Sides
    <3>1. v[n][q] = IF n = Header /\ q = s THEN x ELSE u[n][q]
      BY <2>3 DEF PutsChild
    <3>2. u[n][q] = IF n = p /\ q = s THEN x ELSE a[n][q]
      BY <1>4 DEF PutsChild
    <3>3. a[n][q] = IF n = x THEN Null ELSE t[n][q]
      BY <1>3
    <3> QED BY <3>1, <3>2, <3>3, <1>1
  <2>7. Hangs(t, v, x, p, s)
    BY <2>4, <2>5, <2>6, <1>7 DEF Hangs
  <2> QED BY <2>2, <2>7
<1>8. CASE p # Header /\ p # t[Header][s]
  <2>1. u = Link(t, x, p, s)
    BY <1>2, <1>8 DEF Link
  <2>2. \A n \in Node : /\ u[n].red = IF n = x THEN TRUE ELSE t[n].red
                        /\ u[n].up = IF n = x THEN p ELSE t[n].up
    BY <1>3, <1>4 DEF PutsChild
  <2>3. \A n \in Node, q \in Sides :
          u[n][q] = IF n = x THEN Null ELSE IF n = p /\ q = s THEN x ELSE t[n][q]
    BY <1>3, <1>4 DEF PutsChild
  <2>4. Hangs(t, u, x, p, s)
    BY <2>2, <2>3, <1>5, <1>8 DEF Hangs
  <2> QED BY <2>1, <2>4
<1> QED BY <1>6, <1>7, <1>8

(* Below p. *)
LEMMA HangsShape ==
  ASSUME NEW t, NEW L, Shape(t, L), NEW k \in Keys, k \notin L,
         NEW p \in L, NEW s \in Sides, t[p][s] = Null, NEW u, Hangs(t, u, k, p, s)
  PROVE  Shape(u, L \cup {k}) /\ root(u) = root(t)
<1>1. /\ t \in Trees /\ L \subseteq Keys /\ L \subseteq Node /\ Header \in Node /\ k \in Node
      /\ Header \notin L /\ Null \notin L /\ k # Header /\ k # Null /\ k # p /\ p # Header
  BY ShapeFacts, RbAssumption DEF Node
<1>2. /\ u \in Trees
      /\ \A n \in Node : /\ u[n].red = IF n = k THEN TRUE ELSE t[n].red
                         /\ u[n].up = IF n = k THEN p ELSE t[n].up
  BY <1>1 DEF Hangs
<1>3. /\ \A n \in L, q \in Sides : u[n][q] = IF n = p /\ q = s THEN k ELSE t[n][q]
      /\ \A q \in Sides : u[k][q] = Null
  BY <1>1 DEF Hangs
<1>4. root(u) = root(t)
  BY <1>1, <1>2 DEF root
<1>5. u[Header].red
  BY <1>1, <1>2 DEF Shape
<1>6. root(u) # Null => root(u) \in L /\ u[root(u)].up = Header
  <2>1. root(t) # Null => root(t) \in L /\ t[root(t)].up = Header
    BY DEF Shape
  <2> QED BY <2>1, <1>1, <1>2, <1>4
<1>7. root(u) \in L
  <2>1. root(t) # Null
    BY DEF Shape
  <2> QED BY <2>1, <1>4, <1>6
<1>8. ASSUME NEW n \in L \cup {k}, NEW q \in Sides, u[n][q] # Null
      PROVE  u[n][q] \in L \cup {k} /\ u[u[n][q]].up = n /\ u[n][Other(q)] # u[n][q]
  <2>1. n \in L
    BY <1>3, <1>8
  <2>2. Other(q) \in Sides /\ Other(q) # q
    BY SideFacts
  <2>3. t[n][q] # k /\ t[n][Other(q)] # k
    <3>1. t[n][q] # Null => t[n][q] \in L
      BY <2>1, ChildFacts
    <3>2. t[n][Other(q)] # Null => t[n][Other(q)] \in L
      BY <2>1, <2>2, ChildFacts
    <3> QED BY <3>1, <3>2, <1>1
  <2>4. CASE n = p /\ q = s
    <3>1. u[n][q] = k /\ u[n][Other(q)] = t[n][Other(q)]
      BY <2>1, <2>2, <2>4, <1>3
    <3> QED BY <3>1, <2>3, <2>4, <1>1, <1>2
  <2>5. CASE ~ (n = p /\ q = s)
    <3>1. PICK c : c = t[n][q]
      OBVIOUS
    <3>2. u[n][q] = c /\ c # Null
      BY <2>1, <2>5, <3>1, <1>3, <1>8
    <3>3. c \in L /\ t[c].up = n /\ t[n][Other(q)] # c
      BY <2>1, <3>1, <3>2, ChildFacts
    <3>4. u[c].up = n /\ c # k
      BY <3>3, <1>1, <1>2
    <3>5. u[n][Other(q)] # c
      BY <3>3, <3>4, <2>1, <2>2, <1>3
    <3> QED BY <3>2, <3>3, <3>4, <3>5
  <2> QED BY <2>4, <2>5
<1>9. ASSUME NEW n \in L \cup {k}, n # root(u)
      PROVE  u[n].up \in L \cup {k} /\ \E q \in Sides : u[u[n].up][q] = n
  <2>1. CASE n = k
    BY <2>1, <1>1, <1>2, <1>3
  <2>2. CASE n # k
    <3>1. PICK a, q : a = t[n].up /\ q = Side(t, n, a)
      OBVIOUS
    <3>2. n \in L /\ n # root(t)
      BY <2>2, <1>4, <1>9
    <3>3. a \in L /\ q \in Sides /\ t[a][q] = n
      BY <3>1, <3>2, ParentFacts
    <3>4. ~ (a = p /\ q = s)
      BY <3>2, <3>3, <1>1
    <3>5. u[a][q] = n
      BY <3>3, <3>4, <1>3
    <3>6. u[n].up = a
      BY <3>1, <3>2, <2>2, <1>1, <1>2
    <3> QED BY <3>3, <3>5, <3>6
  <2> QED BY <2>1, <2>2
<1>10. L \cup {k} \subseteq Keys /\ root(u) \in L \cup {k} \cup {Null} /\ root(u) # Null
  BY <1>1, <1>7
<1>11. Shape(u, L \cup {k})
  BY <1>2, <1>5, <1>6, <1>8, <1>9, <1>10 DEF Shape
<1> QED BY <1>4, <1>11

LEMMA HangsHeights ==
  ASSUME NEW t, NEW L, Shape(t, L), NEW H, Heights(t, L, H, Header, "left"), NEW k \in Keys, k \notin L,
         NEW p \in L, NEW s \in Sides, t[p][s] = Null, NEW u, Hangs(t, u, k, p, s)
  PROVE  \E G : Heights(u, L \cup {k}, G, Header, "left")
<1>1. /\ t \in Trees /\ L \subseteq Node /\ L \subseteq Ptr /\ k \in Node /\ k \in Ptr
      /\ Header \notin L /\ Null \notin L /\ k # Header /\ k # Null /\ Null \in Ptr
      /\ H \in [Ptr -> Nat] /\ H[Null] = 0
  BY ShapeFacts, RbAssumption DEF Node, Ptr, Heights
<1>2. \A n \in Node : u[n].red = IF n = k THEN TRUE ELSE t[n].red
  BY DEF Hangs
<1>3. /\ \A n \in L, q \in Sides : u[n][q] = IF n = p /\ q = s THEN k ELSE t[n][q]
      /\ \A q \in Sides : u[k][q] = Null
  BY <1>1 DEF Hangs
<1>4. PICK b \in Nat : \A n \in L : H[n] <= b
  BY DEF Heights, Bounded
<1>5. PICK G : G = [n \in Ptr |-> IF n = k THEN 0 ELSE H[n]]
  OBVIOUS
<1>6. G \in [Ptr -> Nat] /\ G[k] = 0 /\ \A n \in Ptr : n # k => G[n] = H[n]
  BY <1>1, <1>5
<1>7. G[Null] = 0 /\ Bounded(L \cup {k}, G)
  BY <1>1, <1>4, <1>6 DEF Bounded
<1>8. ASSUME NEW n \in L \cup {k}, NEW q \in Sides
      PROVE  G[n] = G[u[n][q]] + Gap(Header, "left", n, q) + Weight(u, n)
  <2>0. Gap(Header, "left", n, q) = 0
    BY <1>1, NoGap
  <2>1. CASE n = k
    <3>1. Weight(u, n) = 0 /\ G[n] = 0 /\ u[n][q] = Null
      BY <2>1, <1>1, <1>2, <1>3, <1>6 DEF Weight
    <3> QED BY <3>1, <2>0, <1>7
  <2>2. CASE n # k
    <3>1. n \in L
      BY <2>2
    <3>2. PICK c : c = t[n][q]
      OBVIOUS
    <3>3. c \in Ptr /\ c # k
      BY <3>1, <3>2, <1>1, ChildFacts
    <3>4. H[n] = H[c] + Gap(Header, "left", n, q) + Weight(t, n)
      BY <3>1, <3>2, LevelFacts
    <3>5. Weight(u, n) = Weight(t, n) /\ G[n] = H[n] /\ G[c] = H[c]
      BY <3>1, <3>3, <2>2, <1>1, <1>2, <1>6 DEF Weight
    <3>6. G[u[n][q]] = G[c]
      BY <3>1, <3>2, <1>1, <1>3, <1>6
    <3> QED BY <3>4, <3>5, <3>6
  <2> QED BY <2>1, <2>2
<1>9. Heights(u, L \cup {k}, G, Header, "left")
  BY <1>6, <1>7, <1>8 DEF Heights, Level
<1> QED BY <1>9

LEMMA HangsSorted ==
  ASSUME NEW t, NEW L, NEW K, Shape(t, L), Bounds(t, L, K), Edges(t, L, K), NEW k \in Keys, k \notin L,
         NEW p, NEW s, Free(t, L, K, k, p, s), NEW u, Hangs(t, u, k, p, s)
  PROVE  Sorted(u, L \cup {k})
<1>1. /\ L \subseteq Keys /\ L \subseteq Node /\ Header \in Node /\ k \in Node
      /\ Header \notin L /\ Null \notin L /\ k # Header /\ k # Null
      /\ p \in L /\ s \in Sides /\ t[p][s] = Null /\ Before(s, k, p) /\ Cuts(K, p, k)
      /\ p # Header /\ k # p
  BY ShapeFacts, RbAssumption DEF Node, Free
<1>2. /\ \A n \in L, q \in Sides : u[n][q] = IF n = p /\ q = s THEN k ELSE t[n][q]
      /\ \A q \in Sides : u[k][q] = Null
      /\ \A q \in Sides : u[Header][q] = IF p = t[Header][s] /\ q = s THEN k ELSE t[Header][q]
  BY <1>1 DEF Hangs
<1>3. root(u) = root(t)
  BY <1>1 DEF root, Hangs
<1>4. PICK M, J : /\ M = L \cup {k}
                  /\ J = [n \in M |-> [q \in Sides |->
                            IF n = k THEN IF q = s THEN K[p][s] ELSE p ELSE K[n][q]]]
  OBVIOUS
<1>5. /\ K \in [L -> [Sides -> L \cup {Header}]]
      /\ root(t) # Null => \A q \in Sides : K[root(t)][q] = Header
      /\ \A n \in L, q \in Sides :
           t[n][q] # Null => K[t[n][q]][q] = K[n][q] /\ K[t[n][q]][Other(q)] = n
      /\ \A n \in L, q \in Sides : K[n][q] # Header => Before(q, K[n][q], n)
  BY DEF Bounds
<1>6. J \in [M -> [Sides -> M \cup {Header}]]
  BY <1>1, <1>4, <1>5
<1>7. /\ \A n \in L, q \in Sides : J[n][q] = K[n][q]
      /\ \A q \in Sides : J[k][q] = IF q = s THEN K[p][s] ELSE p
  BY <1>4
<1>8. root(t) \in L /\ root(t) # Null
  BY <1>1 DEF Shape
<1>9. \A q \in Sides : J[root(u)][q] = Header
  BY <1>3, <1>5, <1>7, <1>8
<1>10. ASSUME NEW n \in M, NEW q \in Sides, u[n][q] # Null
       PROVE  J[u[n][q]][q] = J[n][q] /\ J[u[n][q]][Other(q)] = n
  <2>1. n \in L /\ Other(q) \in Sides /\ Other(q) # q
    BY <1>2, <1>4, <1>10, SideFacts
  <2>2. CASE n = p /\ q = s
    BY <2>1, <2>2, <1>2, <1>7
  <2>3. CASE ~ (n = p /\ q = s)
    <3>1. PICK c : c = t[n][q]
      OBVIOUS
    <3>2. u[n][q] = c /\ c # Null
      BY <2>1, <2>3, <3>1, <1>2, <1>10
    <3>3. c \in L
      BY <2>1, <3>1, <3>2, ChildFacts
    <3>4. K[c][q] = K[n][q] /\ K[c][Other(q)] = n
      BY <2>1, <3>1, <3>2, <1>5
    <3> QED BY <2>1, <3>2, <3>3, <3>4, <1>7
  <2> QED BY <2>2, <2>3
<1>11. ASSUME NEW n \in M, NEW q \in Sides, J[n][q] # Header
       PROVE  Before(q, J[n][q], n)
  <2>1. CASE n = k /\ q = s
    BY <2>1, <1>1, <1>7, <1>11 DEF Cuts
  <2>2. CASE n = k /\ q # s
    <3>1. J[n][q] = p
      BY <2>2, <1>7
    <3>2. Before(q, p, k)
      BY <2>2, <1>1 DEF Before, Sides
    <3> QED BY <3>1, <3>2, <2>2
  <2>3. CASE n # k
    BY <2>3, <1>4, <1>5, <1>7, <1>11
  <2> QED BY <2>1, <2>2, <2>3
<1>12. Bounds(u, M, J)
  BY <1>6, <1>9, <1>10, <1>11 DEF Bounds
<1>13. ASSUME NEW q \in Sides
       PROVE  u[Header][q] \in M /\ u[u[Header][q]][q] = Null /\ J[u[Header][q]][q] = Header
  <2>1. PICK e : e = t[Header][q]
    OBVIOUS
  <2>2. e \in L /\ t[e][q] = Null /\ K[e][q] = Header
    BY <2>1, <1>8 DEF Edges
  <2>3. CASE p = e /\ q = s
    <3>1. u[Header][q] = k
      BY <2>1, <2>3, <1>2
    <3> QED BY <3>1, <2>2, <2>3, <1>2, <1>4, <1>7
  <2>4. CASE ~ (p = e /\ q = s)
    <3>1. u[Header][q] = e
      BY <2>1, <2>4, <1>2
    <3>2. u[e][q] = Null
      BY <2>2, <2>4, <1>2
    <3> QED BY <3>1, <3>2, <2>2, <1>4, <1>7
  <2> QED BY <2>3, <2>4
<1>14. Edges(u, M, J)
  BY <1>3, <1>8, <1>13 DEF Edges
<1> QED BY <1>4, <1>12, <1>14 DEF Sorted

LEMMA LinkBelow ==
  ASSUME NEW t, NEW L, NEW K, Balanced(t, L), Bounds(t, L, K), Edges(t, L, K), NEW k \in Keys, k \notin L,
         NEW p, NEW s, Free(t, L, K, k, p, s)
  PROVE  /\ \E G : Fixing(Link(t, k, p, s), L \cup {k}, G, k)
         /\ Sorted(Link(t, k, p, s), L \cup {k})
         /\ \A n \in Keys : n \notin L \cup {k} => Link(t, k, p, s)[n].up = t[n].up
<1>1. Shape(t, L) /\ Colors(t, L, Null, Null)
  BY DEF Balanced
<1>2. PICK H : Heights(t, L, H, Header, "left")
  BY DEF Balanced
<1>3. /\ t \in Trees /\ L \subseteq Keys /\ L \subseteq Node /\ Header \in Node /\ k \in Node /\ Keys \subseteq Node
      /\ Header \notin L /\ Null \notin L /\ k # Header /\ k # Null /\ Null \notin Node
      /\ p \in L /\ p \in Node /\ s \in Sides /\ t[p][s] = Null /\ p # Header /\ k # p
  BY <1>1, ShapeFacts, RbAssumption DEF Node, Free
<1>4. PICK u : u = Link(t, k, p, s)
  OBVIOUS
<1>5. Hangs(t, u, k, p, s)
  BY <1>3, <1>4, LinkFields
<1>6. Shape(u, L \cup {k})
  BY <1>1, <1>3, <1>5, HangsShape
<1>7. PICK G : Heights(u, L \cup {k}, G, Header, "left")
  BY <1>1, <1>2, <1>3, <1>5, HangsHeights
<1>8. Sorted(u, L \cup {k})
  BY <1>1, <1>5, HangsSorted
<1>9. \A n \in Node : /\ u[n].red = IF n = k THEN TRUE ELSE t[n].red
                      /\ u[n].up = IF n = k THEN p ELSE t[n].up
  BY <1>3, <1>5 DEF Hangs
<1>10. Colors(u, L \cup {k}, k, Null)
  <2> SUFFICES ASSUME NEW n \in L, n # k, u[n].red PROVE ~ u[u[n].up].red
    BY DEF Colors
  <2>1. t[n].red /\ u[n].up = t[n].up
    BY <1>3, <1>9
  <2>2. t[n].up \in Node /\ t[n].up # k /\ t[n].up # Null /\ n # Null
    BY <1>1, <1>3, ParentFacts
  <2>3. ~ t[t[n].up].red
    BY <2>1, <2>2, <1>1 DEF Colors
  <2> QED BY <2>1, <2>2, <2>3, <1>9
<1>11. u[k].red /\ u[k].up # k /\ k \in L \cup {k}
  BY <1>3, <1>9
<1>12. Fixing(u, L \cup {k}, G, k)
  BY <1>6, <1>7, <1>10, <1>11 DEF Fixing
<1>13. \A n \in Keys : n \notin L \cup {k} => u[n].up = t[n].up
  BY <1>3, <1>9
<1> QED BY <1>4, <1>8, <1>12, <1>13

LEMMA LinkFirst ==
  ASSUME NEW t, Shape(t, {}), NEW k \in Keys
  PROVE  /\ \E G : Fixing(Link(t, k, Header, "left"), {k}, G, k)
         /\ Sorted(Link(t, k, Header, "left"), {k})
         /\ \A n \in Keys : n # k => Link(t, k, Header, "left")[n].up = t[n].up
<1>1. /\ t \in Trees /\ Header \in Node /\ k \in Node /\ Keys \subseteq Node /\ k # Header /\ k # Null
      /\ Null \in Ptr /\ k \in Ptr /\ "left" \in Sides /\ Header # Null
  BY ShapeFacts, RbAssumption DEF Node, Ptr, Sides
<1>2. PICK u : u = Link(t, k, Header, "left")
  OBVIOUS
<1>3. Hangs(t, u, k, Header, "left")
  BY <1>1, <1>2, LinkFields
<1>4. /\ u \in Trees
      /\ \A n \in Node : /\ u[n].red = IF n = k THEN TRUE ELSE t[n].red
                         /\ u[n].up = IF n = k THEN Header ELSE IF n = Header THEN k ELSE t[n].up
      /\ \A q \in Sides : u[k][q] = Null /\ u[Header][q] = k
  <2>1. u \in Trees
    BY <1>3 DEF Hangs
  <2>2. \A n \in Node : /\ u[n].red = IF n = k THEN TRUE ELSE t[n].red
                        /\ u[n].up = IF n = k THEN Header ELSE IF n = Header THEN k ELSE t[n].up
    BY <1>3 DEF Hangs
  <2>3. \A q \in Sides : u[k][q] = Null
    BY <1>1, <1>3 DEF Hangs
  <2>4. \A q \in Sides : u[Header][q] = k
    BY <1>1, <1>3 DEF Hangs
  <2> QED BY <2>1, <2>2, <2>3, <2>4
<1>5. root(u) = k /\ u[k].up = Header /\ u[k].red /\ u[Header].red
  BY <1>1, <1>4 DEF root, Shape
<1>6. Shape(u, {k})
  BY <1>1, <1>4, <1>5 DEF Shape
<1>7. PICK G : G = [n \in Ptr |-> 0]
  OBVIOUS
<1>8. Heights(u, {k}, G, Header, "left")
  <2>1. G \in [Ptr -> Nat] /\ G[Null] = 0 /\ G[k] = 0
    BY <1>1, <1>7
  <2>2. Bounded({k}, G)
    BY <2>1 DEF Bounded
  <2>3. \A q \in Sides : G[k] = G[u[k][q]] + Gap(Header, "left", k, q) + Weight(u, k)
    BY <2>1, <1>1, <1>4, <1>5 DEF Gap, Weight
  <2> QED BY <2>1, <2>2, <2>3 DEF Heights, Level
<1>9. Colors(u, {k}, k, Null)
  BY DEF Colors
<1>10. Fixing(u, {k}, G, k)
  BY <1>1, <1>5, <1>6, <1>8, <1>9 DEF Fixing
<1>11. PICK K : K = [n \in {k} |-> [q \in Sides |-> Header]]
  OBVIOUS
<1>12. Bounds(u, {k}, K) /\ Edges(u, {k}, K)
  BY <1>1, <1>4, <1>5, <1>11 DEF Bounds, Edges
<1>13. Sorted(u, {k})
  BY <1>12 DEF Sorted
<1>14. \A n \in Keys : n # k => u[n].up = t[n].up
  BY <1>1, <1>4, RbAssumption
<1> QED BY <1>2, <1>10, <1>13, <1>14

(***************************************************************************)
(* Unlinking a node z with one child x at most: x hangs from g, where z did. *)
(***************************************************************************)
(* g, on its side r, is where z hangs.                                       *)
Leaves(t, L, z, x, g, r) ==
  /\ z \in L /\ g = t[z].up /\ g # z /\ (g \in L => t[g].up # z) /\ r = Side(t, z, g)
  /\ \E p \in Sides : t[z][p] = x /\ t[z][Other(p)] = Null

(* What relinking writes: g points to x, and x to g.                         *)
Dropped(t, u, z, x, g, r) ==
  /\ u \in Trees
  /\ \A n \in Node : u[n].red = t[n].red
  /\ \A n \in Node : u[n].up = IF n = x THEN g ELSE IF n = Header /\ root(t) = z THEN x ELSE t[n].up
  /\ \A n \in Keys, q \in Sides : u[n][q] = IF n = g /\ q = r THEN x ELSE t[n][q]

LEMMA LeavesFacts ==
  ASSUME NEW t, NEW L, Shape(t, L), NEW z, NEW x, NEW g, NEW r, Leaves(t, L, z, x, g, r)
  PROVE  /\ z \in L /\ t[z].up = g /\ g # z /\ g \in Node /\ r = Side(t, z, g) /\ r \in Sides
         /\ \A q \in Sides : t[z][q] \in {x, Null}
         /\ \E q \in Sides : t[z][q] = Null
         /\ x # Null => x \in L /\ t[x].up = z /\ x # g
         /\ x # z /\ x # Header /\ x \in Ptr /\ x \in L \cup {Null}
         /\ g \in L \cup {Header}
         /\ root(t) = z => g = Header
         /\ root(t) # z => g \in L /\ t[g][r] = z
<1>1. z \in L /\ t[z].up = g /\ g # z /\ r = Side(t, z, g) /\ (g \in L => t[g].up # z)
  BY DEF Leaves
<1>2. PICK p \in Sides : t[z][p] = x /\ t[z][Other(p)] = Null
  BY DEF Leaves
<1>3. Other(p) \in Sides /\ \A q \in Sides : q # p => q = Other(p)
  BY SideFacts
<1>4. Null \notin L /\ Header \notin L /\ Header # Null /\ Null \in Ptr /\ L \subseteq Ptr
  BY ShapeFacts
<1>5. x # Null => x \in L /\ t[x].up = z
  BY <1>1, <1>2, ChildFacts
<1>6. g \in Node /\ (root(t) = z => g = Header) /\ (root(t) # z => g \in L /\ t[g][r] = z)
  BY <1>1, ParentFacts
<1>7. r \in Sides
  BY <1>1 DEF Side, Sides
<1>8. x # z /\ (x # Null => x # g)
  BY <1>1, <1>4, <1>5
<1>9. \A q \in Sides : t[z][q] \in {x, Null}
  BY <1>2, <1>3
<1>10. g \in L \cup {Header}
  BY <1>6
<1>11. x # Header /\ x \in Ptr /\ x \in L \cup {Null}
  BY <1>4, <1>5
<1> QED BY <1>1, <1>2, <1>3, <1>5, <1>6, <1>7, <1>8, <1>9, <1>10, <1>11

(* What UnlinkOne writes, but for the header's edges. *)
LEMMA DropFields ==
  ASSUME NEW t, NEW L, Shape(t, L), NEW z, NEW x, NEW g, NEW r, Leaves(t, L, z, x, g, r)
  PROVE  Dropped(t, Relink(SetUp(t, x, g), z, x), z, x, g, r)
<1>1. /\ z \in L /\ t[z].up = g /\ g # z /\ g \in Node /\ r = Side(t, z, g) /\ r \in Sides
      /\ x # z /\ x # Header /\ x \in Ptr
      /\ root(t) = z => g = Header
      /\ t \in Trees /\ L \subseteq Node /\ Header \in Node /\ Header \notin Keys /\ g \in Ptr
      /\ "left" \in Sides
  BY LeavesFacts, ShapeFacts, RbAssumption DEF Ptr, Sides
<1>2. PICK a, u : a = SetUp(t, x, g) /\ u = Relink(a, z, x)
  OBVIOUS
<1>3. PutsUp(t, a, x, g)
  BY <1>1, <1>2, SetUpFields
<1>4. /\ a \in Trees
      /\ \A n \in Node : a[n].red = t[n].red /\ a[n].up = IF n = x THEN g ELSE t[n].up
      /\ \A n \in Node, q \in Sides : a[n][q] = t[n][q]
  BY <1>3 DEF PutsUp
<1>5. a[z].up = g /\ root(a) = root(t) /\ z \in Node
  BY <1>1, <1>4 DEF root
<1>6. Side(a, z, g) = r
  <2>1. a[g]["left"] = t[g]["left"]
    BY <1>1, <1>4
  <2> QED BY <2>1, <1>1 DEF Side
<1>7. Relinks(a, u, z, x)
  BY <1>1, <1>2, <1>4, <1>5, RelinkFields
<1>8. /\ u \in Trees
      /\ \A n \in Node : /\ u[n].red = a[n].red
                         /\ u[n].up = IF n = Header /\ root(t) = z THEN x ELSE a[n].up
      /\ \A n \in Node, q \in Sides :
           u[n][q] = IF root(t) # z /\ n = g /\ q = r THEN x ELSE a[n][q]
  BY <1>5, <1>6, <1>7 DEF Relinks
<1>9. \A n \in Node : u[n].red = t[n].red
  BY <1>4, <1>8
<1>10. \A n \in Node : u[n].up = IF n = x THEN g ELSE IF n = Header /\ root(t) = z THEN x ELSE t[n].up
  BY <1>1, <1>4, <1>8
<1>11. ASSUME NEW n \in Keys, NEW q \in Sides PROVE u[n][q] = IF n = g /\ q = r THEN x ELSE t[n][q]
  <2>1. n \in Node /\ n # Header
    BY <1>1 DEF Node
  <2>2. n = g => root(t) # z
    BY <2>1, <1>1
  <2> QED BY <2>1, <2>2, <1>4, <1>8
<1>12. Dropped(t, u, z, x, g, r)
  BY <1>8, <1>9, <1>10, <1>11 DEF Dropped
<1> QED BY <1>2, <1>12

(* Without its only node a tree is empty. *)
LEMMA LastLeaves ==
  ASSUME NEW t, NEW L, Shape(t, L), NEW R, NEW m, Ranked(t, L, R, m), NEW z \in L, z = root(t),
         \A q \in Sides : t[z][q] = Null
  PROVE  L = {z}
<1>1. PICK C : C = L \ {z}
  OBVIOUS
<1>2. ASSUME NEW n \in C, n # root(t) PROVE n # root(t) /\ t[n].up \in C
  <2>1. n \in L
    BY <1>1
  <2>2. PICK p, q : p = t[n].up /\ q = Side(t, n, p)
    OBVIOUS
  <2>3. p \in L /\ q \in Sides /\ t[p][q] = n
    BY <2>1, <2>2, <1>2, ParentFacts
  <2>4. p # z
    BY <2>1, <2>3, ShapeFacts
  <2> QED BY <2>2, <2>3, <2>4, <1>1, <1>2
<1>3. root(t) \notin C /\ C \subseteq L
  BY <1>1
<1>4. C = {}
  BY <1>2, <1>3, UpTo
<1> QED BY <1>1, <1>4

LEMMA DropShape ==
  ASSUME NEW t, NEW L, Shape(t, L), NEW R, NEW m, Ranked(t, L, R, m),
         NEW z, NEW x, NEW g, NEW r, Leaves(t, L, z, x, g, r), NEW u, Dropped(t, u, z, x, g, r)
  PROVE  /\ Shape(u, L \ {z}) /\ root(u) = IF root(t) = z THEN x ELSE root(t)
<1>1. /\ z \in L /\ t[z].up = g /\ g # z /\ g \in Node /\ r = Side(t, z, g) /\ r \in Sides
      /\ \A q \in Sides : t[z][q] \in {x, Null}
      /\ x # Null => x \in L /\ t[x].up = z /\ x # g
      /\ x # z /\ x # Header /\ x \in Ptr /\ x \in L \cup {Null}
      /\ root(t) = z => g = Header
      /\ root(t) # z => g \in L /\ t[g][r] = z
  BY LeavesFacts
<1>2. /\ L \subseteq Keys /\ L \subseteq Node /\ Header \in Node /\ Header \notin L /\ Null \notin L
      /\ Header # Null /\ Null \notin Node
  BY ShapeFacts
<1>3. /\ u \in Trees
      /\ \A n \in Node : u[n].red = t[n].red
      /\ \A n \in Node : u[n].up = IF n = x THEN g ELSE IF n = Header /\ root(t) = z THEN x ELSE t[n].up
      /\ \A n \in L, q \in Sides : u[n][q] = IF n = g /\ q = r THEN x ELSE t[n][q]
  BY <1>2 DEF Dropped
<1>4. root(u) = IF root(t) = z THEN x ELSE root(t)
  BY <1>1, <1>2, <1>3 DEF root
<1>5. u[Header].red
  BY <1>2, <1>3 DEF Shape
<1>6. PICK M : M = L \ {z}
  OBVIOUS
<1>7. root(u) \in M \cup {Null}
  <2>1. root(t) \in L \cup {Null}
    BY DEF Shape
  <2> QED BY <2>1, <1>1, <1>4, <1>6
<1>8. ASSUME root(u) = Null PROVE M = {}
  <2>1. CASE root(t) = z
    <3>1. \A q \in Sides : t[z][q] = Null
      BY <2>1, <1>1, <1>4, <1>8
    <3>2. L = {z}
      BY <2>1, <3>1, <1>1, LastLeaves
    <3> QED BY <3>2, <1>6
  <2>2. CASE root(t) # z
    <3>1. L = {}
      BY <2>2, <1>4, <1>8 DEF Shape
    <3> QED BY <3>1, <1>1
  <2> QED BY <2>1, <2>2
<1>9. ASSUME root(u) # Null PROVE u[root(u)].up = Header
  <2>1. CASE root(t) = z
    <3>1. root(u) = x /\ x \in L /\ g = Header
      BY <2>1, <1>1, <1>4, <1>9
    <3> QED BY <3>1, <1>2, <1>3
  <2>2. CASE root(t) # z
    <3>1. PICK h : h = root(t)
      OBVIOUS
    <3>2. root(u) = h /\ h \in L /\ t[h].up = Header
      BY <2>2, <3>1, <1>4, <1>9 DEF Shape
    <3>3. h # x
      BY <3>2, <1>1, <1>2
    <3> QED BY <3>2, <3>3, <1>2, <1>3
  <2> QED BY <2>1, <2>2
<1>10. ASSUME NEW n \in M, NEW q \in Sides, u[n][q] # Null
       PROVE  u[n][q] \in M /\ u[u[n][q]].up = n /\ u[n][Other(q)] # u[n][q]
  <2>0. n \in L /\ n # z /\ n # Header /\ Other(q) \in Sides /\ Other(q) # q
    BY <1>2, <1>6, SideFacts
  <2>1. CASE n = g /\ q = r
    <3>1. u[n][q] = x /\ x \in M /\ u[x].up = g
      BY <2>0, <2>1, <1>1, <1>2, <1>3, <1>6, <1>10
    <3>2. u[n][Other(q)] = t[n][Other(q)]
      BY <2>0, <2>1, <1>3
    <3>3. t[n][Other(q)] # x
      <4>1. t[n][Other(q)] # Null => t[t[n][Other(q)]].up = n
        BY <2>0, ChildFacts
      <4> QED BY <4>1, <3>1, <2>0, <1>1, <1>2, <1>6
    <3> QED BY <3>1, <3>2, <3>3, <2>1
  <2>2. CASE ~ (n = g /\ q = r)
    <3>1. PICK c : c = t[n][q]
      OBVIOUS
    <3>2. u[n][q] = c /\ c # Null
      BY <2>0, <2>2, <3>1, <1>3, <1>10
    <3>3. c \in L /\ t[c].up = n /\ t[n][Other(q)] # c
      BY <2>0, <3>1, <3>2, ChildFacts
    <3>4. c # z
      <4>1. SUFFICES ASSUME c = z PROVE FALSE
        OBVIOUS
      <4>2. t[n][q] = z
        BY <4>1, <3>1
      <4>3. n = t[z].up /\ q = Side(t, z, n)
        BY <4>2, <2>0, <1>1, ParentFacts
      <4> QED BY <4>3, <2>2, <1>1
    <3>5. c # x
      BY <3>3, <2>0, <1>1, <1>2
    <3>6. u[c].up = n
      BY <3>3, <3>5, <1>2, <1>3
    <3>7. u[n][Other(q)] # c
      BY <3>3, <3>5, <2>0, <1>3
    <3> QED BY <3>2, <3>3, <3>4, <3>6, <3>7, <1>6
  <2> QED BY <2>1, <2>2
<1>11. ASSUME NEW n \in M, n # root(u)
       PROVE  u[n].up \in M /\ \E q \in Sides : u[u[n].up][q] = n
  <2>0. n \in L /\ n # z /\ n # Header
    BY <1>2, <1>6
  <2>1. CASE n = x
    <3>1. root(t) # z
      BY <2>1, <1>4, <1>11
    <3>2. g \in M /\ u[n].up = g /\ u[g][r] = x
      BY <2>0, <2>1, <3>1, <1>1, <1>2, <1>3, <1>6
    <3> QED BY <3>2, <2>1, <1>1
  <2>2. CASE n # x
    <3>1. n # root(t)
      BY <2>0, <1>4, <1>11
    <3>2. PICK a, q : a = t[n].up /\ q = Side(t, n, a)
      OBVIOUS
    <3>3. a \in L /\ q \in Sides /\ t[a][q] = n
      BY <2>0, <3>1, <3>2, ParentFacts
    <3>4. a # z
      BY <2>0, <2>2, <3>3, <1>1, <1>2
    <3>5. u[n].up = a
      BY <2>0, <2>2, <3>2, <1>2, <1>3
    <3>6. ~ (a = g /\ q = r)
      <4>1. root(t) # z => t[g][r] = z
        BY <1>1
      <4> QED BY <4>1, <2>0, <3>3, <1>1, <1>2
    <3>7. u[a][q] = n
      BY <3>3, <3>6, <1>3
    <3> QED BY <3>3, <3>4, <3>5, <3>7, <1>6
  <2> QED BY <2>1, <2>2
<1>12. M \subseteq Keys
  BY <1>2, <1>6
<1>13. Shape(u, M)
  BY <1>3, <1>5, <1>7, <1>8, <1>9, <1>10, <1>11, <1>12 DEF Shape
<1> QED BY <1>4, <1>6, <1>13

LEMMA DropHeights ==
  ASSUME NEW t, NEW L, Shape(t, L), NEW H, Heights(t, L, H, Header, "left"),
         NEW z, NEW x, NEW g, NEW r, Leaves(t, L, z, x, g, r), NEW u, Dropped(t, u, z, x, g, r),
         NEW dn, IF t[z].red THEN dn = Header ELSE dn = g
  PROVE  Heights(u, L \ {z}, H, dn, r)
<1>1. /\ z \in L /\ t[z].up = g /\ g # z /\ r = Side(t, z, g) /\ r \in Sides
      /\ \A q \in Sides : t[z][q] \in {x, Null}
      /\ root(t) = z => g = Header
      /\ root(t) # z => g \in L /\ t[g][r] = z
  BY LeavesFacts
<1>2. L \subseteq Keys /\ L \subseteq Node /\ Header \notin L
  BY ShapeFacts
<1>3. /\ \A n \in Node : u[n].red = t[n].red
      /\ \A n \in L, q \in Sides : u[n][q] = IF n = g /\ q = r THEN x ELSE t[n][q]
  BY <1>2 DEF Dropped
<1>4. H \in [Ptr -> Nat] /\ H[Null] = 0 /\ Bounded(L, H)
  BY DEF Heights
<1>5. Bounded(L \ {z}, H)
  BY <1>4 DEF Bounded
<1>6. H[z] = H[x] + Weight(t, z) /\ H[x] \in Nat /\ H[z] \in Nat
  <2>1. PICK q \in Sides : t[z][q] = x
    BY DEF Leaves
  <2>2. H[z] = H[t[z][q]] + Gap(Header, "left", z, q) + Weight(t, z) /\ H[z] \in Nat /\ H[t[z][q]] \in Nat
    BY <1>1, LevelFacts
  <2>3. Gap(Header, "left", z, q) = 0
    BY <1>1, <1>2, NoGap
  <2>4. Weight(t, z) \in Nat
    BY DEF Weight
  <2> QED BY <2>1, <2>2, <2>3, <2>4
<1>7. ASSUME NEW n \in L \ {z}, NEW q \in Sides
      PROVE  H[n] = H[u[n][q]] + Gap(dn, r, n, q) + Weight(u, n)
  <2>1. n \in L /\ n # z /\ n # Header
    BY <1>2
  <2>2. H[n] = H[t[n][q]] + Gap(Header, "left", n, q) + Weight(t, n) /\ H[n] \in Nat /\ H[t[n][q]] \in Nat
    BY <2>1, LevelFacts
  <2>3. Gap(Header, "left", n, q) = 0
    BY <2>1, NoGap
  <2>4. Weight(u, n) = Weight(t, n) /\ Weight(t, n) \in Nat
    BY <2>1, <1>2, <1>3 DEF Weight
  <2>5. CASE n = g /\ q = r
    <3>1. t[n][q] = z
      BY <2>1, <2>5, <1>1
    <3>2. u[n][q] = x
      BY <2>1, <2>5, <1>3
    <3>3. Gap(dn, r, n, q) = Weight(t, z)
      BY <2>1, <2>5 DEF Gap, Weight
    <3>4. Weight(t, z) \in Nat
      BY DEF Weight
    <3>5. H[n] = H[x] + Weight(t, z) + 0 + Weight(t, n)
      BY <3>1, <3>4, <2>2, <2>3, <2>4, <1>6
    <3> QED BY <3>2, <3>3, <3>4, <3>5, <2>4, <1>6
  <2>6. CASE ~ (n = g /\ q = r)
    <3>1. u[n][q] = t[n][q]
      BY <2>1, <2>6, <1>3
    <3>2. Gap(dn, r, n, q) = 0
      BY <2>1, <2>6 DEF Gap
    <3> QED BY <3>1, <3>2, <2>2, <2>3, <2>4
  <2> QED BY <2>5, <2>6
<1> QED BY <1>4, <1>5, <1>7 DEF Heights, Level

LEMMA DropErases ==
  ASSUME NEW t, NEW L, Balanced(t, L), NEW R, NEW m, Ranked(t, L, R, m),
         NEW z, NEW x, NEW g, NEW r, Leaves(t, L, z, x, g, r), NEW u, Dropped(t, u, z, x, g, r)
  PROVE  /\ ~ t[z].red => \E G : Erasing(u, L \ {z}, G, x, g, r)
         /\ t[z].red => x = Null /\ Balanced(u, L \ {z})
<1>0. PICK H : Shape(t, L) /\ Heights(t, L, H, Header, "left") /\ Colors(t, L, Null, Null)
  BY DEF Balanced
<1>1. /\ z \in L /\ t[z].up = g /\ g # z /\ r = Side(t, z, g) /\ r \in Sides
      /\ \A q \in Sides : t[z][q] \in {x, Null}
      /\ \E q \in Sides : t[z][q] = Null
      /\ x # Null => x \in L /\ t[x].up = z /\ x # g
      /\ x # z /\ x # Header /\ x \in Ptr /\ x \in L \cup {Null}
      /\ root(t) = z => g = Header
      /\ root(t) # z => g \in L /\ t[g][r] = z
  BY <1>0, LeavesFacts
<1>2. /\ L \subseteq Keys /\ L \subseteq Node /\ Header \notin L /\ Null \notin L /\ Header \in Node
      /\ Null \notin Node /\ Header # Null
  BY <1>0, ShapeFacts
<1>3. Shape(u, L \ {z}) /\ root(u) = IF root(t) = z THEN x ELSE root(t)
  BY <1>0, DropShape
<1>4. /\ \A n \in Node : u[n].red = t[n].red
      /\ \A n \in Node : u[n].up = IF n = x THEN g ELSE IF n = Header /\ root(t) = z THEN x ELSE t[n].up
      /\ \A n \in L, q \in Sides : u[n][q] = IF n = g /\ q = r THEN x ELSE t[n][q]
  BY <1>2 DEF Dropped
<1>5. ASSUME NEW n \in L \ {z}, n # x, u[n].red PROVE ~ u[u[n].up].red
  <2>1. n \in L /\ t[n].up \in Node /\ t[n].up # Null /\ n # Null /\ n # Header /\ n \in Node
    BY <1>0, <1>2, ParentFacts
  <2>2. t[n].red /\ u[n].up = t[n].up
    BY <2>1, <1>4, <1>5
  <2>3. ~ t[t[n].up].red
    BY <2>1, <2>2, <1>0 DEF Colors
  <2> QED BY <2>1, <2>2, <2>3, <1>4
<1>6. ASSUME ~ t[z].red PROVE \E G : Erasing(u, L \ {z}, G, x, g, r)
  <2>1. PICK dn : dn = g
    OBVIOUS
  <2>2. Heights(u, L \ {z}, H, dn, r)
    BY <2>1, <1>0, <1>6, DropHeights
  <2>3. Colors(u, L \ {z}, x, x)
    BY <1>5 DEF Colors
  <2>4. x \in (L \ {z}) \cup {Null}
    BY <1>1
  <2>5. Missing(u, L \ {z}, x, g, r)
    <3>1. CASE root(t) = z
      BY <3>1, <1>1, <1>3 DEF Missing
    <3>2. CASE root(t) # z
      <4>1. root(t) # Null /\ t[root(t)].up = Header
        BY <1>0, <1>1 DEF Shape
      <4>2. x # root(t)
        BY <4>1, <1>1, <1>2
      <4>3. g \in L \ {z} /\ u[g][r] = x
        BY <3>2, <1>1, <1>4
      <4> QED BY <3>2, <4>2, <4>3, <1>1, <1>3 DEF Missing
    <3> QED BY <3>1, <3>2
  <2>6. Erasing(u, L \ {z}, H, x, g, r)
    BY <2>1, <2>2, <2>3, <2>4, <2>5, <1>3 DEF Erasing
  <2> QED BY <2>6
<1>7. ASSUME t[z].red PROVE x = Null /\ Balanced(u, L \ {z})
  <2>1. PICK q, e \in Sides : t[z][q] = Null /\ t[z][e] = x /\ q \in Sides
    BY <1>1 DEF Leaves
  <2>2. /\ H[z] = H[t[z][q]] + Gap(Header, "left", z, q) + Weight(t, z)
        /\ H[z] = H[t[z][e]] + Gap(Header, "left", z, e) + Weight(t, z)
        /\ H[z] \in Nat /\ H[t[z][e]] \in Nat
    BY <2>1, <1>0, <1>1, LevelFacts
  <2>3. Gap(Header, "left", z, q) = 0 /\ Gap(Header, "left", z, e) = 0
    BY <1>1, <1>2, NoGap
  <2>4. H[Null] = 0 /\ Weight(t, z) = 0
    BY <1>0, <1>7 DEF Heights, Weight
  <2>5. H[x] = 0
    BY <2>1, <2>2, <2>3, <2>4
  <2>6. x = Null
    <3>1. SUFFICES ASSUME x # Null PROVE FALSE
      OBVIOUS
    <3>2. x \in L /\ ~ t[x].red
      BY <3>1, <1>0, <1>1, <1>2, <1>7 DEF Colors
    <3>3. H[x] = H[t[x]["left"]] + Gap(Header, "left", x, "left") + Weight(t, x) /\ H[t[x]["left"]] \in Nat
      <4>1. "left" \in Sides
        BY DEF Sides
      <4> QED BY <3>2, <4>1, <1>0, LevelFacts
    <3>4. Weight(t, x) = 1 /\ Gap(Header, "left", x, "left") = 0
      BY <3>2, <1>2, NoGap DEF Weight
    <3> QED BY <3>3, <3>4, <2>5
  <2>7. PICK dn : dn = Header
    OBVIOUS
  <2>8. Heights(u, L \ {z}, H, dn, r)
    BY <2>7, <1>0, <1>7, DropHeights
  <2>9. Heights(u, L \ {z}, H, Header, "left")
    <3>1. \A n \in L, p \in Sides : Gap(Header, "left", n, p) = Gap(dn, r, n, p)
      BY <2>7, <1>2 DEF Gap
    <3> QED BY <2>8, <3>1 DEF Heights, Level
  <2>10. Colors(u, L \ {z}, Null, Null)
    BY <2>6, <1>5 DEF Colors
  <2> QED BY <2>6, <2>9, <2>10, <1>3 DEF Balanced
<1> QED BY <1>6, <1>7

(* The bounds J without z, whose own bounds take its place. *)
Shrinks(L, K, z, J) ==
  /\ J \in [L \ {z} -> [Sides -> (L \ {z}) \cup {Header}]]
  /\ \A n \in L \ {z}, q \in Sides : J[n][q] = IF K[n][q] = z THEN K[z][q] ELSE K[n][q]
  /\ \A q \in Sides : K[z][q] # z
  /\ \A n \in L \ {z}, q \in Sides : J[n][q] # Header => Before(q, J[n][q], n)

LEMMA ShrinkBounds ==
  ASSUME NEW t, NEW L, NEW K, Shape(t, L), Bounds(t, L, K), NEW z \in L
  PROVE  \E J : Shrinks(L, K, z, J)
<1>1. /\ L \subseteq Keys /\ L \subseteq Int /\ Header \notin L /\ z # Header
      /\ K \in [L -> [Sides -> L \cup {Header}]]
      /\ \A n \in L, q \in Sides : K[n][q] # Header => Before(q, K[n][q], n)
  BY ShapeFacts, RbAssumption DEF Bounds
<1>2. ASSUME NEW q \in Sides PROVE K[z][q] # z
  <2>1. SUFFICES ASSUME K[z][q] = z PROVE FALSE
    OBVIOUS
  <2>2. Before(q, z, z) /\ z \in Int
    BY <2>1, <1>1
  <2> QED BY <2>2 DEF Before
<1>3. PICK J : J = [n \in L \ {z} |-> [q \in Sides |-> IF K[n][q] = z THEN K[z][q] ELSE K[n][q]]]
  OBVIOUS
<1>4. \A n \in L \ {z}, q \in Sides : J[n][q] = IF K[n][q] = z THEN K[z][q] ELSE K[n][q]
  BY <1>3
<1>5. \A n \in L, q \in Sides : K[n][q] \in L \cup {Header}
  BY <1>1
<1>6. J \in [L \ {z} -> [Sides -> (L \ {z}) \cup {Header}]]
  BY <1>2, <1>3, <1>5
<1>7. ASSUME NEW n \in L \ {z}, NEW q \in Sides, J[n][q] # Header PROVE Before(q, J[n][q], n)
  <2>1. CASE K[n][q] = z
    <3>1. J[n][q] = K[z][q] /\ K[z][q] \in L
      BY <2>1, <1>4, <1>5, <1>7
    <3>2. Before(q, K[z][q], z) /\ Before(q, z, n)
      BY <2>1, <3>1, <1>1
    <3>3. K[z][q] \in Int /\ z \in Int /\ n \in Int
      BY <3>1, <1>1
    <3> QED BY <3>1, <3>2, <3>3 DEF Before
  <2>2. CASE K[n][q] # z
    BY <2>2, <1>1, <1>4, <1>7
  <2> QED BY <2>1, <2>2
<1>8. Shrinks(L, K, z, J)
  BY <1>2, <1>4, <1>6, <1>7 DEF Shrinks
<1> QED BY <1>8

LEMMA DropBounds ==
  ASSUME NEW t, NEW L, NEW K, NEW R, NEW m, Ordered(t, L, K, R, m),
         NEW z, NEW x, NEW g, NEW r, Leaves(t, L, z, x, g, r), NEW u, Dropped(t, u, z, x, g, r),
         NEW J, Shrinks(L, K, z, J)
  PROVE  Bounds(u, L \ {z}, J)
<1>0. Shape(t, L) /\ Bounds(t, L, K) /\ Ranked(t, L, R, m)
  BY OrderedFacts
<1>1. /\ z \in L /\ t[z].up = g /\ g # z /\ r = Side(t, z, g) /\ r \in Sides
      /\ x # Null => x \in L /\ t[x].up = z /\ x # g
      /\ x # z /\ x # Header /\ x \in L \cup {Null}
      /\ root(t) = z => g = Header
      /\ root(t) # z => g \in L /\ t[g][r] = z
  BY <1>0, LeavesFacts
<1>2. L \subseteq Keys /\ L \subseteq Node /\ Header \notin L /\ Null \notin L /\ Header \in Node
  BY <1>0, ShapeFacts
<1>3. Shape(u, L \ {z}) /\ root(u) = IF root(t) = z THEN x ELSE root(t)
  BY <1>0, DropShape
<1>4. \A n \in L, q \in Sides : u[n][q] = IF n = g /\ q = r THEN x ELSE t[n][q]
  BY <1>2 DEF Dropped
<1>5. PICK M : M = L \ {z}
  OBVIOUS
<1>6. /\ J \in [M -> [Sides -> M \cup {Header}]]
      /\ \A n \in M, q \in Sides : J[n][q] = IF K[n][q] = z THEN K[z][q] ELSE K[n][q]
      /\ \A q \in Sides : K[z][q] # z
      /\ \A n \in M, q \in Sides : J[n][q] # Header => Before(q, J[n][q], n)
  BY <1>5 DEF Shrinks
<1>7. /\ root(t) # Null => \A q \in Sides : K[root(t)][q] = Header
      /\ \A n \in L, q \in Sides :
           t[n][q] # Null => K[t[n][q]][q] = K[n][q] /\ K[t[n][q]][Other(q)] = n
  BY <1>0 DEF Bounds
<1>8. ASSUME x # Null PROVE \A q \in Sides : J[x][q] = K[z][q]
  <2>1. PICK p \in Sides : t[z][p] = x
    BY DEF Leaves
  <2>2. x \in M
    BY <1>1, <1>5, <1>8
  <2>3. Other(p) \in Sides /\ \A q \in Sides : q = p \/ q = Other(p)
    BY SideFacts
  <2>4. K[x][p] = K[z][p] /\ K[x][Other(p)] = z
    BY <2>1, <1>1, <1>7, <1>8
  <2>5. J[x][p] = K[z][p] /\ J[x][Other(p)] = K[z][Other(p)]
    BY <2>2, <2>3, <2>4, <1>6
  <2> QED BY <2>3, <2>5
<1>9. ASSUME root(u) # Null, NEW q \in Sides PROVE J[root(u)][q] = Header
  <2>1. CASE root(t) = z
    <3>1. z # Null
      BY <1>1, <1>2
    <3>2. K[z][q] = Header
      BY <2>1, <3>1, <1>7
    <3> QED BY <2>1, <3>2, <1>3, <1>8, <1>9
  <2>2. CASE root(t) # z
    <3>1. PICK h : h = root(t)
      OBVIOUS
    <3>2. root(u) = h /\ h \in M /\ K[h][q] = Header
      BY <2>2, <3>1, <1>0, <1>3, <1>5, <1>7, <1>9 DEF Shape
    <3> QED BY <3>2, <1>1, <1>2, <1>6
  <2> QED BY <2>1, <2>2
<1>10. ASSUME NEW n \in M, NEW q \in Sides, u[n][q] # Null
       PROVE  J[u[n][q]][q] = J[n][q] /\ J[u[n][q]][Other(q)] = n
  <2>0. n \in L /\ n # z /\ n # Header /\ Other(q) \in Sides /\ Other(q) # q
    BY <1>2, <1>5, SideFacts
  <2>1. CASE n = g /\ q = r
    <3>1. t[n][q] = z /\ u[n][q] = x
      BY <2>0, <2>1, <1>1, <1>4
    <3>2. K[z][q] = K[n][q] /\ K[z][Other(q)] = n
      BY <3>1, <2>0, <1>1, <1>2, <1>7
    <3>3. J[x][q] = K[z][q] /\ J[x][Other(q)] = K[z][Other(q)]
      BY <3>1, <2>0, <1>8, <1>10
    <3>4. J[n][q] = K[n][q]
      BY <3>2, <1>6
    <3> QED BY <3>1, <3>2, <3>3, <3>4
  <2>2. CASE ~ (n = g /\ q = r)
    <3>1. PICK c : c = t[n][q]
      OBVIOUS
    <3>2. u[n][q] = c /\ c # Null
      BY <2>0, <2>2, <3>1, <1>4, <1>10
    <3>3. c \in L /\ t[c].up = n
      BY <2>0, <3>1, <3>2, <1>0, ChildFacts
    <3>4. c # z
      <4>1. SUFFICES ASSUME c = z PROVE FALSE
        OBVIOUS
      <4>2. t[n][q] = z
        BY <4>1, <3>1
      <4>3. n = t[z].up /\ q = Side(t, z, n)
        BY <4>2, <2>0, <1>0, <1>1, ParentFacts
      <4> QED BY <4>3, <2>2, <1>1
    <3>5. K[c][q] = K[n][q] /\ K[c][Other(q)] = n
      BY <2>0, <3>1, <3>2, <1>7
    <3>6. c \in M
      BY <3>3, <3>4, <1>5
    <3>7. J[c][q] = J[n][q]
      BY <3>5, <3>6, <1>6
    <3>8. J[c][Other(q)] = n
      BY <2>0, <3>5, <3>6, <1>6
    <3> QED BY <3>2, <3>7, <3>8
  <2> QED BY <2>1, <2>2
<1>11. Bounds(u, M, J)
  BY <1>6, <1>9, <1>10 DEF Bounds
<1> QED BY <1>5, <1>11

(* The leftmost or rightmost node of what is left. *)
LEMMA DropEdge ==
  ASSUME NEW t, NEW L, NEW K, NEW R, NEW m, Ordered(t, L, K, R, m),
         NEW z, NEW x, NEW g, NEW r, Leaves(t, L, z, x, g, r), NEW u, Dropped(t, u, z, x, g, r),
         NEW J, Shrinks(L, K, z, J), NEW q \in Sides
  PROVE  /\ Edge(t, z, q) \in Node
         /\ IF root(u) = Null THEN Edge(t, z, q) = Header
            ELSE /\ Edge(t, z, q) \in L \ {z}
                 /\ u[Edge(t, z, q)][q] = Null /\ J[Edge(t, z, q)][q] = Header
<1>0. Shape(t, L) /\ Bounds(t, L, K) /\ Ranked(t, L, R, m) /\ Edges(t, L, K)
  BY OrderedFacts
<1>1. /\ z \in L /\ t[z].up = g /\ g # z /\ r = Side(t, z, g) /\ r \in Sides
      /\ \A p \in Sides : t[z][p] \in {x, Null}
      /\ x # Null => x \in L /\ t[x].up = z /\ x # g
      /\ x # z /\ x # Header /\ x \in L \cup {Null}
      /\ root(t) = z => g = Header
      /\ root(t) # z => g \in L /\ t[g][r] = z
  BY <1>0, LeavesFacts
<1>2. L \subseteq Keys /\ L \subseteq Node /\ Header \notin L /\ Null \notin L /\ Header \in Node
  BY <1>0, ShapeFacts
<1>3. Shape(u, L \ {z}) /\ root(u) = IF root(t) = z THEN x ELSE root(t)
  BY <1>0, DropShape
<1>4. \A n \in L, p \in Sides : u[n][p] = IF n = g /\ p = r THEN x ELSE t[n][p]
  BY <1>2 DEF Dropped
<1>5. /\ \A n \in L \ {z}, p \in Sides : J[n][p] = IF K[n][p] = z THEN K[z][p] ELSE K[n][p]
      /\ \A p \in Sides : K[z][p] # z
  BY DEF Shrinks
<1>6. root(t) # Null
  BY <1>0, <1>1 DEF Shape
<1>7. PICK e, h, d : e = t[Header][q] /\ h = Edge(t, z, q) /\ d = Other(q)
  OBVIOUS
<1>8. e \in L /\ t[e][q] = Null /\ K[e][q] = Header
  BY <1>0, <1>6, <1>7 DEF Edges
<1>9. d \in Sides /\ d # q /\ Other(d) = q /\ \A p \in Sides : p = q \/ p = d
  BY <1>7, SideFacts
<1>10. h = IF e # z THEN e ELSE IF t[z][d] = Null THEN g ELSE Descend(t, t[z][d], q)
  BY <1>1, <1>7 DEF Edge
<1>11. \A n \in L \ {z} : t[n][q] = Null => u[n][q] = Null
  <2> SUFFICES ASSUME NEW n \in L \ {z}, t[n][q] = Null, n = g, q = r PROVE FALSE
    BY <1>4
  <2>1. root(t) # z /\ t[g][r] = z
    BY <1>1, <1>2
  <2> QED BY <2>1, <1>1, <1>2
<1>12. \A n \in L \ {z} : K[n][q] = Header => J[n][q] = Header
  BY <1>1, <1>2, <1>5
<1>13. CASE e # z
  <2>1. h = e /\ e \in L \ {z}
    BY <1>8, <1>10, <1>13
  <2>2. u[h][q] = Null /\ J[h][q] = Header
    BY <2>1, <1>8, <1>11, <1>12
  <2>3. root(u) # Null
    BY <2>1, <1>3 DEF Shape
  <2> QED BY <2>1, <2>2, <2>3, <1>2, <1>7
<1>14. CASE e = z /\ t[z][d] = Null
  <2>1. h = g /\ t[z][q] = Null
    BY <1>8, <1>10, <1>14
  <2>2. x = Null
    <3>1. PICK p \in Sides : t[z][p] = x
      BY DEF Leaves
    <3> QED BY <3>1, <2>1, <1>9, <1>14
  <2>3. CASE root(t) = z
    <3>1. root(u) = Null /\ h = Header
      BY <2>1, <2>2, <2>3, <1>1, <1>3
    <3> QED BY <3>1, <1>2, <1>7
  <2>4. CASE root(t) # z
    <3>1. g \in L \ {z} /\ t[g][r] = z /\ root(u) # Null
      BY <2>4, <1>1, <1>3, <1>6
    <3>2. K[z][r] = K[g][r] /\ K[z][Other(r)] = g
      BY <3>1, <1>0, <1>1, <1>2 DEF Bounds
    <3>3. r = q
      <4>1. SUFFICES ASSUME r # q PROVE FALSE
        OBVIOUS
      <4>2. Other(r) = q
        BY <4>1, <1>1, <1>9
      <4> QED BY <4>2, <3>1, <3>2, <1>2, <1>8, <1>14
    <3>4. K[g][q] = Header
      BY <3>2, <3>3, <1>8, <1>14
    <3>5. J[g][q] = Header
      BY <3>1, <3>4, <1>12
    <3>6. u[g][q] = Null
      BY <3>1, <3>3, <2>2, <1>4
    <3> QED BY <3>1, <3>5, <3>6, <2>1, <1>2, <1>7
  <2> QED BY <2>3, <2>4
<1>15. CASE e = z /\ t[z][d] # Null
  <2>1. t[z][Other(q)] # Null
    BY <1>7, <1>15
  <2>2. PICK y \in L : y = Descend(t, t[z][Other(q)], q) /\ t[y][q] = Null /\ K[y][q] = z
    BY <2>1, <1>1, DescendNext
  <2>3. h = y
    BY <2>2, <1>7, <1>10, <1>15
  <2>4. y # z
    BY <2>2, <1>5
  <2>5. J[y][q] = Header
    BY <2>2, <2>4, <1>5, <1>8, <1>15
  <2>6. u[y][q] = Null
    BY <2>2, <2>4, <1>11
  <2>7. root(u) # Null
    <3>1. y \in L \ {z}
      BY <2>4
    <3> QED BY <3>1, <1>3 DEF Shape
  <2> QED BY <2>2, <2>3, <2>4, <2>5, <2>6, <2>7, <1>2, <1>7
<1> QED BY <1>13, <1>14, <1>15

LEMMA UnlinkOneFields ==
  ASSUME NEW t, NEW L, NEW K, NEW R, NEW m, Ordered(t, L, K, R, m),
         NEW z, NEW x, NEW g, NEW r, Leaves(t, L, z, x, g, r)
  PROVE  /\ Dropped(t, UnlinkOne(t, z, x), z, x, g, r)
         /\ \A q \in Sides : UnlinkOne(t, z, x)[Header][q] = Edge(t, z, q)
<1>0. Shape(t, L) /\ Bounds(t, L, K) /\ Header \in Node
  BY OrderedFacts
<1>1. z \in L /\ t[z].up = g
  BY <1>0, LeavesFacts
<1>2. PICK u, v, w : /\ u = Relink(SetUp(t, x, g), z, x)
                     /\ v = SetChild(u, Header, "left", Edge(t, z, "left"))
                     /\ w = SetChild(v, Header, "right", Edge(t, z, "right"))
  OBVIOUS
<1>3. w = UnlinkOne(t, z, x)
  BY <1>1, <1>2 DEF UnlinkOne
<1>4. Dropped(t, u, z, x, g, r)
  BY <1>0, <1>2, DropFields
<1>5. PICK J : Shrinks(L, K, z, J)
  BY <1>0, <1>1, ShrinkBounds
<1>6. \A q \in Sides : Edge(t, z, q) \in Node
  BY <1>4, <1>5, DropEdge
<1>7. /\ "left" \in Sides /\ "right" \in Sides /\ "left" # "right" /\ \A q \in Sides : q \in {"left", "right"}
      /\ Header \notin Keys /\ Keys \subseteq Node
  BY RbAssumption DEF Sides, Node
<1>8. u \in Trees
  BY <1>4 DEF Dropped
<1>9. PutsChild(u, v, Header, "left", Edge(t, z, "left"))
  BY <1>0, <1>2, <1>6, <1>7, <1>8, SetChildFields DEF Ptr
<1>10. v \in Trees
  BY <1>9 DEF PutsChild
<1>11. PutsChild(v, w, Header, "right", Edge(t, z, "right"))
  BY <1>0, <1>2, <1>6, <1>7, <1>10, SetChildFields DEF Ptr
<1>12. /\ w \in Trees
       /\ \A n \in Node : w[n].red = u[n].red
       /\ \A n \in Node : w[n].up = u[n].up
       /\ \A n \in Keys, q \in Sides : w[n][q] = u[n][q]
  BY <1>7, <1>9, <1>11 DEF PutsChild
<1>13. \A q \in Sides : w[Header][q] = Edge(t, z, q)
  BY <1>0, <1>7, <1>9, <1>11 DEF PutsChild
<1>14. Dropped(t, w, z, x, g, r)
  BY <1>4, <1>12 DEF Dropped
<1> QED BY <1>3, <1>13, <1>14

(* What an unlinking with the tree without z leaves to the rebalancing. *)
Unlinked(t, u, L, z, red, x, xp) ==
  /\ ~ red => \E G, s : Erasing(u, L \ {z}, G, x, xp, s)
  /\ red => Balanced(u, L \ {z})
  /\ Sorted(u, L \ {z})
  /\ \A n \in Keys : n \notin L => u[n].up = t[n].up
  /\ u[z].up \in (L \ {z}) \cup {Header}

LEMMA UnlinkOneKeeps ==
  ASSUME NEW t, NEW L, NEW K, NEW R, NEW m, Ordered(t, L, K, R, m), Balanced(t, L),
         NEW z, NEW x, NEW g, NEW r, Leaves(t, L, z, x, g, r)
  PROVE  Unlinked(t, UnlinkOne(t, z, x), L, z, t[z].red, x, g)
<1>0. Shape(t, L) /\ Bounds(t, L, K) /\ Ranked(t, L, R, m) /\ Header \in Node /\ Header \notin L
  BY OrderedFacts
<1>1. PICK u : u = UnlinkOne(t, z, x)
  OBVIOUS
<1>2. /\ Dropped(t, u, z, x, g, r)
      /\ \A q \in Sides : u[Header][q] = Edge(t, z, q)
  BY <1>1, UnlinkOneFields
<1>3. /\ ~ t[z].red => \E G : Erasing(u, L \ {z}, G, x, g, r)
      /\ t[z].red => x = Null /\ Balanced(u, L \ {z})
  BY <1>0, <1>2, DropErases
<1>4. PICK J : Shrinks(L, K, z, J)
  <2>1. z \in L
    BY <1>0, LeavesFacts
  <2> QED BY <2>1, <1>0, ShrinkBounds
<1>5. Bounds(u, L \ {z}, J)
  BY <1>2, <1>4, DropBounds
<1>6. Edges(u, L \ {z}, J)
  <2> SUFFICES ASSUME NEW q \in Sides
               PROVE  IF root(u) = Null THEN u[Header][q] = Header
                      ELSE /\ u[Header][q] \in L \ {z}
                           /\ u[u[Header][q]][q] = Null /\ J[u[Header][q]][q] = Header
    BY DEF Edges
  <2>1. IF root(u) = Null THEN Edge(t, z, q) = Header
        ELSE /\ Edge(t, z, q) \in L \ {z}
             /\ u[Edge(t, z, q)][q] = Null /\ J[Edge(t, z, q)][q] = Header
    BY <1>2, <1>4, DropEdge
  <2>2. u[Header][q] = Edge(t, z, q)
    BY <1>2
  <2> QED BY <2>1, <2>2
<1>7. Sorted(u, L \ {z})
  BY <1>5, <1>6 DEF Sorted
<1>8. ASSUME NEW n \in Keys, n \notin L PROVE u[n].up = t[n].up
  <2>1. x \in L \cup {Null}
    BY <1>0, LeavesFacts
  <2>2. n \in Node /\ n # Header /\ n # Null
    BY RbAssumption DEF Node
  <2> QED BY <2>1, <2>2, <1>2, <1>8 DEF Dropped
<1>9. u[z].up \in (L \ {z}) \cup {Header}
  <2>1. z \in L /\ t[z].up = g /\ g # z /\ g \in L \cup {Header} /\ x # z /\ L \subseteq Node
    BY <1>0, LeavesFacts, ShapeFacts
  <2>2. u[z].up = g
    BY <2>1, <1>0, <1>2 DEF Dropped
  <2> QED BY <2>1, <2>2
<1>10. Unlinked(t, u, L, z, t[z].red, x, g)
  BY <1>3, <1>7, <1>8, <1>9 DEF Unlinked
<1> QED BY <1>1, <1>10

(***************************************************************************)
(* A node y from outside takes the place of z.                             *)
(***************************************************************************)
(* The tree v is w with y under the name of z.                               *)
Swap(z, y, n) == IF n = z THEN y ELSE n

Swapped(w, v, L, z, y) ==
  /\ z \in L /\ y \in Keys /\ y \notin L /\ v \in Trees /\ v[Header].red
  /\ root(v) = Swap(z, y, root(w))
  /\ \A n \in L : v[Swap(z, y, n)].up = Swap(z, y, w[n].up)
  /\ \A n \in L : v[Swap(z, y, n)].red = w[n].red
  /\ \A n \in L, q \in Sides : v[Swap(z, y, n)][q] = Swap(z, y, w[n][q])

Others(L, z, y) == (L \ {z}) \cup {y}

LEMMA SwapFacts ==
  ASSUME NEW w, NEW v, NEW L, NEW z, NEW y, Shape(w, L), Swapped(w, v, L, z, y)
  PROVE  /\ \A m \in Others(L, z, y) : \E n \in L : m = Swap(z, y, n)
         /\ \A n \in L : Swap(z, y, n) \in Others(L, z, y)
         /\ \A a, b \in L \cup {Header, Null} : Swap(z, y, a) = Swap(z, y, b) => a = b
         /\ \A a \in L \cup {Header, Null} : Swap(z, y, a) = Null => a = Null
         /\ \A a \in L \cup {Header, Null} : Swap(z, y, a) = Header => a = Header
         /\ Swap(z, y, Null) = Null /\ Swap(z, y, Header) = Header
         /\ Others(L, z, y) \subseteq Keys /\ Header # Null
         /\ \A n \in L : w[n].up \in L \cup {Header}
         /\ \A n \in L, q \in Sides : w[n][q] \in L \cup {Null}
         /\ Null \notin L /\ Header \notin L /\ L \subseteq Keys
<1>1. /\ z \in L /\ y \in Keys /\ y \notin L
      /\ Null \notin L /\ Header \notin L /\ L \subseteq Keys /\ Header # Null
      /\ y # Header /\ y # Null /\ z # Header /\ z # Null
  BY ShapeFacts, RbAssumption DEF Swapped
<1>2. \A n \in L : w[n].up \in L \cup {Header}
  BY ParentFacts
<1>3. \A n \in L, q \in Sides : w[n][q] \in L \cup {Null}
  BY ChildFacts
<1>4. \A m \in Others(L, z, y) : \E n \in L : m = Swap(z, y, n)
  BY <1>1 DEF Others, Swap
<1>5. \A n \in L : Swap(z, y, n) \in Others(L, z, y)
  BY <1>1 DEF Others, Swap
<1>6. \A a, b \in L \cup {Header, Null} : Swap(z, y, a) = Swap(z, y, b) => a = b
  BY <1>1 DEF Swap
<1>7. /\ \A a \in L \cup {Header, Null} : Swap(z, y, a) = Null => a = Null
      /\ \A a \in L \cup {Header, Null} : Swap(z, y, a) = Header => a = Header
      /\ Swap(z, y, Null) = Null /\ Swap(z, y, Header) = Header
  BY <1>1 DEF Swap
<1>8. Others(L, z, y) \subseteq Keys
  BY <1>1 DEF Others
<1> QED BY <1>1, <1>2, <1>3, <1>4, <1>5, <1>6, <1>7, <1>8

LEMMA SwapShape ==
  ASSUME NEW w, NEW v, NEW L, NEW z, NEW y, Shape(w, L), Swapped(w, v, L, z, y)
  PROVE  Shape(v, Others(L, z, y))
<1> DEFINE f(n) == Swap(z, y, n)
           M == Others(L, z, y)
<1>1. /\ \A m \in M : \E n \in L : m = f(n)
      /\ \A n \in L : f(n) \in M
      /\ \A a, b \in L \cup {Header, Null} : f(a) = f(b) => a = b
      /\ \A a \in L \cup {Header, Null} : f(a) = Null => a = Null
      /\ \A a \in L \cup {Header, Null} : f(a) = Header => a = Header
      /\ f(Null) = Null /\ f(Header) = Header /\ M \subseteq Keys /\ Header # Null
      /\ \A n \in L : w[n].up \in L \cup {Header}
      /\ \A n \in L, q \in Sides : w[n][q] \in L \cup {Null}
  BY SwapFacts
<1>2. /\ v \in Trees /\ v[Header].red /\ root(v) = f(root(w))
      /\ \A n \in L : v[f(n)].up = f(w[n].up)
      /\ \A n \in L, q \in Sides : v[f(n)][q] = f(w[n][q])
  BY DEF Swapped
<1>3. /\ root(w) \in L \cup {Null}
      /\ root(w) = Null => L = {}
      /\ root(w) # Null => w[root(w)].up = Header
  BY DEF Shape
<1> HIDE DEF f, M
<1>4. root(v) \in M \cup {Null}
  BY <1>1, <1>2, <1>3
<1>5. root(v) = Null => M = {}
  BY <1>1, <1>2, <1>3
<1>6. root(v) # Null => v[root(v)].up = Header
  BY <1>1, <1>2, <1>3
<1>7. ASSUME NEW m \in M, NEW q \in Sides, v[m][q] # Null
      PROVE  v[m][q] \in M /\ v[v[m][q]].up = m /\ v[m][Other(q)] # v[m][q]
  <2>1. PICK n \in L : m = f(n)
    BY <1>1
  <2>2. PICK c : c = w[n][q]
    OBVIOUS
  <2>3. v[m][q] = f(c) /\ c # Null
    BY <2>1, <2>2, <1>1, <1>2, <1>7
  <2>4. c \in L /\ w[c].up = n /\ w[n][Other(q)] # c
    BY <2>1, <2>2, <2>3, ChildFacts
  <2>5. f(c) \in M /\ v[f(c)].up = m
    BY <2>1, <2>4, <1>1, <1>2
  <2>6. Other(q) \in Sides
    BY SideFacts
  <2>7. v[m][Other(q)] = f(w[n][Other(q)]) /\ w[n][Other(q)] \in L \cup {Null}
    BY <2>1, <2>6, <1>1, <1>2
  <2>8. f(w[n][Other(q)]) # f(c)
    BY <2>4, <2>7, <1>1
  <2> QED BY <2>3, <2>5, <2>7, <2>8
<1>8. ASSUME NEW m \in M, m # root(v)
      PROVE  v[m].up \in M /\ \E q \in Sides : v[v[m].up][q] = m
  <2>1. PICK n \in L : m = f(n)
    BY <1>1
  <2>2. n # root(w)
    BY <2>1, <1>2, <1>8
  <2>3. PICK a, q : a = w[n].up /\ q = Side(w, n, a)
    OBVIOUS
  <2>4. a \in L /\ q \in Sides /\ w[a][q] = n
    BY <2>1, <2>2, <2>3, ParentFacts
  <2>5. v[m].up = f(a) /\ v[f(a)][q] = m /\ f(a) \in M
    BY <2>1, <2>3, <2>4, <1>1, <1>2
  <2> QED BY <2>4, <2>5
<1>9. Shape(v, M)
  BY <1>1, <1>2, <1>4, <1>5, <1>6, <1>7, <1>8 DEF Shape
<1> QED BY <1>9 DEF M

LEMMA SwapHeights ==
  ASSUME NEW w, NEW v, NEW L, NEW z, NEW y, Shape(w, L), Swapped(w, v, L, z, y),
         NEW H, NEW dn \in L \cup {Header}, NEW ds, Heights(w, L, H, dn, ds)
  PROVE  \E G : Heights(v, Others(L, z, y), G, Swap(z, y, dn), ds)
<1> DEFINE f(n) == Swap(z, y, n)
           M == Others(L, z, y)
<1>1. /\ \A m \in M : \E n \in L : m = f(n)
      /\ \A n \in L : f(n) \in M
      /\ \A a, b \in L \cup {Header, Null} : f(a) = f(b) => a = b
      /\ f(Null) = Null
      /\ \A n \in L, q \in Sides : w[n][q] \in L \cup {Null}
      /\ L \subseteq Keys /\ M \subseteq Keys /\ Null \notin L
  BY SwapFacts
<1>2. /\ \A n \in L : v[f(n)].red = w[n].red
      /\ \A n \in L, q \in Sides : v[f(n)][q] = f(w[n][q])
      /\ z \in L /\ y \in Keys /\ y \notin L /\ y # Null
  BY RbAssumption DEF Swapped
<1>3. H \in [Ptr -> Nat] /\ H[Null] = 0 /\ Keys \subseteq Ptr /\ Null \in Ptr
  BY DEF Heights, Ptr, Node
<1>4. PICK b \in Nat : \A n \in L : H[n] <= b
  BY DEF Heights, Bounded
<1>5. PICK G : G = [n \in Ptr |-> IF n = y THEN H[z] ELSE H[n]]
  OBVIOUS
<1>6. G \in [Ptr -> Nat] /\ G[Null] = 0
  BY <1>1, <1>2, <1>3, <1>5
<1>7. \A n \in L \cup {Null} : G[f(n)] = H[n]
  BY <1>1, <1>2, <1>3, <1>5 DEF Swap
<1> HIDE DEF f, M
<1>8. Bounded(M, G)
  BY <1>1, <1>4, <1>7 DEF Bounded
<1>9. ASSUME NEW m \in M, NEW q \in Sides
      PROVE  G[m] = G[v[m][q]] + Gap(f(dn), ds, m, q) + Weight(v, m)
  <2>1. PICK n \in L : m = f(n)
    BY <1>1
  <2>2. H[n] = H[w[n][q]] + Gap(dn, ds, n, q) + Weight(w, n)
    BY <2>1, LevelFacts
  <2>3. Weight(v, m) = Weight(w, n)
    BY <2>1, <1>2 DEF Weight
  <2>4. Gap(f(dn), ds, m, q) = Gap(dn, ds, n, q)
    <3>1. f(n) = f(dn) <=> n = dn
      BY <1>1
    <3> QED BY <2>1, <3>1 DEF Gap
  <2>5. v[m][q] = f(w[n][q]) /\ w[n][q] \in L \cup {Null}
    BY <2>1, <1>1, <1>2
  <2>6. G[v[m][q]] = H[w[n][q]] /\ G[m] = H[n]
    BY <2>1, <2>5, <1>7
  <2> QED BY <2>2, <2>3, <2>4, <2>6
<1>10. Heights(v, M, G, f(dn), ds)
  BY <1>6, <1>8, <1>9 DEF Heights, Level
<1> QED BY <1>10 DEF f, M

LEMMA SwapColors ==
  ASSUME NEW w, NEW v, NEW L, NEW z, NEW y, Shape(w, L), Swapped(w, v, L, z, y),
         NEW a \in L \cup {Null}, Colors(w, L, a, a)
  PROVE  Colors(v, Others(L, z, y), Swap(z, y, a), Swap(z, y, a))
<1> DEFINE f(n) == Swap(z, y, n)
           M == Others(L, z, y)
<1>1. /\ \A m \in M : \E n \in L : m = f(n)
      /\ f(Header) = Header
      /\ \A n \in L : w[n].up \in L \cup {Header}
  BY SwapFacts
<1>2. /\ \A n \in L : v[f(n)].red = w[n].red /\ v[f(n)].up = f(w[n].up)
      /\ v[Header].red
  BY DEF Swapped
<1>3. w[Header].red
  BY DEF Shape
<1> HIDE DEF f, M
<1>4. ASSUME NEW m \in M, m # f(a), v[m].up # f(a), v[m].red PROVE ~ v[v[m].up].red
  <2>1. PICK n \in L : m = f(n)
    BY <1>1
  <2>2. n # a /\ w[n].up # a /\ w[n].red
    BY <2>1, <1>2, <1>4
  <2>3. ~ w[w[n].up].red
    BY <2>2 DEF Colors
  <2>4. w[n].up \in L
    BY <2>3, <1>1, <1>3
  <2>5. v[m].up = f(w[n].up)
    BY <2>1, <1>2
  <2> QED BY <2>3, <2>4, <2>5, <1>2
<1>5. Colors(v, M, f(a), f(a))
  BY <1>4 DEF Colors
<1> QED BY <1>5 DEF f, M

LEMMA SwapErasing ==
  ASSUME NEW w, NEW v, NEW L, NEW z, NEW y, Swapped(w, v, L, z, y),
         NEW H, NEW x, NEW xp, NEW s, Erasing(w, L, H, x, xp, s), x # z
  PROVE  \E G : Erasing(v, Others(L, z, y), G, x, Swap(z, y, xp), s)
<1>1. /\ Shape(w, L) /\ Heights(w, L, H, xp, s) /\ Colors(w, L, x, x)
      /\ x \in L \cup {Null} /\ Missing(w, L, x, xp, s)
  BY DEF Erasing
<1>2. Swap(z, y, x) = x
  BY DEF Swap
<1>3. xp \in L \cup {Header}
  BY <1>1 DEF Missing
<1>4. PICK G : Heights(v, Others(L, z, y), G, Swap(z, y, xp), s)
  BY <1>1, <1>3, SwapHeights
<1>5. Colors(v, Others(L, z, y), Swap(z, y, x), Swap(z, y, x))
  BY <1>1, SwapColors
<1>6. Shape(v, Others(L, z, y))
  BY <1>1, SwapShape
<1>7. Missing(v, Others(L, z, y), x, Swap(z, y, xp), s)
  <2>1. /\ \A n \in L : Swap(z, y, n) \in Others(L, z, y)
        /\ \A a, b \in L \cup {Header, Null} : Swap(z, y, a) = Swap(z, y, b) => a = b
        /\ Swap(z, y, Header) = Header
    BY <1>1, SwapFacts
  <2>2. /\ root(v) = Swap(z, y, root(w))
        /\ \A n \in L, q \in Sides : v[Swap(z, y, n)][q] = Swap(z, y, w[n][q])
    BY DEF Swapped
  <2>3. root(w) \in L \cup {Null}
    BY <1>1 DEF Shape
  <2>4. x = root(v) <=> x = root(w)
    BY <2>1, <2>2, <2>3, <1>1, <1>2
  <2>5. CASE x = root(w)
    BY <2>1, <2>4, <2>5, <1>1 DEF Missing
  <2>6. CASE x # root(w)
    <3>1. xp \in L /\ s \in Sides /\ w[xp][s] = x
      BY <2>6, <1>1 DEF Missing
    <3>2. Swap(z, y, xp) \in Others(L, z, y) /\ v[Swap(z, y, xp)][s] = x
      BY <3>1, <2>1, <2>2, <1>2
    <3> QED BY <3>1, <3>2, <2>4, <2>6 DEF Missing
  <2> QED BY <2>5, <2>6
<1>8. x \in Others(L, z, y) \cup {Null}
  BY <1>1 DEF Others
<1>9. Colors(v, Others(L, z, y), x, x)
  BY <1>2, <1>5
<1>10. Erasing(v, Others(L, z, y), G, x, Swap(z, y, xp), s)
  BY <1>4, <1>6, <1>7, <1>8, <1>9 DEF Erasing
<1> QED BY <1>10

LEMMA SwapBalanced ==
  ASSUME NEW w, NEW v, NEW L, NEW z, NEW y, Swapped(w, v, L, z, y), Balanced(w, L)
  PROVE  Balanced(v, Others(L, z, y))
<1>1. Shape(w, L) /\ Colors(w, L, Null, Null)
  BY DEF Balanced
<1>2. PICK H : Heights(w, L, H, Header, "left")
  BY DEF Balanced
<1>3. Swap(z, y, Header) = Header /\ Swap(z, y, Null) = Null
  BY <1>1, SwapFacts
<1>4. PICK h : h = Header
  OBVIOUS
<1>5. PICK G : Heights(v, Others(L, z, y), G, Swap(z, y, h), "left")
  <2>1. h \in L \cup {Header} /\ Heights(w, L, H, h, "left")
    BY <1>2, <1>4
  <2> QED BY <2>1, <1>1, SwapHeights
<1>6. Heights(v, Others(L, z, y), G, Header, "left")
  BY <1>3, <1>4, <1>5
<1>7. PICK a : a = Null
  OBVIOUS
<1>8. Colors(v, Others(L, z, y), Swap(z, y, a), Swap(z, y, a))
  <2>1. a \in L \cup {Null} /\ Colors(w, L, a, a)
    BY <1>1, <1>7
  <2> QED BY <2>1, <1>1, SwapColors
<1>9. Colors(v, Others(L, z, y), Null, Null)
  BY <1>3, <1>7, <1>8
<1>10. Shape(v, Others(L, z, y))
  BY <1>1, SwapShape
<1> QED BY <1>6, <1>9, <1>10 DEF Balanced

(* Where y may stand for z in the order. *)
Fits(L, K, z, y) ==
  /\ \A q \in Sides : K[z][q] # Header => Before(q, K[z][q], y)
  /\ \A n \in L \ {z}, q \in Sides : K[n][q] = z => Before(q, y, n)

LEMMA SwapBounds ==
  ASSUME NEW w, NEW v, NEW L, NEW z, NEW y, Shape(w, L), Swapped(w, v, L, z, y),
         NEW K, Bounds(w, L, K), Fits(L, K, z, y)
  PROVE  \E J : /\ Bounds(v, Others(L, z, y), J)
                /\ \A n \in L, q \in Sides : K[n][q] = Header => J[Swap(z, y, n)][q] = Header
<1> DEFINE f(n) == Swap(z, y, n)
           M == Others(L, z, y)
<1>1. /\ \A m \in M : \E n \in L : m = f(n)
      /\ \A n \in L : f(n) \in M
      /\ \A a, b \in L \cup {Header, Null} : f(a) = f(b) => a = b
      /\ \A a \in L \cup {Header, Null} : f(a) = Null => a = Null
      /\ \A a \in L \cup {Header, Null} : f(a) = Header => a = Header
      /\ f(Null) = Null /\ f(Header) = Header /\ M \subseteq Keys /\ Header # Null
      /\ \A n \in L, q \in Sides : w[n][q] \in L \cup {Null}
      /\ Null \notin L /\ Header \notin L
  BY SwapFacts
<1>2. /\ root(v) = f(root(w)) /\ z \in L /\ y \notin L
      /\ \A n \in L, q \in Sides : v[f(n)][q] = f(w[n][q])
  BY DEF Swapped
<1>3. /\ K \in [L -> [Sides -> L \cup {Header}]]
      /\ root(w) # Null => \A q \in Sides : K[root(w)][q] = Header
      /\ \A n \in L, q \in Sides :
           w[n][q] # Null => K[w[n][q]][q] = K[n][q] /\ K[w[n][q]][Other(q)] = n
      /\ \A n \in L, q \in Sides : K[n][q] # Header => Before(q, K[n][q], n)
  BY DEF Bounds
<1>4. root(w) \in L \cup {Null}
  BY DEF Shape
<1>5. PICK J : J = [m \in M |-> [q \in Sides |-> f(K[IF m = y THEN z ELSE m][q])]]
  OBVIOUS
<1>6. \A n \in L, q \in Sides : J[f(n)][q] = f(K[n][q])
  BY <1>1, <1>2, <1>5 DEF Swap
<1>7. \A n \in L, q \in Sides : K[n][q] \in L \cup {Header}
  BY <1>3
<1>8. J \in [M -> [Sides -> M \cup {Header}]]
  <2>1. \A a \in L \cup {Header} : f(a) \in M \cup {Header}
    BY <1>1
  <2>2. \A m \in M : (IF m = y THEN z ELSE m) \in L
    BY <1>2 DEF Others
  <2>3. \A m \in M, q \in Sides : f(K[IF m = y THEN z ELSE m][q]) \in M \cup {Header}
    BY <2>1, <2>2, <1>7
  <2> HIDE DEF f, M
  <2> QED BY <2>3, <1>5
<1>9. ASSUME NEW m \in M, NEW q \in Sides, J[m][q] # Header PROVE Before(q, J[m][q], m)
  <2>1. PICK n \in L : m = f(n)
    BY <1>1
  <2>2. J[m][q] = f(K[n][q]) /\ K[n][q] # Header
    BY <2>1, <1>1, <1>6, <1>9
  <2>3. Before(q, K[n][q], n)
    BY <2>2, <1>3
  <2>4. CASE n = z
    <3>1. m = y
      BY <2>1, <2>4 DEF Swap
    <3>2. Before(q, K[z][q], y)
      BY <2>2, <2>4 DEF Fits
    <3>3. K[z][q] # z
      <4>1. SUFFICES ASSUME K[z][q] = z PROVE FALSE
        OBVIOUS
      <4>2. Before(q, z, z) /\ z \in Int
        BY <4>1, <2>3, <2>4, ShapeFacts, RbAssumption
      <4> QED BY <4>2 DEF Before
    <3>4. J[m][q] = K[z][q]
      BY <3>3, <2>2, <2>4 DEF Swap
    <3> QED BY <3>1, <3>2, <3>4
  <2>5. CASE n # z
    <3>1. m = n
      BY <2>1, <2>5 DEF Swap
    <3>2. CASE K[n][q] = z
      <4>1. J[m][q] = y
        BY <3>2, <2>2 DEF Swap
      <4>2. Before(q, y, n)
        BY <3>2, <2>5 DEF Fits
      <4> QED BY <3>1, <4>1, <4>2
    <3>3. CASE K[n][q] # z
      BY <3>1, <3>3, <2>2, <2>3 DEF Swap
    <3> QED BY <3>2, <3>3
  <2> QED BY <2>4, <2>5
<1> HIDE DEF f, M
<1>10. ASSUME root(v) # Null, NEW q \in Sides PROVE J[root(v)][q] = Header
  <2>1. root(w) # Null /\ root(w) \in L
    BY <1>1, <1>2, <1>4, <1>10
  <2>2. K[root(w)][q] = Header
    BY <2>1, <1>3
  <2> QED BY <2>1, <2>2, <1>1, <1>2, <1>6
<1>11. ASSUME NEW m \in M, NEW q \in Sides, v[m][q] # Null
       PROVE  J[v[m][q]][q] = J[m][q] /\ J[v[m][q]][Other(q)] = m
  <2>1. PICK n \in L : m = f(n)
    BY <1>1
  <2>2. PICK c : c = w[n][q]
    OBVIOUS
  <2>3. v[m][q] = f(c) /\ c # Null /\ c \in L /\ Other(q) \in Sides
    BY <2>1, <2>2, <1>1, <1>2, <1>11, SideFacts
  <2>4. K[c][q] = K[n][q] /\ K[c][Other(q)] = n
    BY <2>1, <2>2, <2>3, <1>3
  <2> QED BY <2>1, <2>3, <2>4, <1>6
<1>12. Bounds(v, M, J)
  BY <1>8, <1>9, <1>10, <1>11 DEF Bounds
<1>13. \A n \in L, q \in Sides : K[n][q] = Header => J[f(n)][q] = Header
  BY <1>1, <1>6
<1> QED BY <1>12, <1>13 DEF f, M

(***************************************************************************)
(* Unlinking a node z with two children: y, the next node, is dropped, and    *)
(* then takes the place of z.                                              *)
(***************************************************************************)
(* y is the least node to the right of z, with the nodes around both.        *)
Precedes(t, L, z, y, x, yp, ry, g, r, l, zr) ==
  /\ z \in L /\ l = t[z].left /\ zr = t[z].right /\ l # Null /\ zr # Null
  /\ y = Descend(t, zr, "left") /\ x = t[y].right /\ yp = t[y].up /\ ry = Side(t, y, yp)
  /\ g = t[z].up /\ r = Side(t, z, g)

LEMMA PrecedesFacts ==
  ASSUME NEW t, NEW L, NEW K, NEW R, NEW m, Ordered(t, L, K, R, m), NoLoop(t, L),
         NEW z, NEW y, NEW x, NEW yp, NEW ry, NEW g, NEW r, NEW l, NEW zr,
         Precedes(t, L, z, y, x, yp, ry, g, r, l, zr)
  PROVE  /\ z \in L /\ y \in L /\ yp \in L /\ y # z /\ y # yp /\ l \in L /\ zr \in L
         /\ t[z]["left"] = l /\ t[z]["right"] = zr /\ t[l].up = z /\ t[zr].up = z /\ l # zr
         /\ t[y]["left"] = Null /\ t[y]["right"] = x /\ t[y].up = yp /\ t[yp][ry] = y /\ ry \in Sides
         /\ K[y]["left"] = z
         /\ IF y = zr THEN yp = z /\ ry = "right" /\ K[y]["right"] = K[z]["right"]
            ELSE yp # z /\ ry = "left" /\ K[y]["right"] = yp
         /\ y # root(t) /\ y # l /\ z # l /\ z # zr
         /\ t[z].up = g /\ g \in Node /\ g # z /\ g # y /\ g # yp /\ r = Side(t, z, g)
         /\ root(t) = z => g = Header
         /\ root(t) # z => g \in L /\ r \in Sides /\ t[g][r] = z
         /\ x # Null => x \in L /\ t[x].up = y /\ x # l /\ x # zr
         /\ x \in Ptr /\ x # z /\ x # Header /\ x # y
         /\ Leaves(t, L, y, x, yp, ry)
<1>0. /\ Shape(t, L) /\ Bounds(t, L, K) /\ Ranked(t, L, R, m) /\ Null \notin L /\ Header \notin L
      /\ L \subseteq Keys /\ L \subseteq Int /\ Null \in Ptr /\ L \subseteq Ptr
  BY OrderedFacts, ShapeFacts, RbAssumption
<1>1. /\ z \in L /\ l = t[z]["left"] /\ zr = t[z]["right"] /\ l # Null /\ zr # Null
      /\ y = Descend(t, zr, "left") /\ x = t[y]["right"] /\ yp = t[y].up /\ ry = Side(t, y, yp)
      /\ g = t[z].up /\ r = Side(t, z, g)
  BY DEF Precedes
<1>2. /\ "left" \in Sides /\ "right" \in Sides /\ Other("left") = "right" /\ Other("right") = "left"
      /\ "left" # "right" /\ \A q \in Sides : q = "left" \/ q = "right"
  BY DEF Sides, Other
<1>3. l \in L /\ t[l].up = z /\ zr \in L /\ t[zr].up = z
  BY <1>0, <1>1, <1>2, ChildFacts
<1>4. l # zr
  <2>1. t[z][Other("left")] # t[z]["left"]
    BY <1>0, <1>1, <1>2, ChildFacts
  <2> QED BY <2>1, <1>1, <1>2
<1>5. y \in L /\ t[y]["left"] = Null /\ K[y]["left"] = z
  <2>1. t[z][Other("left")] # Null
    BY <1>1, <1>2
  <2>2. PICK e \in L : e = Descend(t, t[z][Other("left")], "left") /\ t[e]["left"] = Null /\ K[e]["left"] = z
    BY <2>1, <1>1, <1>2, DescendNext
  <2>3. e = y
    BY <2>2, <1>1, <1>2
  <2> QED BY <2>2, <2>3
<1>6. PICK J : Shrinks(L, K, z, J)
  BY <1>0, <1>1, ShrinkBounds
<1>7. K[z]["left"] # z /\ K[z]["right"] # z /\ y # z
  BY <1>2, <1>5, <1>6 DEF Shrinks
<1>8. y # root(t)
  BY <1>0, <1>1, <1>2, <1>5 DEF Bounds
<1>9. PICK p \in L, q \in Sides : /\ t[y].up = p /\ t[p][q] = y /\ t[p][Other(q)] # y
                                  /\ K[y][q] = K[p][q] /\ K[y][Other(q)] = p
  BY <1>5, <1>8, UpFacts
<1>10. p = yp /\ q = ry
  <2>1. q = Side(t, y, p)
    BY <1>0, <1>5, <1>9, ParentFacts
  <2> QED BY <2>1, <1>1, <1>9
<1>11. IF y = zr THEN yp = z /\ ry = "right" /\ K[y]["right"] = K[z]["right"]
       ELSE yp # z /\ ry = "left" /\ K[y]["right"] = yp
  <2>1. CASE q = "right"
    <3>1. p = z
      BY <2>1, <1>2, <1>5, <1>9
    <3>2. y = zr
      BY <2>1, <3>1, <1>1, <1>9
    <3> QED BY <2>1, <3>1, <3>2, <1>9, <1>10
  <2>2. CASE q = "left"
    <3>1. K[p]["left"] = z /\ K[y]["right"] = p
      BY <2>2, <1>2, <1>5, <1>9
    <3>2. p # z
      BY <3>1, <1>7
    <3>3. y # zr
      BY <3>2, <1>3, <1>9
    <3> QED BY <2>2, <3>1, <3>2, <3>3, <1>10
  <2> QED BY <2>1, <2>2, <1>2
<1>12. y # l /\ z # l /\ z # zr
  <2>1. y # l
    <3>1. SUFFICES ASSUME y = l PROVE FALSE
      OBVIOUS
    <3>2. yp = z /\ y # zr
      BY <3>1, <1>1, <1>3, <1>4
    <3> QED BY <3>2, <1>11
  <2>2. z # l /\ z # zr
    BY <1>1, <1>3 DEF NoLoop
  <2> QED BY <2>1, <2>2
<1>13. /\ g \in Node /\ g # z
       /\ root(t) = z => g = Header
       /\ root(t) # z => g \in L /\ r \in Sides /\ t[g][r] = z
  BY <1>0, <1>1, ParentFacts DEF NoLoop
<1>14. ASSUME NEW n \in L, K[n]["left"] = z PROVE n # g
  <2>1. SUFFICES ASSUME n = g PROVE FALSE
    OBVIOUS
  <2>2. root(t) # z
    BY <2>1, <1>0, <1>13
  <2>3. PICK a \in L, b \in Sides : /\ t[z].up = a /\ K[z][b] = K[a][b] /\ K[z][Other(b)] = a
    BY <2>2, <1>1, UpFacts
  <2>4. a = n
    BY <2>1, <2>3, <1>1
  <2>5. CASE b = "left"
    BY <2>3, <2>4, <2>5, <1>7, <1>14
  <2>6. CASE b = "right"
    <3>1. K[z]["left"] = n
      BY <2>3, <2>4, <2>6, <1>2
    <3>2. Before("left", n, z) /\ Before("left", z, n)
      <4>1. n # Header /\ z # Header
        BY <1>0, <1>1
      <4> QED BY <3>1, <4>1, <1>0, <1>1, <1>2, <1>14 DEF Bounds
    <3>3. n \in Int /\ z \in Int
      BY <1>0, <1>1
    <3> QED BY <3>2, <3>3 DEF Before
  <2> QED BY <2>5, <2>6, <1>2
<1>15. g # y /\ g # yp
  <2>1. g # y
    BY <1>5, <1>14
  <2>2. CASE y = zr
    BY <2>1, <2>2, <1>11, <1>13
  <2>3. CASE y # zr
    <3>1. K[yp]["left"] = z
      BY <2>3, <1>5, <1>9, <1>10, <1>11
    <3> QED BY <2>1, <3>1, <1>9, <1>10, <1>14
  <2> QED BY <2>2, <2>3
<1>16. x # Null => x \in L /\ t[x].up = y /\ x # l /\ x # zr
  <2>1. x # Null => x \in L /\ t[x].up = y
    BY <1>0, <1>1, <1>2, <1>5, ChildFacts
  <2> QED BY <2>1, <1>3, <1>7
<1>17. x \in Ptr /\ x # z /\ x # Header /\ x # y
  <2>1. x # y
    BY <1>0, <1>5, <1>16 DEF NoLoop
  <2>2. x # z
    BY <1>0, <1>1, <1>15, <1>16
  <2> QED BY <2>1, <2>2, <1>0, <1>16, ShapeFacts
<1>18. yp # y /\ t[yp].up # y
  BY <1>1, <1>5, <1>9, <1>10 DEF NoLoop
<1>19. Leaves(t, L, y, x, yp, ry)
  BY <1>1, <1>2, <1>5, <1>18 DEF Leaves
<1>20. yp \in L /\ t[yp][ry] = y /\ ry \in Sides
  BY <1>9, <1>10
<1>21. y # yp
  BY <1>18
<1> QED BY <1>1, <1>3, <1>4, <1>5, <1>7, <1>8, <1>11, <1>12, <1>13, <1>15, <1>16, <1>17, <1>19, <1>20, <1>21

(* What UnlinkTwo writes. *)
Exchanged(t, v, L, z, y, x, yp, g, r, l, zr) ==
  /\ v \in Trees
  /\ \A n \in Node : v[n].red = IF n = y THEN t[z].red ELSE t[n].red
  /\ \A n \in Node : v[n].up = IF n = y THEN g
                               ELSE IF n = l \/ n = zr THEN y
                               ELSE IF n = x THEN IF y = zr THEN y ELSE yp
                               ELSE IF n = Header /\ root(t) = z THEN y
                               ELSE t[n].up
  /\ \A n \in Node, q \in Sides :
       v[n][q] = IF n = y THEN IF q = "left" THEN l ELSE IF y = zr THEN x ELSE zr
                 ELSE IF y # zr /\ n = yp /\ q = "left" THEN x
                 ELSE IF root(t) # z /\ n = g /\ q = r THEN y
                 ELSE t[n][q]

(* The tree in which y has the children of z, and x the place of y.          *)
Handed(t, b, y, x, yp, l, zr) ==
  /\ b \in Trees
  /\ \A n \in Node : b[n].red = t[n].red
  /\ \A n \in Node : b[n].up = IF n = l THEN y
                               ELSE IF y # zr /\ n = zr THEN y
                               ELSE IF y # zr /\ n = x THEN yp
                               ELSE t[n].up
  /\ \A n \in Node, q \in Sides :
       b[n][q] = IF n = y /\ q = "left" THEN l
                 ELSE IF y # zr /\ n = y /\ q = "right" THEN zr
                 ELSE IF y # zr /\ n = yp /\ q = "left" THEN x
                 ELSE t[n][q]

LEMMA HandedFields ==
  ASSUME NEW t, NEW L, NEW K, NEW R, NEW m, Ordered(t, L, K, R, m), NoLoop(t, L),
         NEW z, NEW y, NEW x, NEW yp, NEW ry, NEW g, NEW r, NEW l, NEW zr,
         Precedes(t, L, z, y, x, yp, ry, g, r, l, zr),
         NEW u, u = SetChild(SetUp(t, l, y), y, "left", l),
         NEW v, v = SetChild(SetUp(u, x, yp), yp, "left", x),
         NEW w, w = SetUp(SetChild(v, y, "right", zr), zr, y)
  PROVE  Handed(t, IF y = zr THEN u ELSE w, y, x, yp, l, zr)
<1>1. /\ y \in L /\ yp \in L /\ y # yp /\ l \in L /\ zr \in L /\ l # zr /\ y # l
      /\ x # Null => x # l /\ x # zr
      /\ x \in Ptr /\ x # y
  BY PrecedesFacts
<1>2. /\ t \in Trees /\ L \subseteq Node /\ L \subseteq Ptr /\ Null \notin Node
      /\ "left" \in Sides /\ "right" \in Sides /\ "left" # "right"
  BY OrderedFacts DEF Ptr, Sides
<1>3. PICK a, b, c : a = SetUp(t, l, y) /\ b = SetUp(u, x, yp) /\ c = SetChild(v, y, "right", zr)
  OBVIOUS
<1>a. PutsUp(t, a, l, y)
  BY <1>1, <1>2, <1>3, SetUpFields
<1>at. a \in Trees
  BY <1>a DEF PutsUp
<1>u. PutsChild(a, u, y, "left", l)
  BY <1>1, <1>2, <1>3, <1>at, SetChildFields
<1>ut. u \in Trees
  BY <1>u DEF PutsChild
<1>b. PutsUp(u, b, x, yp)
  BY <1>1, <1>2, <1>3, <1>ut, SetUpFields
<1>bt. b \in Trees
  BY <1>b DEF PutsUp
<1>v. PutsChild(b, v, yp, "left", x)
  BY <1>1, <1>2, <1>3, <1>bt, SetChildFields
<1>vt. v \in Trees
  BY <1>v DEF PutsChild
<1>c. PutsChild(v, c, y, "right", zr)
  BY <1>1, <1>2, <1>3, <1>vt, SetChildFields
<1>ct. c \in Trees
  BY <1>c DEF PutsChild
<1>w. PutsUp(c, w, zr, y)
  BY <1>1, <1>2, <1>3, <1>ct, SetUpFields
<1>wt. w \in Trees
  BY <1>w DEF PutsUp
<1>4. CASE y = zr
  <2>1. \A n \in Node : u[n].red = t[n].red
    BY <1>a, <1>u DEF PutsUp, PutsChild
  <2>2. \A n \in Node : u[n].up = IF n = l THEN y ELSE t[n].up
    BY <1>a, <1>u DEF PutsUp, PutsChild
  <2>3. \A n \in Node, q \in Sides : u[n][q] = IF n = y /\ q = "left" THEN l ELSE t[n][q]
    BY <1>a, <1>u DEF PutsUp, PutsChild
  <2>4. Handed(t, u, y, x, yp, l, zr)
    BY <1>4, <1>ut, <2>1, <2>2, <2>3 DEF Handed
  <2> QED BY <2>4, <1>4
<1>5. CASE y # zr
  <2>1. \A n \in Node : w[n].red = t[n].red
    BY <1>a, <1>u, <1>b, <1>v, <1>c, <1>w DEF PutsUp, PutsChild
  <2>2. ASSUME NEW n \in Node
        PROVE  w[n].up = IF n = l THEN y ELSE IF n = zr THEN y ELSE IF n = x THEN yp ELSE t[n].up
    <3>1. a[n].up = IF n = l THEN y ELSE t[n].up
      BY <1>a DEF PutsUp
    <3>2. u[n].up = a[n].up
      BY <1>u DEF PutsChild
    <3>3. b[n].up = IF n = x THEN yp ELSE u[n].up
      BY <1>b DEF PutsUp
    <3>4. v[n].up = b[n].up /\ c[n].up = v[n].up
      BY <1>v, <1>c DEF PutsChild
    <3>5. w[n].up = IF n = zr THEN y ELSE c[n].up
      BY <1>w DEF PutsUp
    <3> QED BY <3>1, <3>2, <3>3, <3>4, <3>5, <1>1, <1>2
  <2>3. ASSUME NEW n \in Node, NEW q \in Sides
        PROVE  w[n][q] = IF n = y /\ q = "left" THEN l
                         ELSE IF n = y /\ q = "right" THEN zr
                         ELSE IF n = yp /\ q = "left" THEN x
                         ELSE t[n][q]
    <3>1. a[n][q] = t[n][q] /\ b[n][q] = u[n][q] /\ w[n][q] = c[n][q]
      BY <1>a, <1>b, <1>w DEF PutsUp
    <3>2. u[n][q] = IF n = y /\ q = "left" THEN l ELSE a[n][q]
      BY <1>u DEF PutsChild
    <3>3. v[n][q] = IF n = yp /\ q = "left" THEN x ELSE b[n][q]
      BY <1>v DEF PutsChild
    <3>4. c[n][q] = IF n = y /\ q = "right" THEN zr ELSE v[n][q]
      BY <1>c DEF PutsChild
    <3> QED BY <3>1, <3>2, <3>3, <3>4, <1>1, <1>2
  <2>4. Handed(t, w, y, x, yp, l, zr)
    BY <1>5, <1>wt, <2>1, <2>2, <2>3 DEF Handed
  <2> QED BY <2>4, <1>5
<1> QED BY <1>4, <1>5

LEMMA UnlinkTwoFields ==
  ASSUME NEW t, NEW L, NEW K, NEW R, NEW m, Ordered(t, L, K, R, m), NoLoop(t, L),
         NEW z, NEW y, NEW x, NEW yp, NEW ry, NEW g, NEW r, NEW l, NEW zr,
         Precedes(t, L, z, y, x, yp, ry, g, r, l, zr)
  PROVE  Exchanged(t, UnlinkTwo(t, z, y, x), L, z, y, x, yp, g, r, l, zr)
<1>1. /\ z \in L /\ y \in L /\ yp \in L /\ y # z /\ y # yp /\ l \in L /\ zr \in L /\ l # zr /\ y # l
      /\ z # l /\ z # zr /\ t[y].up = yp /\ t[y]["right"] = x /\ t[y]["left"] = Null
      /\ t[z].up = g /\ g \in Node /\ g # z /\ g # y /\ g # yp /\ r = Side(t, z, g)
      /\ root(t) = z => g = Header
      /\ x \in Ptr /\ x # z /\ x # Header /\ x # y
      /\ x # Null => t[x].up = y
  BY PrecedesFacts
<1>2. /\ t \in Trees /\ L \subseteq Node /\ L \subseteq Ptr /\ Null \notin Node /\ Header \in Node
      /\ Header \notin L /\ Node \subseteq Ptr
      /\ "left" \in Sides /\ "right" \in Sides /\ "left" # "right" /\ \A q \in Sides : q \in {"left", "right"}
  BY OrderedFacts DEF Ptr, Sides
<1>3. t[z].left = l /\ t[z].right = zr
  BY DEF Precedes
<1>4. PICK u, v, w, b, c, d, e :
        /\ u = SetChild(SetUp(t, l, y), y, "left", l)
        /\ v = SetChild(SetUp(u, x, yp), yp, "left", x)
        /\ w = SetUp(SetChild(v, y, "right", zr), zr, y)
        /\ b = IF y = zr THEN u ELSE w
        /\ c = Relink(b, z, y)
        /\ d = SetUp(c, y, g)
        /\ e = Paint(d, y, t[z].red)
  OBVIOUS
<1>5. e = UnlinkTwo(t, z, y, x)
  BY <1>1, <1>3, <1>4 DEF UnlinkTwo
<1>6. Handed(t, b, y, x, yp, l, zr)
  BY <1>4, HandedFields
<1>7. /\ b \in Trees
      /\ \A n \in Node : b[n].red = t[n].red
      /\ \A n \in Node : b[n].up = IF n = l THEN y
                                   ELSE IF y # zr /\ n = zr THEN y
                                   ELSE IF y # zr /\ n = x THEN yp
                                   ELSE t[n].up
      /\ \A n \in Node, q \in Sides :
           b[n][q] = IF n = y /\ q = "left" THEN l
                     ELSE IF y # zr /\ n = y /\ q = "right" THEN zr
                     ELSE IF y # zr /\ n = yp /\ q = "left" THEN x
                     ELSE t[n][q]
  BY <1>6 DEF Handed
<1>8. b[z].up = g /\ root(b) = root(t)
  BY <1>1, <1>2, <1>7 DEF root
<1>9. Side(b, z, g) = r
  <2>1. b[g]["left"] = t[g]["left"]
    BY <1>1, <1>2, <1>7
  <2> QED BY <2>1, <1>1 DEF Side
<1>10. Relinks(b, c, z, y)
  BY <1>1, <1>2, <1>4, <1>7, <1>8, RelinkFields
<1>11. /\ c \in Trees
       /\ \A n \in Node : /\ c[n].red = b[n].red
                          /\ c[n].up = IF n = Header /\ root(t) = z THEN y ELSE b[n].up
       /\ \A n \in Node, q \in Sides :
            c[n][q] = IF root(t) # z /\ n = g /\ q = r THEN y ELSE b[n][q]
  BY <1>8, <1>9, <1>10 DEF Relinks
<1>12. PutsUp(c, d, y, g)
  BY <1>1, <1>2, <1>4, <1>11, SetUpFields
<1>13. d \in Trees
  BY <1>12 DEF PutsUp
<1>14. t[z].red \in BOOLEAN
  BY <1>1, <1>2 DEF Trees
<1>15. Paints(d, e, y, t[z].red)
  BY <1>1, <1>2, <1>4, <1>13, <1>14, PaintFields
<1>16. \A n \in Node : e[n].red = IF n = y THEN t[z].red ELSE t[n].red
  <2> TAKE n \in Node
  <2>1. d[n].red = t[n].red
    BY <1>7, <1>11, <1>12 DEF PutsUp
  <2>2. e[n].red = IF n = y THEN t[z].red ELSE d[n].red
    BY <1>15 DEF Paints
  <2>3. CASE n = y
    BY <2>2, <2>3
  <2>4. CASE n # y
    BY <2>1, <2>2, <2>4
  <2> QED BY <2>3, <2>4
<1>17. \A n \in Node : e[n].up = IF n = y THEN g
                                 ELSE IF n = l \/ n = zr THEN y
                                 ELSE IF n = x THEN IF y = zr THEN y ELSE yp
                                 ELSE IF n = Header /\ root(t) = z THEN y
                                 ELSE t[n].up
  <2> TAKE n \in Node
  <2>1. e[n].up = d[n].up
    BY <1>15 DEF Paints
  <2>2. d[n].up = IF n = y THEN g ELSE c[n].up
    BY <1>12 DEF PutsUp
  <2>3. c[n].up = IF n = Header /\ root(t) = z THEN y ELSE b[n].up
    BY <1>11
  <2>4. b[n].up = IF n = l THEN y
                  ELSE IF y # zr /\ n = zr THEN y
                  ELSE IF y # zr /\ n = x THEN yp
                  ELSE t[n].up
    BY <1>7
  <2>5. l # Header /\ zr # Header /\ n # Null
    BY <1>1, <1>2
  <2>6. y = zr /\ n = x => t[n].up = y
    BY <2>5, <1>1
  <2> QED BY <2>1, <2>2, <2>3, <2>4, <2>5, <2>6, <1>1
<1>18. \A n \in Node, q \in Sides :
         e[n][q] = IF n = y THEN IF q = "left" THEN l ELSE IF y = zr THEN x ELSE zr
                   ELSE IF y # zr /\ n = yp /\ q = "left" THEN x
                   ELSE IF root(t) # z /\ n = g /\ q = r THEN y
                   ELSE t[n][q]
  <2> TAKE n \in Node, q \in Sides
  <2>1. e[n][q] = c[n][q]
    BY <1>12, <1>15 DEF Paints, PutsUp
  <2>2. c[n][q] = IF root(t) # z /\ n = g /\ q = r THEN y ELSE b[n][q]
    BY <1>11
  <2>3. b[n][q] = IF n = y /\ q = "left" THEN l
                  ELSE IF y # zr /\ n = y /\ q = "right" THEN zr
                  ELSE IF y # zr /\ n = yp /\ q = "left" THEN x
                  ELSE t[n][q]
    BY <1>7
  <2>4. q = "left" \/ q = "right"
    BY <1>2
  <2> QED BY <2>1, <2>2, <2>3, <2>4, <1>1, <1>2
<1>19. e \in Trees
  BY <1>15 DEF Paints
<1>20. Exchanged(t, e, L, z, y, x, yp, g, r, l, zr)
  BY <1>16, <1>17, <1>18, <1>19 DEF Exchanged
<1> QED BY <1>5, <1>20

(* It is the tree without y in which y stands where z stood. *)
Stands(t, w, v, L, z, y) ==
  /\ Swapped(w, v, L \ {y}, z, y)
  /\ Others(L \ {y}, z, y) = L \ {z}
  /\ \A q \in Sides : v[Header][q] = t[Header][q]
  /\ \A n \in Keys : n \notin L => v[n].up = t[n].up

LEMMA TwoSwapped ==
  ASSUME NEW t, NEW L, NEW K, NEW R, NEW m, Ordered(t, L, K, R, m), NoLoop(t, L),
         NEW z, NEW y, NEW x, NEW yp, NEW ry, NEW g, NEW r, NEW l, NEW zr,
         Precedes(t, L, z, y, x, yp, ry, g, r, l, zr),
         NEW v, Exchanged(t, v, L, z, y, x, yp, g, r, l, zr),
         NEW w, Dropped(t, w, y, x, yp, ry)
  PROVE  Stands(t, w, v, L, z, y)
<1>1. /\ z \in L /\ y \in L /\ yp \in L /\ y # z /\ y # yp /\ l \in L /\ zr \in L
      /\ t[z]["left"] = l /\ t[z]["right"] = zr /\ t[l].up = z /\ t[zr].up = z /\ l # zr
      /\ IF y = zr THEN yp = z /\ ry = "right" ELSE yp # z /\ ry = "left"
      /\ y # root(t) /\ y # l /\ z # l /\ z # zr
      /\ t[z].up = g /\ g \in Node /\ g # z /\ g # y /\ g # yp /\ r = Side(t, z, g)
      /\ root(t) = z => g = Header
      /\ root(t) # z => g \in L /\ r \in Sides /\ t[g][r] = z
      /\ x # Null => x \in L /\ t[x].up = y /\ x # l /\ x # zr
      /\ x \in Ptr /\ x # z /\ x # Header /\ x # y
  BY PrecedesFacts
<1>2. /\ L \subseteq Keys /\ L \subseteq Node /\ Null \notin Node /\ Header \in Node /\ Header \notin L
      /\ Null \notin L /\ Shape(t, L) /\ Keys \subseteq Node
      /\ "left" \in Sides /\ "right" \in Sides /\ "left" # "right" /\ \A q \in Sides : q \in {"left", "right"}
      /\ Header \notin Keys
  BY OrderedFacts, RbAssumption DEF Sides, Node
<1>3. /\ v \in Trees
      /\ \A n \in Node : v[n].red = IF n = y THEN t[z].red ELSE t[n].red
      /\ \A n \in Node : v[n].up = IF n = y THEN g
                                   ELSE IF n = l \/ n = zr THEN y
                                   ELSE IF n = x THEN IF y = zr THEN y ELSE yp
                                   ELSE IF n = Header /\ root(t) = z THEN y
                                   ELSE t[n].up
      /\ \A n \in Node, q \in Sides :
           v[n][q] = IF n = y THEN IF q = "left" THEN l ELSE IF y = zr THEN x ELSE zr
                     ELSE IF y # zr /\ n = yp /\ q = "left" THEN x
                     ELSE IF root(t) # z /\ n = g /\ q = r THEN y
                     ELSE t[n][q]
  BY DEF Exchanged
<1>4. /\ \A n \in Node : w[n].red = t[n].red
      /\ \A n \in Node : w[n].up = IF n = x THEN yp ELSE t[n].up
      /\ \A n \in L, q \in Sides : w[n][q] = IF n = yp /\ q = ry THEN x ELSE t[n][q]
  BY <1>1, <1>2 DEF Dropped
<1>5. /\ z \in L \ {y} /\ y \in Keys /\ y \notin L \ {y} /\ v[Header].red
  BY <1>1, <1>2, <1>3 DEF Shape
<1>6. root(v) = Swap(z, y, root(w))
  <2>1. root(w) = root(t)
    BY <1>1, <1>2, <1>4 DEF root
  <2>2. root(v) = IF root(t) = z THEN y ELSE root(t)
    BY <1>1, <1>2, <1>3 DEF root
  <2> QED BY <2>1, <2>2 DEF Swap
<1>7. \A n \in L \ {y} : v[Swap(z, y, n)].up = Swap(z, y, w[n].up)
  <2> TAKE n \in L \ {y}
  <2>1. CASE n = z
    <3>1. w[z].up = g /\ v[y].up = g
      BY <1>1, <1>2, <1>3, <1>4
    <3> QED BY <2>1, <3>1, <1>1 DEF Swap
  <2>2. CASE n = l \/ n = zr
    <3>1. w[n].up = z /\ v[n].up = y /\ n # z
      BY <2>2, <1>1, <1>2, <1>3, <1>4
    <3> QED BY <3>1 DEF Swap
  <2>3. CASE n = x
    <3>1. n # l /\ n # zr /\ n # y /\ n \in Node /\ n # Header /\ n # z
      BY <2>3, <1>1, <1>2
    <3>2. w[n].up = yp /\ v[n].up = IF y = zr THEN y ELSE yp
      BY <2>3, <3>1, <1>3, <1>4
    <3> QED BY <3>1, <3>2, <1>1 DEF Swap
  <2>4. CASE n # z /\ n # l /\ n # zr /\ n # x
    <3>1. n # Header /\ n \in Node /\ n \in L
      BY <1>2
    <3>2. w[n].up = t[n].up /\ v[n].up = t[n].up
      BY <2>4, <3>1, <1>3, <1>4
    <3>3. t[n].up # z
      <4>1. SUFFICES ASSUME t[n].up = z PROVE FALSE
        OBVIOUS
      <4>2. n # root(t)
        BY <3>1, <4>1, <1>1, <1>2 DEF Shape
      <4>3. \E q \in Sides : t[z][q] = n
        BY <3>1, <4>1, <4>2, <1>2, ParentFacts
      <4> QED BY <4>3, <2>4, <1>1, <1>2
    <3> QED BY <2>4, <3>2, <3>3 DEF Swap
  <2> QED BY <2>1, <2>2, <2>3, <2>4
<1>8. \A n \in L \ {y} : v[Swap(z, y, n)].red = w[n].red
  <2> TAKE n \in L \ {y}
  <2>1. CASE n = z
    <3>1. v[y].red = t[z].red /\ w[z].red = t[z].red
      BY <1>1, <1>2, <1>3, <1>4
    <3> QED BY <2>1, <3>1 DEF Swap
  <2>2. CASE n # z
    <3>1. v[n].red = t[n].red /\ w[n].red = t[n].red
      BY <1>2, <1>3, <1>4
    <3> QED BY <2>2, <3>1 DEF Swap
  <2> QED BY <2>1, <2>2
<1>9. \A n \in L \ {y}, q \in Sides : v[Swap(z, y, n)][q] = Swap(z, y, w[n][q])
  <2> TAKE n \in L \ {y}, q \in Sides
  <2>1. CASE n = z
    <3>1. v[y][q] = IF q = "left" THEN l ELSE IF y = zr THEN x ELSE zr
      BY <1>1, <1>2, <1>3
    <3>2. w[z][q] = IF z = yp /\ q = ry THEN x ELSE t[z][q]
      BY <1>1, <1>4
    <3>3. w[z][q] = IF q = "left" THEN l ELSE IF y = zr THEN x ELSE zr
      BY <3>2, <1>1, <1>2
    <3>4. w[z][q] # z
      BY <3>3, <1>1
    <3> QED BY <2>1, <3>1, <3>3, <3>4 DEF Swap
  <2>2. CASE n # z
    <3>1. v[n][q] = IF y # zr /\ n = yp /\ q = "left" THEN x
                    ELSE IF root(t) # z /\ n = g /\ q = r THEN y
                    ELSE t[n][q]
      BY <1>2, <1>3
    <3>2. w[n][q] = IF n = yp /\ q = ry THEN x ELSE t[n][q]
      BY <1>4
    <3>3. t[n][q] = z <=> root(t) # z /\ n = g /\ q = r
      BY <1>1, <1>2, ParentFacts
    <3>4. Swap(z, y, x) = x
      BY <1>1 DEF Swap
    <3>5. Swap(z, y, t[n][q]) = IF root(t) # z /\ n = g /\ q = r THEN y ELSE t[n][q]
      BY <3>3 DEF Swap
    <3>6. n = yp /\ q = ry <=> y # zr /\ n = yp /\ q = "left"
      BY <2>2, <1>1
    <3>7. v[n][q] = Swap(z, y, w[n][q])
      BY <3>1, <3>2, <3>4, <3>5, <3>6
    <3> QED BY <2>2, <3>7 DEF Swap
  <2> QED BY <2>1, <2>2
<1>10. Others(L \ {y}, z, y) = L \ {z}
  BY <1>1 DEF Others
<1>11. ASSUME NEW q \in Sides PROVE v[Header][q] = t[Header][q]
  <2>1. Header # y /\ Header # yp /\ (root(t) # z => Header # g)
    BY <1>1, <1>2
  <2> QED BY <2>1, <1>2, <1>3
<1>12. ASSUME NEW n \in Keys, n \notin L PROVE v[n].up = t[n].up
  <2>1. n # y /\ n # l /\ n # zr /\ n # Header /\ n \in Node /\ n # x
    BY <1>1, <1>2, <1>12
  <2> QED BY <2>1, <1>3
<1>13. Swapped(w, v, L \ {y}, z, y)
  BY <1>3, <1>5, <1>6, <1>7, <1>8, <1>9 DEF Swapped
<1> QED BY <1>10, <1>11, <1>12, <1>13 DEF Stands

(* y follows z. *)
LEMMA TwoFits ==
  ASSUME NEW t, NEW L, NEW K, NEW R, NEW m, Ordered(t, L, K, R, m), NoLoop(t, L),
         NEW z, NEW y, NEW x, NEW yp, NEW ry, NEW g, NEW r, NEW l, NEW zr,
         Precedes(t, L, z, y, x, yp, ry, g, r, l, zr),
         NEW J, Shrinks(L, K, y, J)
  PROVE  Fits(L \ {y}, J, z, y) /\ \A q \in Sides : K[z][q] # y
<1>1. /\ z \in L /\ y \in L /\ y # z /\ zr \in L /\ t[z]["right"] = zr /\ t[y]["left"] = Null
      /\ K[y]["left"] = z
  BY PrecedesFacts
<1>2. /\ Shape(t, L) /\ Bounds(t, L, K) /\ Ranked(t, L, R, m) /\ Header \notin L /\ Null \notin L
      /\ L \subseteq Int /\ y = Descend(t, zr, "left")
  BY OrderedFacts, RbAssumption DEF Precedes
<1>3. /\ "left" \in Sides /\ "right" \in Sides /\ "left" # "right" /\ \A q \in Sides : q = "left" \/ q = "right"
      /\ Other("left") = "right" /\ Other("right") = "left"
  BY DEF Sides, Other
<1>4. /\ \A n \in L, q \in Sides : K[n][q] \in L \cup {Header}
      /\ \A n \in L, q \in Sides :
           t[n][q] # Null => K[t[n][q]][q] = K[n][q] /\ K[t[n][q]][Other(q)] = n
      /\ \A n \in L, q \in Sides : K[n][q] # Header => Before(q, K[n][q], n)
  BY <1>2 DEF Bounds
<1>5. /\ \A n \in L : K[n]["left"] # Header => K[n]["left"] < n
      /\ \A n \in L : K[n]["right"] # Header => n < K[n]["right"]
  BY <1>3, <1>4 DEF Before
<1>6. z < y
  <2>1. z # Header
    BY <1>1, <1>2
  <2> QED BY <2>1, <1>1, <1>5
<1>7. ASSUME NEW a \in L, t[a]["left"] # Null
      PROVE  /\ t[a]["left"] \in L /\ t[a]["left"] < a
             /\ K[t[a]["left"]]["left"] = K[a]["left"]
  <2>1. PICK c : c = t[a]["left"]
    OBVIOUS
  <2>2. c \in L
    BY <2>1, <1>2, <1>3, <1>7, ChildFacts
  <2>3. K[c]["left"] = K[a]["left"] /\ K[c]["right"] = a
    BY <2>1, <1>3, <1>4, <1>7
  <2>4. c < a
    BY <2>2, <2>3, <1>2, <1>5
  <2> QED BY <2>1, <2>2, <2>3, <2>4
<1>8. K[z]["right"] # Header => y < K[z]["right"]
  <2>1. SUFFICES ASSUME K[z]["right"] # Header PROVE y < K[z]["right"]
    OBVIOUS
  <2>2. PICK k, A : k = K[z]["right"] /\ A = {a \in L : a < k}
    OBVIOUS
  <2>3. k \in L /\ k \in Int
    BY <2>1, <2>2, <1>1, <1>2, <1>3, <1>4
  <2>4. K[zr]["right"] = k
    BY <2>2, <1>1, <1>2, <1>3, <1>4
  <2>5. zr \in A
    BY <2>1, <2>2, <2>4, <1>1, <1>5
  <2>6. ASSUME NEW a \in A, t[a]["left"] # Null PROVE t[a]["left"] \in A
    <3>1. a \in L /\ a < k
      BY <2>2
    <3>2. t[a]["left"] \in L /\ t[a]["left"] < a
      BY <2>6, <3>1, <1>7
    <3>3. t[a]["left"] < k
      <4>1. PICK c : c = t[a]["left"]
        OBVIOUS
      <4>2. c \in Int /\ a \in Int /\ k \in Int
        BY <4>1, <3>1, <3>2, <2>3, <1>2
      <4>3. c < k
        BY <4>1, <4>2, <3>1, <3>2
      <4> QED BY <4>1, <4>3
    <3> QED BY <3>2, <3>3, <2>2
  <2>7. A \subseteq L
    BY <2>2
  <2>8. Descend(t, zr, "left") \in A
    BY <2>5, <2>6, <2>7, <1>2, <1>3, DescendEnds
  <2> QED BY <2>2, <2>8, <1>2
<1>9. ASSUME NEW n \in L, n # y, K[n]["left"] = z PROVE y < n
  <2>1. PICK A : A = {a \in L : K[a]["left"] = z /\ (a = n \/ a < n)}
    OBVIOUS
  <2>2. n \in A /\ A \subseteq L
    BY <2>1, <1>9
  <2>3. ASSUME NEW a \in A, t[a]["left"] # Null PROVE t[a]["left"] \in A
    <3>1. a \in L /\ K[a]["left"] = z /\ (a = n \/ a < n)
      BY <2>1
    <3>2. t[a]["left"] \in L /\ t[a]["left"] < a /\ K[t[a]["left"]]["left"] = z
      BY <2>3, <3>1, <1>7
    <3>3. t[a]["left"] < n
      <4>1. PICK c : c = t[a]["left"]
        OBVIOUS
      <4>2. c \in Int /\ a \in Int /\ n \in Int
        BY <4>1, <3>1, <3>2, <1>2
      <4>3. c < n
        BY <4>1, <4>2, <3>1, <3>2
      <4> QED BY <4>1, <4>3
    <3> QED BY <3>2, <3>3, <2>1
  <2>4. PICK e : e = Descend(t, n, "left")
    OBVIOUS
  <2>5. e \in A /\ t[e]["left"] = Null
    BY <2>2, <2>3, <2>4, <1>2, <1>3, DescendEnds
  <2>6. e \in L /\ K[e]["left"] = z /\ (e = n \/ e < n)
    BY <2>1, <2>5
  <2>7. e = y
    BY <2>5, <2>6, <1>1, <1>3, OneEnds
  <2> QED BY <2>6, <2>7, <1>9
<1>10. \A n \in L \ {y}, q \in Sides : J[n][q] = IF K[n][q] = y THEN K[y][q] ELSE K[n][q]
  BY DEF Shrinks
<1>11. /\ K[z]["left"] # y
       /\ K[z]["right"] # y
  <2>1. y # Header /\ y \in Int /\ z \in Int
    BY <1>1, <1>2
  <2>2. K[z]["left"] # y
    <3>1. SUFFICES ASSUME K[z]["left"] = y PROVE FALSE
      OBVIOUS
    <3>2. y < z
      BY <2>1, <3>1, <1>1, <1>5
    <3> QED BY <2>1, <3>2, <1>6
  <2>3. K[z]["right"] # y
    <3>1. SUFFICES ASSUME K[z]["right"] = y PROVE FALSE
      OBVIOUS
    <3>2. y < y
      BY <2>1, <3>1, <1>8
    <3> QED BY <2>1, <3>2
  <2> QED BY <2>2, <2>3
<1>12. ASSUME NEW q \in Sides, J[z][q] # Header PROVE Before(q, J[z][q], y)
  <2>1. J[z][q] = K[z][q]
    BY <1>1, <1>3, <1>10, <1>11
  <2>2. K[z][q] \in Int /\ y \in Int /\ z \in Int
    BY <2>1, <1>1, <1>2, <1>4, <1>12
  <2>3. CASE q = "left"
    <3>1. K[z]["left"] < z
      BY <2>1, <2>3, <1>1, <1>5, <1>12
    <3>2. K[z]["left"] < y
      BY <2>2, <2>3, <3>1, <1>6
    <3> QED BY <2>1, <2>3, <3>2 DEF Before
  <2>4. CASE q = "right"
    BY <2>1, <2>4, <1>3, <1>8, <1>12 DEF Before
  <2> QED BY <2>3, <2>4, <1>3
<1>13. ASSUME NEW n \in (L \ {y}) \ {z}, NEW q \in Sides, J[n][q] = z PROVE Before(q, y, n)
  <2>1. J[n][q] = IF K[n][q] = y THEN K[y][q] ELSE K[n][q]
    BY <1>10
  <2>2. n \in Int /\ y \in Int /\ z \in Int /\ n \in L /\ n # y /\ y # Header /\ z # Header
    BY <1>1, <1>2
  <2>3. CASE q = "left"
    <3>1. CASE K[n]["left"] = y
      <4>1. y < n
        BY <2>2, <3>1, <1>5
      <4> QED BY <2>3, <4>1 DEF Before
    <3>2. CASE K[n]["left"] # y
      <4>1. y < n
        BY <2>1, <2>2, <2>3, <3>2, <1>9, <1>13
      <4> QED BY <2>3, <4>1 DEF Before
    <3> QED BY <3>1, <3>2
  <2>4. CASE q = "right"
    <3>1. K[n]["right"] # y
      <4>1. SUFFICES ASSUME K[n]["right"] = y PROVE FALSE
        OBVIOUS
      <4>2. K[y]["right"] = z
        BY <2>1, <2>4, <4>1, <1>13
      <4>3. y < z
        BY <2>2, <4>2, <1>1, <1>5
      <4> QED BY <2>2, <4>3, <1>6
    <3>2. K[n]["right"] = z
      BY <2>1, <2>4, <3>1, <1>13
    <3>3. n < z
      BY <2>2, <3>2, <1>5
    <3>4. n < y
      BY <2>2, <3>3, <1>6
    <3> QED BY <2>4, <3>4, <1>3 DEF Before
  <2> QED BY <2>3, <2>4, <1>3
<1>14. Fits(L \ {y}, J, z, y)
  BY <1>12, <1>13 DEF Fits
<1> QED BY <1>3, <1>11, <1>14

LEMMA TwoSorted ==
  ASSUME NEW t, NEW L, NEW K, NEW R, NEW m, Ordered(t, L, K, R, m), NoLoop(t, L),
         NEW z, NEW y, NEW x, NEW yp, NEW ry, NEW g, NEW r, NEW l, NEW zr,
         Precedes(t, L, z, y, x, yp, ry, g, r, l, zr),
         NEW v, Exchanged(t, v, L, z, y, x, yp, g, r, l, zr)
  PROVE  Sorted(v, L \ {z})
<1>1. /\ z \in L /\ y \in L /\ yp \in L /\ y # z /\ y # yp /\ l \in L /\ zr \in L
      /\ t[z]["left"] = l /\ t[z]["right"] = zr
      /\ t[y]["right"] = x /\ t[yp][ry] = y
      /\ K[y]["left"] = z
      /\ IF y = zr THEN yp = z /\ ry = "right" /\ K[y]["right"] = K[z]["right"]
         ELSE yp # z /\ ry = "left" /\ K[y]["right"] = yp
      /\ y # root(t)
      /\ root(t) # z => g \in L /\ r \in Sides /\ t[g][r] = z
      /\ Leaves(t, L, y, x, yp, ry)
  BY PrecedesFacts
<1>2. /\ L \subseteq Keys /\ L \subseteq Node /\ Header \notin L /\ Null \notin L
      /\ Shape(t, L) /\ Bounds(t, L, K) /\ Edges(t, L, K)
      /\ "left" \in Sides /\ "right" \in Sides /\ "left" # "right" /\ \A q \in Sides : q \in {"left", "right"}
  BY OrderedFacts DEF Sides
<1>3. PICK w : Dropped(t, w, y, x, yp, ry)
  BY <1>1, <1>2, DropFields
<1>4. /\ Swapped(w, v, L \ {y}, z, y)
      /\ Others(L \ {y}, z, y) = L \ {z}
      /\ \A q \in Sides : v[Header][q] = t[Header][q]
      /\ \A n \in Keys : n \notin L => v[n].up = t[n].up
  <2>1. Stands(t, w, v, L, z, y)
    BY <1>3, TwoSwapped
  <2> QED BY <2>1 DEF Stands
<1>5. PICK J : Shrinks(L, K, y, J)
  BY <1>1, <1>2, ShrinkBounds
<1>6. Fits(L \ {y}, J, z, y) /\ \A q \in Sides : K[z][q] # y
  BY <1>5, TwoFits
<1>7. Bounds(w, L \ {y}, J) /\ Shape(w, L \ {y})
  <2>1. Leaves(t, L, y, x, yp, ry) /\ Shape(t, L)
    BY <1>1, <1>2
  <2>2. Bounds(w, L \ {y}, J)
    BY <2>1, <1>3, <1>5, DropBounds
  <2>3. Ranked(t, L, R, m)
    BY OrderedFacts
  <2>4. Shape(w, L \ {y}) /\ root(w) = IF root(t) = y THEN x ELSE root(t)
    BY <2>1, <2>3, <1>3, DropShape
  <2> QED BY <2>2, <2>4
<1>8. PICK F : /\ Bounds(v, L \ {z}, F)
               /\ \A n \in L \ {y}, q \in Sides :
                    J[n][q] = Header => F[Swap(z, y, n)][q] = Header
  BY <1>4, <1>6, <1>7, SwapBounds
<1>9. \A n \in L \ {y}, q \in Sides : J[n][q] = IF K[n][q] = y THEN K[y][q] ELSE K[n][q]
  BY <1>5 DEF Shrinks
<1>10. root(v) # Null
  <2>1. root(v) = Swap(z, y, root(w)) /\ z \in L \ {y}
    BY <1>4 DEF Swapped
  <2>2. root(w) # Null
    BY <2>1, <1>7 DEF Shape
  <2> QED BY <2>1, <2>2, <1>1, <1>2 DEF Swap
<1>11. root(t) # Null
  BY <1>1, <1>2 DEF Shape
<1>12. ASSUME NEW q \in Sides
       PROVE  /\ v[Header][q] \in L \ {z} /\ v[v[Header][q]][q] = Null
              /\ F[v[Header][q]][q] = Header
  <2>1. PICK e : e = t[Header][q]
    OBVIOUS
  <2>2. e \in L /\ t[e][q] = Null /\ K[e][q] = Header /\ v[Header][q] = e
    BY <2>1, <1>2, <1>4, <1>11 DEF Edges
  <2>3. e # z
    BY <2>2, <1>1, <1>2
  <2>4. v[e][q] = IF e = y THEN IF q = "left" THEN l ELSE IF y = zr THEN x ELSE zr
                  ELSE IF y # zr /\ e = yp /\ q = "left" THEN x
                  ELSE IF root(t) # z /\ e = g /\ q = r THEN y
                  ELSE t[e][q]
    BY <2>2, <1>2 DEF Exchanged
  <2>5. CASE e = y
    <3>1. q = "right"
      BY <2>2, <2>5, <1>1, <1>2
    <3>2. y = zr /\ x = Null
      BY <2>2, <2>5, <3>1, <1>1, <1>2
    <3>3. v[e][q] = Null
      BY <2>4, <2>5, <3>1, <3>2, <1>2
    <3>4. J[z][q] = Header
      <4>1. K[z][q] = Header
        BY <2>2, <2>5, <3>1, <3>2, <1>1
      <4>2. K[z][q] # y
        BY <1>6
      <4> QED BY <4>1, <4>2, <1>1, <1>9
    <3>5. Swap(z, y, z) = y
      BY DEF Swap
    <3>6. F[y][q] = Header
      BY <3>4, <3>5, <1>1, <1>8
    <3> QED BY <2>2, <2>3, <2>5, <3>3, <3>6
  <2>6. CASE e # y
    <3>1. J[e][q] = Header
      BY <2>2, <2>6, <1>1, <1>2, <1>9
    <3>2. Swap(z, y, e) = e
      BY <2>3 DEF Swap
    <3>3. F[e][q] = Header
      BY <2>2, <2>6, <3>1, <3>2, <1>8
    <3>4. ~ (y # zr /\ e = yp /\ q = "left")
      BY <2>2, <1>1, <1>2
    <3>5. ~ (root(t) # z /\ e = g /\ q = r)
      BY <2>2, <1>1, <1>2
    <3>6. v[e][q] = Null
      BY <2>2, <2>4, <2>6, <3>4, <3>5
    <3> QED BY <2>2, <2>3, <3>3, <3>6
  <2> QED BY <2>5, <2>6
<1>13. Edges(v, L \ {z}, F)
  BY <1>10, <1>12 DEF Edges
<1> QED BY <1>8, <1>13 DEF Sorted

LEMMA UnlinkTwoKeeps ==
  ASSUME NEW t, NEW L, NEW K, NEW R, NEW m, Ordered(t, L, K, R, m), NoLoop(t, L), Balanced(t, L),
         NEW z, NEW y, NEW x, NEW yp, NEW ry, NEW g, NEW r, NEW l, NEW zr,
         Precedes(t, L, z, y, x, yp, ry, g, r, l, zr)
  PROVE  Unlinked(t, UnlinkTwo(t, z, y, x), L, z, t[y].red, x, IF y = zr THEN y ELSE yp)
<1>1. /\ IF y = zr THEN yp = z ELSE yp # z
      /\ Leaves(t, L, y, x, yp, ry) /\ x # z
  BY PrecedesFacts
<1>2. Shape(t, L) /\ Ranked(t, L, R, m)
  BY OrderedFacts
<1>3. PICK v : v = UnlinkTwo(t, z, y, x)
  OBVIOUS
<1>4. Exchanged(t, v, L, z, y, x, yp, g, r, l, zr)
  BY <1>3, UnlinkTwoFields
<1>5. PICK w : Dropped(t, w, y, x, yp, ry)
  BY <1>1, <1>2, DropFields
<1>6. /\ Swapped(w, v, L \ {y}, z, y)
      /\ Others(L \ {y}, z, y) = L \ {z}
      /\ \A q \in Sides : v[Header][q] = t[Header][q]
      /\ \A n \in Keys : n \notin L => v[n].up = t[n].up
  <2>1. Stands(t, w, v, L, z, y)
    BY <1>4, <1>5, TwoSwapped
  <2> QED BY <2>1 DEF Stands
<1>7. /\ ~ t[y].red => \E G : Erasing(w, L \ {y}, G, x, yp, ry)
      /\ t[y].red => x = Null /\ Balanced(w, L \ {y})
  BY <1>1, <1>2, <1>5, DropErases
<1>8. Swap(z, y, yp) = IF y = zr THEN y ELSE yp
  BY <1>1 DEF Swap
<1>9. ASSUME ~ t[y].red PROVE \E G, s : Erasing(v, L \ {z}, G, x, IF y = zr THEN y ELSE yp, s)
  <2>1. PICK H : Erasing(w, L \ {y}, H, x, yp, ry)
    BY <1>7, <1>9
  <2>2. PICK G : Erasing(v, Others(L \ {y}, z, y), G, x, Swap(z, y, yp), ry)
    BY <2>1, <1>1, <1>6, SwapErasing
  <2>3. Erasing(v, L \ {z}, G, x, IF y = zr THEN y ELSE yp, ry)
    BY <2>2, <1>6, <1>8
  <2> QED BY <2>3
<1>10. ASSUME t[y].red PROVE Balanced(v, L \ {z})
  <2>1. Balanced(v, Others(L \ {y}, z, y))
    BY <1>6, <1>7, <1>10, SwapBalanced
  <2> QED BY <2>1, <1>6
<1>11. Sorted(v, L \ {z})
  BY <1>4, TwoSorted
<1>12. v[z].up \in (L \ {z}) \cup {Header}
  <2>1. /\ z \in L /\ y # z /\ z # l /\ z # zr /\ x # z /\ t[z].up = g /\ g # z
        /\ root(t) = z => g = Header
        /\ root(t) # z => g \in L
    BY PrecedesFacts
  <2>2. L \subseteq Node /\ Header \notin L
    BY OrderedFacts
  <2>3. v[z].up = g
    BY <2>1, <2>2, <1>4 DEF Exchanged
  <2> QED BY <2>1, <2>3
<1>13. Unlinked(t, v, L, z, t[y].red, x, IF y = zr THEN y ELSE yp)
  BY <1>6, <1>9, <1>10, <1>11, <1>12 DEF Unlinked
<1> QED BY <1>3, <1>13
(* With a red x below a red node or above red ones, the measure tells those  *)
(* apart: a red child of x, x, another red node, above a black one.          *)
Class(t, x, n) == IF ~ t[n].red THEN 0 ELSE IF n = x THEN 2 ELSE IF t[n].up = x THEN 1 ELSE 3

LEMMA RanksDuring ==
  ASSUME NEW t, NEW L, NEW H, NEW dn, NEW ds, NEW x,
         Shape(t, L), Heights(t, L, H, dn, ds), Colors(t, L, x, x),
         x \in L => t[x].up # x /\ (t[x].up \in L => t[t[x].up].up # x)
  PROVE  \E R, m : Ranked(t, L, R, m)
<1>2. PICK b \in Nat : \A n \in L : H[n] <= b
  BY DEF Heights, Bounded
<1>3. Null \notin L /\ Header \notin L /\ L \subseteq Ptr
  BY ShapeFacts
<1> DEFINE R == [n \in L |-> H[n] + H[n] + H[n] + H[n] + Class(t, x, n)]
           m == b + b + b + b + 3
<1>4. \A n : Class(t, x, n) \in 0..3
  BY DEF Class
<1>5. ASSUME NEW n \in L PROVE R[n] \in Nat /\ R[n] <= m
  <2>1. H[n] \in Nat /\ H[n] <= b
    BY <1>2, <1>3 DEF Heights
  <2>2. PICK c \in 0..3 : c = Class(t, x, n)
    BY <1>4
  <2> QED BY <2>1, <2>2
<1>6. ASSUME NEW n \in L, n # root(t) PROVE R[n] < R[t[n].up]
  <2>1. PICK p, q : p = t[n].up /\ q = Side(t, n, p)
    OBVIOUS
  <2>2. p \in L /\ q \in Sides /\ t[p][q] = n
    BY <1>6, <2>1, ParentFacts
  <2>3. H[p] = H[n] + Gap(dn, ds, p, q) + Weight(t, p) /\ H[p] \in Nat /\ H[n] \in Nat
    BY <2>2, <1>3 DEF Heights, Level
  <2>4. Gap(dn, ds, p, q) \in 0..1 /\ Weight(t, p) \in 0..1
    BY DEF Gap, Weight
  <2>5. PICK i \in 0..3, j \in 0..3 : i = Class(t, x, n) /\ j = Class(t, x, p)
    BY <1>4
  <2>6. R[n] = H[n] + H[n] + H[n] + H[n] + i /\ R[p] = H[p] + H[p] + H[p] + H[p] + j
    BY <2>2, <2>5
  <2>7. H[n] < H[p] \/ (H[n] = H[p] /\ Weight(t, p) = 0)
    BY <2>3, <2>4
  <2>8. CASE H[n] < H[p]
    <3>1. H[n] + 1 <= H[p]
      BY <2>3, <2>8
    <3>2. R[n] < R[p]
      BY <3>1, <2>3, <2>5, <2>6
    <3> QED BY <3>2, <2>1
  <2>9. CASE H[n] = H[p] /\ Weight(t, p) = 0
    <3>1. t[p].red
      BY <2>9 DEF Weight
    <3>2. i < j
      <4>1. CASE ~ t[n].red
        <5>1. i = 0 /\ j # 0
          BY <4>1, <3>1, <2>5 DEF Class
        <5> QED BY <5>1, <2>5
      <4>2. CASE t[n].red /\ n = x
        <5>1. p # x /\ t[p].up # x
          BY <4>2, <2>1, <2>2
        <5>2. i = 2 /\ j = 3
          BY <4>2, <5>1, <3>1, <2>5 DEF Class
        <5> QED BY <5>2
      <4>3. CASE t[n].red /\ n # x
        <5>1. p = x
          BY <4>3, <3>1, <2>1 DEF Colors
        <5>2. i = 1 /\ j = 2
          BY <4>3, <5>1, <3>1, <2>1, <2>5 DEF Class
        <5> QED BY <5>2
      <4> QED BY <4>1, <4>2, <4>3
    <3>3. R[n] < R[p]
      BY <3>2, <2>3, <2>5, <2>6, <2>9
    <3> QED BY <3>3, <2>1
  <2> QED BY <2>7, <2>8, <2>9
<1>7. m \in Nat
  OBVIOUS
<1> HIDE DEF R, m
<1>8. Ranked(t, L, R, m)
  BY <1>5, <1>6, <1>7 DEF Ranked
<1> QED BY <1>8

LEMMA RanksFixing ==
  ASSUME NEW t, NEW L, NEW H, NEW x, Fixing(t, L, H, x)
  PROVE  \E R, m : Ranked(t, L, R, m)
<1>1. Shape(t, L) /\ Heights(t, L, H, Header, "left") /\ Colors(t, L, x, Null) /\ x \in L /\ t[x].up # x
  BY DEF Fixing
<1>2. NoLoop(t, L)
  <2>1. PICK v, w : v = x /\ w = Null
    OBVIOUS
  <2>2. Colors(t, L, v, w) /\ w = Null /\ (v \in L => t[v].up # v)
    BY <1>1, <2>1
  <2> QED BY <2>2, <1>1, NoLoops
<1>3. Colors(t, L, x, x)
  <2>1. \A n \in L : t[n].up # Null
    BY <1>1, ParentFacts, ShapeFacts
  <2> QED BY <2>1, <1>1 DEF Colors
<1>4. x \in L => t[x].up # x /\ (t[x].up \in L => t[t[x].up].up # x)
  BY <1>2 DEF NoLoop
<1> QED BY <1>1, <1>3, <1>4, RanksDuring

LEMMA RanksErasing ==
  ASSUME NEW t, NEW L, NEW H, NEW x, NEW xp, NEW s, Erasing(t, L, H, x, xp, s)
  PROVE  \E R, m : Ranked(t, L, R, m)
<1>1. Shape(t, L) /\ Heights(t, L, H, xp, s) /\ Colors(t, L, x, x) /\ Missing(t, L, x, xp, s)
  BY DEF Erasing
<1>2. Header \notin L /\ Null \notin L /\ L \subseteq Ptr
  BY <1>1, ShapeFacts
<1>3. ASSUME x \in L PROVE t[x].up # x /\ (t[x].up \in L => t[t[x].up].up # x)
  <2>1. CASE x = root(t)
    <3>1. t[x].up = Header
      BY <2>1, <1>1, <1>3, ParentFacts
    <3> QED BY <3>1, <1>2, <1>3
  <2>2. CASE x # root(t)
    <3>1. xp \in L /\ s \in Sides /\ t[xp][s] = x
      BY <2>2, <1>1 DEF Missing
    <3>2. t[x].up = xp
      BY <3>1, <1>1, <1>2, <1>3, ChildFacts
    <3>3. H[xp] = H[x] + Gap(xp, s, xp, s) + Weight(t, xp) /\ H[xp] \in Nat /\ H[x] \in Nat
      BY <3>1, <1>1, <1>2, <1>3 DEF Heights, Level
    <3>4. H[x] < H[xp]
      BY <3>3 DEF Gap, Weight
    <3>5. t[xp].up # x
      <4>1. SUFFICES ASSUME t[xp].up = x PROVE FALSE
        OBVIOUS
      <4>2. xp # root(t)
        BY <4>1, <3>1, <1>1, <1>2, <1>3, ParentFacts
      <4>3. PICK q : q = Side(t, xp, x)
        OBVIOUS
      <4>4. q \in Sides /\ t[x][q] = xp
        BY <4>1, <4>2, <4>3, <3>1, <1>1, ParentFacts
      <4>5. H[x] = H[xp] + Gap(xp, s, x, q) + Weight(t, x)
        BY <4>4, <1>1, <1>3 DEF Heights, Level
      <4>6. Gap(xp, s, x, q) \in Nat /\ Weight(t, x) \in Nat
        BY DEF Gap, Weight
      <4> QED BY <4>5, <4>6, <3>3, <3>4
    <3> QED BY <3>2, <3>3, <3>4, <3>5
  <2> QED BY <2>1, <2>2
<1> QED BY <1>1, <1>3, RanksDuring


LEMMA UnlinkKeeps ==
  ASSUME NEW t, NEW L, NEW K, NEW R, NEW m, Ordered(t, L, K, R, m), NoLoop(t, L), Balanced(t, L),
         NEW z \in L, NEW y, y = Leaver(t, z), NEW x, x = OnlyChild(t, y)
  PROVE  /\ y \in L
         /\ Unlinked(t, Unlink(t, z), L, z, t[y].red, x,
                     IF y # z /\ y = t[z].right THEN y ELSE t[y].up)
<1>1. /\ "left" \in Sides /\ "right" \in Sides /\ "left" # "right"
      /\ Other("left") = "right" /\ Other("right") = "left"
  BY DEF Sides, Other
<1>2. PICK l, zr, g, r, yp, ry : /\ l = t[z].left /\ zr = t[z].right /\ g = t[z].up /\ r = Side(t, z, g)
                                 /\ yp = t[y].up /\ ry = Side(t, y, yp)
  OBVIOUS
<1>3. CASE l # Null /\ zr # Null
  <2>1. y = Descend(t, zr, "left")
    BY <1>2, <1>3 DEF Leaver
  <2>2. PICK e : e = t[y].right
    OBVIOUS
  <2>3. Precedes(t, L, z, y, e, yp, ry, g, r, l, zr)
    BY <2>1, <2>2, <1>2, <1>3 DEF Precedes
  <2>4. y \in L /\ y # z /\ t[y]["left"] = Null
    BY <2>3, PrecedesFacts
  <2>5. e = x
    BY <2>2, <2>4 DEF OnlyChild
  <2>6. Unlinked(t, UnlinkTwo(t, z, y, e), L, z, t[y].red, e, IF y = zr THEN y ELSE yp)
    BY <2>3, UnlinkTwoKeeps
  <2>7. Unlink(t, z) = UnlinkTwo(t, z, y, x)
    BY <2>4 DEF Unlink
  <2>8. (IF y # z /\ y = t[z].right THEN y ELSE t[y].up) = IF y = zr THEN y ELSE yp
    BY <2>4, <1>2
  <2> QED BY <2>4, <2>5, <2>6, <2>7, <2>8
<1>4. CASE ~ (l # Null /\ zr # Null)
  <2>1. y = z
    BY <1>2, <1>4 DEF Leaver
  <2>2. x = IF l = Null THEN zr ELSE l
    BY <2>1, <1>2 DEF OnlyChild
  <2>3. g # z /\ (g \in L => t[g].up # z)
    BY <1>2 DEF NoLoop
  <2>4. \E p \in Sides : t[z][p] = x /\ t[z][Other(p)] = Null
    <3>1. CASE l = Null
      BY <3>1, <2>2, <1>1, <1>2
    <3>2. CASE l # Null
      BY <3>2, <2>2, <1>1, <1>2, <1>4
    <3> QED BY <3>1, <3>2
  <2>5. Leaves(t, L, z, x, g, r)
    BY <2>3, <2>4, <1>2 DEF Leaves
  <2>6. Unlinked(t, UnlinkOne(t, z, x), L, z, t[z].red, x, g)
    BY <2>5, UnlinkOneKeeps
  <2>7. Unlink(t, z) = UnlinkOne(t, z, x)
    BY <2>1 DEF Unlink
  <2> QED BY <2>1, <2>6, <2>7, <1>2
<1> QED BY <1>3, <1>4

(***************************************************************************)
(* Freeing a node that is out of the tree.                                 *)
(***************************************************************************)
SameWithin(t, u, L) == u \in Trees /\ \A n \in L \cup {Header} : u[n] = t[n]

LEMMA ReleaseWithin ==
  ASSUME NEW t \in Trees, NEW L, L \subseteq Keys, NEW z \in Keys, z \notin L
  PROVE  /\ SameWithin(t, Release(t, z), L)
         /\ \A n \in Keys : Release(t, z)[n].up = IF n = z THEN Null ELSE t[n].up
<1>1. L \cup {Header} \subseteq Node /\ z \notin L \cup {Header} /\ z \in Node /\ Keys \subseteq Node
  BY RbAssumption DEF Node
<1>2. Freed \in [up : Ptr, left : Ptr, right : Ptr, red : BOOLEAN] /\ Freed.up = Null
  BY DEF Freed, Ptr
<1>3. Release(t, z) \in Trees /\ \A n \in Node : Release(t, z)[n] = IF n = z THEN Freed ELSE t[n]
  BY <1>1, <1>2 DEF Release, Trees
<1>4. \A n \in Keys : Release(t, z)[n].up = IF n = z THEN Null ELSE t[n].up
  BY <1>1, <1>2, <1>3
<1> QED BY <1>1, <1>3, <1>4 DEF SameWithin

LEMMA WithinKeeps ==
  ASSUME NEW t, NEW L, Balanced(t, L), Sorted(t, L), NEW u, SameWithin(t, u, L)
  PROVE  Balanced(u, L) /\ Sorted(u, L)
<1>1. /\ Shape(t, L) /\ Colors(t, L, Null, Null)
      /\ \E H : Heights(t, L, H, Header, "left")
  BY DEF Balanced
<1>2. PICK H, K : Heights(t, L, H, Header, "left") /\ Bounds(t, L, K) /\ Edges(t, L, K)
  BY <1>1 DEF Sorted
<1>3. u \in Trees /\ \A n \in L : u[n] = t[n]
  BY DEF SameWithin
<1>4. u[Header] = t[Header] /\ root(u) = root(t)
  BY DEF SameWithin, root
<1>5. root(t) \in L \cup {Null} /\ L \subseteq Keys /\ Null \notin L /\ Header \notin L
  BY <1>1, ShapeFacts DEF Shape
<1>6. \A n \in L : u[n].up \in L \cup {Header}
  BY <1>1, <1>3, ParentFacts
<1>7. \A n \in L, q \in Sides : u[n][q] \in L \cup {Null}
  BY <1>1, <1>3, ChildFacts
<1>8. Shape(u, L)
  <2>1. u[Header].red /\ (root(u) = Null => L = {}) /\ (root(u) # Null => u[root(u)].up = Header)
    BY <1>1, <1>3, <1>4, <1>5 DEF Shape
  <2>2. ASSUME NEW n \in L, NEW q \in Sides, u[n][q] # Null
        PROVE  u[n][q] \in L /\ u[u[n][q]].up = n /\ u[n][Other(q)] # u[n][q]
    <3>1. t[n][q] \in L /\ t[t[n][q]].up = n /\ t[n][Other(q)] # t[n][q]
      BY <2>2, <1>1, <1>3, ChildFacts
    <3> QED BY <3>1, <1>3
  <2>3. ASSUME NEW n \in L, n # root(u)
        PROVE  u[n].up \in L /\ \E q \in Sides : u[u[n].up][q] = n
    <3>1. t[n].up \in L /\ \E q \in Sides : t[t[n].up][q] = n
      BY <2>3, <1>1, <1>4 DEF Shape
    <3> QED BY <3>1, <1>3
  <2> QED BY <2>1, <2>2, <2>3, <1>3, <1>4, <1>5 DEF Shape
<1>9. Heights(u, L, H, Header, "left")
  BY <1>2, <1>3 DEF Heights, Level, Weight
<1>10. Colors(u, L, Null, Null)
  <2>1. ASSUME NEW n \in L, u[n].red PROVE ~ u[u[n].up].red
    <3>1. t[n].red /\ n # Null
      BY <2>1, <1>3, <1>5
    <3>2. t[n].up # Null
      BY <1>1, <1>5, ParentFacts, ShapeFacts
    <3>3. ~ t[t[n].up].red
      BY <3>1, <3>2, <1>1 DEF Colors
    <3>4. t[n].up \in L \cup {Header} /\ u[n].up = t[n].up
      BY <1>3, <1>6
    <3> QED BY <3>3, <3>4, <1>3, <1>4
  <2> QED BY <2>1 DEF Colors
<1>11. Bounds(u, L, K)
  BY <1>2, <1>3, <1>4, <1>5 DEF Bounds
<1>12. Edges(u, L, K)
  BY <1>2, <1>3, <1>4 DEF Edges
<1> QED BY <1>8, <1>9, <1>10, <1>11, <1>12 DEF Balanced, Sorted

LEMMA ReleaseKeeps ==
  ASSUME NEW t, NEW L, Balanced(t, L), Sorted(t, L), NEW z \in Keys, z \notin L
  PROVE  /\ Balanced(Release(t, z), L) /\ Sorted(Release(t, z), L)
         /\ \A n \in Keys : Release(t, z)[n].up = IF n = z THEN Null ELSE t[n].up
<1>1. t \in Trees /\ L \subseteq Keys
  BY ShapeFacts DEF Balanced
<1>2. /\ SameWithin(t, Release(t, z), L)
      /\ \A n \in Keys : Release(t, z)[n].up = IF n = z THEN Null ELSE t[n].up
  BY <1>1, ReleaseWithin
<1> QED BY <1>2, WithinKeeps

(* A balanced tree that is sorted can be walked. *)
LEMMA BalancedNoLoop ==
  ASSUME NEW t, NEW L, Balanced(t, L)
  PROVE  NoLoop(t, L)
<1>1. PICK H : Shape(t, L) /\ Heights(t, L, H, Header, "left") /\ Colors(t, L, Null, Null)
  BY DEF Balanced
<1>2. Null \notin L
  BY <1>1, ShapeFacts
<1>3. PICK a, dn, ds : a = Null /\ dn = Header /\ ds = "left"
  OBVIOUS
<1>4. Heights(t, L, H, dn, ds) /\ Colors(t, L, a, a) /\ (a = a /\ (a \in L => ~ t[a].red))
  BY <1>1, <1>2, <1>3
<1> QED BY <1>1, <1>4, NoLoops

LEMMA BalancedOrdered ==
  ASSUME NEW t, NEW L, Balanced(t, L), Sorted(t, L)
  PROVE  \E K, R, m : Ordered(t, L, K, R, m)
<1>1. PICK K : Bounds(t, L, K) /\ Edges(t, L, K)
  BY DEF Sorted
<1>2. PICK R, m : Ranked(t, L, R, m)
  BY Ranks
<1>3. Ordered(t, L, K, R, m)
  BY <1>1, <1>2 DEF Ordered, Balanced
<1> QED BY <1>3

LEMMA BalancedWalkable ==
  ASSUME NEW t, NEW L, Balanced(t, L), NEW K, NEW R, NEW m, Ordered(t, L, K, R, m),
         \A n \in Keys : n \notin L => t[n].up = Null, L # {}
  PROVE  Walkable(t, L, K, R, m)
<1>1. Shape(t, L) /\ Colors(t, L, Null, Null)
  BY DEF Balanced
<1>2. L \subseteq Keys /\ Null \notin Node /\ Null \notin L
  BY <1>1, ShapeFacts
<1>3. \A n \in L : t[n].up \in Node
  BY <1>1, ParentFacts
<1>4. Linked(t) = L
  BY <1>2, <1>3 DEF Linked
<1>5. root(t) \in L /\ t[root(t)].up = Header /\ t[Header].red /\ Header # Null
  BY <1>1, RbAssumption DEF Shape
<1>6. ~ t[root(t)].red
  BY <1>1, <1>2, <1>5 DEF Colors
<1> QED BY <1>4, <1>6, BalancedNoLoop DEF Walkable

(***************************************************************************)
(* The inductive invariant.  L are the nodes in the tree; during an erasure  *)
(* the erased node is out of it and not yet freed.                         *)
(***************************************************************************)
Calls == [op : {"none", "insert", "erase"}, x : Ptr, xp : Ptr, z : Ptr]

(* What the call c under way leaves true of the tree with the nodes L.       *)
Holds(t, c, L) ==
  /\ Sorted(t, L)
  /\ \A n \in Keys : n \notin L /\ n # c.z => t[n].up = Null
  /\ c.op = "none" => c = NoCall /\ Balanced(t, L)
  /\ c.op = "insert" => c.z = Null /\ \E H : Fixing(t, L, H, c.x)
  /\ c.op = "erase" => /\ c.z \in Keys /\ c.z \notin L /\ t[c.z].up \in L \cup {Header}
                       /\ \E H, s : Erasing(t, L, H, c.x, c.xp, s)

RbInv == call \in Calls /\ \E L : Holds(tree, call, L)

LEMMA NoCallFacts == NoCall \in Calls /\ NoCall.op = "none" /\ NoCall.z = Null
BY DEF NoCall, Calls, Ptr

LEMMA QuietHolds ==
  ASSUME NEW t, NEW L, Balanced(t, L), Sorted(t, L), \A n \in Keys : n \notin L => t[n].up = Null
  PROVE  Holds(t, NoCall, L)
BY NoCallFacts DEF Holds

LEMMA ErasingTypes ==
  ASSUME NEW t, NEW L, NEW H, NEW x, NEW xp, NEW s, Erasing(t, L, H, x, xp, s)
  PROVE  x \in Ptr /\ xp \in Ptr
<1>1. Shape(t, L) /\ x \in L \cup {Null} /\ Missing(t, L, x, xp, s)
  BY DEF Erasing
<1>2. xp \in L \cup {Header}
  BY <1>1 DEF Missing
<1> QED BY <1>1, <1>2, ShapeFacts

LEMMA InitHolds ==
  ASSUME RbInit
  PROVE  RbInv
<1> DEFINE L == {}
<1>1. call = NoCall /\ tree = [[n \in Node |-> Freed] EXCEPT
               ![Header] = [up |-> Null, left |-> Header, right |-> Header, red |-> TRUE]]
  BY DEF RbInit
<1>2. Header \in Node /\ Header \in Ptr /\ Null \in Ptr /\ Header \notin Keys /\ Keys \subseteq Node
  BY RbAssumption DEF Node, Ptr
<1>3. Freed \in [up : Ptr, left : Ptr, right : Ptr, red : BOOLEAN] /\ Freed.up = Null
  BY <1>2 DEF Freed
<1>4. /\ tree \in Trees
      /\ tree[Header] = [up |-> Null, left |-> Header, right |-> Header, red |-> TRUE]
      /\ \A n \in Keys : tree[n] = Freed
  BY <1>1, <1>2, <1>3 DEF Trees
<1>5. root(tree) = Null /\ tree[Header].red /\ \A s \in Sides : tree[Header][s] = Header
  BY <1>4 DEF root, Sides
<1>6. Shape(tree, {})
  BY <1>4, <1>5 DEF Shape
<1>7. \E H : Heights(tree, {}, H, Header, "left")
  <2>1. PICK H : H = [n \in Ptr |-> 0]
    OBVIOUS
  <2>2. Bounded({}, H)
    BY DEF Bounded
  <2>3. H \in [Ptr -> Nat] /\ H[Null] = 0
    BY <2>1, <1>2
  <2>4. Heights(tree, {}, H, Header, "left")
    BY <2>2, <2>3 DEF Heights
  <2> QED BY <2>4
<1>8. Balanced(tree, {})
  BY <1>6, <1>7 DEF Balanced, Colors
<1>9. Sorted(tree, {})
  <2>1. PICK K : K = [n \in {} |-> [s \in Sides |-> Header]]
    OBVIOUS
  <2>2. K \in [{} -> [Sides -> {} \cup {Header}]]
    BY <2>1
  <2>3. Bounds(tree, {}, K)
    BY <2>2, <1>5 DEF Bounds
  <2>4. Edges(tree, {}, K)
    BY <1>5 DEF Edges
  <2> QED BY <2>3, <2>4 DEF Sorted
<1>10. Holds(tree, call, {})
  BY <1>1, <1>3, <1>4, <1>8, <1>9, QuietHolds
<1> QED BY <1>1, <1>10, NoCallFacts DEF RbInv

(* Between calls. *)
LEMMA QuietFacts ==
  ASSUME NEW t, NEW L, Holds(t, NoCall, L)
  PROVE  /\ Balanced(t, L) /\ Sorted(t, L) /\ \A n \in Keys : n \notin L => t[n].up = Null
<1>1. NoCall.op = "none" /\ NoCall.z = Null /\ Null \notin Keys
  BY NoCallFacts, RbAssumption
<1> QED BY <1>1 DEF Holds

(* Where a new key goes. *)
Placed(u, L, k) ==
  /\ \E G : Fixing(u, L \cup {k}, G, k)
  /\ Sorted(u, L \cup {k})
  /\ \A n \in Keys : n \notin L \cup {k} => u[n].up = Null

LEMMA LinkPlaces ==
  ASSUME NEW t, NEW L, Holds(t, NoCall, L), NEW k \in Keys, ~ Position(t, k).found
  PROVE  k \notin L /\ Placed(Link(t, k, Position(t, k).p, Position(t, k).s), L, k)
<1>1. Balanced(t, L) /\ Sorted(t, L) /\ \A n \in Keys : n \notin L => t[n].up = Null
  BY QuietFacts
<1>2. PICK p, s, u : p = Position(t, k).p /\ s = Position(t, k).s /\ u = Link(t, k, p, s)
  OBVIOUS
<1>3. Shape(t, L)
  BY <1>1 DEF Balanced
<1>4. CASE L = {}
  <2>1. root(t) = Null
    BY <1>3, <1>4 DEF Shape
  <2>2. t[Header]["left"] = Header
    BY <2>1, <1>1 DEF Sorted, Edges, Sides
  <2>3. p = Header /\ s = "left"
    BY <2>1, <2>2, <1>2, <1>3, PositionEmpty
  <2>4. Shape(t, {})
    BY <1>3, <1>4
  <2>5. /\ \E G : Fixing(u, {k}, G, k)
        /\ Sorted(u, {k})
        /\ \A n \in Keys : n # k => u[n].up = t[n].up
    BY <2>3, <2>4, <1>2, LinkFirst
  <2>6. L \cup {k} = {k}
    BY <1>4
  <2>7. Placed(u, L, k)
    BY <2>5, <2>6, <1>1, <1>4 DEF Placed
  <2> QED BY <2>7, <1>2, <1>4
<1>5. CASE L # {}
  <2>1. PICK K, R, m : Ordered(t, L, K, R, m)
    BY <1>1, BalancedOrdered
  <2>2. Walkable(t, L, K, R, m)
    BY <2>1, <1>1, <1>5, BalancedWalkable
  <2>3. k \notin L
    BY <2>2, PositionTaken
  <2>4. Free(t, L, K, k, p, s)
    BY <2>2, <2>3, <1>2, PositionFree
  <2>5. Bounds(t, L, K) /\ Edges(t, L, K)
    BY <2>1, OrderedFacts
  <2>6. /\ \E G : Fixing(u, L \cup {k}, G, k)
        /\ Sorted(u, L \cup {k})
        /\ \A n \in Keys : n \notin L \cup {k} => u[n].up = t[n].up
    <3>1. Balanced(t, L)
      BY <1>1
    <3>2. /\ \E G : Fixing(Link(t, k, p, s), L \cup {k}, G, k)
          /\ Sorted(Link(t, k, p, s), L \cup {k})
          /\ \A n \in Keys : n \notin L \cup {k} => Link(t, k, p, s)[n].up = t[n].up
      BY <2>3, <2>4, <2>5, <3>1, LinkBelow
    <3> QED BY <3>2, <1>2
  <2>7. Placed(u, L, k)
    BY <2>6, <1>1 DEF Placed
  <2> QED BY <2>3, <2>7, <1>2
<1> QED BY <1>4, <1>5

LEMMA InsertStep ==
  ASSUME NEW L, Holds(tree, call, L), NEW k \in Keys, Insert(k)
  PROVE  k \notin L /\ call' \in Calls /\ Holds(tree', call', L \cup {k})
<1>1. /\ call = NoCall /\ ~ Position(tree, k).found
      /\ tree' = Link(tree, k, Position(tree, k).p, Position(tree, k).s)
      /\ call' = [NoCall EXCEPT !.op = "insert", !.x = k]
  BY DEF Insert
<1>2. Holds(tree, NoCall, L)
  BY <1>1
<1>3. k \notin L /\ Placed(tree', L, k)
  BY <1>1, <1>2, LinkPlaces
<1>4. call'.op = "insert" /\ call'.x = k /\ call'.z = Null /\ call' \in Calls
  BY <1>1 DEF NoCall, Calls, Ptr, Node
<1>5. Holds(tree', call', L \cup {k})
  BY <1>3, <1>4 DEF Holds, Placed
<1> QED BY <1>3, <1>4, <1>5

LEMMA RebalanceInsertStep ==
  ASSUME NEW L, call \in Calls, Holds(tree, call, L), RebalanceInsert
  PROVE  call' \in Calls /\ Holds(tree', call', L)
<1>1. PICK x, p, pp, s, y :
        /\ x = call.x /\ p = tree[x].up /\ pp = tree[p].up /\ s = Side(tree, p, pp)
        /\ y = tree[pp][Other(s)]
  OBVIOUS
<1>2. call.op = "insert" /\ call \in Calls
  BY DEF RebalanceInsert
<1>3. Holds(tree, call, L)
  OBVIOUS
<1>4. call.z = Null /\ Sorted(tree, L) /\ \A n \in Keys : n \notin L => tree[n].up = Null
  BY <1>2, <1>3, RbAssumption DEF Holds
<1>5. PICK H : Fixing(tree, L, H, x)
  BY <1>1, <1>2, <1>3 DEF Holds
<1>6. ASSUME NEW u, NEW v, Keeps(tree, u, L), \E G : Fixing(u, L, G, v), tree' = u,
             call' = [call EXCEPT !.x = v]
      PROVE  call' \in Calls /\ Holds(tree', call', L)
  <2>1. v \in Ptr
    BY <1>6, ShapeFacts DEF Fixing
  <2>2. call'.op = "insert" /\ call'.x = v /\ call'.z = Null /\ call' \in Calls
    BY <2>1, <1>2, <1>4, <1>6 DEF Calls
  <2>3. Sorted(u, L) /\ \A n \in Keys : n \notin L => u[n].up = Null
    BY <1>4, <1>6 DEF Keeps
  <2>4. Holds(u, call', L)
    BY <2>2, <2>3, <1>6 DEF Holds
  <2> QED BY <2>2, <2>4, <1>6
<1>7. CASE x = root(tree) \/ ~ tree[p].red
  <2>1. tree' = Paint(tree, root(tree), FALSE) /\ call' = NoCall
    BY <1>1, <1>7 DEF RebalanceInsert
  <2>2. Keeps(tree, tree', L) /\ Balanced(tree', L)
    BY <2>1, <1>1, <1>5, <1>7, InsertEnds
  <2>3. Sorted(tree', L) /\ \A n \in Keys : n \notin L => tree'[n].up = Null
    BY <2>2, <1>4 DEF Keeps
  <2>4. Holds(tree', call', L)
    BY <2>1, <2>2, <2>3, QuietHolds
  <2> QED BY <2>1, <2>4, NoCallFacts
<1>8. ASSUME ~ (x = root(tree) \/ ~ tree[p].red) PROVE Around(tree, x, p, pp, y) /\ x # root(tree)
  BY <1>1, <1>8 DEF Around
<1>9. CASE ~ (x = root(tree) \/ ~ tree[p].red) /\ IsRed(tree, y)
  <2>1. tree' = Recolor(tree, p, y, pp) /\ call' = [call EXCEPT !.x = pp]
    BY <1>1, <1>9 DEF RebalanceInsert
  <2>2. Keeps(tree, Recolor(tree, p, y, pp), L) /\ \E G : Fixing(Recolor(tree, p, y, pp), L, G, pp)
    BY <1>5, <1>8, <1>9, RecolorKeeps
  <2> QED BY <2>1, <2>2, <1>6
<1>10. CASE /\ ~ (x = root(tree) \/ ~ tree[p].red) /\ ~ IsRed(tree, y)
            /\ x = tree[p][Other(s)]
  <2>1. PICK u : u = Rotate(tree, p, s)
    OBVIOUS
  <2>2. tree' = Raise(u, p) /\ call' = [call EXCEPT !.x = p]
    BY <2>1, <1>1, <1>10 DEF RebalanceInsert
  <2>3. Inside(tree, x, p, pp, s, u)
    BY <2>1, <1>1, <1>10 DEF Inside
  <2>4. /\ Keeps(tree, u, L) /\ Fixing(u, L, H, p) /\ p # root(u)
        /\ Around(u, p, x, pp, y) /\ Outer(u, p, x, pp) /\ (IsRed(u, y) <=> IsRed(tree, y))
    BY <2>3, <1>5, <1>8, <1>10, InnerKeeps
  <2>5. Keeps(u, Raise(u, p), L) /\ \E G : Fixing(Raise(u, p), L, G, p)
    BY <2>4, <1>10, RaiseKeeps
  <2>6. Keeps(tree, Raise(u, p), L)
    BY <2>4, <2>5, KeepsTrans
  <2> QED BY <2>2, <2>5, <2>6, <1>6
<1>11. CASE /\ ~ (x = root(tree) \/ ~ tree[p].red) /\ ~ IsRed(tree, y)
            /\ x # tree[p][Other(s)]
  <2>1. tree' = Raise(tree, x) /\ call' = [call EXCEPT !.x = x]
    BY <1>1, <1>11 DEF RebalanceInsert
  <2>2. PICK q \in Sides :
           /\ q = Side(tree, p, pp) /\ Other(q) \in Sides /\ Other(q) # q /\ Other(Other(q)) = q
           /\ tree[pp][q] = p /\ tree[pp][Other(q)] = y /\ y # p
           /\ (tree[p][q] = x \/ tree[p][Other(q)] = x)
    BY <1>5, <1>8, <1>11, AroundFacts
  <2>3. Outer(tree, x, p, pp)
    BY <2>2, <1>1, <1>11 DEF Outer
  <2>4. Keeps(tree, Raise(tree, x), L) /\ \E G : Fixing(Raise(tree, x), L, G, x)
    BY <2>3, <1>5, <1>8, <1>11, RaiseKeeps
  <2> QED BY <2>1, <2>4, <1>6
<1> QED BY <1>7, <1>9, <1>10, <1>11

LEMMA EraseStep ==
  ASSUME NEW L, Holds(tree, call, L), NEW z \in Keys, Erase(z)
  PROVE  z \in L /\ call' \in Calls /\ Holds(tree', call', L \ {z})
<1>1. PICK y, t, x, xp :
        /\ y = Leaver(tree, z) /\ t = Unlink(tree, z) /\ x = OnlyChild(tree, y)
        /\ xp = IF y # z /\ y = tree[z].right THEN y ELSE tree[y].up
  OBVIOUS
<1>2. call = NoCall /\ z \in Linked(tree)
  BY DEF Erase
<1>3. Holds(tree, NoCall, L)
  BY <1>2
<1>4. Balanced(tree, L) /\ Sorted(tree, L) /\ \A n \in Keys : n \notin L => tree[n].up = Null
  BY <1>3, QuietFacts
<1>5. z \in L
  BY <1>2, <1>4 DEF Linked
<1>6. PICK K, R, m : Ordered(tree, L, K, R, m)
  BY <1>4, BalancedOrdered
<1>7. NoLoop(tree, L)
  BY <1>4, BalancedNoLoop
<1>8. Unlinked(tree, t, L, z, tree[y].red, x, xp)
  BY <1>1, <1>4, <1>5, <1>6, <1>7, UnlinkKeeps
<1>9. /\ ~ tree[y].red => \E G, s : Erasing(t, L \ {z}, G, x, xp, s)
      /\ tree[y].red => Balanced(t, L \ {z})
      /\ Sorted(t, L \ {z})
      /\ \A n \in Keys : n \notin L => t[n].up = Null
      /\ t[z].up \in (L \ {z}) \cup {Header}
  BY <1>4, <1>8 DEF Unlinked
<1>10. CASE tree[y].red
  <2>1. tree' = Release(t, z) /\ call' = NoCall
    BY <1>1, <1>2, <1>10 DEF Erase
  <2>2. z \notin L \ {z}
    OBVIOUS
  <2>3. /\ Balanced(tree', L \ {z}) /\ Sorted(tree', L \ {z})
        /\ \A n \in Keys : tree'[n].up = IF n = z THEN Null ELSE t[n].up
    BY <2>1, <2>2, <1>9, <1>10, ReleaseKeeps
  <2>4. \A n \in Keys : n \notin L \ {z} => tree'[n].up = Null
    BY <2>3, <1>9
  <2>5. Holds(tree', call', L \ {z})
    BY <2>1, <2>3, <2>4, QuietHolds
  <2> QED BY <2>1, <2>5, <1>5, NoCallFacts
<1>11. CASE ~ tree[y].red
  <2>1. tree' = t /\ call' = [op |-> "erase", x |-> x, z |-> z, xp |-> xp]
    BY <1>1, <1>11 DEF Erase
  <2>2. PICK G, s : Erasing(t, L \ {z}, G, x, xp, s)
    BY <1>9, <1>11
  <2>3. x \in Ptr /\ xp \in Ptr /\ z \in Ptr
    BY <2>2, ErasingTypes DEF Ptr, Node
  <2>4. call' \in Calls /\ call'.op = "erase" /\ call'.x = x /\ call'.xp = xp /\ call'.z = z
    BY <2>1, <2>3 DEF Calls
  <2>5. \A n \in Keys : n \notin L \ {z} /\ n # z => t[n].up = Null
    BY <1>9
  <2>6. Holds(tree', call', L \ {z})
    BY <2>1, <2>2, <2>4, <2>5, <1>9 DEF Holds
  <2> QED BY <2>4, <2>6, <1>5
<1> QED BY <1>10, <1>11

LEMMA RebalanceEraseStep ==
  ASSUME NEW L, call \in Calls, Holds(tree, call, L), RebalanceErase
  PROVE  call' \in Calls /\ Holds(tree', call', L)
<1>1. PICK x, xp, s, t, w, z :
        /\ x = call.x /\ xp = call.xp /\ s = Side(tree, x, xp) /\ t = RaiseSibling(tree, xp, s)
        /\ w = t[xp][Other(s)] /\ z = call.z
  OBVIOUS
<1>2. call.op = "erase" /\ call \in Calls
  BY DEF RebalanceErase
<1>3. Holds(tree, call, L)
  OBVIOUS
<1>4. /\ Sorted(tree, L) /\ \A n \in Keys : n \notin L /\ n # z => tree[n].up = Null
      /\ z \in Keys /\ z \notin L /\ tree[z].up \in L \cup {Header}
  BY <1>1, <1>2, <1>3 DEF Holds
<1>5. PICK H, r : Erasing(tree, L, H, x, xp, r)
  BY <1>1, <1>2, <1>3 DEF Holds
<1>6. ASSUME NEW u, Keeps(tree, u, L), Balanced(u, L), tree' = Release(u, z), call' = NoCall
      PROVE  call' \in Calls /\ Holds(tree', call', L)
  <2>1. Sorted(u, L) /\ \A n \in Keys : n \notin L /\ n # z => u[n].up = Null
    BY <1>4, <1>6 DEF Keeps
  <2>2. /\ Balanced(Release(u, z), L) /\ Sorted(Release(u, z), L)
        /\ \A n \in Keys : Release(u, z)[n].up = IF n = z THEN Null ELSE u[n].up
    BY <2>1, <1>4, <1>6, ReleaseKeeps
  <2>3. \A n \in Keys : n \notin L => Release(u, z)[n].up = Null
    BY <2>1, <2>2
  <2>4. Holds(Release(u, z), NoCall, L)
    BY <2>2, <2>3, QuietHolds
  <2> QED BY <2>4, <1>6, NoCallFacts
<1>7. CASE x = root(tree) \/ IsRed(tree, x)
  <2>1. tree' = Release(Blacken(tree, x), z) /\ call' = NoCall
    BY <1>1, <1>7 DEF RebalanceErase
  <2>2. Keeps(tree, Blacken(tree, x), L) /\ Balanced(Blacken(tree, x), L)
    BY <1>5, <1>7, EraseEnds
  <2> QED BY <2>1, <2>2, <1>6
<1>8. ASSUME ~ (x = root(tree) \/ IsRed(tree, x))
      PROVE  /\ r = s /\ Keeps(tree, t, L) /\ ~ t[w].red
             /\ \E G : Turn(t, L, G, x, xp, s)
  <2>1. Turn(tree, L, H, x, xp, r)
    BY <1>5, <1>8 DEF Turn
  <2>2. \E e \in L : /\ tree[xp][Other(r)] = e /\ tree[e].up = xp /\ e # x /\ e # xp /\ e # root(tree)
                     /\ H[e] \in Nat /\ H[x] \in Nat /\ H[xp] \in Nat
                     /\ H[e] = H[x] + 1 /\ H[xp] = H[e] + Weight(tree, xp)
                     /\ Hinge(tree, L, xp, r, e) /\ r = Side(tree, x, xp)
    BY <2>1, SiblingFacts
  <2>3. r = s
    BY <2>2, <1>1
  <2>4. /\ Keeps(tree, RaiseSibling(tree, xp, r), L)
        /\ \E G : Turn(RaiseSibling(tree, xp, r), L, G, x, xp, r)
        /\ ~ RaiseSibling(tree, xp, r)[RaiseSibling(tree, xp, r)[xp][Other(r)]].red
    BY <2>1, SiblingKeeps
  <2> QED BY <2>3, <2>4, <1>1
<1>9. CASE /\ ~ (x = root(tree) \/ IsRed(tree, x))
           /\ \A c \in Sides : ~ IsRed(t, t[w][c])
  <2>1. PICK u : u = Paint(t, w, TRUE)
    OBVIOUS
  <2>2. tree' = u /\ call' = [call EXCEPT !.x = xp, !.xp = t[xp].up]
    BY <2>1, <1>1, <1>9 DEF RebalanceErase
  <2>3. PICK G : Turn(t, L, G, x, xp, s)
    BY <1>8, <1>9
  <2>4. Keeps(t, u, L) /\ \E F, q : Erasing(u, L, F, xp, t[xp].up, q)
    <3>1. w = t[xp][Other(s)] /\ ~ t[w].red
      BY <1>1, <1>8, <1>9
    <3>2. /\ Keeps(t, Paint(t, w, TRUE), L)
          /\ \E F, q : Erasing(Paint(t, w, TRUE), L, F, xp, t[xp].up, q)
      BY <3>1, <2>3, <1>9, PassOnKeeps
    <3> QED BY <3>2, <2>1
  <2>5. PICK F, q : Erasing(u, L, F, xp, t[xp].up, q)
    BY <2>4
  <2>6. xp \in Ptr /\ t[xp].up \in Ptr
    BY <2>5, ErasingTypes
  <2>7. /\ call' \in Calls /\ call'.op = "erase" /\ call'.x = xp /\ call'.xp = t[xp].up
        /\ call'.z = z
    BY <2>2, <2>6, <1>1, <1>2 DEF Calls
  <2>8. Keeps(tree, u, L)
    BY <2>4, <1>8, <1>9, KeepsTrans
  <2>9. /\ Sorted(u, L) /\ \A n \in Keys : n \notin L /\ n # z => u[n].up = Null
        /\ u[z].up \in L \cup {Header}
    BY <2>8, <1>4 DEF Keeps
  <2>10. Holds(tree', call', L)
    BY <2>2, <2>5, <2>7, <2>9, <1>4 DEF Holds
  <2> QED BY <2>7, <2>10
<1>10. CASE /\ ~ (x = root(tree) \/ IsRed(tree, x))
            /\ ~ \A c \in Sides : ~ IsRed(t, t[w][c])
  <2>1. PICK v, u : v = RaiseNephew(t, w, s) /\ u = Settle(v, xp, s)
    OBVIOUS
  <2>2. tree' = Release(Blacken(u, x), z) /\ call' = NoCall
    BY <2>1, <1>1, <1>10 DEF RebalanceErase
  <2>3. PICK G : Turn(t, L, G, x, xp, s)
    BY <1>8, <1>10
  <2>4. Keeps(t, v, L) /\ \E F : Ready(v, L, F, x, xp, s)
    <3>1. w = t[xp][Other(s)] /\ ~ t[w].red
      BY <1>1, <1>8, <1>10
    <3>2. /\ Keeps(t, RaiseNephew(t, w, s), L)
          /\ \E E : Ready(RaiseNephew(t, w, s), L, E, x, xp, s)
      BY <3>1, <2>3, <1>10, NephewKeeps
    <3> QED BY <3>2, <2>1
  <2>5. PICK F : Ready(v, L, F, x, xp, s)
    BY <2>4
  <2>6. /\ Keeps(v, u, L) /\ Balanced(u, L)
        /\ x \in L => ~ u[x].red
    BY <2>1, <2>5, SettleKeeps
  <2>7. Keeps(tree, t, L)
    BY <1>8, <1>10
  <2>8. Keeps(tree, v, L)
    BY <2>4, <2>7, KeepsTrans
  <2>9. Keeps(tree, u, L)
    BY <2>6, <2>8, KeepsTrans
  <2>10. Keeps(tree, Blacken(u, x), L) /\ Balanced(Blacken(u, x), L)
    <3>1. CASE x = Null
      <4>1. Blacken(u, x) = u
        BY <3>1 DEF Blacken
      <4> QED BY <4>1, <2>6, <2>9
    <3>2. CASE x # Null
      <4>1. x \in L
        BY <3>2, <1>5 DEF Erasing
      <4>2. x \in Node
        BY <4>1, <2>6, ShapeFacts DEF Balanced
      <4>3. Blacken(u, x) = Paint(u, x, FALSE)
        BY <3>2 DEF Blacken
      <4>4. Keeps(u, Paint(u, x, FALSE), L) /\ Balanced(Paint(u, x, FALSE), L)
        BY <4>1, <4>2, <2>6, BlackStays
      <4> QED BY <4>3, <4>4, <2>9, KeepsTrans
    <3> QED BY <3>1, <3>2
  <2> QED BY <2>2, <2>10, <1>6
<1> QED BY <1>7, <1>9, <1>10

LEMMA NextHolds ==
  ASSUME RbInv, [RbNext]_rbVars
  PROVE  RbInv'
<1>0. PICK L : call \in Calls /\ Holds(tree, call, L)
  BY DEF RbInv
<1>1. CASE UNCHANGED rbVars
  BY <1>1 DEF rbVars, RbInv
<1>2. ASSUME NEW k \in Keys, Insert(k) PROVE RbInv'
  <2>1. call' \in Calls /\ Holds(tree', call', L \cup {k})
    BY <1>0, <1>2, InsertStep
  <2> QED BY <2>1 DEF RbInv
<1>3. ASSUME NEW k \in Keys, Erase(k) PROVE RbInv'
  <2>1. call' \in Calls /\ Holds(tree', call', L \ {k})
    BY <1>0, <1>3, EraseStep
  <2> QED BY <2>1 DEF RbInv
<1>4. CASE RebalanceInsert
  <2>1. call' \in Calls /\ Holds(tree', call', L)
    BY <1>0, <1>4, RebalanceInsertStep
  <2> QED BY <2>1 DEF RbInv
<1>5. CASE RebalanceErase
  <2>1. call' \in Calls /\ Holds(tree', call', L)
    BY <1>0, <1>5, RebalanceEraseStep
  <2> QED BY <2>1 DEF RbInv
<1> QED BY <1>1, <1>2, <1>3, <1>4, <1>5 DEF RbNext

(* Every insertion, erasure and turn of a rebalancing loop of map.cxx keeps  *)
(* the tree linked, ordered and, but for the place in hand, red and black.   *)
THEOREM RbInvariant == RbSpec => []RbInv
BY InitHolds, NextHolds, PTL DEF RbSpec

LEMMA InvRedBlack ==
  ASSUME RbInv
  PROVE  RedBlack
<1> SUFFICES ASSUME call = NoCall
             PROVE  /\ tree[Header].red
                    /\ \A x \in Linked(tree) : IsRed(tree, x) => ~ IsRed(tree, tree[x].up)
                    /\ \A x, y \in {n \in Linked(tree) : Null \in {tree[n].left, tree[n].right}} :
                         _Rb_tree_black_count(tree, x) = _Rb_tree_black_count(tree, y)
  BY DEF RedBlack
<1>1. PICK L : Holds(tree, NoCall, L)
  BY DEF RbInv
<1>2. Balanced(tree, L) /\ Sorted(tree, L) /\ \A n \in Keys : n \notin L => tree[n].up = Null
  BY <1>1, QuietFacts
<1>3. PICK H : Shape(tree, L) /\ Heights(tree, L, H, Header, "left") /\ Colors(tree, L, Null, Null)
  BY <1>2 DEF Balanced
<1>4. PICK R, m : Ranked(tree, L, R, m)
  BY <1>2, Ranks
<1>5. Null \notin L /\ L \subseteq Keys /\ Null \notin Node /\ \A n \in L : tree[n].up \in Node
  BY <1>3, ShapeFacts, ParentFacts
<1>6. Linked(tree) = L
  BY <1>2, <1>5 DEF Linked
<1>7. ASSUME NEW x \in Linked(tree), IsRed(tree, x) PROVE ~ IsRed(tree, tree[x].up)
  <2>1. x \in L /\ tree[x].red /\ x # Null /\ tree[x].up # Null
    BY <1>5, <1>6, <1>7 DEF IsRed
  <2> QED BY <2>1, <1>3 DEF Colors, IsRed
<1>8. ASSUME NEW x \in Linked(tree), Null \in {tree[x].left, tree[x].right}
      PROVE  _Rb_tree_black_count(tree, x) = H[root(tree)]
  <2>1. x \in L
    BY <1>6
  <2> QED BY <2>1, <1>3, <1>4, <1>6, <1>8, CountTips
<1>9. tree[Header].red
  BY <1>3 DEF Shape
<1> QED BY <1>7, <1>8, <1>9

(* After every call of the two rebalancing functions no red node is below a  *)
(* red one and all ways down have equally many black nodes.                  *)
THEOREM RedBlackHolds == RbSpec => []RedBlack
BY RbInvariant, InvRedBlack, PTL

LEMMA InvWalksBack ==
  ASSUME RbInv
  PROVE  WalksBack
<1> SUFFICES ASSUME call = NoCall, root(tree) # Null
             PROVE  /\ _Rb_tree_decrement(tree, Header) = Descend(tree, root(tree), "right")
                    /\ tree[Header].left = Descend(tree, root(tree), "left")
                    /\ \A x \in Linked(tree) :
                         x # tree[Header].left =>
                           _Rb_tree_increment(tree, _Rb_tree_decrement(tree, x)) = x
  BY DEF WalksBack
<1>1. PICK L : Holds(tree, NoCall, L)
  BY DEF RbInv
<1>2. Balanced(tree, L) /\ Sorted(tree, L) /\ \A n \in Keys : n \notin L => tree[n].up = Null
  BY <1>1, QuietFacts
<1>3. L # {}
  BY <1>2 DEF Balanced, Shape
<1>4. PICK K, R, m : Ordered(tree, L, K, R, m)
  BY <1>2, BalancedOrdered
<1>5. Walkable(tree, L, K, R, m)
  BY <1>2, <1>3, <1>4, BalancedWalkable
<1>6. Linked(tree) = L
  BY <1>5, WalkableFacts
<1> QED BY <1>5, <1>6, DecrementHeader, DecrementUndone

(* Between calls _Rb_tree_decrement undoes _Rb_tree_increment, and the        *)
(* header's pointers are begin() and the last node.                          *)
THEOREM WalksBackHolds == RbSpec => []WalksBack
BY RbInvariant, InvWalksBack, PTL

LEMMA InvSearchFinds ==
  ASSUME RbInv
  PROVE  SearchFinds
<1> SUFFICES ASSUME call = NoCall, NEW k \in Keys
             PROVE  Position(tree, k).found <=> k \in Linked(tree)
  BY DEF SearchFinds
<1>1. PICK L : Holds(tree, NoCall, L)
  BY DEF RbInv
<1>2. Balanced(tree, L) /\ Sorted(tree, L) /\ \A n \in Keys : n \notin L => tree[n].up = Null
  BY <1>1, QuietFacts
<1>3. CASE L = {}
  <2>1. Linked(tree) = {}
    BY <1>2, <1>3 DEF Linked
  <2>2. ~ Position(tree, k).found
    <3>1. Shape(tree, {}) /\ root(tree) = Null
      BY <1>2, <1>3 DEF Balanced, Shape
    <3>2. tree[Header]["left"] = Header
      BY <3>1, <1>2 DEF Sorted, Edges, Sides
    <3> QED BY <3>1, <3>2, PositionEmpty
  <2> QED BY <2>1, <2>2
<1>4. CASE L # {}
  <2>1. PICK K, R, m : Ordered(tree, L, K, R, m)
    BY <1>2, BalancedOrdered
  <2>2. Walkable(tree, L, K, R, m)
    BY <2>1, <1>2, <1>4, BalancedWalkable
  <2>3. Linked(tree) = L
    BY <2>2, WalkableFacts
  <2>4. CASE k \in L
    BY <2>2, <2>3, <2>4, PositionTaken
  <2>5. CASE k \notin L
    BY <2>2, <2>3, <2>5, PositionFree
  <2> QED BY <2>4, <2>5
<1> QED BY <1>3, <1>4

(* Between calls operator[] and find meet exactly the keys in the map.       *)
THEOREM SearchHolds == RbSpec => []SearchFinds
BY RbInvariant, InvSearchFinds, PTL

(***************************************************************************)
(* The refinement of OrderedSet.                                           *)
(***************************************************************************)
LEMMA HoldsOrdered ==
  ASSUME NEW t, NEW L, NEW c \in Calls, Holds(t, c, L)
  PROVE  \E K, R, m : Ordered(t, L, K, R, m)
<1>1. PICK K : Bounds(t, L, K) /\ Edges(t, L, K)
  BY DEF Holds, Sorted
<1>2. Shape(t, L) /\ \E R, m : Ranked(t, L, R, m)
  <2>1. CASE c.op = "none"
    <3>1. Balanced(t, L)
      BY <2>1 DEF Holds
    <3> QED BY <3>1, Ranks DEF Balanced
  <2>2. CASE c.op = "insert"
    <3>1. PICK H : Fixing(t, L, H, c.x)
      BY <2>2 DEF Holds
    <3>2. Shape(t, L)
      BY <3>1 DEF Fixing
    <3> QED BY <3>1, <3>2, RanksFixing
  <2>3. CASE c.op = "erase"
    <3>1. PICK H, s : Erasing(t, L, H, c.x, c.xp, s)
      BY <2>3 DEF Holds
    <3>2. Shape(t, L)
      BY <3>1 DEF Erasing
    <3> QED BY <3>1, <3>2, RanksErasing
  <2>4. c.op \in {"none", "insert", "erase"}
    BY DEF Calls
  <2> QED BY <2>1, <2>2, <2>3, <2>4
<1>3. PICK R, m : Ranked(t, L, R, m)
  BY <1>2
<1>4. Ordered(t, L, K, R, m)
  BY <1>1, <1>2, <1>3 DEF Ordered
<1> QED BY <1>4

LEMMA HoldsCovers ==
  ASSUME NEW t, NEW L, NEW c \in Calls, Holds(t, c, L)
  PROVE  Covers(t, L) /\ Linked(t) \ {c.z} = L
<1>1. Shape(t, L)
  BY HoldsOrdered, OrderedFacts
<1>2. L \subseteq Keys /\ Null \notin Keys /\ Null \notin L /\ Header # Null /\ Null \notin Node
  BY <1>1, ShapeFacts, RbAssumption
<1>3. \A n \in L : t[n].up \in L \cup {Header} /\ t[n].up # Null
  <2> TAKE n \in L
  <2>1. t[n].up \in L \cup {Header}
    BY <1>1, ParentFacts
  <2> QED BY <2>1, <1>2
<1>4. \A n \in Keys : n \notin L /\ n # c.z => t[n].up = Null
  BY DEF Holds
<1>5. c.z \notin L /\ (c.z \in Keys => t[c.z].up \in L \cup {Header})
  <2>1. CASE c.op = "none"
    <3>1. c.z = Null
      BY <2>1, NoCallFacts DEF Holds
    <3> QED BY <3>1, <1>2
  <2>2. CASE c.op = "insert"
    <3>1. c.z = Null
      BY <2>2 DEF Holds
    <3> QED BY <3>1, <1>2
  <2>3. CASE c.op = "erase"
    BY <2>3 DEF Holds
  <2>4. c.op \in {"none", "insert", "erase"}
    BY DEF Calls
  <2> QED BY <2>1, <2>2, <2>3, <2>4
<1>6. L \subseteq Linked(t) /\ \A n \in Linked(t) : n \in L \/ n = c.z
  BY <1>2, <1>3, <1>4 DEF Linked
<1>7. \A n \in Linked(t) : t[n].up \in L \cup {Header}
  BY <1>3, <1>5, <1>6 DEF Linked
<1>8. Covers(t, L)
  BY <1>6, <1>7 DEF Covers
<1>9. Linked(t) \ {c.z} = L
  BY <1>5, <1>6
<1> QED BY <1>8, <1>9

(* The mapped state is the one of the set L. *)
Maps(t, c, L) ==
  /\ Linked(t) \ {c.z} = L
  /\ [x \in (Linked(t) \ {c.z}) \cup {Header} |->
        IF x = Header THEN t[Header].left ELSE _Rb_tree_increment(t, x)] = Map!Steps(L)

LEMMA HoldsMaps ==
  ASSUME NEW t, NEW L, NEW c \in Calls, Holds(t, c, L)
  PROVE  Maps(t, c, L)
<1>1. Covers(t, L) /\ Linked(t) \ {c.z} = L
  BY HoldsCovers
<1>2. PICK K, R, m : Ordered(t, L, K, R, m)
  BY HoldsOrdered
<1>3. L \subseteq Keys /\ Header \notin L
  BY <1>2, OrderedFacts
<1>4. Map!Steps(L)[Header] = t[Header].left
  <2>1. StepsTo(L, Header, t[Header].left)
    BY <1>2, FirstSteps
  <2> QED BY <2>1, <1>3, StepIs
<1>5. ASSUME NEW x \in L PROVE Map!Steps(L)[x] = _Rb_tree_increment(t, x)
  <2>1. StepsTo(L, x, _Rb_tree_increment(t, x))
    BY <1>1, <1>2, IncrementSteps
  <2> QED BY <2>1, <1>3, StepIs
<1>6. PICK f : f = [x \in L \cup {Header} |->
                      IF x = Header THEN t[Header].left ELSE _Rb_tree_increment(t, x)]
  OBVIOUS
<1>7. \A x \in L \cup {Header} : f[x] = Map!Steps(L)[x]
  BY <1>3, <1>4, <1>5, <1>6
<1>8. f = [x \in L \cup {Header} |-> f[x]]
  BY <1>6
<1>9. Map!Steps(L) = [x \in L \cup {Header} |-> Map!Steps(L)[x]]
  BY DEF Map!Steps
<1>10. f = Map!Steps(L)
  BY <1>7, <1>8, <1>9
<1> QED BY <1>1, <1>6, <1>10 DEF Maps

LEMMA MapInit ==
  ASSUME RbInit
  PROVE  Map!Init
<1>1. RbInv
  BY InitHolds
<1>2. PICK L : call \in Calls /\ Holds(tree, call, L)
  BY <1>1 DEF RbInv
<1>3. Maps(tree, call, L)
  BY <1>2, HoldsMaps
<1>4. Linked(tree) = {}
  <2>1. call = NoCall /\ \A n \in Keys : tree[n].up = Null
    BY RbAssumption DEF RbInit, Freed, Node
  <2> QED BY <2>1 DEF Linked
<1>5. L = {}
  BY <1>3, <1>4 DEF Maps
<1> QED BY <1>3, <1>5 DEF Maps, Map!Init, InTree, MapSteps

LEMMA MapBecomes ==
  ASSUME NEW L, call' \in Calls, Holds(tree', call', L)
  PROVE  Map!Become(L)
<1>1. Maps(tree', call', L)
  BY HoldsMaps
<1> QED BY <1>1 DEF Maps, Map!Become, InTree, MapSteps

LEMMA MapStutters ==
  ASSUME NEW L, call \in Calls, Holds(tree, call, L), call' \in Calls, Holds(tree', call', L)
  PROVE  UNCHANGED <<InTree, MapSteps>>
<1>1. Maps(tree, call, L)
  BY HoldsMaps
<1>2. Maps(tree', call', L)
  BY HoldsMaps
<1> QED BY <1>1, <1>2 DEF Maps, InTree, MapSteps

LEMMA MapNext ==
  ASSUME RbInv, [RbNext]_rbVars
  PROVE  [Map!Next]_<<InTree, MapSteps>>
<1>1. PICK L : call \in Calls /\ Holds(tree, call, L)
  BY DEF RbInv
<1>2. InTree = L
  <2>1. Maps(tree, call, L)
    BY <1>1, HoldsMaps
  <2> QED BY <2>1 DEF Maps, InTree
<1>3. ASSUME NEW k \in Keys, Insert(k) PROVE Map!Add(k)
  <2>1. k \notin L /\ call' \in Calls /\ Holds(tree', call', L \cup {k})
    BY <1>1, <1>3, InsertStep
  <2>2. Map!Become(L \cup {k})
    BY <2>1, MapBecomes
  <2> QED BY <2>1, <2>2, <1>2 DEF Map!Add
<1>4. ASSUME NEW k \in Keys, Erase(k) PROVE Map!Delete(k)
  <2>1. k \in L /\ call' \in Calls /\ Holds(tree', call', L \ {k})
    BY <1>1, <1>4, EraseStep
  <2>2. Map!Become(L \ {k})
    BY <2>1, MapBecomes
  <2> QED BY <2>1, <2>2, <1>2 DEF Map!Delete
<1>5. CASE RebalanceInsert
  <2>1. call' \in Calls /\ Holds(tree', call', L)
    BY <1>1, <1>5, RebalanceInsertStep
  <2> QED BY <2>1, <1>1, MapStutters
<1>6. CASE RebalanceErase
  <2>1. call' \in Calls /\ Holds(tree', call', L)
    BY <1>1, <1>6, RebalanceEraseStep
  <2> QED BY <2>1, <1>1, MapStutters
<1>7. CASE UNCHANGED rbVars
  <2>1. call' \in Calls /\ Holds(tree', call', L)
    BY <1>1, <1>7 DEF rbVars
  <2> QED BY <2>1, <1>1, MapStutters
<1> QED BY <1>3, <1>4, <1>5, <1>6, <1>7 DEF RbNext, Map!Next

(* The tree with its iterators is an ordered set: linking a node adds its    *)
(* key, unlinking takes it away, and every rotation, recolouring and the     *)
(* freeing of the node leave the keys and all steps of iterators alone.      *)
THEOREM RbRefines == RbSpec => MapSpec
<1>1. RbInit => Map!Init
  BY MapInit
<1>2. RbInv /\ [RbNext]_rbVars => [Map!Next]_<<InTree, MapSteps>>
  BY MapNext
<1> QED BY <1>1, <1>2, RbInvariant, PTL DEF RbSpec, MapSpec, Map!Spec
=============================================================================
