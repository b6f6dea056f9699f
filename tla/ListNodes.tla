------------------------------ MODULE ListNodes ------------------------------
(* The node operations of source/platform/alter/list.cxx that std::list      *)
(* stands on.  A list is a ring of nodes through its header.  "content" is   *)
(* the caller's view, the sequence each list holds: it says which calls are  *)
(* legal and what they promise.                                              *)
EXTENDS Integers, Sequences, FiniteSets

CONSTANTS Lists,    \* the headers
          Nodes     \* the elements

ASSUME ListAssumption == IsFiniteSet(Lists \cup Nodes) /\ Lists \cap Nodes = {}

VARIABLES next,     \* _M_next of the headers and of the linked nodes
          prev,     \* _M_prev
          content   \* what each list holds

listVars == <<next, prev, content>>

Members(a) == {content[a][i] : i \in DOMAIN content[a]}

(* The node at place i: the header is before the first and behind the last. *)
At(a, i) == IF i \in DOMAIN content[a] THEN content[a][i] ELSE a

ListInit ==
  /\ next = [a \in Lists |-> a]
  /\ prev = [a \in Lists |-> a]
  /\ content = [a \in Lists |-> <<>>]

(* Faulty variant: n is put behind pos. *)
HookBehind(n, pos) ==
  /\ next' = [x \in DOMAIN next \cup {n} |->
                IF x = n THEN next[pos] ELSE IF x = pos THEN n ELSE next[x]]
  /\ prev' = [x \in DOMAIN prev \cup {n} |->
                IF x = n THEN pos ELSE IF x = next[pos] THEN n ELSE prev[x]]

(* n is put before pos. *)
_M_hook(n, pos) ==
  /\ next' = [x \in DOMAIN next \cup {n} |->
                IF x = n THEN pos ELSE IF x = prev[pos] THEN n ELSE next[x]]
  /\ prev' = [x \in DOMAIN prev \cup {n} |->
                IF x = n THEN prev[pos] ELSE IF x = pos THEN n ELSE prev[x]]

(* n is taken out, and freed by erase. *)
_M_unhook(n) ==
  /\ next' = [x \in DOMAIN next \ {n} |-> IF x = prev[n] THEN next[n] ELSE next[x]]
  /\ prev' = [x \in DOMAIN prev \ {n} |-> IF x = next[n] THEN prev[n] ELSE prev[x]]

(* Faulty variant: pos's old neighbour is read after it was overwritten. *)
TransferWithoutTmp(pos, first, last) ==
  IF pos = last THEN UNCHANGED <<next, prev>>
  ELSE /\ next' = [next EXCEPT ![prev[last]] = pos, ![prev[first]] = last,
                               ![prev[pos]] = first]
       /\ prev' = [prev EXCEPT ![pos] = prev[last], ![last] = prev[first],
                               ![first] = prev[last]]

(* [first, last) moves before pos. *)
_M_transfer(pos, first, last) ==
  IF pos = last THEN UNCHANGED <<next, prev>>
  ELSE /\ next' = [next EXCEPT ![prev[last]] = pos, ![prev[first]] = last,
                               ![prev[pos]] = first]
       /\ prev' = [prev EXCEPT ![pos] = prev[last], ![last] = prev[first],
                               ![first] = prev[pos]]

(* The nodes a walk over next meets until it is back at a. *)
Ring(a) ==
  {x \in DOMAIN next :
     \A S \in SUBSET DOMAIN next : a \in S /\ (\A y \in S : next[y] \in S) => x \in S}

_M_reverse(a) ==
  LET ring == Ring(a) IN
  /\ next' = [x \in DOMAIN next |-> IF x \in ring THEN prev[x] ELSE next[x]]
  /\ prev' = [x \in DOMAIN prev |-> IF x \in ring THEN next[x] ELSE prev[x]]

Exchange(a, b) ==
  LET n == [next EXCEPT ![a] = next[b], ![b] = next[a]]
      p == [prev EXCEPT ![a] = prev[b], ![b] = prev[a]]
  IN  /\ next' = [n EXCEPT ![p[a]] = a, ![p[b]] = b]
      /\ prev' = [p EXCEPT ![n[a]] = a, ![n[b]] = b]

(* a's nodes go to b, which is empty. *)
Take(a, b) ==
  /\ next' = [next EXCEPT ![b] = next[a], ![prev[a]] = b, ![a] = a]
  /\ prev' = [prev EXCEPT ![b] = prev[a], ![next[a]] = b, ![a] = a]

swap(a, b) ==
  \/ next[a] # a /\ next[b] # b /\ Exchange(a, b)
  \/ next[a] # a /\ next[b] = b /\ Take(a, b)
  \/ next[a] = a /\ next[b] # b /\ Take(b, a)
  \/ next[a] = a /\ next[b] = b /\ UNCHANGED <<next, prev>>

(***************************************************************************)
(* The calls of std::list, each with what it promises.                     *)
(***************************************************************************)
Cut(s, i, j) == SubSeq(s, 1, i - 1) \o SubSeq(s, j, Len(s))
Paste(s, i, t) == SubSeq(s, 1, i - 1) \o t \o SubSeq(s, i, Len(s))

InsertBefore(a, i, n) ==
  /\ n \notin DOMAIN next
  /\ _M_hook(n, At(a, i))
  /\ content' = [content EXCEPT ![a] = Paste(@, i, <<n>>)]

EraseAt(a, i) ==
  /\ i \in DOMAIN content[a]
  /\ _M_unhook(At(a, i))
  /\ content' = [content EXCEPT ![a] = Cut(@, i, i + 1)]

(* The range [i, j) of a goes before place k of b, which lies outside it. *)
Splice(a, i, j, b, k) ==
  /\ i < j
  /\ a = b => k \notin i .. j - 1
  /\ _M_transfer(At(b, k), At(a, i), At(a, j))
  /\ content' =
       LET range == SubSeq(content[a], i, j - 1)
           place == IF a = b /\ k > i THEN k - (j - i) ELSE k
           cut   == [content EXCEPT ![a] = Cut(@, i, j)]
       IN  [cut EXCEPT ![b] = Paste(@, place, range)]

Reverse(a) ==
  /\ _M_reverse(a)
  /\ content' = [content EXCEPT ![a] = [i \in DOMAIN @ |-> @[Len(@) + 1 - i]]]

Swap(a, b) ==
  /\ a # b
  /\ swap(a, b)
  /\ content' = [content EXCEPT ![a] = content[b], ![b] = content[a]]

Places(a) == 1 .. Len(content[a]) + 1

ListNext ==
  \/ \E a \in Lists, n \in Nodes : \E i \in Places(a) : InsertBefore(a, i, n)
  \/ \E a \in Lists : \E i \in Places(a) : EraseAt(a, i)
  \/ \E a, b \in Lists : \E i, j \in Places(a), k \in Places(b) : Splice(a, i, j, b, k)
  \/ \E a \in Lists : Reverse(a)
  \/ \E a, b \in Lists : Swap(a, b)

ListSpec == ListInit /\ [][ListNext]_listVars

(* Every node's neighbours point back at it, through every operation of      *)
(* list.cxx: a walk never leaves the linked nodes and never reaches a freed  *)
(* one.                                                                      *)
DoublyLinked ==
  /\ next \in [DOMAIN next -> DOMAIN next]
  /\ prev \in [DOMAIN next -> DOMAIN next]
  /\ \A x \in DOMAIN next : prev[next[x]] = x /\ next[prev[x]] = x

(* Each ring is the sequence its callers expect, header first: what hook,    *)
(* unhook, transfer, reverse and swap do to the pointers is what the calls   *)
(* promise about the elements.                                               *)
RingsMatch ==
  \A a \in Lists : \A i \in 0 .. Len(content[a]) : next[At(a, i)] = At(a, i + 1)
=============================================================================
