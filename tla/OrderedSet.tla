------------------------------ MODULE OrderedSet ------------------------------
(* What std::map promises about its keys: they are the ones inserted and not *)
(* erased, begin() is the least of them, an iterator steps from each to the  *)
(* least above it, and from the greatest to end().                           *)
EXTENDS Integers

CONSTANTS Elements,   \* integers
          End         \* what no element is

VARIABLES keys,   \* the keys in the map
          after   \* the step of an iterator; after[End] is begin()

Above(S, x) == {y \in S : x = End \/ x < y}
Steps(S) ==
  [x \in S \cup {End} |->
     IF Above(S, x) = {} THEN End
     ELSE CHOOSE y \in Above(S, x) : \A z \in Above(S, x) : y <= z]

Become(S) == keys' = S /\ after' = Steps(S)

Init == keys = {} /\ after = Steps({})

Add(k) == k \notin keys /\ Become(keys \cup {k})

Delete(k) == k \in keys /\ Become(keys \ {k})

Next == \E k \in Elements : Add(k) \/ Delete(k)

Spec == Init /\ [][Next]_<<keys, after>>
=============================================================================
