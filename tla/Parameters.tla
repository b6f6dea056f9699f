----------------------------- MODULE Parameters -----------------------------
(* The parameters of include/platform/parameter.hxx: a map from keys, paths  *)
(* like "config/base", to values, and its way into JSON text and back, by    *)
(* which a device's or a driver's description crosses to the device manager. *)
(* The trees and texts are those of JsonText.tla, with memory for all.       *)
EXTENDS Integers, Sequences, FiniteSets

CONSTANTS Paths,         \* paths: sequences of parts
          Parts,        \* what stands between the slashes
          Reserved,     \* "runtime" and "ipc"
          PartRank(_),  \* the order of parts
          PartFold(_),  \* a part's lower case
          Strings,      \* values: strings
          Scalars,      \* values: the bools and ints
          MaxKeys,      \* bound on the parameters set
          Empty, Null, Free

VARIABLE maps_

(* Enough for two groups with their names and a named string for each key.   *)
JsonCells == 1 + 7 * MaxKeys
NoTree == [a \in 1 .. JsonCells |-> Free]

J == INSTANCE JsonText WITH
       MaxCells <- JsonCells, MaxHeld <- 1, Names <- Parts, Texts <- Strings, Literals <- {},
       Fold <- PartFold, NestingLimit <- 1000, Width <- LAMBDA n : 1,
       heap <- NoTree, held <- {}, kids <- NoTree

Values == Strings \cup Scalars

(***************************************************************************)
(* Into JSON.                                                              *)
(***************************************************************************)
RECURSIVE Before(_, _)
Before(j, k) ==
  IF j = <<>> THEN k # <<>>
  ELSE /\ k # <<>>
       /\ \/ PartRank(Head(j)) < PartRank(Head(k))
          \/ Head(j) = Head(k) /\ Before(Tail(j), Tail(k))

(* The order std::map keeps. *)
RECURSIVE InOrder(_)
InOrder(S) ==
  IF S = {} THEN <<>>
  ELSE LET k == CHOOSE k \in S : \A j \in S : j = k \/ Before(k, j)
       IN  <<k>> \o InOrder(S \ {k})

AddValueToObject(h, o, name, v) ==
  LET n == IF v \in Scalars THEN J!New_Item(h, v) ELSE J!CreateString(h, v)
  IN  J!add_item_to_object(n.h, o, name, n.p, FALSE).h

(* The part before the slash names an object, found whatever its case.       *)
RECURSIVE recurse_print(_, _, _, _)
recurse_print(h, o, key, v) ==
  LET found == J!get_object_item[h, h[o].child, Head(key), FALSE]
      n     == J!New_Item(h, "object")
      added == J!add_item_to_object(n.h, o, Head(key), n.p, FALSE).h
  IN  IF Len(key) = 1 THEN AddValueToObject(h, o, Head(key), v)
      ELSE IF found = Null THEN recurse_print(added, n.p, Tail(key), v)
      ELSE recurse_print(h, found, Tail(key), v)

RECURSIVE PrintAll(_, _, _, _)
PrintAll(h, root, keys, m) ==
  IF keys = <<>> THEN h
  ELSE PrintAll(recurse_print(h, root, Head(keys), m[Head(keys)]), root, Tail(keys), m)

to_json(m) ==
  LET n == J!New_Item(NoTree, "object")
  IN  [h |-> PrintAll(n.h, n.p, InOrder(DOMAIN m), m), p |-> n.p]

to_json_str(m) == LET j == to_json(m) IN J!print(j.h, j.p, 256, 100, FALSE).text

(***************************************************************************)
(* And back.                                                               *)
(***************************************************************************)
set(m, key, v) == [k \in DOMAIN m \cup {key} |-> IF k = key THEN v ELSE m[k]]

(* Faulty variant: the black list is compared with a member's own name. *)
blacklisted_anywhere(prefix, name) == name \in Reserved

blacklisted(prefix, name) == prefix = <<>> /\ name \in Reserved

(* A listed name ends the object; below the second level the prefix, which   *)
(* the key has in front already, is put there again.                         *)
RECURSIVE recurse_parse(_, _, _, _)
recurse_parse(h, c, prefix, m) ==
  IF c = Null THEN m
  ELSE LET name == J!Text(h, h[c].key)
           key  == Append(prefix, name)
           kind == h[c].kind
           rest(n) == recurse_parse(h, h[c].next, prefix, n)
       IN  CASE blacklisted(prefix, name)      -> m
             [] kind \in Scalars \ {"null"}    -> rest(set(m, key, kind))
             [] kind = "string"                -> rest(set(m, key, J!Text(h, h[c].str)))
             [] kind = "object"                -> rest(recurse_parse(h, h[c].child, prefix \o key, m))
             [] kind \in {"array", "null"}     -> rest(m)

from_json(h, p, m) ==
  IF p = Null THEN m
  ELSE IF h[p].kind # "object" THEN m
  ELSE recurse_parse(h, h[p].child, <<>>, m)

from_json_str(text, m) == LET r == J!Parse(NoTree, text, FALSE) IN from_json(r.h, r.p, m)

(* What another process makes of the text. *)
Received(m) == from_json_str(to_json_str(m), <<>>)

ParamsInit == maps_ = <<>>

ParamsNext ==
  \E key \in Paths, v \in Values :
    /\ key \in DOMAIN maps_ \/ Cardinality(DOMAIN maps_) < MaxKeys
    /\ maps_' = set(maps_, key, v)

(* A parameter of one or two levels arrives with its value, whatever the     *)
(* others are: unless a reserved name of the first level stands before it,   *)
(* or its group's name is also, up to case, a parameter or another group.    *)
Arrives(key) ==
  /\ Len(key) <= 2
  /\ \A k \in DOMAIN maps_ :
       /\ k[1] \in Reserved => Before(key, k)
       /\ Len(key) = 2 /\ PartFold(k[1]) = PartFold(key[1]) => k[1] = key[1] /\ Len(k) > 1

ParametersArrive ==
  LET received == Received(maps_) IN
  \A key \in DOMAIN maps_ :
    Arrives(key) => key \in DOMAIN received /\ received[key] = maps_[key]
=============================================================================
