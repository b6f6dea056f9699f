---------------------------- MODULE MCContainers ----------------------------
(* A small instance of Containers.tla. *)
EXTENDS Containers

CONSTANTS MaxKey, low_a, up_a, low_b, runtime, word

MCKeys == 1 .. MaxKey

MCPaths == {<<low_a>>, <<up_a>>, <<low_b>>, <<low_a, up_a>>, <<low_a, low_b>>, <<up_a, low_b>>, <<low_b, runtime>>, <<runtime, low_a>>,
            <<runtime>>, <<low_a, low_b, low_a>>, <<low_a, low_b, low_b>>}
MCRank(part) == CASE part = up_a -> 1 [] part = low_a -> 2 [] part = low_b -> 4 [] part = runtime -> 3
MCFold(part) == IF part = up_a THEN low_a ELSE part

MCStrings(n) == UNION {[1 .. m -> {low_a, low_b, Bar}] : m \in 0 .. n}
MCDriverCompats == MCStrings(5)
MCDeviceCompats == MCStrings(3)
MCLeaves == {"false", word}
MCTreeNames == {low_a, up_a, low_b}
=============================================================================
