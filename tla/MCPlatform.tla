----------------------------- MODULE MCPlatform -----------------------------
(* Small instances of Platform.tla. *)
EXTENDS PlatformProps, TLC

CONSTANTS c1, c2, r1, r2, n1, n2, s1, s2

MCNameOf == [r \in Drivers |-> IF r = r1 THEN n1 ELSE n2]
MCMatches == [r \in Drivers |-> IF r = r1 THEN {s1} ELSE Settings]
MCEndless == [r \in Drivers |-> {}]
MCAlternatives == [r \in Drivers |-> Settings \ MCMatches[r]]
UserSymmetry == Permutations(Clients)
=============================================================================
