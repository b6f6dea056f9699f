----------------------------- MODULE MatchCompat -----------------------------
(* match_compat of source/platform/driver.cxx: does a device's compat hold   *)
(* one of the alternatives, "x86,demo|arm,demo", of a driver's?  A string is *)
(* a sequence of characters.                                                 *)
EXTENDS Integers, Sequences

CONSTANT Bar        \* the character between alternatives

VARIABLE compats    \* a driver's compat and a device's

(* std::string::find. *)
Occurs(sub, s) ==
  \E i \in 0 .. Len(s) - Len(sub) : SubSeq(s, i + 1, i + Len(sub)) = sub

(* Where the first bar is, 0 if there is none. *)
FirstBar(s) ==
  IF \A i \in DOMAIN s : s[i] # Bar THEN 0
  ELSE CHOOSE i \in DOMAIN s : s[i] = Bar /\ \A j \in 1 .. i - 1 : s[j] # Bar

End(s, i) == IF i < Len(s) THEN i ELSE Len(s)

(* Faulty variant: the bar is not skipped. *)
PiecesWithBars(s) ==
  LET n == FirstBar(s) IN
  IF n < 2 THEN {s}
  ELSE {SubSeq(s, k * (n - 1) + 1, End(s, k * (n - 1) + n - 1)) : k \in 0 .. Len(s) \div (n - 1)}

(* What is looked for: the place of the first bar is not found again, so the *)
(* string is cut after as many characters each time, until substr refuses.   *)
Pieces(s) ==
  LET n == FirstBar(s) IN
  IF n = 0 THEN {s}
  ELSE {SubSeq(s, k * n + 1, End(s, k * n + n - 1)) : k \in 0 .. Len(s) \div n}

(* substr refuses through throw_or_abort, which never returns. *)
match_compat(v1, v2) ==
  IF \E p \in Pieces(v1) : Occurs(p, v2) THEN "match"
  ELSE IF FirstBar(v1) = 0 THEN "none" ELSE "endless"

(***************************************************************************)
(* What is meant.                                                          *)
(***************************************************************************)
Alternatives(s) ==
  {SubSeq(s, r[1], r[2]) : r \in
     {q \in (1 .. Len(s) + 1) \X (0 .. Len(s)) :
        /\ q[1] <= q[2] + 1
        /\ q[1] = 1 \/ s[q[1] - 1] = Bar
        /\ q[2] = Len(s) \/ s[q[2] + 1] = Bar
        /\ \A i \in q[1] .. q[2] : s[i] # Bar}}

(* Every alternative is as long as the first, but for a last shorter one.    *)
Aligned(s) ==
  LET n == FirstBar(s) IN
  n # 0 => /\ \A k \in 1 .. Len(s) \div n : s[k * n] = Bar
           /\ \A i \in DOMAIN s : s[i] = Bar => i % n = 0

(* With alternatives of one length, as in the test's driver, match_compat    *)
(* finds a match exactly when the device names one of them, although it cuts *)
(* the string without looking for the bars again.                            *)
CompatMatches ==
  Aligned(compats[1]) =>
    (match_compat(compats[1], compats[2]) = "match")
      = (\E a \in Alternatives(compats[1]) : Occurs(a, compats[2]))
=============================================================================
