----------------------------- MODULE CompatProofs -----------------------------
(* match_compat on strings of any length, over any characters.               *)
EXTENDS MatchCompat, WellFoundedInduction, TLAPS

(***************************************************************************)
(* Where the first bar is.                                                 *)
(***************************************************************************)
LEMMA Earliest ==
  ASSUME NEW T, T \subseteq Nat, T # {}
  PROVE  \E m \in T : \A n \in T : ~ n < m
<1> DEFINE R == {pair \in Nat \X Nat : pair[1] < pair[2]}
<1>1. IsWellFoundedOn(R, Nat)
  BY NatLessThanWellFounded DEF OpToRel
<1>2. PICK m \in T : \A n \in T : ~ (<<n, m>> \in R)
  <2> HIDE DEF R
  <2> QED BY <1>1, WFMin
<1> QED BY <1>2

Unbarred(s) == \A i \in DOMAIN s : s[i] # Bar

FirstAt(s, n) == n \in 1 .. Len(s) /\ s[n] = Bar /\ \A j \in 1 .. n - 1 : s[j] # Bar

LEMMA FirstBarFacts ==
  ASSUME NEW C, NEW s \in Seq(C)
  PROVE  IF Unbarred(s) THEN FirstBar(s) = 0 ELSE FirstAt(s, FirstBar(s))
<1>1. CASE Unbarred(s)
  BY <1>1 DEF FirstBar, Unbarred
<1>2. CASE ~ Unbarred(s)
  <2> DEFINE T == {i \in DOMAIN s : s[i] = Bar}
  <2>1. T \subseteq Nat /\ T # {} /\ DOMAIN s = 1 .. Len(s) /\ Len(s) \in Nat
    BY <1>2 DEF Unbarred
  <2>2. PICK m \in T : \A n \in T : ~ n < m
    <3> HIDE DEF T
    <3> QED BY <2>1, Earliest
  <2>3. m \in DOMAIN s /\ s[m] = Bar /\ \A j \in 1 .. m - 1 : s[j] # Bar
    BY <2>1, <2>2
  <2>4. FirstBar(s) = CHOOSE i \in DOMAIN s : s[i] = Bar /\ \A j \in 1 .. i - 1 : s[j] # Bar
    BY <1>2 DEF FirstBar, Unbarred
  <2>5. FirstBar(s) \in DOMAIN s /\ s[FirstBar(s)] = Bar /\ \A j \in 1 .. FirstBar(s) - 1 : s[j] # Bar
    BY <2>3, <2>4
  <2> QED BY <1>2, <2>1, <2>5 DEF FirstAt
<1> QED BY <1>1, <1>2

(***************************************************************************)
(* Multiples of the first bar's place.                                     *)
(***************************************************************************)
LEMMA Division ==
  ASSUME NEW n \in Nat, n # 0, NEW i \in Nat
  PROVE  i \div n \in Nat /\ i % n \in 0 .. n - 1 /\ i = (i \div n) * n + (i % n)
OBVIOUS

LEMMA Grows ==
  ASSUME NEW n \in Nat, NEW k \in Nat, NEW m \in Nat, k <= m
  PROVE  k * n \in Nat /\ m * n \in Nat /\ k * n <= m * n
<1>1. PICK d \in Nat : m = k + d
  <2>1. m - k \in Nat /\ m = k + (m - k)
    OBVIOUS
  <2> QED BY <2>1
<1>2. m * n = k * n + d * n
  BY <1>1
<1>3. k * n \in Nat /\ d * n \in Nat
  OBVIOUS
<1> QED BY <1>2, <1>3

LEMMA NoneBetween ==
  ASSUME NEW n \in Nat, n # 0, NEW k \in Nat, NEW i \in Nat, k * n < i, i < k * n + n
  PROVE  i % n # 0
<1> SUFFICES ASSUME i % n = 0 PROVE FALSE
  OBVIOUS
<1>1. PICK m \in Nat : i = m * n
  <2>1. i \div n \in Nat /\ i = (i \div n) * n + (i % n)
    BY Division
  <2>2. PICK m \in Nat : m = i \div n
    BY <2>1
  <2>3. i = m * n + 0
    BY <2>1, <2>2
  <2>4. m * n \in Nat
    OBVIOUS
  <2>5. i = m * n
    BY <2>3, <2>4
  <2> QED BY <2>5
<1>2. CASE m <= k
  <2>1. m * n <= k * n /\ k * n \in Nat /\ m * n \in Nat
    BY <1>2, Grows
  <2> QED BY <1>1, <2>1
<1>3. CASE ~ m <= k
  <2>1. k + 1 \in Nat /\ k + 1 <= m
    BY <1>3
  <2>2. (k + 1) * n <= m * n /\ (k + 1) * n \in Nat /\ m * n \in Nat
    BY <2>1, Grows
  <2>3. (k + 1) * n = k * n + n
    OBVIOUS
  <2>4. k * n \in Nat
    OBVIOUS
  <2> QED BY <1>1, <2>2, <2>3, <2>4
<1> QED BY <1>2, <1>3

LEMMA Fits ==
  ASSUME NEW n \in Nat, n # 0, NEW k \in Nat, NEW l \in Nat
  PROVE  (k \in 0 .. l \div n) <=> k * n <= l
<1>1. l \div n \in Nat /\ (l \div n) * n <= l /\ l < (l \div n) * n + n /\ (l \div n) * n \in Nat /\ k * n \in Nat
  <2>1. PICK a, b : a = (l \div n) * n /\ b = l % n
    OBVIOUS
  <2>2. l \div n \in Nat /\ b \in 0 .. n - 1 /\ l = a + b
    BY <2>1, Division
  <2>3. a \in Nat /\ k * n \in Nat
    BY <2>1, <2>2
  <2> QED BY <2>1, <2>2, <2>3
<1>2. CASE k <= l \div n
  <2>1. k * n <= (l \div n) * n
    BY <1>1, <1>2, Grows
  <2> QED BY <1>1, <1>2, <2>1
<1>3. CASE ~ k <= l \div n
  <2>1. (l \div n) + 1 \in Nat /\ (l \div n) + 1 <= k
    BY <1>1, <1>3
  <2>2. ((l \div n) + 1) * n <= k * n
    BY <2>1, Grows
  <2>3. ((l \div n) + 1) * n = (l \div n) * n + n
    BY <1>1
  <2> QED BY <1>1, <1>3, <2>2, <2>3
<1> QED BY <1>2, <1>3

(***************************************************************************)
(* A string whose bars are the multiples of n: the k-th piece starts behind *)
(* the k-th bar.                                                           *)
(***************************************************************************)
Barred(s, n) ==
  /\ n \in 1 .. Len(s)
  /\ \A k \in 1 .. Len(s) \div n : s[k * n] = Bar
  /\ \A i \in DOMAIN s : s[i] = Bar => i % n = 0

(* The places of the first and the last character of an alternative.         *)
Delimits(s, a, b) ==
  /\ a \in 1 .. Len(s) + 1 /\ b \in 0 .. Len(s) /\ a <= b + 1
  /\ a = 1 \/ s[a - 1] = Bar
  /\ b = Len(s) \/ s[b + 1] = Bar
  /\ \A i \in a .. b : s[i] # Bar

LEMMA PieceDelimits ==
  ASSUME NEW C, NEW s \in Seq(C), NEW n, Barred(s, n), NEW k \in 0 .. Len(s) \div n
  PROVE  Delimits(s, k * n + 1, End(s, k * n + n - 1))
<1>1. /\ n \in Nat /\ n # 0 /\ Len(s) \in Nat /\ DOMAIN s = 1 .. Len(s)
      /\ \A j \in 1 .. Len(s) \div n : s[j * n] = Bar
      /\ \A i \in DOMAIN s : s[i] = Bar => i % n = 0
  BY DEF Barred
<1>2. PICK l, a, b : l = Len(s) /\ a = k * n /\ b = End(s, k * n + n - 1)
  OBVIOUS
<1>3. k \in Nat /\ a \in Nat /\ l \in Nat /\ a <= l
  <2>1. l \div n \in Nat
    BY <1>1, <1>2, Division
  <2>2. k \in Nat
    BY <2>1, <1>2
  <2>3. k * n <= Len(s)
    BY <2>2, <1>1, Fits
  <2>4. k * n \in Nat
    BY <2>2, <1>1
  <2> QED BY <2>2, <2>3, <2>4, <1>1, <1>2
<1>4. b = IF a + n - 1 < l THEN a + n - 1 ELSE l
  BY <1>2 DEF End
<1>b. b \in Nat /\ b < a + n /\ b <= l
  BY <1>1, <1>3, <1>4
<1>5. a = 0 \/ s[a] = Bar
  <2>1. CASE k = 0
    BY <2>1, <1>1, <1>2
  <2>2. CASE k # 0
    BY <2>2, <1>1, <1>2, <1>3
  <2> QED BY <2>1, <2>2
<1>6. b = l \/ s[b + 1] = Bar
  <2>1. CASE a + n - 1 < l
    <3>1. (k + 1) * n = a + n
      BY <1>1, <1>2, <1>3
    <3>2. (k + 1) * n <= Len(s)
      BY <3>1, <2>1, <1>1, <1>2, <1>3
    <3>3. k + 1 \in 0 .. Len(s) \div n
      <4>1. PICK m \in Nat : m = k + 1
        BY <1>3
      <4>2. m * n <= Len(s)
        BY <4>1, <3>2
      <4>3. m \in 0 .. Len(s) \div n
        BY <4>2, <1>1, Fits
      <4> QED BY <4>1, <4>3
    <3>4. s[(k + 1) * n] = Bar
      <4>1. k + 1 \in 1 .. Len(s) \div n
        BY <3>3, <1>3
      <4> QED BY <4>1, <1>1
    <3>5. b + 1 = a + n
      BY <2>1, <1>1, <1>3, <1>4
    <3> QED BY <3>1, <3>4, <3>5
  <2>2. CASE ~ a + n - 1 < l
    BY <2>2, <1>4
  <2> QED BY <2>1, <2>2
<1>7. ASSUME NEW i \in a + 1 .. b PROVE s[i] # Bar
  <2>0. i \in Nat /\ a < i /\ i <= b
    BY <1>3, <1>b
  <2>1. i \in Nat /\ a < i /\ i < a + n /\ i \in DOMAIN s
    BY <2>0, <1>1, <1>2, <1>3, <1>b
  <2>2. i % n # 0
    BY <2>1, <1>1, <1>2, <1>3, NoneBetween
  <2> QED BY <2>1, <2>2, <1>1
<1>8. a + 1 \in 1 .. l + 1 /\ b \in 0 .. l /\ a + 1 <= b + 1
  BY <1>1, <1>3, <1>4
<1>9. Delimits(s, a + 1, b)
  <2>1. a + 1 - 1 = a /\ (a = 0 => a + 1 = 1)
    BY <1>3
  <2> QED BY <2>1, <1>2, <1>5, <1>6, <1>7, <1>8 DEF Delimits
<1> QED BY <1>2, <1>9

LEMMA DelimitsPiece ==
  ASSUME NEW C, NEW s \in Seq(C), NEW n, Barred(s, n), NEW a, NEW b, Delimits(s, a, b)
  PROVE  \E k \in 0 .. Len(s) \div n : a = k * n + 1 /\ b = End(s, k * n + n - 1)
<1>1. /\ n \in Nat /\ n # 0 /\ Len(s) \in Nat /\ DOMAIN s = 1 .. Len(s)
      /\ \A j \in 1 .. Len(s) \div n : s[j * n] = Bar
      /\ \A i \in DOMAIN s : s[i] = Bar => i % n = 0
  BY DEF Barred
<1>2. PICK l : l = Len(s)
  OBVIOUS
<1>3. /\ a \in 1 .. l + 1 /\ b \in 0 .. l /\ a <= b + 1 /\ l \in Nat /\ a \in Nat /\ b \in Nat
      /\ a = 1 \/ s[a - 1] = Bar
      /\ b = l \/ s[b + 1] = Bar
      /\ \A i \in a .. b : s[i] # Bar
  <2>1. /\ a \in 1 .. Len(s) + 1 /\ b \in 0 .. Len(s) /\ a <= b + 1
        /\ a = 1 \/ s[a - 1] = Bar
        /\ b = Len(s) \/ s[b + 1] = Bar
        /\ \A i \in a .. b : s[i] # Bar
    BY DEF Delimits
  <2>2. a \in Nat /\ b \in Nat /\ l \in Nat
    <3>1. a \in 1 .. Len(s) + 1 /\ b \in 0 .. Len(s) /\ Len(s) \in Nat
      BY <2>1, <1>1
    <3> QED BY <3>1, <1>2
  <2> QED BY <2>1, <2>2, <1>2
<1>4. PICK k \in Nat : a = k * n + 1
  <2>1. CASE a = 1
    <3>1. 0 \in Nat /\ a = 0 * n + 1
      BY <2>1, <1>1
    <3> QED BY <3>1
  <2>2. CASE a # 1
    <3>0. a - 1 \in Nat /\ a - 1 \in 1 .. l
      BY <2>2, <1>3
    <3>1. a - 1 \in Nat /\ a - 1 \in DOMAIN s /\ s[a - 1] = Bar
      BY <3>0, <2>2, <1>1, <1>2, <1>3
    <3>2. (a - 1) % n = 0
      BY <3>1, <1>1
    <3>3. (a - 1) \div n \in Nat /\ a - 1 = ((a - 1) \div n) * n + ((a - 1) % n)
      BY <3>1, <1>1, Division
    <3>4. PICK q \in Nat : q = (a - 1) \div n
      BY <3>3
    <3>5. q * n \in Nat /\ a - 1 = q * n
      <4>1. q * n \in Nat
        BY <1>1
      <4>2. a - 1 = q * n + 0
        BY <3>2, <3>3, <3>4
      <4> QED BY <4>1, <4>2
    <3>6. a = q * n + 1
      BY <3>5, <1>3
    <3> QED BY <3>6
  <2> QED BY <2>1, <2>2
<1>5. PICK c \in Nat : c = k * n
  BY <1>1
<1>6. k \in 0 .. Len(s) \div n
  <2>1. k * n <= Len(s)
    BY <1>2, <1>3, <1>4, <1>5
  <2> QED BY <2>1, <1>1, Fits
<1>7. ASSUME NEW i \in Nat, c < i, i < c + n, i <= l PROVE s[i] # Bar
  <2>1. i % n # 0
    BY <1>1, <1>5, <1>7, NoneBetween
  <2>2. i \in DOMAIN s
    BY <1>1, <1>2, <1>5, <1>7
  <2> QED BY <2>1, <2>2, <1>1
<1>8. b = IF c + n - 1 < l THEN c + n - 1 ELSE l
  <2>1. CASE c + n - 1 < l
    <3>1. s[c + n] = Bar
      <4>1. (k + 1) * n = c + n
        BY <1>1, <1>5
      <4>2. (k + 1) * n <= Len(s)
        BY <4>1, <2>1, <1>1, <1>2, <1>5
      <4>3. k + 1 \in 0 .. Len(s) \div n
        <5>1. PICK m \in Nat : m = k + 1
          OBVIOUS
        <5>2. m * n <= Len(s)
          BY <5>1, <4>2
        <5>3. m \in 0 .. Len(s) \div n
          BY <5>2, <1>1, Fits
        <5> QED BY <5>1, <5>3
      <4>4. k + 1 \in 1 .. Len(s) \div n
        BY <4>3
      <4> QED BY <4>1, <4>4, <1>1
    <3>2. ~ c + n <= b
      <4> SUFFICES ASSUME c + n <= b PROVE FALSE
        OBVIOUS
      <4>1. c + n \in a .. b
        BY <1>1, <1>3, <1>4, <1>5
      <4> QED BY <4>1, <3>1, <1>3
    <3>3. ~ b < c + n - 1
      <4> SUFFICES ASSUME b < c + n - 1 PROVE FALSE
        OBVIOUS
      <4>1. b # l /\ b + 1 \in Nat /\ c < b + 1 /\ b + 1 < c + n /\ b + 1 <= l
        BY <2>1, <1>1, <1>3, <1>4, <1>5
      <4>2. s[b + 1] = Bar /\ s[b + 1] # Bar
        BY <4>1, <1>3, <1>7
      <4> QED BY <4>2
    <3> QED BY <2>1, <3>2, <3>3, <1>1, <1>3, <1>5
  <2>2. CASE ~ c + n - 1 < l
    <3>1. ~ b # l
      <4> SUFFICES ASSUME b # l PROVE FALSE
        OBVIOUS
      <4>1. b + 1 \in Nat /\ c < b + 1 /\ b + 1 < c + n /\ b + 1 <= l
        BY <2>2, <1>1, <1>3, <1>4, <1>5
      <4>2. s[b + 1] = Bar /\ s[b + 1] # Bar
        BY <4>1, <1>3, <1>7
      <4> QED BY <4>2
    <3> QED BY <2>2, <3>1
  <2> QED BY <2>1, <2>2
<1>9. b = End(s, k * n + n - 1)
  BY <1>2, <1>5, <1>8 DEF End
<1> QED BY <1>4, <1>6, <1>9

(***************************************************************************)
(* What is looked for is what is meant.                                    *)
(***************************************************************************)
LEMMA AlternativesDelimited ==
  ASSUME NEW s, NEW p
  PROVE  p \in Alternatives(s) <=> \E a, b : Delimits(s, a, b) /\ p = SubSeq(s, a, b)
<1> DEFINE Q == {q \in (1 .. Len(s) + 1) \X (0 .. Len(s)) :
                   /\ q[1] <= q[2] + 1
                   /\ q[1] = 1 \/ s[q[1] - 1] = Bar
                   /\ q[2] = Len(s) \/ s[q[2] + 1] = Bar
                   /\ \A i \in q[1] .. q[2] : s[i] # Bar}
<1>1. Alternatives(s) = {SubSeq(s, r[1], r[2]) : r \in Q}
  BY DEF Alternatives
<1>2. ASSUME NEW r \in Q PROVE Delimits(s, r[1], r[2])
  BY DEF Delimits
<1>3. ASSUME NEW a, NEW b, Delimits(s, a, b) PROVE <<a, b>> \in Q
  BY <1>3 DEF Delimits
<1> HIDE DEF Q
<1>4. ASSUME p \in Alternatives(s) PROVE \E a, b : Delimits(s, a, b) /\ p = SubSeq(s, a, b)
  <2>1. PICK r \in Q : p = SubSeq(s, r[1], r[2])
    BY <1>1, <1>4
  <2> QED BY <2>1, <1>2
<1>5. ASSUME NEW a, NEW b, Delimits(s, a, b), p = SubSeq(s, a, b) PROVE p \in Alternatives(s)
  <2>1. PICK r \in Q : r = <<a, b>>
    BY <1>3, <1>5
  <2>2. p = SubSeq(s, r[1], r[2])
    BY <2>1, <1>5
  <2> QED BY <2>2, <1>1
<1> QED BY <1>4, <1>5

LEMMA PiecesAreAlternatives ==
  ASSUME NEW C, NEW s \in Seq(C), Aligned(s), NEW p
  PROVE  p \in Pieces(s) <=> p \in Alternatives(s)
<1>1. PICK n : n = FirstBar(s)
  OBVIOUS
<1>2. Len(s) \in Nat /\ DOMAIN s = 1 .. Len(s)
  OBVIOUS
<1>3. CASE Unbarred(s)
  <2>1. n = 0
    BY <1>1, <1>3, FirstBarFacts
  <2>2. Pieces(s) = {s}
    BY <2>1, <1>1 DEF Pieces
  <2>3. ASSUME NEW a, NEW b, Delimits(s, a, b) PROVE a = 1 /\ b = Len(s)
    <3>1. /\ a \in 1 .. Len(s) + 1 /\ b \in 0 .. Len(s)
          /\ a = 1 \/ s[a - 1] = Bar
          /\ b = Len(s) \/ s[b + 1] = Bar
      BY <2>3 DEF Delimits
    <3>2. a \in 1 .. Len(s) + 1 /\ b \in 0 .. Len(s)
      BY <3>1
    <3>3. (a # 1 => a - 1 \in DOMAIN s) /\ (b # Len(s) => b + 1 \in DOMAIN s)
      <4>1. PICK l \in Nat : l = Len(s)
        BY <1>2
      <4>2. a \in 1 .. l + 1 /\ b \in 0 .. l
        BY <4>1, <3>2
      <4>3. (a # 1 => a - 1 \in 1 .. l) /\ (b # l => b + 1 \in 1 .. l)
        BY <4>2
      <4> QED BY <4>1, <4>3, <1>2
    <3> QED BY <3>1, <3>2, <3>3, <1>3 DEF Unbarred
  <2>4. Delimits(s, 1, Len(s))
    BY <1>2, <1>3 DEF Delimits, Unbarred
  <2>5. SubSeq(s, 1, Len(s)) = s
    OBVIOUS
  <2> QED BY <2>2, <2>3, <2>4, <2>5, AlternativesDelimited
<1>4. CASE ~ Unbarred(s)
  <2>1. FirstAt(s, n)
    BY <1>1, <1>4, FirstBarFacts
  <2>2. n \in 1 .. Len(s) /\ n # 0
    BY <2>1, <1>2 DEF FirstAt
  <2>3. Barred(s, n)
    BY <2>2, <1>1 DEF Barred, Aligned
  <2>4. Pieces(s) = {SubSeq(s, k * n + 1, End(s, k * n + n - 1)) : k \in 0 .. Len(s) \div n}
    BY <2>2, <1>1 DEF Pieces
  <2>5. ASSUME p \in Pieces(s) PROVE p \in Alternatives(s)
    <3>1. PICK k \in 0 .. Len(s) \div n : p = SubSeq(s, k * n + 1, End(s, k * n + n - 1))
      BY <2>4, <2>5
    <3>2. Delimits(s, k * n + 1, End(s, k * n + n - 1))
      BY <2>3, PieceDelimits
    <3> QED BY <3>1, <3>2, AlternativesDelimited
  <2>6. ASSUME p \in Alternatives(s) PROVE p \in Pieces(s)
    <3>1. PICK a, b : Delimits(s, a, b) /\ p = SubSeq(s, a, b)
      BY <2>6, AlternativesDelimited
    <3>2. PICK k \in 0 .. Len(s) \div n : a = k * n + 1 /\ b = End(s, k * n + n - 1)
      BY <2>3, <3>1, DelimitsPiece
    <3> QED BY <2>4, <3>1, <3>2
  <2> QED BY <2>5, <2>6
<1> QED BY <1>3, <1>4

(* For a driver's compat of any length over any characters, with its         *)
(* alternatives of one length, and for any device's: the loop of             *)
(* match_compat, which cuts without looking for the bars again, finds a      *)
(* match exactly when the device names an alternative.                       *)
THEOREM MatchFindsAlternatives ==
  ASSUME NEW C, compats \in Seq(C) \X Seq(C)
  PROVE  CompatMatches
<1>1. PICK v1 \in Seq(C) : v1 = compats[1]
  OBVIOUS
<1> DEFINE v2 == compats[2]
<1> SUFFICES ASSUME Aligned(v1)
             PROVE  (match_compat(v1, v2) = "match") = (\E a \in Alternatives(v1) : Occurs(a, v2))
  BY <1>1 DEF CompatMatches
<1>2. \A p : p \in Pieces(v1) <=> p \in Alternatives(v1)
  BY PiecesAreAlternatives
<1>3. match_compat(v1, v2) = "match" <=> \E p \in Pieces(v1) : Occurs(p, v2)
  BY DEF match_compat
<1>4. match_compat(v1, v2) = "match" <=> \E a \in Alternatives(v1) : Occurs(a, v2)
  BY <1>2, <1>3
<1> QED BY <1>4
=============================================================================
