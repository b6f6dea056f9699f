-------------------------- MODULE UartConfigProofs --------------------------
(* Proofs about UartConfig.tla, for words and lengths of any size, any       *)
(* buffers, devices, rates and codes: the answers to write and read, what    *)
(* the registers hold beside the runtime, what queries tell.                 *)
EXTENDS UartConfigProps, SequenceTheorems, TLAPS

(***************************************************************************)
(* What a call is at each of its places.  The receiver's arguments are     *)
(* those of the stub, or the parse has failed; only a write whose count    *)
(* was cut off is served without its data.                                 *)
(***************************************************************************)
UserAsks(c) ==
  /\ c.method \in {"open", "close", "write", "read", "transfer", "ioctl"}
  /\ c.in_len \in Nat /\ c.room \in Nat
  /\ c.method = "open" => c.cmd \subseteq Flags
  /\ c.method = "ioctl" => c.val \in IoctlValues(c.cmd)

ArgsOf(c, a) ==
  /\ a[1].val = c.dev
  /\ c.method = "open" => a[2].val = c.cmd
  /\ c.method = "write" => a[2].len \in {0, c.in_len}
  /\ c.method = "read" => Len(a) = 2 /\ a[2].val = c.room
  /\ c.method = "ioctl" => /\ Len(a) = 4 /\ a[2].val = c.cmd
                           /\ a[3] = Field(c.in_len, c.val) /\ a[4].val = c.room

(* What the client lets come back. *)
RoomAnnounced(c) ==
  IF c.method \in {"read", "ioctl", "transfer"} THEN c.room % LenMod ELSE 0

Asked == cpc # "idle" => UserAsks(call) /\ packed = Stub(call)
Sent == /\ txlen \in 0..(LenMod - 1)
        /\ rxlen = IF cpc \in {"parse", "serve", "reply", "back"} THEN RoomAnnounced(call) ELSE 0
Parsed == cpc = "serve" => ArgsOf(call, args)
Unanswered == cpc \in {"idle", "send", "parse", "serve"} => out = Empty /\ taken = 0 /\ res = ENO_OK
Returned(c, o, g) ==
  g = [len |-> SmallerOf(o.len, RoomAnnounced(c)), fill |-> SmallerOf(o.fill, RoomAnnounced(c)),
       val |-> IF o.fill <= RoomAnnounced(c) THEN o.val ELSE Junk]
Handed == IF cpc = "back" THEN Returned(call, out, got) ELSE got = Empty /\ (cpc = "idle" => call = NoCall)

CallInv ==
  /\ cpc \in {"idle", "send", "parse", "serve", "reply", "back"}
  /\ Asked /\ Sent /\ Parsed /\ Unanswered /\ Handed

(***************************************************************************)
(* What an answer says.                                                    *)
(***************************************************************************)
Results == (ENO_NOMEM..ENO_OK) \cup Nat

AnswerTypeOK ==
  /\ res \in Results
  /\ taken \in Nat
  /\ out.len \in Nat /\ out.fill \in Nat /\ out.fill <= out.len

WriteTold == call.method = "write" =>
  /\ taken \in {0, call.in_len}
  /\ res > 0 => res = taken
  /\ taken > 0 => res = taken
ReadTold == call.method = "read" /\ res > 0 => res = out.fill /\ res <= call.room
QueryTold == call.method = "ioctl" /\ out.fill > 0 =>
  /\ call.dev \in Listed
  /\ call.cmd \in Queries
  /\ out.fill = WidthOf(call.cmd) /\ out.val = Setting(call.cmd)

AnswerInv == AnswerTypeOK /\ (cpc \in {"reply", "back"} => WriteTold /\ ReadTold /\ QueryTold)

(***************************************************************************)
(* Runtime and registers.  The frame is what the properties say of LCR,    *)
(* the divisor keeps its low byte, and the high one or none.               *)
(***************************************************************************)
RuntimeTypeOK ==
  /\ rt \in [baud : Bauds, parity : Codes \cup 0..2, data_bits : 5..9, stop : Codes]
  /\ rt.parity \in 0..2
LcrType == [pen : BOOLEAN, eps : BOOLEAN, stop : BOOLEAN, dls : 0..3]
RegTypeOK ==
  /\ file_flag \subseteq Flags
  /\ clocked \in BOOLEAN
  /\ lcr \in LcrType
  /\ dll \in 0..255 /\ dlh \in 0..255

Framed(l, r) ==
  /\ l.dls = r.data_bits - 5
  /\ l.pen = (r.parity # 0)
  /\ l.pen => l.eps = (r.parity = 2)
  /\ StopOK(l, r) => l.stop = (r.stop # 0)
Divided(low, high, baud) ==
  /\ low = Divisor(baud) % 256
  /\ high \in {Divisor(baud) \div 256, 0}

Agree == file_flag # {} => clocked /\ Framed(lcr, rt) /\ Divided(dll, dlh, rt.baud)

RegInv == RuntimeTypeOK /\ RegTypeOK /\ Agree

ConfigInv == CallInv /\ AnswerInv /\ RegInv

(***************************************************************************)
(* Messages.                                                               *)
(***************************************************************************)
(* Tuples joined, and one more at the end.                                   *)
LEMMA TwoAndTwo ==
  ASSUME NEW a, NEW b, NEW c, NEW d
  PROVE  <<a, b>> \o <<c, d>> = <<a, b, c, d>>
<1> DEFINE S == {a, b, c, d}
           whole == <<a, b, c, d>>
<1>1. <<a, b>> \in Seq(S) /\ <<c, d>> \in Seq(S) /\ whole \in Seq(S)  OBVIOUS
<1>2. <<a, b>> \o <<c, d>> \in Seq(S)  BY <1>1
<1>3. Len(<<a, b>> \o <<c, d>>) = 4  OBVIOUS
<1>4. \A i \in 1..4 : (<<a, b>> \o <<c, d>>)[i] = whole[i]  OBVIOUS
<1> QED  BY <1>1, <1>2, <1>3, <1>4, SeqEqual

LEMMA ThreeAndTwo ==
  ASSUME NEW a, NEW b, NEW c, NEW d, NEW e
  PROVE  <<a, b, c>> \o <<d, e>> = <<a, b, c, d, e>>
<1> DEFINE S == {a, b, c, d, e}
           whole == <<a, b, c, d, e>>
<1>1. <<a, b, c>> \in Seq(S) /\ <<d, e>> \in Seq(S) /\ whole \in Seq(S)  OBVIOUS
<1>2. <<a, b, c>> \o <<d, e>> \in Seq(S)  BY <1>1
<1>3. Len(<<a, b, c>> \o <<d, e>>) = 5  OBVIOUS
<1>4. \A i \in 1..5 : (<<a, b, c>> \o <<d, e>>)[i] = whole[i]  OBVIOUS
<1> QED  BY <1>1, <1>2, <1>3, <1>4, SeqEqual

LEMMA FourAndOne ==
  ASSUME NEW a, NEW b, NEW c, NEW d, NEW e
  PROVE  <<a, b, c, d>> \o <<e>> = <<a, b, c, d, e>>
<1> DEFINE S == {a, b, c, d, e}
           whole == <<a, b, c, d, e>>
<1>1. <<a, b, c, d>> \in Seq(S) /\ <<e>> \in Seq(S) /\ whole \in Seq(S)  OBVIOUS
<1>2. <<a, b, c, d>> \o <<e>> \in Seq(S)  BY <1>1
<1>3. Len(<<a, b, c, d>> \o <<e>>) = 5  OBVIOUS
<1>4. \A i \in 1..5 : (<<a, b, c, d>> \o <<e>>)[i] = whole[i]  OBVIOUS
<1> QED  BY <1>1, <1>2, <1>3, <1>4, SeqEqual

LEMMA FiveAndOne ==
  ASSUME NEW a, NEW b, NEW c, NEW d, NEW e, NEW f
  PROVE  <<a, b, c, d, e>> \o <<f>> = <<a, b, c, d, e, f>>
<1> DEFINE S == {a, b, c, d, e, f}
           whole == <<a, b, c, d, e, f>>
<1>1. <<a, b, c, d, e>> \in Seq(S) /\ <<f>> \in Seq(S) /\ whole \in Seq(S)  OBVIOUS
<1>2. <<a, b, c, d, e>> \o <<f>> \in Seq(S)  BY <1>1
<1>3. Len(<<a, b, c, d, e>> \o <<f>>) = 6  OBVIOUS
<1>4. \A i \in 1..6 : (<<a, b, c, d, e>> \o <<f>>)[i] = whole[i]  OBVIOUS
<1> QED  BY <1>1, <1>2, <1>3, <1>4, SeqEqual

LEMMA ThreeThenOne ==
  ASSUME NEW a, NEW b, NEW c, NEW d
  PROVE  Append(<<a, b, c>>, d) = <<a, b, c, d>>
<1> DEFINE S == {a, b, c, d}
           whole == <<a, b, c, d>>
<1>1. <<a, b, c>> \in Seq(S) /\ whole \in Seq(S)  OBVIOUS
<1>2. Append(<<a, b, c>>, d) \in Seq(S)  OBVIOUS
<1>3. Len(Append(<<a, b, c>>, d)) = 4  OBVIOUS
<1>4. \A i \in 1..4 : Append(<<a, b, c>>, d)[i] = whole[i]  OBVIOUS
<1> QED  BY <1>1, <1>2, <1>3, <1>4, SeqEqual

LEMMA TupleTails ==
  ASSUME NEW a, NEW b, NEW c, NEW d, NEW e, NEW f
  PROVE  /\ Head(<<a>>) = a /\ Tail(<<a>>) = << >>
         /\ Head(<<a, b>>) = a /\ Tail(<<a, b>>) = <<b>>
         /\ Head(<<a, b, c>>) = a /\ Tail(<<a, b, c>>) = <<b, c>>
         /\ Head(<<a, b, c, d>>) = a /\ Tail(<<a, b, c, d>>) = <<b, c, d>>
         /\ Head(<<a, b, c, d, e>>) = a /\ Tail(<<a, b, c, d, e>>) = <<b, c, d, e>>
         /\ Head(<<a, b, c, d, e, f>>) = a /\ Tail(<<a, b, c, d, e, f>>) = <<b, c, d, e, f>>
OBVIOUS

LEMMA TupleAppends ==
  ASSUME NEW a, NEW b
  PROVE  Append(<< >>, a) = <<a>> /\ Append(<<a>>, b) = <<a, b>>
<1> DEFINE S == {a, b}
<1>1. << >> \in Seq(S) /\ <<a>> \in Seq(S) /\ <<a, b>> \in Seq(S)  OBVIOUS
<1>2. Append(<< >>, a) \in Seq(S) /\ Append(<<a>>, b) \in Seq(S)  OBVIOUS
<1>3. Len(Append(<< >>, a)) = 1 /\ Len(Append(<<a>>, b)) = 2  OBVIOUS
<1>4. Append(<< >>, a)[1] = a  OBVIOUS
<1>5. \A i \in 1..2 : Append(<<a>>, b)[i] = <<a, b>>[i]  OBVIOUS
<1>6. Append(<< >>, a) = <<a>>  BY <1>1, <1>2, <1>3, <1>4, SeqEqual
<1> QED  BY <1>1, <1>2, <1>3, <1>5, <1>6, SeqEqual

LEMMA TwoThenOne ==
  ASSUME NEW a, NEW b, NEW c
  PROVE  Append(<<a, b>>, c) = <<a, b, c>>
<1> DEFINE S == {a, b, c}
           whole == <<a, b, c>>
<1>1. <<a, b>> \in Seq(S) /\ whole \in Seq(S)  OBVIOUS
<1>2. Append(<<a, b>>, c) \in Seq(S)  OBVIOUS
<1>3. Len(Append(<<a, b>>, c)) = 3  OBVIOUS
<1>4. \A i \in 1..3 : Append(<<a, b>>, c)[i] = whole[i]  OBVIOUS
<1> QED  BY <1>1, <1>2, <1>3, <1>4, SeqEqual

(* What the stubs pack. *)
LEMMA StubIs ==
  ASSUME NEW c
  PROVE  /\ c.method = "open" => Stub(c) = <<WordOf("open"), WordOf(c.dev), WordOf(c.cmd)>>
         /\ c.method = "close" => Stub(c) = <<WordOf("close"), WordOf(c.dev)>>
         /\ c.method = "write" =>
              Stub(c) = <<WordOf("write"), WordOf(c.dev), WordOf(c.in_len), Field(c.in_len, c.val)>>
         /\ c.method = "read" => Stub(c) = <<WordOf("read"), WordOf(c.dev), WordOf(c.room)>>
         /\ c.method = "transfer" =>
              Stub(c) = <<WordOf("close"), WordOf(c.dev), WordOf(c.in_len),
                          Field(c.in_len, c.val), WordOf(c.room)>>
         /\ c.method = "ioctl" =>
              Stub(c) = <<WordOf("ioctl"), WordOf(c.dev), WordOf(c.cmd), WordOf(c.in_len),
                          Field(c.in_len, c.val), WordOf(c.room)>>
<1>1. CASE c.method \in {"open", "close", "read"}
  BY <1>1 DEF Stub
<1>2. CASE c.method = "write"
  <2>1. Stub(c) = <<WordOf("write"), WordOf(c.dev)>> \o <<WordOf(c.in_len), Field(c.in_len, c.val)>>
    BY <1>2 DEF Stub, Buffer
  <2> QED  BY <1>2, <2>1, TwoAndTwo
<1>3. CASE c.method = "transfer"
  <2>1. Stub(c) = (<<WordOf("close"), WordOf(c.dev)>> \o <<WordOf(c.in_len), Field(c.in_len, c.val)>>)
                  \o <<WordOf(c.room)>>
    BY <1>3 DEF Stub, Buffer
  <2>2. Stub(c) = <<WordOf("close"), WordOf(c.dev), WordOf(c.in_len), Field(c.in_len, c.val)>>
                  \o <<WordOf(c.room)>>
    BY <2>1, TwoAndTwo, Zenon
  <2>3. Stub(c) = <<WordOf("close"), WordOf(c.dev), WordOf(c.in_len), Field(c.in_len, c.val), WordOf(c.room)>>
    BY <2>2, FourAndOne, Zenon
  <2> QED  BY <1>3, <2>3
<1>4. CASE c.method = "ioctl"
  <2>1. Stub(c) = (<<WordOf("ioctl"), WordOf(c.dev), WordOf(c.cmd)>>
                   \o <<WordOf(c.in_len), Field(c.in_len, c.val)>>) \o <<WordOf(c.room)>>
    BY <1>4 DEF Stub, Buffer
  <2>2. <<WordOf("ioctl"), WordOf(c.dev), WordOf(c.cmd)>>
          \o <<WordOf(c.in_len), Field(c.in_len, c.val)>>
          = <<WordOf("ioctl"), WordOf(c.dev), WordOf(c.cmd), WordOf(c.in_len), Field(c.in_len, c.val)>>
    BY ThreeAndTwo
  <2>3. Stub(c) = <<WordOf("ioctl"), WordOf(c.dev), WordOf(c.cmd), WordOf(c.in_len),
                    Field(c.in_len, c.val), WordOf(c.room)>>
    BY <2>1, <2>2, FiveAndOne, Zenon
  <2> QED  BY <1>4, <2>3
<1> QED  BY <1>1, <1>2, <1>3, <1>4

(* The recursion over a message of at most six fields has a solution.        *)
LEMMA SizeIsNat ==
  ASSUME NEW m, Len(m) \in 0..6, \A i \in 1..Len(m) : m[i].len \in Nat
  PROVE  Size(m) \in Nat
<1> DEFINE Sum(f) == f = [i \in 0..Len(m) |-> IF i = 0 THEN 0 ELSE f[i - 1] + m[i].len]
           upto == CHOOSE f : Sum(f)
           s1 == 0 + m[1].len
           s2 == s1 + m[2].len
           s3 == s2 + m[3].len
           s4 == s3 + m[4].len
           s5 == s4 + m[5].len
           s6 == s5 + m[6].len
           g == [i \in 0..Len(m) |-> IF i = 0 THEN 0 ELSE IF i = 1 THEN s1 ELSE IF i = 2 THEN s2
                                     ELSE IF i = 3 THEN s3 ELSE IF i = 4 THEN s4
                                     ELSE IF i = 5 THEN s5 ELSE s6]
<1>1. Sum(g)
  <2> HIDE DEF s1, s2, s3, s4, s5, s6
  <2>1. ASSUME NEW i \in 0..Len(m), i # 0  PROVE g[i] = g[i - 1] + m[i].len
    <3> SUFFICES i = 1 \/ i = 2 \/ i = 3 \/ i = 4 \/ i = 5 \/ i = 6 => g[i] = g[i - 1] + m[i].len
      BY <2>1
    <3>1. i - 1 \in 0..Len(m)  BY <2>1
    <3>2. i = 1 => g[1] = s1 /\ g[0] = 0  BY <3>1
    <3> QED  BY <3>1, <3>2, <2>1 DEF s1, s2, s3, s4, s5, s6
  <2> QED  BY <2>1
<1>2. Sum(upto)  BY <1>1
<1>3. Size(m) = upto[Len(m)]  BY DEF Size
<1>4. ASSUME NEW f, Sum(f)  PROVE f[Len(m)] \in Nat
  <2>1. \A i \in 0..Len(m) : f[i] = IF i = 0 THEN 0 ELSE f[i - 1] + m[i].len  BY <1>4
  <2> HIDE DEF Sum, g, upto
  <2>2. f[0] \in Nat  BY <2>1
  <2>3. \A i \in 1..Len(m) : f[i - 1] \in Nat => f[i] \in Nat
    <3> SUFFICES ASSUME NEW i \in 1..Len(m), f[i - 1] \in Nat  PROVE f[i] \in Nat  OBVIOUS
    <3>1. f[i] = f[i - 1] + m[i].len  BY <2>1
    <3> QED  BY <3>1
  <2>4. /\ 1 <= Len(m) => f[1] \in Nat
        /\ 2 <= Len(m) => f[2] \in Nat
        /\ 3 <= Len(m) => f[3] \in Nat
        /\ 4 <= Len(m) => f[4] \in Nat
        /\ 5 <= Len(m) => f[5] \in Nat
        /\ 6 <= Len(m) => f[6] \in Nat
    BY <2>2, <2>3
  <2>5. \A k \in 0..6 : k <= Len(m) => f[k] \in Nat
    <3> SUFFICES ASSUME NEW k \in 0..6, k <= Len(m)  PROVE f[k] \in Nat  OBVIOUS
    <3>1. k = 0 \/ k = 1 \/ k = 2 \/ k = 3 \/ k = 4 \/ k = 5 \/ k = 6  OBVIOUS
    <3> QED  BY <2>2, <2>4, <3>1
  <2>6. PICK k \in 0..6 : k = Len(m)  OBVIOUS
  <2>7. k <= Len(m)  BY <2>6
  <2>8. f[k] \in Nat  BY <2>5, <2>7
  <2> QED  BY <2>6, <2>8
<1> HIDE DEF Sum, upto
<1> QED  BY <1>2, <1>3, <1>4

LEMMA StubSizes ==
  ASSUME NEW c, UserAsks(c)
  PROVE  Size(Stub(c)) \in Nat
<1>1. Word \in Nat /\ c.in_len \in Nat  BY CallAssumption DEF UserAsks
<1>2. c.method \in {"open", "close", "write", "read", "transfer", "ioctl"}  BY DEF UserAsks
<1>3. Len(Stub(c)) \in 0..6
  BY <1>2, StubIs
<1>4. \A i \in 1..Len(Stub(c)) : Stub(c)[i].len \in Nat
  BY <1>1, <1>2, StubIs DEF WordOf, Field
<1> QED  BY <1>3, <1>4, SizeIsNat

(***************************************************************************)
(* Parsing.  Its recursion over a signature of at most four types has a    *)
(* solution as well.                                                       *)
(***************************************************************************)
Cursor(m, n, a) == [rest |-> m, len |-> n, ok |-> TRUE, args |-> a]

LEMMA ParseUnrolls ==
  ASSUME NEW sig, NEW m, NEW n, Len(sig) \in 1..4
  PROVE  \E f : /\ f[0] = Cursor(m, n, << >>)
                /\ \A i \in 1..Len(sig) : f[i] = ParseNext(sig[i], f[i - 1])
                /\ do_parse(sig, m, n) = f[Len(sig)]
<1> DEFINE start == [rest |-> m, len |-> n, ok |-> TRUE, args |-> << >>]
           Run(f) == f = [i \in 0..Len(sig) |-> IF i = 0 THEN start ELSE ParseNext(sig[i], f[i - 1])]
           after == CHOOSE f : Run(f)
           p1 == ParseNext(sig[1], start)
           p2 == ParseNext(sig[2], p1)
           p3 == ParseNext(sig[3], p2)
           p4 == ParseNext(sig[4], p3)
           g == [i \in 0..Len(sig) |-> IF i = 0 THEN start ELSE IF i = 1 THEN p1
                                       ELSE IF i = 2 THEN p2 ELSE IF i = 3 THEN p3 ELSE p4]
<1>1. Run(g)
  <2> HIDE DEF p1, p2, p3, p4, start
  <2>1. ASSUME NEW i \in 0..Len(sig), i # 0  PROVE g[i] = ParseNext(sig[i], g[i - 1])
    <3> SUFFICES i = 1 \/ i = 2 \/ i = 3 \/ i = 4 => g[i] = ParseNext(sig[i], g[i - 1])
      BY <2>1
    <3>1. i - 1 \in 0..Len(sig)  BY <2>1
    <3>2. i = 1 => g[1] = p1 /\ g[0] = start  BY <3>1
    <3> QED  BY <3>1, <3>2, <2>1 DEF p1, p2, p3, p4
  <2> QED  BY <2>1
<1>2. Run(after)  BY <1>1
<1>3. do_parse(sig, m, n) = after[Len(sig)]  BY DEF do_parse
<1>4. ASSUME NEW f, Run(f)
      PROVE  f[0] = start /\ \A i \in 1..Len(sig) : f[i] = ParseNext(sig[i], f[i - 1])
  <2>1. \A i \in 0..Len(sig) : f[i] = IF i = 0 THEN start ELSE ParseNext(sig[i], f[i - 1])  BY <1>4
  <2> HIDE DEF Run, start, g, after
  <2> QED  BY <2>1
<1>5. start = Cursor(m, n, << >>)  BY DEF Cursor
<1> HIDE DEF Run, after, start
<1> QED  BY <1>2, <1>3, <1>4, <1>5

(* A parse that goes on has taken the field it came to, but a buffer whose   *)
(* count is missing.                                                         *)
LEMMA FailureStays ==
  ASSUME NEW type, NEW c, ParseNext(type, c).ok
  PROVE  c.ok
BY DEF ParseNext

LEMMA WordTaken ==
  ASSUME NEW type \in {"int", "msg"}, NEW m, NEW n, NEW a, ParseNext(type, Cursor(m, n, a)).ok
  PROVE  /\ ~(n < Word)
         /\ ParseNext(type, Cursor(m, n, a)) = Cursor(Tail(m), n - Word, Append(a, Head(m)))
BY DEF ParseNext, ParseWord, Cursor

LEMMA BufferTaken ==
  ASSUME NEW m, NEW n, NEW a, ParseNext("buffer", Cursor(m, n, a)).ok
  PROVE  \/ /\ n < Word
            /\ ParseNext("buffer", Cursor(m, n, a)) = Cursor(m, n, Append(a, Field(0, Junk)))
         \/ \E l : ParseNext("buffer", Cursor(m, n, a))
                    = Cursor(Tail(Tail(m)), l, Append(a, Head(Tail(m))))
BY DEF ParseNext, ParseBuffer, ParseWord, Cursor

LEMMA ParseOne ==
  ASSUME NEW m, NEW n, NEW x, do_parse(<<x>>, m, n).ok
  PROVE  /\ ParseNext(x, Cursor(m, n, << >>)).ok
         /\ do_parse(<<x>>, m, n) = ParseNext(x, Cursor(m, n, << >>))
<1>1. PICK f : /\ f[0] = Cursor(m, n, << >>)
               /\ \A i \in 1..1 : f[i] = ParseNext(<<x>>[i], f[i - 1])
               /\ do_parse(<<x>>, m, n) = f[1]
  BY ParseUnrolls
<1>2. f[1] = ParseNext(x, f[0])  BY <1>1
<1> QED  BY <1>1, <1>2

LEMMA ParseTwo ==
  ASSUME NEW m, NEW n, NEW x, NEW y, do_parse(<<x, y>>, m, n).ok
  PROVE  LET p == ParseNext(x, Cursor(m, n, << >>))
         IN p.ok /\ ParseNext(y, p).ok /\ do_parse(<<x, y>>, m, n) = ParseNext(y, p)
<1>1. PICK f : /\ f[0] = Cursor(m, n, << >>)
               /\ \A i \in 1..2 : f[i] = ParseNext(<<x, y>>[i], f[i - 1])
               /\ do_parse(<<x, y>>, m, n) = f[2]
  BY ParseUnrolls
<1>2. f[1] = ParseNext(x, f[0]) /\ f[2] = ParseNext(y, f[1])  BY <1>1
<1> QED  BY <1>1, <1>2, FailureStays

LEMMA ParseFour ==
  ASSUME NEW m, NEW n, NEW x, NEW y, NEW z, NEW w, do_parse(<<x, y, z, w>>, m, n).ok
  PROVE  LET p == ParseNext(x, Cursor(m, n, << >>))
             q == ParseNext(y, p)
             r == ParseNext(z, q)
         IN /\ p.ok /\ q.ok /\ r.ok /\ ParseNext(w, r).ok
            /\ do_parse(<<x, y, z, w>>, m, n) = ParseNext(w, r)
<1>1. PICK f : /\ f[0] = Cursor(m, n, << >>)
               /\ \A i \in 1..4 : f[i] = ParseNext(<<x, y, z, w>>[i], f[i - 1])
               /\ do_parse(<<x, y, z, w>>, m, n) = f[4]
  <2> DEFINE sig == <<x, y, z, w>>
  <2>1. Len(sig) = 4  OBVIOUS
  <2> HIDE DEF sig
  <2>2. \E f : /\ f[0] = Cursor(m, n, << >>)
               /\ \A i \in 1..Len(sig) : f[i] = ParseNext(sig[i], f[i - 1])
               /\ do_parse(sig, m, n) = f[Len(sig)]
    BY <2>1, ParseUnrolls
  <2> QED  BY <2>1, <2>2 DEF sig
<1>2. /\ f[1] = ParseNext(x, f[0]) /\ f[2] = ParseNext(y, f[1])
      /\ f[3] = ParseNext(z, f[2]) /\ f[4] = ParseNext(w, f[3])
  BY <1>1
<1>3. f[4].ok /\ f[3].ok /\ f[2].ok /\ f[1].ok  BY <1>1, <1>2, FailureStays
<1> QED  BY <1>1, <1>2, <1>3

(* A handler gets what the user gave, as far as it gets anything.            *)

(***************************************************************************)
(* A handler gets what the user gave, as far as it gets anything.          *)
(***************************************************************************)
Message(c) == Tail(Stub(c))
Types(c) == Signature(Head(Stub(c)).val)
Arrived(c, n) == do_parse(Types(c), Message(c), n)

LEMMA CallsAndTypes ==
  ASSUME NEW c
  PROVE  /\ c.method \in {"open", "close", "write", "read", "ioctl"} => Head(Stub(c)).val = c.method
         /\ c.method = "transfer" => Head(Stub(c)).val = "close"
         /\ c.method = "open" => Types(c) = <<"int", "int">>
         /\ c.method \in {"close", "transfer"} => Types(c) = <<"int">>
         /\ c.method = "write" => Types(c) = <<"int", "buffer">>
         /\ c.method = "read" => Types(c) = <<"int", "msg">>
         /\ c.method = "ioctl" => Types(c) = <<"int", "int", "buffer", "msg">>
<1>1. /\ c.method \in {"open", "close", "write", "read", "ioctl"} => Head(Stub(c)).val = c.method
      /\ c.method = "transfer" => Head(Stub(c)).val = "close"
  BY StubIs, TupleTails DEF WordOf, Field
<1> QED  BY <1>1 DEF Types, Signature

LEMMA MessageIs ==
  ASSUME NEW c
  PROVE  /\ c.method = "open" => Message(c) = <<WordOf(c.dev), WordOf(c.cmd)>>
         /\ c.method \in {"close", "transfer"} => Head(Message(c)) = WordOf(c.dev)
         /\ c.method = "write" =>
              Message(c) = <<WordOf(c.dev), WordOf(c.in_len), Field(c.in_len, c.val)>>
         /\ c.method = "read" => Message(c) = <<WordOf(c.dev), WordOf(c.room)>>
         /\ c.method = "ioctl" =>
              Message(c) = <<WordOf(c.dev), WordOf(c.cmd), WordOf(c.in_len),
                             Field(c.in_len, c.val), WordOf(c.room)>>
<1> DEFINE dev == WordOf(c.dev)
           cmd == WordOf(c.cmd)
           count == WordOf(c.in_len)
           data == Field(c.in_len, c.val)
           room == WordOf(c.room)
<1>1. /\ c.method = "open" => Stub(c) = <<WordOf("open"), dev, cmd>>
      /\ c.method = "close" => Stub(c) = <<WordOf("close"), dev>>
      /\ c.method = "write" => Stub(c) = <<WordOf("write"), dev, count, data>>
      /\ c.method = "read" => Stub(c) = <<WordOf("read"), dev, room>>
      /\ c.method = "transfer" => Stub(c) = <<WordOf("close"), dev, count, data, room>>
      /\ c.method = "ioctl" => Stub(c) = <<WordOf("ioctl"), dev, cmd, count, data, room>>
  BY StubIs
<1>2. \A x : /\ Tail(<<x, dev, cmd>>) = <<dev, cmd>> /\ Tail(<<x, dev, room>>) = <<dev, room>>
            /\ Tail(<<x, dev>>) = <<dev>> /\ Tail(<<x, dev, count, data>>) = <<dev, count, data>>
            /\ Tail(<<x, dev, count, data, room>>) = <<dev, count, data, room>>
            /\ Tail(<<x, dev, cmd, count, data, room>>) = <<dev, cmd, count, data, room>>
  BY TupleTails
<1>3. Head(<<dev>>) = dev /\ Head(<<dev, count, data, room>>) = dev  BY TupleTails
<1> HIDE DEF dev, cmd, count, data, room
<1>4. /\ c.method = "open" => Message(c) = <<dev, cmd>>
      /\ c.method \in {"close", "transfer"} => Head(Message(c)) = dev
      /\ c.method = "write" => Message(c) = <<dev, count, data>>
      /\ c.method = "read" => Message(c) = <<dev, room>>
      /\ c.method = "ioctl" => Message(c) = <<dev, cmd, count, data, room>>
  BY <1>1, <1>2, <1>3 DEF Message
<1> QED  BY <1>4 DEF dev, cmd, count, data, room

LEMMA CloseArguments ==
  ASSUME NEW c, c.method \in {"close", "transfer"}, NEW n, Arrived(c, n).ok
  PROVE  ArgsOf(c, Arrived(c, n).args)
<1> DEFINE m == Message(c)
<1>1. Types(c) = <<"int">>  BY CallsAndTypes
<1>2. Append(<< >>, Head(m)) = <<WordOf(c.dev)>>  BY MessageIs, TupleAppends
<1> HIDE DEF m
<1>3. /\ ParseNext("int", Cursor(m, n, << >>)).ok
      /\ Arrived(c, n) = ParseNext("int", Cursor(m, n, << >>))
  BY <1>1, ParseOne DEF Arrived, m
<1>4. Arrived(c, n) = Cursor(Tail(m), n - Word, Append(<< >>, Head(m)))
  BY <1>3, WordTaken
<1>5. Arrived(c, n).args = <<WordOf(c.dev)>>  BY <1>2, <1>4 DEF Cursor
<1> QED  BY <1>5 DEF ArgsOf, WordOf, Field

LEMMA OpenArguments ==
  ASSUME NEW c, c.method = "open", NEW n, Arrived(c, n).ok
  PROVE  ArgsOf(c, Arrived(c, n).args)
<1> DEFINE m == Message(c)
           dev == WordOf(c.dev)
           cmd == WordOf(c.cmd)
           p == ParseNext("int", Cursor(m, n, << >>))
<1>1. Types(c) = <<"int", "int">>  BY CallsAndTypes
<1>2. m = <<dev, cmd>>  BY MessageIs
<1>3. p.ok /\ ParseNext("int", p).ok /\ Arrived(c, n) = ParseNext("int", p)
  BY <1>1, ParseTwo DEF Arrived
<1>4. /\ Head(m) = dev /\ Tail(m) = <<cmd>> /\ Head(<<cmd>>) = cmd /\ Tail(<<cmd>>) = << >>
      /\ Append(<< >>, dev) = <<dev>> /\ Append(<<dev>>, cmd) = <<dev, cmd>>
  BY <1>2, TupleTails, TupleAppends
<1> HIDE DEF m, dev, cmd
<1>5. p = Cursor(<<cmd>>, n - Word, <<dev>>)
  <2>1. p = Cursor(Tail(m), n - Word, Append(<< >>, Head(m)))  BY <1>3, WordTaken
  <2> QED  BY <1>4, <2>1
<1> HIDE DEF p
<1>6. Arrived(c, n).args = <<dev, cmd>>
  <2>1. ParseNext("int", Cursor(<<cmd>>, n - Word, <<dev>>)).ok  BY <1>3, <1>5
  <2>2. ParseNext("int", p) = Cursor(Tail(<<cmd>>), (n - Word) - Word, Append(<<dev>>, Head(<<cmd>>)))
    BY <1>5, <2>1, WordTaken
  <2> QED  BY <1>3, <1>4, <2>2 DEF Cursor
<1> QED  BY <1>6 DEF ArgsOf, WordOf, Field, dev, cmd

LEMMA ReadArguments ==
  ASSUME NEW c, c.method = "read", NEW n, Arrived(c, n).ok
  PROVE  ArgsOf(c, Arrived(c, n).args)
<1> DEFINE m == Message(c)
           dev == WordOf(c.dev)
           room == WordOf(c.room)
           p == ParseNext("int", Cursor(m, n, << >>))
<1>1. Types(c) = <<"int", "msg">>  BY CallsAndTypes
<1>2. m = <<dev, room>>  BY MessageIs
<1>3. p.ok /\ ParseNext("msg", p).ok /\ Arrived(c, n) = ParseNext("msg", p)
  BY <1>1, ParseTwo DEF Arrived
<1>4. /\ Head(m) = dev /\ Tail(m) = <<room>> /\ Head(<<room>>) = room /\ Tail(<<room>>) = << >>
      /\ Append(<< >>, dev) = <<dev>> /\ Append(<<dev>>, room) = <<dev, room>>
  BY <1>2, TupleTails, TupleAppends
<1> HIDE DEF m, dev, room
<1>5. p = Cursor(<<room>>, n - Word, <<dev>>)
  <2>1. p = Cursor(Tail(m), n - Word, Append(<< >>, Head(m)))  BY <1>3, WordTaken
  <2> QED  BY <1>4, <2>1
<1> HIDE DEF p
<1>6. Arrived(c, n).args = <<dev, room>>
  <2>1. ParseNext("msg", Cursor(<<room>>, n - Word, <<dev>>)).ok  BY <1>3, <1>5
  <2>2. ParseNext("msg", p) = Cursor(Tail(<<room>>), (n - Word) - Word, Append(<<dev>>, Head(<<room>>)))
    BY <1>5, <2>1, WordTaken
  <2> QED  BY <1>3, <1>4, <2>2 DEF Cursor
<1> QED  BY <1>6 DEF ArgsOf, WordOf, Field, dev, room

LEMMA WriteArguments ==
  ASSUME NEW c, c.method = "write", NEW n, Arrived(c, n).ok
  PROVE  ArgsOf(c, Arrived(c, n).args)
<1> DEFINE m == Message(c)
           dev == WordOf(c.dev)
           count == WordOf(c.in_len)
           data == Field(c.in_len, c.val)
           p == ParseNext("int", Cursor(m, n, << >>))
<1>1. Types(c) = <<"int", "buffer">>  BY CallsAndTypes
<1>2. m = <<dev, count, data>>  BY MessageIs
<1>3. p.ok /\ ParseNext("buffer", p).ok /\ Arrived(c, n) = ParseNext("buffer", p)
  BY <1>1, ParseTwo DEF Arrived
<1>4. /\ Head(m) = dev /\ Tail(m) = <<count, data>>
      /\ Tail(<<count, data>>) = <<data>> /\ Head(<<data>>) = data /\ Tail(<<data>>) = << >>
      /\ Append(<< >>, dev) = <<dev>> /\ Append(<<dev>>, data) = <<dev, data>>
      /\ Append(<<dev>>, Field(0, Junk)) = <<dev, Field(0, Junk)>>
  BY <1>2, TupleTails, TupleAppends
<1> HIDE DEF m, dev, count, data
<1>5. p = Cursor(<<count, data>>, n - Word, <<dev>>)
  <2>1. p = Cursor(Tail(m), n - Word, Append(<< >>, Head(m)))  BY <1>3, WordTaken
  <2> QED  BY <1>4, <2>1
<1> HIDE DEF p
<1>6. Arrived(c, n).args = <<dev, Field(0, Junk)>> \/ Arrived(c, n).args = <<dev, data>>
  <2> DEFINE r == ParseNext("buffer", p)
  <2>1. ParseNext("buffer", Cursor(<<count, data>>, n - Word, <<dev>>)).ok  BY <1>3, <1>5
  <2>2. \/ r = Cursor(<<count, data>>, n - Word, Append(<<dev>>, Field(0, Junk)))
        \/ \E l : r = Cursor(Tail(Tail(<<count, data>>)), l, Append(<<dev>>, Head(Tail(<<count, data>>))))
    BY <1>5, <2>1, BufferTaken
  <2>3. r.args = Append(<<dev>>, Field(0, Junk)) \/ r.args = Append(<<dev>>, Head(Tail(<<count, data>>)))
    <3> HIDE DEF r
    <3> QED  BY <2>2 DEF Cursor
  <2> HIDE DEF r
  <2>4. r = Arrived(c, n)  BY <1>3 DEF r
  <2> QED  BY <1>4, <2>3, <2>4
<1> QED  BY <1>6 DEF ArgsOf, WordOf, Field, dev, data

LEMMA IoctlArguments ==
  ASSUME NEW c, c.method = "ioctl", NEW n, Arrived(c, n).ok
  PROVE  ArgsOf(c, Arrived(c, n).args)
<1> DEFINE m == Message(c)
           dev == WordOf(c.dev)
           cmd == WordOf(c.cmd)
           count == WordOf(c.in_len)
           data == Field(c.in_len, c.val)
           room == WordOf(c.room)
           p == ParseNext("int", Cursor(m, n, << >>))
           q == ParseNext("int", p)
           r == ParseNext("buffer", q)
<1>1. Types(c) = <<"int", "int", "buffer", "msg">>  BY CallsAndTypes
<1>2. m = <<dev, cmd, count, data, room>>  BY MessageIs
<1>3. p.ok /\ q.ok /\ r.ok /\ ParseNext("msg", r).ok /\ Arrived(c, n) = ParseNext("msg", r)
  BY <1>1, ParseFour DEF Arrived
<1>4. /\ Head(m) = dev /\ Tail(m) = <<cmd, count, data, room>>
      /\ Head(<<cmd, count, data, room>>) = cmd
      /\ Tail(<<cmd, count, data, room>>) = <<count, data, room>>
      /\ Tail(<<count, data, room>>) = <<data, room>>
      /\ Head(<<data, room>>) = data /\ Tail(<<data, room>>) = <<room>> /\ Head(<<room>>) = room
      /\ Tail(<<room>>) = << >>
      /\ Append(<< >>, dev) = <<dev>> /\ Append(<<dev>>, cmd) = <<dev, cmd>>
      /\ Append(<<dev, cmd>>, data) = <<dev, cmd, data>>
      /\ Append(<<dev, cmd, data>>, room) = <<dev, cmd, data, room>>
  BY <1>2, TupleTails, TupleAppends, TwoThenOne, ThreeThenOne
<1> HIDE DEF m, dev, cmd, count, data, room
<1>5. p = Cursor(<<cmd, count, data, room>>, n - Word, <<dev>>)
  <2>1. p = Cursor(Tail(m), n - Word, Append(<< >>, Head(m)))  BY <1>3, WordTaken
  <2> QED  BY <1>4, <2>1
<1> HIDE DEF p
<1> DEFINE l == (n - Word) - Word
<1>6. q = Cursor(<<count, data, room>>, l, <<dev, cmd>>)
  <2> DEFINE rest == <<cmd, count, data, room>>
  <2>1. ParseNext("int", Cursor(rest, n - Word, <<dev>>)).ok  BY <1>3, <1>5
  <2>2. q = Cursor(Tail(rest), l, Append(<<dev>>, Head(rest)))
    BY <1>5, <2>1, WordTaken
  <2> QED  BY <1>4, <2>2
<1> HIDE DEF q, l
<1>7. r.args = <<dev, cmd, data>> /\ r.rest = <<room>> /\ r = Cursor(r.rest, r.len, r.args)
  <2> DEFINE rest == <<count, data, room>>
             missing == Append(<<dev, cmd>>, Field(0, Junk))
  <2>1. ParseNext("buffer", Cursor(rest, l, <<dev, cmd>>)).ok  BY <1>3, <1>6
  <2>2. \/ l < Word /\ r = Cursor(rest, l, missing)
        \/ \E k : r = Cursor(Tail(Tail(rest)), k, Append(<<dev, cmd>>, Head(Tail(rest))))
    BY <1>6, <2>1, BufferTaken
  <2> HIDE DEF r, missing
  <2>3. ~(l < Word /\ r = Cursor(rest, l, missing))  BY <1>3, WordTaken
  <2>4. PICK k : r = Cursor(Tail(Tail(rest)), k, Append(<<dev, cmd>>, Head(Tail(rest))))  BY <2>2, <2>3
  <2>5. r = Cursor(<<room>>, k, <<dev, cmd, data>>)  BY <1>4, <2>4
  <2> QED  BY <2>5 DEF Cursor
<1> HIDE DEF r
<1>8. Arrived(c, n).args = <<dev, cmd, data, room>>
  <2>1. ParseNext("msg", Cursor(r.rest, r.len, r.args)).ok  BY <1>3, <1>7
  <2>2. ParseNext("msg", Cursor(r.rest, r.len, r.args))
          = Cursor(Tail(r.rest), r.len - Word, Append(r.args, Head(r.rest)))
    BY <2>1, WordTaken
  <2>3. Arrived(c, n) = Cursor(Tail(r.rest), r.len - Word, Append(r.args, Head(r.rest)))
    BY <1>3, <1>7, <2>2, Zenon
  <2>4. Arrived(c, n).args = Append(r.args, Head(r.rest))  BY <2>3 DEF Cursor
  <2> QED  BY <1>4, <1>7, <2>4
<1> QED  BY <1>8 DEF ArgsOf, WordOf, Field, dev, cmd, data, room

LEMMA ArgumentsArrive ==
  ASSUME NEW c, UserAsks(c), NEW n, Arrived(c, n).ok
  PROVE  ArgsOf(c, Arrived(c, n).args)
BY CloseArguments, OpenArguments, ReadArguments, WriteArguments, IoctlArguments DEF UserAsks

(***************************************************************************)
(* Each step keeps what a call is.                                         *)
(***************************************************************************)
LEMMA ModIsNat ==
  ASSUME NEW a \in Nat
  PROVE  a % LenMod \in 0..(LenMod - 1) /\ a % LenMod <= a
<1>1. LenMod \in Nat /\ LenMod > 0  BY CallAssumption
<1> QED  BY <1>1

LEMMA AnnouncedFits ==
  ASSUME NEW c, UserAsks(c)
  PROVE  RoomAnnounced(c) \in 0..(LenMod - 1) /\ RoomAnnounced(c) <= c.room
<1>1. LenMod \in Nat /\ LenMod > 0  BY CallAssumption
<1>2. c.room \in Nat  BY DEF UserAsks
<1> QED  BY <1>1, <1>2, ModIsNat DEF RoomAnnounced

LEMMA UserCallKeepsCall ==
  ASSUME CallInv, UserCall
  PROVE  CallInv'
<1>1. PICK c : UserAsks(c) /\ Package(c)
  <2>1. \A n \in Lengths : n \in Nat  BY CallAssumption
  <2>2. \A n \in Rooms : n \in Nat  BY CallAssumption
  <2>3. 0 \in Nat /\ {"R"} \subseteq Flags /\ Flags \subseteq Flags  BY DEF Flags
  <2>4. ASSUME NEW d \in Listed \cup Unlisted, NEW flags \in {{"R"}, Flags}
        PROVE  UserAsks(Call("open", d, flags, 0, 0, 0))
    BY <2>3 DEF UserAsks, Call
  <2>5. ASSUME NEW d \in Listed \cup Unlisted
        PROVE  UserAsks(Call("close", d, "none", 0, 0, 0))
    BY <2>3 DEF UserAsks, Call
  <2>6. ASSUME NEW d \in Listed \cup Unlisted, NEW n \in Lengths
        PROVE  UserAsks(Call("write", d, "none", "bytes", n, 0))
    BY <2>1 DEF UserAsks, Call
  <2>7. ASSUME NEW d \in Listed \cup Unlisted, NEW room \in Rooms
        PROVE  UserAsks(Call("read", d, "none", 0, 0, room))
    BY <2>2 DEF UserAsks, Call
  <2>8. ASSUME NEW d \in Listed \cup Unlisted, NEW n \in Lengths, NEW room \in Rooms
        PROVE  UserAsks(Call("transfer", d, "none", "bytes", n, room))
    BY <2>1, <2>2 DEF UserAsks, Call
  <2>9. ASSUME NEW d \in Listed \cup Unlisted, NEW cmd \in Commands, NEW n \in Lengths,
               NEW room \in Rooms, NEW v \in IoctlValues(cmd)
        PROVE  UserAsks(Call("ioctl", d, cmd, v, n, room))
    BY <2>1, <2>2 DEF UserAsks, Call
  <2> HIDE DEF UserAsks
  <2> QED  BY <2>4, <2>5, <2>6, <2>7, <2>8, <2>9 DEF UserCall
<1>2. cpc = "idle" /\ taken' = taken  BY DEF UserCall, uartVars
<1> QED  BY <1>1, <1>2 DEF CallInv, Package, Asked, Sent, Parsed, Unanswered, Handed

LEMMA SendKeepsCall ==
  ASSUME CallInv, Send, UNCHANGED uartVars
  PROVE  CallInv'
<1>1. UserAsks(call) /\ packed = Stub(call)  BY DEF CallInv, Asked, Send
<1>2. txlen' \in 0..(LenMod - 1)  BY <1>1, StubSizes, ModIsNat DEF Send
<1>3. rxlen' = RoomAnnounced(call)  BY DEF Send, RoomAnnounced
<1> QED  BY <1>1, <1>2, <1>3
         DEF CallInv, Send, Asked, Sent, Parsed, Unanswered, Handed, uartVars

LEMMA ParseKeepsCall ==
  ASSUME CallInv, ParseCall, UNCHANGED uartVars
  PROVE  CallInv'
<1>1. UserAsks(call) /\ packed = Stub(call)  BY DEF CallInv, Asked, ParseCall
<1> DEFINE parsed == Arrived(call, txlen - Word)
<1>2. \/ parsed.ok /\ args' = parsed.args /\ cpc' = "serve" /\ UNCHANGED res
      \/ cpc' = "reply" /\ UNCHANGED args
  BY <1>1 DEF ParseCall, Arrived, Message, Types, Method
<1>3. cpc' = "serve" => ArgsOf(call, args')
  BY <1>1, <1>2, ArgumentsArrive
<1>4. cpc' = "serve" => res' = res  BY <1>2
<1> HIDE DEF parsed
<1> QED  BY <1>1, <1>2, <1>3, <1>4
         DEF CallInv, ParseCall, Asked, Sent, Parsed, Unanswered, Handed, uartVars

LEMMA AnswerKeepsCall ==
  ASSUME CallInv, cpc = "serve", NEW r, NEW o, Answer(r, o)
  PROVE  CallInv'
BY DEF CallInv, Answer, Asked, Sent, Parsed, Unanswered, Handed

LEMMA ReplyKeepsCall ==
  ASSUME CallInv, Reply
  PROVE  CallInv'
<1>1. rxlen = RoomAnnounced(call)  BY DEF CallInv, Reply, Sent
<1>2. Returned(call, out, got')  BY <1>1 DEF Reply, Returned
<1>3. Returned(call, out, got)'  BY <1>2 DEF Reply, Returned, RoomAnnounced
<1> QED  BY <1>1, <1>3 DEF CallInv, Reply, Asked, Sent, Parsed, Unanswered, Handed

LEMMA ReturnKeepsCall ==
  ASSUME CallInv, Return, taken' = 0
  PROVE  CallInv'
<1>1. 0 \in 0..(LenMod - 1)  BY CallAssumption
<1> QED  BY <1>1 DEF CallInv, Return, Asked, Sent, Parsed, Unanswered, Handed

(* What a handler knows of the call it serves.                               *)
LEMMA Served ==
  ASSUME CallInv, cpc = "serve"
  PROVE  /\ Dev = call.dev
         /\ Method = IF call.method = "transfer" THEN "close" ELSE call.method
         /\ call.method = "open" => args[2].val \subseteq Flags
         /\ call.method = "write" => args[2].len \in {0, call.in_len}
         /\ call.method \in {"read", "ioctl"} => Room = call.room
         /\ call.method = "ioctl" => /\ Cmd = call.cmd /\ In = Field(call.in_len, call.val)
                                     /\ call.val \in IoctlValues(call.cmd)
         /\ call.in_len \in Nat /\ call.room \in Nat
         /\ taken = 0
<1>1. UserAsks(call) /\ packed = Stub(call) /\ ArgsOf(call, args) /\ taken = 0
  BY DEF CallInv, Asked, Parsed, Unanswered
<1>2. Dev = call.dev  BY <1>1 DEF Dev, ArgsOf
<1>3. Method = IF call.method = "transfer" THEN "close" ELSE call.method
  BY <1>1, CallsAndTypes DEF Method, UserAsks
<1>4. call.method \in {"read", "ioctl"} => Room = call.room  BY <1>1 DEF Room, ArgsOf
<1>5. call.method = "ioctl" => Cmd = call.cmd /\ In = Field(call.in_len, call.val)
  BY <1>1 DEF Cmd, In, ArgsOf
<1> QED  BY <1>1, <1>2, <1>3, <1>4, <1>5 DEF ArgsOf, UserAsks

(***************************************************************************)
(* Each handler's answer, and what it does to runtime and registers.       *)
(***************************************************************************)
LEMMA CutTo16Bits ==
  ASSUME NEW q \in Nat
  PROVE  q % 65536 \in Nat /\ q % 65536 <= 65535
OBVIOUS

LEMMA Bytes16 ==
  ASSUME NEW d \in Nat, d <= 65535
  PROVE  d % 256 \in 0..255 /\ d \div 256 \in 0..255
<1>1. d % 256 \in 0..255  OBVIOUS
<1>2. d \div 256 \in Int /\ d \div 256 >= 0 /\ d \div 256 <= 255  OBVIOUS
<1> QED  BY <1>1, <1>2

LEMMA OneByte ==
  ASSUME NEW d \in Nat, d < 256
  PROVE  d % 256 = d /\ d \div 256 = 0
OBVIOUS

LEMMA DivisorBytes ==
  ASSUME NEW baud \in Bauds
  PROVE  /\ Divisor(baud) \in Nat
         /\ Divisor(baud) % 256 \in 0..255
         /\ Divisor(baud) \div 256 \in 0..255
<1>1. baud \in Nat /\ baud > 0 /\ Clock \in Nat  BY ConfigAssumption
<1>2. Clock \div baud \in Nat  BY <1>1
<1>3. Divisor(baud) \in Nat /\ Divisor(baud) <= 65535  BY <1>2, CutTo16Bits DEF Divisor
<1> QED  BY <1>3, Bytes16

LEMMA DivisorPut ==
  ASSUME NEW baud \in Bauds, PutDivisor(baud)
  PROVE  Divided(dll', dlh', baud) /\ dll' \in 0..255 /\ dlh' \in 0..255
<1>1. 0 \in 0..255  OBVIOUS
<1>2. Divisor(baud) % 256 \in 0..255 /\ Divisor(baud) \div 256 \in 0..255  BY DivisorBytes
<1>3. dll' = Divisor(baud) % 256 /\ dlh' \in {Divisor(baud) \div 256, 0}  BY DEF PutDivisor
<1>4. Divided(dll', dlh', baud)  BY <1>3 DEF Divided
<1>5. dll' \in 0..255  BY <1>2, <1>3
<1>6. dlh' \in 0..255
  <2>1. dlh' = Divisor(baud) \div 256 \/ dlh' = 0  BY <1>3, Zenon
  <2> QED  BY <1>1, <1>2, <2>1, Zenon
<1> QED  BY <1>4, <1>5, <1>6

LEMMA RegistersKept ==
  ASSUME RegInv, UNCHANGED <<rt, file_flag, clocked, regVars>>
  PROVE  RegInv'
BY DEF RegInv, RuntimeTypeOK, RegTypeOK, Agree, regVars, Framed, StopOK, Divided

(* An answer that says nothing of bytes or settings.                         *)
LEMMA PlainAnswer ==
  ASSUME AnswerTypeOK, cpc = "serve", NEW r, NEW o, Answer(r, o), taken' = 0,
         r \in ENO_NOMEM..ENO_OK, o.fill = 0, o.len \in Nat
  PROVE  AnswerInv'
<1>1. r <= 0 /\ r \in Results  BY DEF ENO_NOMEM, ENO_OK, Results
<1> QED  BY <1>1 DEF AnswerInv, AnswerTypeOK, Answer, WriteTold, ReadTold, QueryTold

LEMMA AnswersPlain ==
  /\ ENO_OK \in ENO_NOMEM..ENO_OK /\ ENO_INVALID \in ENO_NOMEM..ENO_OK
  /\ ENO_BUSY \in ENO_NOMEM..ENO_OK /\ ENO_NOTEXIST \in ENO_NOMEM..ENO_OK
  /\ ENO_SYSCALL_ERR \in ENO_NOMEM..ENO_OK
  /\ Empty.fill = 0 /\ Empty.len = 0 /\ 0 \in Nat
  /\ \A n : [Empty EXCEPT !.len = n].fill = 0 /\ [Empty EXCEPT !.len = n].len = n
BY DEF ENO_NOMEM, ENO_OK, ENO_INVALID, ENO_BUSY, ENO_NOTEXIST, ENO_SYSCALL_ERR, Empty

LEMMA NotListedSafe ==
  ASSUME ConfigInv, NotListed, UNCHANGED uartVars
  PROVE  ConfigInv'
<1>1. CallInv /\ AnswerTypeOK /\ RegInv /\ cpc = "serve"  BY DEF ConfigInv, AnswerInv, NotListed
<1>2. CallInv'  BY <1>1, AnswerKeepsCall DEF NotListed
<1>3. RegInv'  BY <1>1, RegistersKept DEF uartVars
<1>4. taken' = 0  BY <1>1, Served DEF uartVars
<1>5. Method \in {"read", "ioctl"} => Room \in Nat  BY <1>1, Served
<1>6. AnswerInv'
  <2>1. CASE Method \in {"read", "ioctl"}
    <3>1. Answer(ENO_NOTEXIST, [Empty EXCEPT !.len = Room])  BY <2>1 DEF NotListed
    <3> QED  BY <1>1, <1>4, <1>5, <2>1, <3>1, AnswersPlain, PlainAnswer
  <2>2. CASE Method \notin {"read", "ioctl"}
    <3>1. Answer(ENO_NOTEXIST, Empty)  BY <2>2 DEF NotListed
    <3> QED  BY <1>1, <1>4, <3>1, AnswersPlain, PlainAnswer
  <2> QED  BY <2>1, <2>2
<1> QED  BY <1>2, <1>3, <1>6 DEF ConfigInv

LEMMA OpenBusySafe ==
  ASSUME ConfigInv, OpenBusy
  PROVE  ConfigInv'
<1>1. CallInv /\ AnswerTypeOK /\ RegInv /\ cpc = "serve" /\ Answer(ENO_BUSY, Empty)
  BY DEF ConfigInv, AnswerInv, OpenBusy, Serving
<1>2. CallInv'  BY <1>1, AnswerKeepsCall
<1>3. RegInv'  BY <1>1, RegistersKept DEF OpenBusy, uartVars
<1>4. taken' = 0  BY <1>1, Served DEF OpenBusy, uartVars
<1>5. AnswerInv'  BY <1>1, <1>4, AnswersPlain, PlainAnswer
<1> QED  BY <1>2, <1>3, <1>5 DEF ConfigInv

LEMMA CloseSafe ==
  ASSUME ConfigInv, close_
  PROVE  ConfigInv'
<1>1. CallInv /\ AnswerTypeOK /\ RegInv /\ cpc = "serve" /\ Answer(ENO_OK, Empty)
  BY DEF ConfigInv, AnswerInv, close_, Serving
<1>2. CallInv'  BY <1>1, AnswerKeepsCall
<1>3. RegInv'  BY <1>1 DEF RegInv, RuntimeTypeOK, RegTypeOK, Agree, regVars, close_
<1>4. taken' = 0  BY <1>1, Served DEF close_
<1>5. AnswerInv'  BY <1>1, <1>4, AnswersPlain, PlainAnswer
<1> QED  BY <1>2, <1>3, <1>5 DEF ConfigInv

(* An open that succeeds leaves the frame the runtime asks for.              *)
LEMMA OpenedFrame ==
  ASSUME RuntimeTypeOK, NEW data, NEW parity,
         data = WithDataBits(ResetLcr, rt), parity = WithParity(data, rt)
  PROVE  /\ data \in LcrType /\ parity \in LcrType /\ WithStop(parity, rt) \in LcrType
         /\ DataBitsOK(rt) /\ StopOK(parity, rt) => Framed(WithStop(parity, rt), rt)
<1>1. ResetLcr \in LcrType  BY DEF ResetLcr, LcrType
<1>2. data \in LcrType /\ data.pen = FALSE
  <2>1. CASE DataBitsOK(rt)
    <3>1. rt.data_bits - 5 \in 0..3  BY <2>1 DEF DataBitsOK
    <3>2. data = [ResetLcr EXCEPT !.dls = rt.data_bits - 5]  BY <2>1 DEF WithDataBits
    <3> QED  BY <3>1, <3>2 DEF LcrType, ResetLcr
  <2>2. CASE ~DataBitsOK(rt)
    BY <1>1, <2>2 DEF WithDataBits, ResetLcr
  <2> QED  BY <2>1, <2>2
<1>3. DataBitsOK(rt) => data.dls = rt.data_bits - 5
  BY <1>1 DEF WithDataBits, LcrType
<1>4. parity \in LcrType /\ parity.dls = data.dls
  BY <1>2 DEF WithParity, LcrType
<1>5. parity.pen = (rt.parity # 0) /\ (parity.pen => parity.eps = (rt.parity = 2))
  BY <1>2 DEF WithParity, LcrType
<1> DEFINE new == WithStop(parity, rt)
<1>6. /\ new \in LcrType /\ new.dls = parity.dls /\ new.pen = parity.pen /\ new.eps = parity.eps
      /\ new.stop = (rt.stop # 0)
  BY <1>4 DEF WithStop, LcrType
<1> HIDE DEF new
<1>7. DataBitsOK(rt) => Framed(new, rt)  BY <1>3, <1>4, <1>5, <1>6 DEF Framed
<1> QED  BY <1>2, <1>4, <1>6, <1>7 DEF new

LEMMA OpenSafe ==
  ASSUME ConfigInv, open_
  PROVE  ConfigInv'
<1>1. CallInv /\ AnswerTypeOK /\ RegInv /\ cpc = "serve" /\ Method = "open" /\ file_flag = {}
  BY DEF ConfigInv, AnswerInv, open_, Serving
<1>2. call.method = "open" /\ args[2].val \subseteq Flags  BY <1>1, Served DEF CallInv, Asked, UserAsks
<1>3. taken' = 0 /\ rt' = rt /\ clocked' = TRUE  BY <1>1, Served DEF open_
<1> DEFINE data == WithDataBits(ResetLcr, rt)
           parity == WithParity(data, rt)
<1>4. /\ data \in LcrType /\ parity \in LcrType /\ WithStop(parity, rt) \in LcrType
      /\ DataBitsOK(rt) /\ StopOK(parity, rt) => Framed(WithStop(parity, rt), rt)
  BY <1>1, OpenedFrame DEF RegInv
<1>5. rt.baud \in Bauds  BY <1>1 DEF RegInv, RuntimeTypeOK
<1>6. CASE DataBitsOK(rt) /\ ParityOK(rt) /\ StopOK(parity, rt)
  <2>1. /\ lcr' = WithStop(parity, rt) /\ PutDivisor(rt.baud) /\ file_flag' = args[2].val
        /\ Answer(ENO_OK, Empty)
    BY <1>6 DEF open_
  <2>2. Divided(dll', dlh', rt.baud) /\ dll' \in 0..255 /\ dlh' \in 0..255
    BY <1>5, <2>1, DivisorPut
  <2>3. lcr' \in LcrType /\ Framed(lcr', rt)  BY <1>4, <1>6, <2>1
  <2>4. RuntimeTypeOK'  BY <1>1, <1>3 DEF RegInv, RuntimeTypeOK
  <2>5. RegTypeOK'  BY <1>2, <1>3, <2>1, <2>2, <2>3 DEF RegTypeOK
  <2>6. Agree'  BY <1>3, <2>2, <2>3 DEF Agree, Framed, Divided
  <2>7. CallInv'  BY <1>1, <2>1, AnswerKeepsCall
  <2>8. AnswerInv'  BY <1>1, <1>3, <2>1, AnswersPlain, PlainAnswer
  <2> QED  BY <2>4, <2>5, <2>6, <2>7, <2>8 DEF ConfigInv, RegInv
<1>7. CASE ~(DataBitsOK(rt) /\ ParityOK(rt) /\ StopOK(parity, rt))
  <2>1. /\ lcr' = IF DataBitsOK(rt) /\ ParityOK(rt) THEN parity ELSE data
        /\ dll' = 0 /\ dlh' = 0 /\ file_flag' = file_flag
        /\ Answer(ENO_INVALID, Empty)
    BY <1>7 DEF open_
  <2>2. lcr' \in LcrType  BY <1>4, <2>1
  <2>3. RuntimeTypeOK'  BY <1>1, <1>3 DEF RegInv, RuntimeTypeOK
  <2>4. RegTypeOK'  BY <1>1, <1>3, <2>1, <2>2 DEF RegTypeOK
  <2>5. Agree'  BY <1>1, <2>1 DEF Agree
  <2>6. CallInv'  BY <1>1, <2>1, AnswerKeepsCall
  <2>7. AnswerInv'  BY <1>1, <1>3, <2>1, AnswersPlain, PlainAnswer
  <2> QED  BY <2>3, <2>4, <2>5, <2>6, <2>7 DEF ConfigInv, RegInv
<1> QED  BY <1>6, <1>7

LEMMA WriteSafe ==
  ASSUME ConfigInv, write_
  PROVE  ConfigInv'
<1>1. CallInv /\ AnswerTypeOK /\ RegInv /\ cpc = "serve" /\ Method = "write"
  BY DEF ConfigInv, AnswerInv, write_, Serving
<1>2. call.method = "write" /\ args[2].len \in {0, call.in_len} /\ call.in_len \in Nat /\ taken = 0
  BY <1>1, Served DEF CallInv, Asked, UserAsks
<1>3. RegInv'  BY <1>1, RegistersKept DEF write_, regVars
<1>4. CASE "W" \in file_flag
  <2>1. taken' = args[2].len /\ Answer(args[2].len, Empty)  BY <1>4 DEF write_
  <2>2. CallInv'  BY <1>1, <2>1, AnswerKeepsCall
  <2>3. args[2].len \in Nat /\ args[2].len \in Results  BY <1>2 DEF Results
  <2>4. AnswerInv'
    BY <1>2, <2>1, <2>3, AnswersPlain
    DEF AnswerInv, AnswerTypeOK, Answer, WriteTold, ReadTold, QueryTold
  <2> QED  BY <1>3, <2>2, <2>4 DEF ConfigInv
<1>5. CASE "W" \notin file_flag
  <2>1. taken' = 0 /\ Answer(ENO_INVALID, Empty)  BY <1>2, <1>5 DEF write_
  <2>2. CallInv'  BY <1>1, <2>1, AnswerKeepsCall
  <2>3. AnswerInv'  BY <1>1, <2>1, AnswersPlain, PlainAnswer
  <2> QED  BY <1>3, <2>2, <2>3 DEF ConfigInv
<1> QED  BY <1>4, <1>5

LEMMA ReadSafe ==
  ASSUME ConfigInv, read_
  PROVE  ConfigInv'
<1>1. CallInv /\ AnswerTypeOK /\ RegInv /\ cpc = "serve" /\ Method = "read"
  BY DEF ConfigInv, AnswerInv, read_, Serving
<1>2. call.method = "read" /\ Room = call.room /\ Room \in Nat /\ taken = 0
  BY <1>1, Served DEF CallInv, Asked, UserAsks
<1>3. RegInv'  BY <1>1, RegistersKept DEF read_, uartVars
<1>4. taken' = 0  BY <1>2 DEF read_, uartVars
<1>5. CASE "R" \in file_flag
  <2>1. PICK queued \in Queued :
          Answer(ReadCount(queued), [len |-> Room, fill |-> ReadCount(queued), val |-> "bytes"])
    BY <1>5 DEF read_
  <2>2. queued \in Nat  BY ConfigAssumption
  <2>3. ReadCount(queued) \in Nat /\ ReadCount(queued) <= Room  BY <1>2, <2>2 DEF ReadCount
  <2>4. CallInv'  BY <1>1, <2>1, AnswerKeepsCall
  <2> DEFINE o == [len |-> Room, fill |-> ReadCount(queued), val |-> "bytes"]
  <2>5. o.len = Room /\ o.fill = ReadCount(queued)  OBVIOUS
  <2>6. res' = ReadCount(queued) /\ out' = o /\ call' = call  BY <2>1 DEF Answer
  <2> HIDE DEF o
  <2>7. AnswerTypeOK'  BY <1>2, <1>4, <2>3, <2>5, <2>6 DEF AnswerTypeOK, Results
  <2>8. WriteTold' /\ ReadTold' /\ QueryTold'
    BY <1>2, <2>3, <2>5, <2>6 DEF WriteTold, ReadTold, QueryTold
  <2> QED  BY <1>3, <2>4, <2>7, <2>8 DEF ConfigInv, AnswerInv
<1>6. CASE "R" \notin file_flag
  <2>1. Answer(ENO_INVALID, [Empty EXCEPT !.len = Room])  BY <1>6 DEF read_
  <2>2. CallInv'  BY <1>1, <2>1, AnswerKeepsCall
  <2>3. AnswerInv'  BY <1>1, <1>2, <1>4, <2>1, AnswersPlain, PlainAnswer
  <2> QED  BY <1>3, <2>2, <2>3 DEF ConfigInv
<1> QED  BY <1>5, <1>6

LEMMA QuerySafe ==
  ASSUME ConfigInv, ioctl_get
  PROVE  ConfigInv'
<1>1. CallInv /\ AnswerTypeOK /\ RegInv /\ cpc = "serve" /\ Method = "ioctl" /\ Dev \in Listed
  BY DEF ConfigInv, AnswerInv, ioctl_get, Serving
<1>2. /\ call.method = "ioctl" /\ Room = call.room /\ Room \in Nat /\ taken = 0
      /\ Cmd = call.cmd /\ Dev = call.dev
  BY <1>1, Served DEF CallInv, Asked, UserAsks
<1>3. RegInv'  BY <1>1, RegistersKept DEF ioctl_get, uartVars
<1>4. taken' = 0 /\ rt' = rt  BY <1>2 DEF ioctl_get, uartVars
<1>5. CASE Room < WidthOf(Cmd)
  <2>1. Answer(ENO_OK, [Empty EXCEPT !.len = Room])  BY <1>5 DEF ioctl_get
  <2>2. CallInv'  BY <1>1, <2>1, AnswerKeepsCall
  <2>3. AnswerInv'  BY <1>1, <1>2, <1>4, <2>1, AnswersPlain, PlainAnswer
  <2> QED  BY <1>3, <2>2, <2>3 DEF ConfigInv
<1>6. CASE ~(Room < WidthOf(Cmd))
  <2> DEFINE o == [len |-> WidthOf(Cmd), fill |-> WidthOf(Cmd), val |-> Setting(Cmd)]
  <2>1. Answer(ENO_OK, o) /\ Cmd \in Queries  BY <1>6 DEF ioctl_get
  <2>2. CallInv'  BY <1>1, <2>1, AnswerKeepsCall
  <2>3. o.len = WidthOf(Cmd) /\ o.fill = WidthOf(Cmd) /\ o.val = Setting(Cmd)  OBVIOUS
  <2>4. WidthOf(Cmd) \in Nat  BY CallAssumption DEF WidthOf
  <2>5. res' = ENO_OK /\ out' = o /\ call' = call  BY <2>1 DEF Answer
  <2> HIDE DEF o
  <2>6. AnswerTypeOK'
    BY <1>4, <2>3, <2>4, <2>5, AnswersPlain DEF AnswerTypeOK, Results
  <2>7. QueryTold'
    <3>1. Setting(call.cmd)' = Setting(Cmd)  BY <1>2, <1>4, <2>5 DEF Setting
    <3> QED  BY <1>1, <1>2, <2>1, <2>3, <2>5, <3>1 DEF QueryTold
  <2>8. WriteTold' /\ ReadTold'  BY <1>2, <2>5 DEF WriteTold, ReadTold
  <2> QED  BY <1>3, <2>2, <2>6, <2>7, <2>8 DEF ConfigInv, AnswerInv
<1> QED  BY <1>5, <1>6

(* A setting answers without a word on what became of it.                    *)
LEMMA UnfilledAnswer ==
  ASSUME ConfigInv, Serving("ioctl"), Unfilled, taken' = taken
  PROVE  CallInv' /\ AnswerInv'
<1>1. CallInv /\ AnswerTypeOK /\ cpc = "serve" /\ Method = "ioctl"
  BY DEF ConfigInv, AnswerInv, Serving
<1>2. Room \in Nat /\ taken' = 0  BY <1>1, Served DEF CallInv, Asked, UserAsks
<1>3. Answer(ENO_OK, [Empty EXCEPT !.len = Room])  BY DEF Unfilled
<1>4. CallInv'  BY <1>1, <1>3, AnswerKeepsCall
<1>5. AnswerInv'  BY <1>1, <1>2, <1>3, AnswersPlain, PlainAnswer
<1> QED  BY <1>4, <1>5

(* The value of a setting that came whole.                                   *)
LEMMA ValueGiven ==
  ASSUME ConfigInv, Serving("ioctl")
  PROVE  /\ Cmd = "FC_SET_BAUD_RATE" => In.val \in Bauds
         /\ Cmd \in {"FC_SET_PARITY_MODE", "FC_SET_STOP_BIT"} => In.val \in Codes
<1>1. CallInv /\ cpc = "serve" /\ Method = "ioctl"  BY DEF ConfigInv, Serving
<1>2. Cmd = call.cmd /\ In.val = call.val /\ call.val \in IoctlValues(call.cmd)
  BY <1>1, Served DEF CallInv, Asked, UserAsks, Field
<1> QED  BY <1>2 DEF IoctlValues

LEMMA RefusedSafe ==
  ASSUME ConfigInv, ioctl_refused
  PROVE  ConfigInv'
<1>1. RegInv'  BY RegistersKept DEF ConfigInv, ioctl_refused, uartVars
<1>2. CallInv' /\ AnswerInv'  BY UnfilledAnswer DEF ioctl_refused, uartVars
<1> QED  BY <1>1, <1>2 DEF ConfigInv

LEMMA SetBaudSafe ==
  ASSUME ConfigInv, ioctl_set_baud
  PROVE  ConfigInv'
<1>1. CallInv' /\ AnswerInv'  BY UnfilledAnswer DEF ioctl_set_baud
<1>2. RuntimeTypeOK /\ RegTypeOK /\ Agree  BY DEF ConfigInv, RegInv
<1>3. In.val \in Bauds  BY ValueGiven DEF ioctl_set_baud
<1>4. /\ rt' = [rt EXCEPT !.baud = In.val]
      /\ file_flag' = file_flag /\ clocked' = clocked /\ lcr' = lcr
      /\ IF clocked THEN PutDivisor(In.val) ELSE UNCHANGED <<dll, dlh>>
  BY DEF ioctl_set_baud
<1>5. /\ rt'.baud = In.val /\ rt'.parity = rt.parity /\ rt'.data_bits = rt.data_bits
      /\ rt'.stop = rt.stop
  BY <1>2, <1>4 DEF RuntimeTypeOK
<1>6. RuntimeTypeOK'  BY <1>2, <1>3, <1>4, <1>5 DEF RuntimeTypeOK
<1>7. clocked => Divided(dll', dlh', In.val) /\ dll' \in 0..255 /\ dlh' \in 0..255
  BY <1>3, <1>4, DivisorPut
<1>8. RegTypeOK'  BY <1>2, <1>4, <1>7 DEF RegTypeOK
<1>9. Agree'
  <2>1. SUFFICES ASSUME file_flag' # {}
        PROVE  clocked' /\ Framed(lcr, rt)' /\ Divided(dll, dlh, rt.baud)'
    BY DEF Agree
  <2>2. clocked /\ Framed(lcr, rt)  BY <1>2, <1>4, <2>1 DEF Agree
  <2>3. Framed(lcr, rt)'  BY <1>4, <1>5, <2>2 DEF Framed, StopOK
  <2>4. Divided(dll, dlh, rt.baud)'  BY <1>5, <1>7, <2>2 DEF Divided
  <2> QED  BY <1>4, <2>2, <2>3, <2>4
<1> QED  BY <1>1, <1>6, <1>8, <1>9 DEF ConfigInv, RegInv

LEMMA SetParitySafe ==
  ASSUME ConfigInv, ioctl_set_parity
  PROVE  ConfigInv'
<1>1. CallInv' /\ AnswerInv'  BY UnfilledAnswer DEF ioctl_set_parity
<1>2. RuntimeTypeOK /\ RegTypeOK /\ Agree  BY DEF ConfigInv, RegInv
<1> DEFINE new == [rt EXCEPT !.parity = In.val]
<1>3. file_flag' = file_flag /\ clocked' = clocked /\ dll' = dll /\ dlh' = dlh
  BY DEF ioctl_set_parity
<1>4. CASE ~ParityOK(new)
  <2>1. UNCHANGED <<rt, lcr>>  BY <1>4 DEF ioctl_set_parity
  <2>2. RegInv'  BY <1>3, <2>1, RegistersKept DEF ConfigInv, regVars
  <2> QED  BY <1>1, <2>2 DEF ConfigInv
<1>5. CASE ParityOK(new)
  <2>1. rt' = new /\ \E l \in LcrRead : PutLcr(WithParity(l, new))  BY <1>5 DEF ioctl_set_parity
  <2>2. lcr' = IF clocked THEN WithParity(lcr, new) ELSE lcr  BY <2>1 DEF LcrRead, PutLcr
  <2>3. /\ new.baud = rt.baud /\ new.parity = In.val /\ new.data_bits = rt.data_bits
        /\ new.stop = rt.stop
        /\ new \in [baud : Bauds, parity : {In.val}, data_bits : 5..9, stop : Codes]
    BY <1>2 DEF RuntimeTypeOK
  <2>4. new.parity \in {0, 1, 2}  BY <1>5 DEF ParityOK
  <2> DEFINE set == WithParity(lcr, new)
  <2>5. /\ set \in LcrType /\ set.dls = lcr.dls /\ set.stop = lcr.stop
        /\ set.pen = (new.parity # 0) /\ (set.pen => set.eps = (new.parity = 2))
    BY <1>2, <2>4 DEF RegTypeOK, LcrType, WithParity
  <2>6. RuntimeTypeOK'
    <3>1. In.val \in 0..2  BY <2>3, <2>4
    <3> QED  BY <2>1, <2>3, <3>1 DEF RuntimeTypeOK
  <2> HIDE DEF new, set
  <2>7. RegTypeOK'  BY <1>2, <1>3, <2>2, <2>5 DEF RegTypeOK, set
  <2>8. Agree'
    <3>1. SUFFICES ASSUME file_flag' # {}
          PROVE  clocked' /\ Framed(lcr, rt)' /\ Divided(dll, dlh, rt.baud)'
      BY DEF Agree
    <3>2. clocked /\ Framed(lcr, rt) /\ Divided(dll, dlh, rt.baud)  BY <1>2, <1>3, <3>1 DEF Agree
    <3>3. lcr' = set  BY <2>2, <3>2 DEF set
    <3>4. Framed(set, new)  BY <2>3, <2>5, <3>2 DEF Framed, StopOK
    <3> QED  BY <1>3, <2>1, <2>3, <3>2, <3>3, <3>4 DEF Framed, StopOK, Divided
  <2> QED  BY <1>1, <2>6, <2>7, <2>8 DEF ConfigInv, RegInv
<1> QED  BY <1>4, <1>5

LEMMA SetStopSafe ==
  ASSUME ConfigInv, ioctl_set_stop
  PROVE  ConfigInv'
<1>1. CallInv' /\ AnswerInv'  BY UnfilledAnswer DEF ioctl_set_stop
<1>2. RuntimeTypeOK /\ RegTypeOK /\ Agree  BY DEF ConfigInv, RegInv
<1>3. file_flag' = file_flag /\ clocked' = clocked /\ dll' = dll /\ dlh' = dlh
  BY DEF ioctl_set_stop
<1>4. In.val \in Codes  BY ValueGiven DEF ioctl_set_stop
<1>5. rt' = [rt EXCEPT !.stop = In.val]  BY DEF ioctl_set_stop
<1>6. /\ rt'.baud = rt.baud /\ rt'.parity = rt.parity /\ rt'.data_bits = rt.data_bits
      /\ rt'.stop = In.val
  BY <1>2, <1>5 DEF RuntimeTypeOK
<1>7. RuntimeTypeOK'  BY <1>2, <1>4, <1>5, <1>6 DEF RuntimeTypeOK
<1> DEFINE set == WithStop(lcr, rt')
<1>8. lcr' = lcr \/ (clocked /\ lcr' = set)
  BY DEF ioctl_set_stop, LcrRead, PutLcr
<1>9. clocked => lcr' = IF StopOK(lcr, rt') THEN set ELSE lcr
  BY DEF ioctl_set_stop, LcrRead, PutLcr
<1>10. /\ set \in LcrType /\ set.dls = lcr.dls /\ set.pen = lcr.pen /\ set.eps = lcr.eps
       /\ set.stop = (rt'.stop # 0)
  BY <1>2 DEF RegTypeOK, LcrType, WithStop
<1> HIDE DEF set
<1>11. RegTypeOK'  BY <1>2, <1>3, <1>8, <1>10 DEF RegTypeOK
<1>12. Agree'
  <2>1. SUFFICES ASSUME file_flag' # {}
        PROVE  clocked' /\ Framed(lcr, rt)' /\ Divided(dll, dlh, rt.baud)'
    BY DEF Agree
  <2>2. clocked /\ Framed(lcr, rt) /\ Divided(dll, dlh, rt.baud)  BY <1>2, <1>3, <2>1 DEF Agree
  <2>3. CASE StopOK(lcr, rt')
    <3>1. lcr' = set  BY <1>9, <2>2, <2>3
    <3>2. Framed(lcr, rt)'  BY <1>6, <1>10, <2>2, <3>1 DEF Framed
    <3> QED  BY <1>3, <1>6, <2>2, <3>2 DEF Divided
  <2>4. CASE ~StopOK(lcr, rt')
    <3>1. lcr' = lcr  BY <1>9, <2>2, <2>4
    <3>2. Framed(lcr, rt)'  BY <1>6, <2>2, <2>4, <3>1 DEF Framed, StopOK
    <3> QED  BY <1>3, <1>6, <2>2, <3>2 DEF Divided
  <2> QED  BY <2>3, <2>4
<1> QED  BY <1>1, <1>7, <1>11, <1>12 DEF ConfigInv, RegInv

(***************************************************************************)
(* The steps outside the handlers, and the invariant.                      *)
(***************************************************************************)
LEMMA CallStepsSafe ==
  ASSUME ConfigInv, UserCall \/ ((Send \/ ParseCall \/ Reply) /\ UNCHANGED uartVars)
  PROVE  ConfigInv'
<1>1. CallInv /\ AnswerInv /\ RegInv  BY DEF ConfigInv
<1>2. UNCHANGED uartVars  BY DEF UserCall
<1>3. RegInv'  BY <1>1, <1>2, RegistersKept DEF uartVars
<1>4. CallInv'
  BY <1>1, <1>2, UserCallKeepsCall, SendKeepsCall, ParseKeepsCall, ReplyKeepsCall
<1>5. CASE UserCall \/ Send
  <2>1. cpc' \in {"send", "parse"} /\ res' = res /\ out' = out /\ taken' = taken
    BY <1>2, <1>5 DEF UserCall, Package, Send, uartVars
  <2> QED  BY <1>1, <1>3, <1>4, <2>1 DEF ConfigInv, AnswerInv, AnswerTypeOK
<1>6. CASE ParseCall
  <2>1. cpc = "parse" /\ out' = out /\ call' = call /\ taken' = taken
    BY <1>2, <1>6 DEF ParseCall, uartVars
  <2>2. taken = 0 /\ out = Empty  BY <1>1, <2>1 DEF CallInv, Unanswered
  <2>3. (cpc' = "serve" /\ res' = res) \/ (cpc' = "reply" /\ res' = ENO_SYSCALL_ERR)
    BY <1>6 DEF ParseCall
  <2>4. ENO_SYSCALL_ERR \in Results /\ ~(ENO_SYSCALL_ERR > 0) /\ Empty.fill = 0
    BY AnswersPlain DEF Results, ENO_SYSCALL_ERR
  <2>5. AnswerTypeOK'  BY <1>1, <2>1, <2>3, <2>4 DEF AnswerInv, AnswerTypeOK
  <2>6. cpc' = "reply" => WriteTold' /\ ReadTold' /\ QueryTold'
    <3>1. SUFFICES ASSUME cpc' = "reply"  PROVE WriteTold' /\ ReadTold' /\ QueryTold'  OBVIOUS
    <3>2. ~(res' > 0)  BY <2>3, <2>4, <3>1
    <3>3. taken' = 0 /\ out'.fill = 0  BY <2>1, <2>2, <2>4
    <3> QED  BY <3>2, <3>3 DEF WriteTold, ReadTold, QueryTold
  <2> QED  BY <1>3, <1>4, <2>3, <2>5, <2>6 DEF ConfigInv, AnswerInv
<1>7. CASE Reply
  <2>1. cpc = "reply" /\ out' = out /\ call' = call /\ taken' = taken /\ res' = res /\ rt' = rt
    BY <1>2, <1>7 DEF Reply, uartVars
  <2>2. AnswerTypeOK'  BY <1>1, <2>1 DEF AnswerInv, AnswerTypeOK
  <2>3. WriteTold' /\ ReadTold' /\ QueryTold'
    BY <1>1, <2>1 DEF AnswerInv, WriteTold, ReadTold, QueryTold, Setting
  <2> QED  BY <1>3, <1>4, <2>2, <2>3 DEF ConfigInv, AnswerInv
<1> QED  BY <1>5, <1>6, <1>7

LEMMA ReturnSafe ==
  ASSUME ConfigInv, Return, taken' = 0, UNCHANGED <<rt, file_flag, clocked, regVars>>
  PROVE  ConfigInv'
<1>1. CallInv'  BY ReturnKeepsCall DEF ConfigInv
<1>2. RegInv'  BY RegistersKept DEF ConfigInv
<1>3. AnswerInv'  BY AnswersPlain DEF Return, AnswerInv, AnswerTypeOK, Results
<1> QED  BY <1>1, <1>2, <1>3 DEF ConfigInv

LEMMA StutterSafe ==
  ASSUME ConfigInv, UNCHANGED vars
  PROVE  ConfigInv'
<1>1. UNCHANGED callVars /\ UNCHANGED uartVars  BY DEF vars
<1>2. RegInv'  BY <1>1, RegistersKept DEF ConfigInv, uartVars
<1>3. CallInv'
  BY <1>1 DEF ConfigInv, CallInv, Asked, Sent, Parsed, Unanswered, Handed, callVars, uartVars
<1>4. AnswerInv'
  BY <1>1 DEF ConfigInv, AnswerInv, AnswerTypeOK, WriteTold, ReadTold, QueryTold, Setting,
              callVars, uartVars
<1> QED  BY <1>2, <1>3, <1>4 DEF ConfigInv

LEMMA InitSafe == Init => ConfigInv
<1> SUFFICES ASSUME Init  PROVE ConfigInv  OBVIOUS
<1>1. CallInv
  <2>1. 0 \in 0..(LenMod - 1)  BY CallAssumption
  <2> QED  BY <2>1 DEF Init, CallInit, CallInv, Asked, Sent, Parsed, Unanswered, Handed
<1>2. AnswerInv  BY AnswersPlain DEF Init, CallInit, AnswerInv, AnswerTypeOK, Results
<1>3. RegTypeOK
  <2>1. ResetLcr \in LcrType  BY DEF LcrType, ResetLcr
  <2>2. file_flag = {} /\ clocked = FALSE /\ lcr = ResetLcr /\ dll = 0 /\ dlh = 0  BY DEF Init
  <2>3. clocked \in BOOLEAN  BY <2>2
  <2>4. file_flag \subseteq Flags /\ dll \in 0..255 /\ dlh \in 0..255  BY <2>2
  <2> QED  BY <2>1, <2>2, <2>3, <2>4 DEF RegTypeOK
<1>4. Agree  BY DEF Init, Agree
<1>5. RuntimeTypeOK
  <2>1. rt \in [baud : Bauds, parity : {0, 1, 2}, data_bits : {5, 8, 9}, stop : Codes]
    BY DEF Init, load_device_runtime
  <2>2. /\ rt.baud \in Bauds /\ rt.parity \in 0..2 /\ rt.data_bits \in 5..9 /\ rt.stop \in Codes
        /\ rt = [baud |-> rt.baud, parity |-> rt.parity, data_bits |-> rt.data_bits, stop |-> rt.stop]
    BY <2>1
  <2> QED  BY <2>2 DEF RuntimeTypeOK
<1> QED  BY <1>1, <1>2, <1>3, <1>4, <1>5 DEF ConfigInv, RegInv

LEMMA ConfigInvariant == Spec => []ConfigInv
<1>1. ConfigInv /\ [Next]_vars => ConfigInv'
  <2> SUFFICES ASSUME ConfigInv, [Next]_vars  PROVE ConfigInv'  OBVIOUS
  <2>1. CASE UserCall  BY <2>1, CallStepsSafe
  <2>2. CASE Step
    <3>1. CASE CallStep /\ UNCHANGED uartVars
      BY <3>1, CallStepsSafe, NotListedSafe DEF CallStep
    <3>2. CASE Return /\ taken' = 0 /\ UNCHANGED <<rt, file_flag, clocked, regVars>>
      BY <3>2, ReturnSafe
    <3> QED  BY <2>2, <3>1, <3>2 DEF Step
  <2>3. CASE Handle
    BY <2>3, OpenBusySafe, OpenSafe, CloseSafe, WriteSafe, ReadSafe, QuerySafe, RefusedSafe,
       SetBaudSafe, SetParitySafe, SetStopSafe DEF Handle
  <2>4. CASE UNCHANGED vars  BY <2>4, StutterSafe
  <2> QED  BY <2>1, <2>2, <2>3, <2>4 DEF Next
<1> QED  BY InitSafe, <1>1, PTL DEF Spec

(***************************************************************************)
(* The theorems.                                                           *)
(***************************************************************************)
(* Every variable keeps its type; the divisor's halves are bytes, and no     *)
(* answer exceeds the user's buffer, however its size was cut on the way.    *)
THEOREM ConfigTypes == Spec => []ConfigTypeOK
<1>1. ConfigInv => ConfigTypeOK
  <2> SUFFICES ASSUME ConfigInv  PROVE ConfigTypeOK  OBVIOUS
  <2>1. CallInv /\ AnswerTypeOK /\ RuntimeTypeOK /\ RegTypeOK
    BY DEF ConfigInv, AnswerInv, RegInv
  <2>2. rxlen \in 0..(LenMod - 1)
    <3>1. 0 \in 0..(LenMod - 1)  BY CallAssumption
    <3>2. cpc # "idle" => RoomAnnounced(call) \in 0..(LenMod - 1)
      BY <2>1, AnnouncedFits DEF CallInv, Asked
    <3> QED  BY <2>1, <3>1, <3>2 DEF CallInv, Sent
  <2>3. got.fill <= got.len /\ got.len <= call.room
    <3>1. CASE cpc = "back"
      <4>1. UserAsks(call) /\ Returned(call, out, got)  BY <2>1, <3>1 DEF CallInv, Asked, Handed
      <4> DEFINE room == RoomAnnounced(call)
      <4>2. room \in Nat /\ room <= call.room /\ call.room \in Nat
        BY <4>1, AnnouncedFits, CallAssumption DEF UserAsks
      <4>3. got.len = SmallerOf(out.len, room) /\ got.fill = SmallerOf(out.fill, room)
        BY <4>1 DEF Returned
      <4> HIDE DEF room
      <4> QED  BY <2>1, <4>2, <4>3 DEF AnswerTypeOK, SmallerOf
    <3>2. CASE cpc = "idle"
      BY <2>1, <3>2 DEF CallInv, Handed, Empty, NoCall, Call
    <3>3. CASE cpc \notin {"idle", "back"}
      BY <2>1, <3>3 DEF CallInv, Asked, UserAsks, Handed, Empty
    <3> QED  BY <3>1, <3>2, <3>3
  <2>4. res \in ENO_NOMEM..ENO_OK \/ res \in Nat  BY <2>1 DEF AnswerTypeOK, Results
  <2> QED
    BY <2>1, <2>2, <2>3, <2>4
    DEF ConfigTypeOK, CallInv, Sent, AnswerTypeOK, RuntimeTypeOK, RegTypeOK, LcrType
<1> QED  BY <1>1, ConfigInvariant, PTL

(* A write is all or nothing, for data of any length and wherever the cut to *)
(* 16 bits falls, and its answer says which.                                 *)
THEOREM WritesAreWhole == Spec => []WriteIsWhole
<1>1. ConfigInv => WriteIsWhole
  BY DEF ConfigInv, AnswerInv, WriteTold, WriteIsWhole
<1> QED  BY <1>1, ConfigInvariant, PTL

(* A read into a buffer shorter than the channel's limit hands over every    *)
(* byte it took, whatever was queued.                                        *)
THEOREM ReadsAreWhole == Spec => []ReadIsWhole
<1>1. ConfigInv => ReadIsWhole
  <2> SUFFICES ASSUME ConfigInv, cpc = "back", call.method = "read", call.room < LenMod, res > 0
      PROVE  res = got.fill /\ res <= call.room
    BY DEF ReadIsWhole
  <2>1. UserAsks(call) /\ Returned(call, out, got) /\ res = out.fill /\ res <= call.room
    BY DEF ConfigInv, CallInv, Asked, Handed, AnswerInv, ReadTold
  <2>2. RoomAnnounced(call) = call.room
    <3>1. call.room \in Nat /\ LenMod \in Nat /\ LenMod > 0  BY <2>1, CallAssumption DEF UserAsks
    <3>2. call.room % LenMod = call.room  BY <3>1
    <3> QED  BY <3>2 DEF RoomAnnounced
  <2>3. got.fill = SmallerOf(out.fill, call.room)  BY <2>1, <2>2 DEF Returned
  <2>4. out.fill \in Nat /\ call.room \in Nat
    BY <2>1 DEF ConfigInv, AnswerInv, AnswerTypeOK, UserAsks
  <2> QED  BY <2>1, <2>3, <2>4 DEF SmallerOf
<1> QED  BY <1>1, ConfigInvariant, PTL

(* While the device is open, frame and divisor are what the runtime says,    *)
(* for any clock, rates and codes, but for the code's two gaps.              *)
THEOREM RegistersAgree == Spec => []RegistersFollowRuntime
<1>1. ConfigInv => RegistersFollowRuntime
  <2> SUFFICES ASSUME ConfigInv, file_flag # {}
      PROVE  /\ Framed(lcr, rt)
             /\ Divisor(rt.baud) < 256 => dll + 256 * dlh = Divisor(rt.baud)
    BY DEF RegistersFollowRuntime, Framed
  <2>1. Framed(lcr, rt) /\ Divided(dll, dlh, rt.baud) /\ rt.baud \in Bauds
    BY DEF ConfigInv, RegInv, Agree, RuntimeTypeOK
  <2>2. ASSUME Divisor(rt.baud) < 256  PROVE dll = Divisor(rt.baud) /\ dlh = 0
    BY <2>1, <2>2, DivisorBytes, OneByte DEF Divided
  <2>3. Divisor(rt.baud) \in Nat  BY <2>1, DivisorBytes
  <2> QED  BY <2>1, <2>2, <2>3
<1> QED  BY <1>1, ConfigInvariant, PTL

(* What a query of parity or rate hands out is what the open device works    *)
(* with.                                                                     *)
THEOREM QueriesAgree == Spec => []QueriesTell
<1>1. ConfigInv => QueriesTell
  <2> SUFFICES ASSUME ConfigInv, cpc = "back", call.method = "ioctl", got.fill > 0, file_flag # {}
      PROVE  /\ call.dev \in Listed
             /\ call.cmd = "FC_GET_PARITY_MODE" =>
                  got.val = IF ~lcr.pen THEN 0 ELSE IF lcr.eps THEN 2 ELSE 1
             /\ call.cmd = "FC_GET_BAUD_RATE" /\ got.fill = Word /\ Divisor(got.val) < 256 =>
                  Divisor(got.val) = dll
    BY DEF QueriesTell
  <2>1. /\ UserAsks(call) /\ Returned(call, out, got) /\ QueryTold /\ AnswerTypeOK
        /\ Framed(lcr, rt) /\ Divided(dll, dlh, rt.baud) /\ RuntimeTypeOK /\ RegTypeOK
    BY DEF ConfigInv, CallInv, Asked, Handed, AnswerInv, RegInv, Agree
  <2> DEFINE room == RoomAnnounced(call)
  <2>2. /\ got.fill = SmallerOf(out.fill, room)
        /\ got.val = IF out.fill <= room THEN out.val ELSE Junk
    BY <2>1 DEF Returned
  <2>3. room \in Nat /\ out.fill \in Nat  BY <2>1, AnnouncedFits, CallAssumption DEF AnswerTypeOK
  <2> HIDE DEF room
  <2>4. out.fill > 0  BY <2>2, <2>3 DEF SmallerOf
  <2>5. /\ call.dev \in Listed /\ call.cmd \in Queries
        /\ out.fill = WidthOf(call.cmd) /\ out.val = Setting(call.cmd)
    BY <2>1, <2>4 DEF QueryTold
  <2>6. ASSUME call.cmd = "FC_GET_PARITY_MODE"
        PROVE  got.val = IF ~lcr.pen THEN 0 ELSE IF lcr.eps THEN 2 ELSE 1
    <3>1. out.fill = 1 /\ out.val = rt.parity  BY <2>5, <2>6 DEF WidthOf, Setting
    <3>2. got.val = rt.parity  BY <2>2, <2>3, <3>1 DEF SmallerOf
    <3>3. rt.parity \in {0, 1, 2}  BY <2>1 DEF RuntimeTypeOK
    <3>4. (lcr.pen <=> rt.parity # 0) /\ (lcr.pen => (lcr.eps <=> rt.parity = 2))
      BY <2>1 DEF Framed, RegTypeOK, LcrType
    <3> QED  BY <3>2, <3>3, <3>4
  <2>7. ASSUME call.cmd = "FC_GET_BAUD_RATE", got.fill = Word, Divisor(got.val) < 256
        PROVE  Divisor(got.val) = dll
    <3>1. out.fill = Word /\ out.val = rt.baud  BY <2>5, <2>7 DEF WidthOf, Setting
    <3>2. got.val = rt.baud  BY <2>2, <2>3, <2>7, <3>1 DEF SmallerOf
    <3>3. rt.baud \in Bauds  BY <2>1 DEF RuntimeTypeOK
    <3> QED  BY <2>1, <2>7, <3>2, <3>3, DivisorBytes, OneByte DEF Divided
  <2> QED  BY <2>5, <2>6, <2>7
<1> QED  BY <1>1, ConfigInvariant, PTL
=============================================================================
