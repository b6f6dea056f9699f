---------------------------- MODULE ByteChannel ----------------------------
(* What one direction of a serial line promises: the bytes come out as they  *)
(* went in, each once and in order.  The n-th byte that goes in is called n. *)
EXTENDS Naturals, Sequences

VARIABLES sent,  \* how many bytes went in
          got    \* the bytes that came out

ByteInit == sent = 0 /\ got = <<>>

Send == sent' = sent + 1 /\ got' = got

Deliver ==
  /\ Len(got) < sent
  /\ got' = Append(got, Len(got) + 1)
  /\ sent' = sent

ByteSpec == ByteInit /\ [][Send \/ Deliver]_<<sent, got>>
=============================================================================
