----------------------------- MODULE DeviceCall -----------------------------
(* A device call with its data: the stubs of driver-dummy.hxx pack it,       *)
(* rcall_client::_call cuts the lengths to 16 bits, syscall_ipc_handler_cb   *)
(* and call_fn_from_buffer parse it, and the answer goes back.  A buffer is  *)
(* its length in bytes and, where it matters, its first word.                *)
EXTENDS Integers, Sequences

CONSTANTS Word,       \* sizeof(size_t), sizeof(int)
          LenMod,     \* lengths on the channel are cut to u16: 2^16
          Lengths,    \* lengths of what users write
          Rooms,      \* sizes of the buffers they read into
          Listed,     \* devices the driver has
          Unlisted    \* device ids it does not have

(* A message without data is not cut.  One that is cut to less than its      *)
(* first word is left out: what rpc hands over then is not known.            *)
ASSUME CallAssumption ==
  /\ Word \in Nat \ {0} /\ LenMod \in Nat /\ 3 * Word < LenMod
  /\ Lengths \subseteq Nat /\ Rooms \subseteq Nat
  /\ \A n \in Lengths, words \in 3..5 : (words * Word + n) % LenMod >= Word

VARIABLES cpc,    \* where the call is
          call,   \* what the user asked for
          packed, \* the message of the stub
          txlen, rxlen,
          args,   \* the handler's arguments
          out,    \* reply_buf: its size, how much of it was filled, and with what
          res,    \* the answer
          got     \* the bytes of out that reached the user's buffer, and their value

callVars == <<cpc, call, packed, txlen, rxlen, args, out, res, got>>

ENO_OK == 0
ENO_INVALID == -1
ENO_BUSY == -3
ENO_NOTEXIST == -4
ENO_SYSCALL_ERR == -6
ENO_NOMEM == -7

Junk == -1  \* what a buffer that nobody filled holds
Empty == [len |-> 0, fill |-> 0, val |-> Junk]

Call(m, d, cmd, v, in_len, room) ==
  [method |-> m, dev |-> d, cmd |-> cmd, val |-> v, in_len |-> in_len, room |-> room]
NoCall == Call("none", 0, "none", 0, 0, 0)

CallInit ==
  /\ cpc = "idle"
  /\ call = NoCall
  /\ packed = <<>>
  /\ txlen = 0
  /\ rxlen = 0
  /\ args = <<>>
  /\ out = Empty
  /\ res = ENO_OK
  /\ got = Empty

(***************************************************************************)
(* Packing.                                                                *)
(***************************************************************************)
Field(n, v) == [len |-> n, val |-> v]
WordOf(v) == Field(Word, v)
Buffer(c) == <<WordOf(c.in_len), Field(c.in_len, c.val)>>

(* The stubs; transfer asks for close. *)
Stub(c) ==
  CASE c.method = "open"     -> <<WordOf("open"), WordOf(c.dev), WordOf(c.cmd)>>
    [] c.method = "write"    -> <<WordOf("write"), WordOf(c.dev)>> \o Buffer(c)
    [] c.method = "read"     -> <<WordOf("read"), WordOf(c.dev), WordOf(c.room)>>
    [] c.method = "ioctl"    -> <<WordOf("ioctl"), WordOf(c.dev), WordOf(c.cmd)>>
                                \o Buffer(c) \o <<WordOf(c.room)>>
    [] c.method = "transfer" -> <<WordOf("close"), WordOf(c.dev)>>
                                \o Buffer(c) \o <<WordOf(c.room)>>
    [] c.method = "close"    -> <<WordOf("close"), WordOf(c.dev)>>

Size(m) ==
  LET upto[i \in 0..Len(m)] == IF i = 0 THEN 0 ELSE upto[i - 1] + m[i].len
  IN upto[Len(m)]

Package(c) ==
  /\ call' = c
  /\ packed' = Stub(c)
  /\ cpc' = "send"
  /\ UNCHANGED <<txlen, rxlen, args, out, res, got>>

(* Only read, ioctl and transfer hand a buffer to receive into.              *)
Send ==
  /\ cpc = "send"
  /\ txlen' = Size(packed) % LenMod
  /\ rxlen' = IF call.method \in {"read", "ioctl", "transfer"} THEN call.room % LenMod ELSE 0
  /\ cpc' = "parse"
  /\ UNCHANGED <<call, packed, args, out, res, got>>

(***************************************************************************)
(* Parsing.  A cursor is what is left of the message, how many bytes of it *)
(* the receiver has, and the arguments so far.                             *)
(***************************************************************************)
SmallerOf(m, n) == IF m < n THEN m ELSE n

ParseWord(c) ==
  IF c.len < Word
  THEN [c EXCEPT !.ok = FALSE]
  ELSE [c EXCEPT !.rest = Tail(c.rest), !.len = c.len - Word,
                 !.args = Append(c.args, Head(c.rest))]

(* Faulty variant: a buffer that was cut is handed over as far as it came.   *)
ParseBufferCut(c) ==
  LET counted == ParseWord(c)
      came == SmallerOf(Head(c.rest).val, counted.len)
  IN IF ~counted.ok
     THEN [c EXCEPT !.args = Append(c.args, Field(0, Junk))]
     ELSE [counted EXCEPT !.rest = Tail(counted.rest), !.len = counted.len - came,
                          !.args = Append(c.args, Field(came, Head(counted.rest).val))]

(* A missing count is taken for 0, and the parse goes on. *)
ParseBuffer(c) ==
  LET counted == ParseWord(c)
      at == IF counted.ok THEN counted ELSE c
  IN IF ~counted.ok
     THEN [c EXCEPT !.args = Append(c.args, Field(0, Junk))]
     ELSE IF at.len < Head(c.rest).val
     THEN [at EXCEPT !.ok = FALSE]
     ELSE [at EXCEPT !.rest = Tail(at.rest), !.len = at.len - Head(c.rest).val,
                     !.args = Append(c.args, Head(at.rest))]

ParseNext(type, c) ==
  IF ~c.ok THEN c ELSE IF type = "buffer" THEN ParseBuffer(c) ELSE ParseWord(c)

do_parse(signature, m, len) ==
  LET after[i \in 0..Len(signature)] ==
        IF i = 0 THEN [rest |-> m, len |-> len, ok |-> TRUE, args |-> <<>>]
        ELSE ParseNext(signature[i], after[i - 1])
  IN after[Len(signature)]

(* The types of the handlers' parameters; "msg" is a buffer for the answer,  *)
(* of which its size is sent.                                                *)
Signature(method) ==
  CASE method = "close" -> <<"int">>
    [] method = "open"  -> <<"int", "int">>
    [] method = "write" -> <<"int", "buffer">>
    [] method = "read"  -> <<"int", "msg">>
    [] method = "ioctl" -> <<"int", "int", "buffer", "msg">>

Method == Head(packed).val

(* The hash is taken off and the handler's arguments are parsed.  For a      *)
(* handler of one int a failure would go unnoticed, and the handler be       *)
(* called for device 0; the messages to it, of close and transfer, keep two  *)
(* words by CallAssumption.                                                  *)
ParseCall ==
  /\ cpc = "parse"
  /\ LET parsed == do_parse(Signature(Method), Tail(packed), txlen - Word)
     IN IF parsed.ok
        THEN args' = parsed.args /\ cpc' = "serve" /\ UNCHANGED res
        ELSE res' = ENO_SYSCALL_ERR /\ cpc' = "reply" /\ UNCHANGED args
  /\ UNCHANGED <<call, packed, txlen, rxlen, out, got>>

(* The device a handler is called for, and the size of its msg. *)
Dev == args[1].val
Room == args[Len(args)].val

(* A handler ends: its result and reply_buf. *)
Answer(r, o) ==
  /\ res' = r
  /\ out' = o
  /\ cpc' = "reply"
  /\ UNCHANGED <<call, packed, txlen, rxlen, args, got>>

(* get_device finds nothing; the msg goes back as new made it. *)
NotListed ==
  /\ cpc = "serve"
  /\ Dev \notin Listed
  /\ Answer(ENO_NOTEXIST,
            IF Method \in {"read", "ioctl"} THEN [Empty EXCEPT !.len = Room] ELSE Empty)

(* rpc_reply_data, or rpc_reply; the client takes at most rxlen bytes.       *)
Reply ==
  /\ cpc = "reply"
  /\ got' = [len |-> SmallerOf(out.len, rxlen), fill |-> SmallerOf(out.fill, rxlen),
             val |-> IF out.fill <= rxlen THEN out.val ELSE Junk]
  /\ cpc' = "back"
  /\ UNCHANGED <<call, packed, txlen, rxlen, args, out, res>>

CallStep == Send \/ ParseCall \/ NotListed \/ Reply

(* The stub returns, and its locals are gone. *)
Return ==
  /\ cpc = "back"
  /\ cpc' = "idle"
  /\ call' = NoCall
  /\ packed' = <<>>
  /\ txlen' = 0
  /\ rxlen' = 0
  /\ args' = <<>>
  /\ out' = Empty
  /\ res' = ENO_OK
  /\ got' = Empty
=============================================================================
