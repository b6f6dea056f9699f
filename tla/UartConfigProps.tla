-------------------------- MODULE UartConfigProps --------------------------
(* What UartConfig.tla is checked for. *)
EXTENDS UartConfig

(***************************************************************************)
(* Every variable holds a value of its type; the divisor's halves are      *)
(* bytes, and the answer never exceeds the buffer the user has.            *)
(***************************************************************************)
ConfigTypeOK ==
  /\ rt \in [baud : Bauds, parity : Codes \cup 0..2, data_bits : 5..9, stop : Codes]
  /\ file_flag \subseteq Flags
  /\ clocked \in BOOLEAN
  /\ lcr \in [pen : BOOLEAN, eps : BOOLEAN, stop : BOOLEAN, dls : 0..3]
  /\ {dll, dlh} \subseteq 0..255
  /\ taken \in Nat
  /\ cpc \in {"idle", "send", "parse", "serve", "reply", "back"}
  /\ {txlen, rxlen} \subseteq 0..(LenMod - 1)
  /\ res \in ENO_NOMEM..ENO_OK \/ res \in Nat
  /\ got.fill <= got.len /\ got.len <= call.room

(* write is all or nothing and its answer says which: a message that the    *)
(* 16-bit length has cut, at any place, is refused or reaches the driver    *)
(* without a byte, and never with fewer bytes than the answer claims.       *)
WriteIsWhole ==
  cpc = "back" /\ call.method = "write" =>
    /\ taken \in {0, call.in_len}
    /\ res > 0 => res = taken
    /\ taken > 0 => res = taken

(* A read into a buffer shorter than the channel's limit hands over every   *)
(* byte it took from the queue, in a buffer they fit.                       *)
ReadIsWhole ==
  cpc = "back" /\ call.method = "read" /\ call.room < LenMod /\ res > 0 =>
    res = got.fill /\ res <= call.room

(* While the device is open, the registers are what the runtime says, after *)
(* settings that were cut, refused or made while it was closed, and after   *)
(* opens that failed.  Two gaps are the code's: stop bits that were refused *)
(* stay in the runtime, and a divisor above 255 may lose its high byte.     *)
RegistersFollowRuntime ==
  file_flag # {} =>
    /\ lcr.dls = rt.data_bits - 5
    /\ lcr.pen = (rt.parity # 0)
    /\ lcr.pen => lcr.eps = (rt.parity = 2)
    /\ StopOK(lcr, rt) => lcr.stop = (rt.stop # 0)
    /\ Divisor(rt.baud) < 256 => dll + 256 * dlh = Divisor(rt.baud)

(* What a query hands the user of an open device is the parity on the line  *)
(* and the rate of the divisor; a query without room hands over nothing.  A *)
(* buffer of 2^16 bytes or a little more is announced as one of a byte or   *)
(* two, and the rate arrives cut.                                           *)
QueriesTell ==
  cpc = "back" /\ call.method = "ioctl" /\ got.fill > 0 /\ file_flag # {} =>
    /\ call.dev \in Listed
    /\ call.cmd = "FC_GET_PARITY_MODE" =>
         got.val = IF ~lcr.pen THEN 0 ELSE IF lcr.eps THEN 2 ELSE 1
    /\ call.cmd = "FC_GET_BAUD_RATE" /\ got.fill = Word /\ Divisor(got.val) < 256 =>
         Divisor(got.val) = dll
=============================================================================
