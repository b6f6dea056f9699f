----------------------------- MODULE UartConfig -----------------------------
(* The settings of a UART: what the class driver (drivers/uart.cxx) keeps in *)
(* the runtime, and what sunxi-uart.cxx has put into LCR and the divisor, as *)
(* calls with data (DeviceCall.tla) change them.  UartClass.tla has the      *)
(* threads and the bytes.                                                    *)
EXTENDS DeviceCall

CONSTANTS Clock,    \* APB2_freq / 16
          Bauds,    \* rates that users and devices ask for
          Codes,    \* values they give for parity and stop bits
          Queued    \* how many received bytes a read may find

(* A rate of 0 is left out: the division by it is undefined.                 *)
ASSUME ConfigAssumption ==
  /\ Clock \in Nat
  /\ Bauds \subseteq Nat \ {0}
  /\ Codes \subseteq 0..255
  /\ Queued \subseteq Nat

VARIABLES rt,        \* the runtime's baudrate, parity, data_bits, stop_bits
          file_flag, \* the runtime's file_flag
          clocked,   \* the gate is open
          lcr,       \* LCR: PEN, EPS, STOP and DLS
          dll, dlh,  \* the divisor's bytes
          taken      \* bytes that write_ pushed in this call

regVars == <<lcr, dll, dlh>>
uartVars == <<rt, file_flag, clocked, regVars, taken>>
vars == <<callVars, uartVars>>

Flags == {"R", "W"}
ResetLcr == [pen |-> FALSE, eps |-> FALSE, stop |-> FALSE, dls |-> 0]

(* bind_ has loaded the runtime; the device is closed. *)
load_device_runtime ==
  rt \in [baud : Bauds, parity : {0, 1, 2}, data_bits : {5, 8, 9}, stop : Codes]

Init ==
  /\ load_device_runtime
  /\ file_flag = {}
  /\ clocked = FALSE
  /\ lcr = ResetLcr
  /\ dll = 0
  /\ dlh = 0
  /\ taken = 0
  /\ CallInit

(***************************************************************************)
(* api_config_*, as functions of LCR and of the runtime.                   *)
(***************************************************************************)
ParityOK(r) == r.parity \in {0, 1, 2}
WithParity(l, r) ==
  IF r.parity = 0 THEN [l EXCEPT !.pen = FALSE]
  ELSE [l EXCEPT !.pen = TRUE, !.eps = (r.parity = 2)]

(* 1.5 bits go with five data bits, 2 with more. *)
StopOK(l, r) == r.stop = 0 \/ (r.stop = 1 /\ l.dls = 0) \/ (r.stop = 2 /\ l.dls # 0)
WithStop(l, r) == [l EXCEPT !.stop = (r.stop # 0)]

DataBitsOK(r) == r.data_bits \in 5..8
WithDataBits(l, r) == IF DataBitsOK(r) THEN [l EXCEPT !.dls = r.data_bits - 5] ELSE l

(* Faulty variant: the quotient is not cut. *)
DivisorUncut(baud) == Clock \div baud

Divisor(baud) == (Clock \div baud) % 65536

(* api_config_baud_rate.  DLH gets the divisor shifted left by -8, which is  *)
(* undefined: a build shifts right by 8, or everything out.                  *)
PutDivisor(baud) ==
  /\ dll' = Divisor(baud) % 256
  /\ dlh' \in {Divisor(baud) \div 256, 0}

(* A closed gate: writes do not arrive and DLS reads as anything.            *)
LcrRead == IF clocked THEN {lcr} ELSE [pen : {FALSE}, eps : {FALSE}, stop : {FALSE}, dls : 0..3]
PutLcr(l) == lcr' = IF clocked THEN l ELSE lcr

(***************************************************************************)
(* The handlers, for a device the driver has.                              *)
(***************************************************************************)
Serving(m) == cpc = "serve" /\ Dev \in Listed /\ Method = m

OpenBusy ==
  /\ Serving("open")
  /\ file_flag # {}
  /\ Answer(ENO_BUSY, Empty)
  /\ UNCHANGED uartVars

(* open_ and api_setup: the device is reset, then data bits, parity, stop    *)
(* bits and baud rate are set; the first that is refused ends it.            *)
open_ ==
  /\ Serving("open")
  /\ file_flag = {}
  /\ clocked' = TRUE
  /\ LET data == WithDataBits(ResetLcr, rt)
         parity == WithParity(data, rt)
     IN IF DataBitsOK(rt) /\ ParityOK(rt) /\ StopOK(parity, rt)
        THEN /\ lcr' = WithStop(parity, rt)
             /\ PutDivisor(rt.baud)
             /\ file_flag' = args[2].val
             /\ Answer(ENO_OK, Empty)
        ELSE /\ lcr' = IF DataBitsOK(rt) /\ ParityOK(rt) THEN parity ELSE data
             /\ dll' = 0
             /\ dlh' = 0
             /\ UNCHANGED file_flag
             /\ Answer(ENO_INVALID, Empty)
  /\ UNCHANGED <<rt, taken>>

close_ ==
  /\ Serving("close")
  /\ file_flag' = {}
  /\ Answer(ENO_OK, Empty)
  /\ UNCHANGED <<rt, clocked, regVars, taken>>

write_ ==
  /\ Serving("write")
  /\ IF "W" \in file_flag
     THEN taken' = args[2].len /\ Answer(args[2].len, Empty)
     ELSE UNCHANGED taken /\ Answer(ENO_INVALID, Empty)
  /\ UNCHANGED <<rt, file_flag, clocked, regVars>>

(* Faulty variant: the comparison is the wrong way round. *)
ReadCountLarger(queued) == IF queued > Room THEN queued ELSE Room

ReadCount(queued) == IF queued > Room THEN Room ELSE queued

read_ ==
  /\ Serving("read")
  /\ IF "R" \in file_flag
     THEN \E queued \in Queued :
            Answer(ReadCount(queued),
                   [len |-> Room, fill |-> ReadCount(queued), val |-> "bytes"])
     ELSE Answer(ENO_INVALID, [Empty EXCEPT !.len = Room])
  /\ UNCHANGED uartVars

(***************************************************************************)
(* ioctl_: whatever happens, its answer is ENO_OK.                         *)
(***************************************************************************)
Cmd == args[2].val
In == args[3]

Queries == {"FC_GET_BAUD_RATE", "FC_GET_PARITY_MODE", "FC_GET_STOP_BIT"}
WidthOf(cmd) == IF cmd \in {"FC_GET_BAUD_RATE", "FC_SET_BAUD_RATE"} THEN Word ELSE 1

(* Faulty variant: a query of the parity reads the stop bits. *)
SettingMixedUp(cmd) ==
  CASE cmd = "FC_GET_BAUD_RATE" -> rt.baud
    [] cmd = "FC_GET_PARITY_MODE" -> rt.stop
    [] cmd = "FC_GET_STOP_BIT" -> rt.stop

Setting(cmd) ==
  CASE cmd = "FC_GET_BAUD_RATE" -> rt.baud
    [] cmd = "FC_GET_PARITY_MODE" -> rt.parity
    [] cmd = "FC_GET_STOP_BIT" -> rt.stop

(* ioctl_helper_get_param; without room out_len stays what it was. *)
ioctl_get ==
  /\ Serving("ioctl")
  /\ Cmd \in Queries
  /\ Answer(ENO_OK,
            IF Room < WidthOf(Cmd) THEN [Empty EXCEPT !.len = Room]
            ELSE [len |-> WidthOf(Cmd), fill |-> WidthOf(Cmd), val |-> Setting(Cmd)])
  /\ UNCHANGED uartVars

(* A setting, or a command nobody knows, leaves out_len and the msg alone.   *)
Unfilled == Answer(ENO_OK, [Empty EXCEPT !.len = Room])

(* ioctl_helper_set_param *)
Given == WidthOf(Cmd) <= In.len

ioctl_refused ==
  /\ Serving("ioctl")
  /\ Cmd \notin Queries
  /\ Cmd \in {"FC_SET_BAUD_RATE", "FC_SET_PARITY_MODE", "FC_SET_STOP_BIT"} => ~Given
  /\ Unfilled
  /\ UNCHANGED uartVars

ioctl_set_baud ==
  /\ Serving("ioctl")
  /\ Cmd = "FC_SET_BAUD_RATE"
  /\ Given
  /\ rt' = [rt EXCEPT !.baud = In.val]
  /\ IF clocked THEN PutDivisor(In.val) ELSE UNCHANGED <<dll, dlh>>
  /\ Unfilled
  /\ UNCHANGED <<file_flag, clocked, lcr, taken>>

(* Faulty variant: a refused parity is not taken back. *)
ioctl_set_parity_kept ==
  /\ Serving("ioctl")
  /\ Cmd = "FC_SET_PARITY_MODE"
  /\ Given
  /\ rt' = [rt EXCEPT !.parity = In.val]
  /\ IF ParityOK(rt') THEN \E l \in LcrRead : PutLcr(WithParity(l, rt')) ELSE UNCHANGED lcr
  /\ Unfilled
  /\ UNCHANGED <<file_flag, clocked, dll, dlh, taken>>

ioctl_set_parity ==
  /\ Serving("ioctl")
  /\ Cmd = "FC_SET_PARITY_MODE"
  /\ Given
  /\ LET new == [rt EXCEPT !.parity = In.val]
     IN IF ParityOK(new)
        THEN rt' = new /\ \E l \in LcrRead : PutLcr(WithParity(l, new))
        ELSE UNCHANGED <<rt, lcr>>
  /\ Unfilled
  /\ UNCHANGED <<file_flag, clocked, dll, dlh, taken>>

(* Refused, the parity is put back, and the stop bits stay as they are.      *)
ioctl_set_stop ==
  /\ Serving("ioctl")
  /\ Cmd = "FC_SET_STOP_BIT"
  /\ Given
  /\ rt' = [rt EXCEPT !.stop = In.val]
  /\ \E l \in LcrRead : IF StopOK(l, rt') THEN PutLcr(WithStop(l, rt')) ELSE UNCHANGED lcr
  /\ Unfilled
  /\ UNCHANGED <<file_flag, clocked, dll, dlh, taken>>

(***************************************************************************)
(* A user calls a device, one call after the other.                        *)
(***************************************************************************)
IoctlValues(cmd) == IF cmd = "FC_SET_BAUD_RATE" THEN Bauds
                    ELSE IF cmd \in {"FC_SET_PARITY_MODE", "FC_SET_STOP_BIT"} THEN Codes
                    ELSE {0}
Commands == Queries \cup {"FC_SET_BAUD_RATE", "FC_SET_PARITY_MODE", "FC_SET_STOP_BIT", "unknown"}

UserCall ==
  /\ cpc = "idle"
  /\ \E d \in Listed \cup Unlisted :
       \/ \E flags \in {{"R"}, Flags} : Package(Call("open", d, flags, 0, 0, 0))
       \/ Package(Call("close", d, "none", 0, 0, 0))
       \/ \E n \in Lengths : Package(Call("write", d, "none", "bytes", n, 0))
       \/ \E room \in Rooms : Package(Call("read", d, "none", 0, 0, room))
       \/ \E n \in Lengths, room \in Rooms : Package(Call("transfer", d, "none", "bytes", n, room))
       \/ \E cmd \in Commands, n \in Lengths, room \in Rooms : \E v \in IoctlValues(cmd) :
            Package(Call("ioctl", d, cmd, v, n, room))
  /\ UNCHANGED uartVars

Step ==
  \/ CallStep /\ UNCHANGED uartVars
  \/ Return /\ taken' = 0 /\ UNCHANGED <<rt, file_flag, clocked, regVars>>

Handle == \/ OpenBusy \/ open_ \/ close_ \/ write_ \/ read_
          \/ ioctl_get \/ ioctl_refused \/ ioctl_set_baud \/ ioctl_set_parity \/ ioctl_set_stop

Next == UserCall \/ Step \/ Handle

Spec == Init /\ [][Next]_vars
=============================================================================
