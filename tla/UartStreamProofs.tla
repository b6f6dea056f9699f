-------------------------- MODULE UartStreamProofs --------------------------
(* Proofs that each direction of the uart is a ByteChannel within a session. *)
EXTENDS UartProofs

(***************************************************************************)
(* One session: the device is opened once and then keeps its settings, and   *)
(* neither a busy interrupt nor one for data that is not there comes between. *)
(* Where users poll, nothing may wake the interrupt thread, which would take *)
(* the same bytes.                                                           *)
(***************************************************************************)
OneSession ==
  /\ MaxSetups = 1
  /\ MaxBusy = 0
  /\ ~Ghosts
  /\ MaxEvents = 0 \/ \A f \in Flags : "P" \notin f

(***************************************************************************)
(* The inductive invariant.                                                *)
(***************************************************************************)
Opening == {"fcr", "lcr", "lcr_write", "baud", "divisor", "high", "dlab", "setup"}
ByPolls == "P" \in flags \/ "P" \in file_flag

(* Nothing raises a busy interrupt. *)
QuietInv ==
  /\ ~busy /\ busies = 0
  /\ iir \notin {"BUSBSY", "CHARTO"}
  /\ ip \notin {"busy", "busy_fifo", "busy_lcr", "busy_mcr"}
  /\ events = 0 => err = {} /\ ~modem

(* The fifos are reset and DLAB is set before the session only; where users  *)
(* poll, the interrupt thread waits.                                         *)
SessionInv ==
  /\ lp \notin {"set_lcr", "set_lcr_write", "set_baud", "set_divisor", "set_high", "set_dlab"}
  /\ dlab <=> lp \in {"divisor", "high", "dlab"}
  /\ ~lcr /\ ~loopback
  /\ lp \in Opening \ {"fcr"} => fifos /\ trigger = TxTrigger
  /\ lp = "fcr" => ~clocked
  /\ lp \in Opening => ~started /\ setups = 1
  /\ started => setups = 1 /\ fifos /\ trigger = TxTrigger
  /\ clocked => setups = 1 /\ fifos /\ trigger = TxTrigger
  /\ ~started => lp \in Opening \cup {"idle"} /\ file_flag = {} /\ ip = "wait"

PollInv ==
  /\ ByPolls => ip = "wait" /\ ier \subseteq {"LINE"} /\ MaxEvents = 0
  /\ lp \in Polling => "P" \in file_flag
  /\ lp \in {"tx_on", "tx_on_write", "pop"} => "P" \notin file_flag
  /\ lp \in {"rx_on", "rx_on_write"} => "P" \notin flags
  /\ lp \notin Opening \cup {"rx_on", "rx_on_write"} => flags = {}

(* What write_ took is on the wire, in the fifo and in the queue; the byte   *)
(* that is put and not popped is in both.                                    *)
Doubled == IF ip = "tx_pop" \/ lp = "poll_pop" THEN 1 ELSE 0

TxInv ==
  /\ ~started => written = 0 /\ tx_buffer = <<>> /\ txFifo = <<>> /\ wire = <<>>
  /\ Counts(wire, 0)
  /\ Counts(txFifo, Len(wire))
  /\ Counts(tx_buffer, written - Len(tx_buffer))
  /\ Len(wire) + Len(txFifo) = written - Len(tx_buffer) + Doubled

(* A burst takes no more than the queue has and the fifo has room for: THRE  *)
(* and TEMT stay true until the handler itself puts a byte.                  *)
RoomInv ==
  /\ ip \in {"tx_put", "tx_pop"} => cnt \in 1..Len(tx_buffer)
  /\ ip = "tx_put" => Len(txFifo) + cnt <= TxDepth
  /\ ip = "tx_pop" => Len(txFifo) + cnt <= TxDepth + 1
  /\ ip = "tx" => Len(txFifo) <= TxTrigger
  /\ iir = "THREMP" /\ ip \in {"lsr", "rx", "rx_lsr", "modem"} => Len(txFifo) <= TxTrigger
  /\ temt /\ ip \in {"rx", "rx_lsr", "modem"} => txFifo = <<>>
  /\ lp \in {"poll_temt", "poll_put", "poll_pop"} => tx_buffer # <<>>
  /\ lp = "poll_put" => txFifo = <<>>

(* What came in is given out, in the queue and in the fifo. *)
RxInv ==
  /\ ~clocked => arrived = 0
  /\ ~started => rx_buffer = <<>> /\ reads = <<>>
  /\ ByPolls => rx_buffer = <<>>
  /\ Counts(reads, 0)
  /\ Counts(rx_buffer, Len(reads))
  /\ Counts(rxFifo, Len(reads) + Len(rx_buffer))
  /\ arrived = Len(reads) + Len(rx_buffer) + Len(rxFifo)
  /\ lp = "pop" => left <= Len(rx_buffer)

(* Who reads RBR has seen a byte there that nobody else takes.               *)
DataInv ==
  /\ lp = "poll_rbr" => rxFifo # <<>>
  /\ ip # "discard"
  /\ ip = "rx" /\ rlsr.DR => rxFifo # <<>>
  /\ ip = "lsr" /\ iir \in {"RXDVAL", "LINESTA"} => rxFifo # <<>>
  /\ err # {} => rxFifo # <<>> \/ ip = "rx_lsr"

StreamInv ==
  /\ TypeInv
  /\ QuietInv /\ SessionInv /\ PollInv
  /\ TxInv /\ RoomInv
  /\ RxInv /\ DataInv

LEMMA StreamInit == OneSession /\ Init => StreamInv
<1> SUFFICES ASSUME OneSession, Init  PROVE StreamInv  OBVIOUS
<1>1. TypeInv  BY TypeInit
<1>2. QuietInv /\ SessionInv /\ PollInv
  BY DEF Init, HwInit, IrqInit, QuietInv, SessionInv, PollInv, ByPolls, Opening, Polling
<1>3. TxInv /\ RxInv
  <2>1. /\ wire = <<>> /\ txFifo = <<>> /\ tx_buffer = <<>>
        /\ reads = <<>> /\ rx_buffer = <<>> /\ rxFifo = <<>>
        /\ written = 0 /\ arrived = 0 /\ ip = "wait" /\ lp = "idle" /\ flags = {} /\ file_flag = {}
    BY DEF Init, HwInit, IrqInit
  <2>2. /\ Len(wire) = 0 /\ Len(txFifo) = 0 /\ Len(tx_buffer) = 0
        /\ Len(reads) = 0 /\ Len(rx_buffer) = 0 /\ Len(rxFifo) = 0
    BY <2>1, EmptyType
  <2>3. /\ Counts(wire, 0) /\ Counts(txFifo, Len(wire))
        /\ Counts(tx_buffer, written - Len(tx_buffer))
        /\ Counts(reads, 0) /\ Counts(rx_buffer, Len(reads))
        /\ Counts(rxFifo, Len(reads) + Len(rx_buffer))
    BY <2>2 DEF Counts
  <2>4. /\ Len(wire) + Len(txFifo) = written - Len(tx_buffer) + Doubled
        /\ arrived = Len(reads) + Len(rx_buffer) + Len(rxFifo)
    <3>1. Doubled = 0  BY <2>1 DEF Doubled
    <3>2. written = 0 /\ arrived = 0  BY <2>1
    <3> QED  BY <2>2, <3>1, <3>2
  <2> QED  BY <2>1, <2>3, <2>4 DEF TxInv, RxInv, ByPolls
<1>4. RoomInv /\ DataInv
  BY DEF Init, HwInit, IrqInit, RoomInv, DataInv
<1> QED  BY <1>1, <1>2, <1>3, <1>4 DEF StreamInv

(***************************************************************************)
(* The order of calls and registers.                                       *)
(***************************************************************************)
LEMMA QuietNext ==
  ASSUME OneSession, StreamInv, Next
  PROVE  QuietInv'
<1> USE DEF QuietInv, setVars, lineVars, hwVars, irqVars, irqLocals
<1> QuietInv  BY DEF StreamInv
<1>1. CASE Calls
  <2>1. busies' = busies /\ busy' = FALSE
    BY <1>1 DEF OneSession, Calls, open_, close_, write_, read_, read_poll, ioctl_
  <2>2. UNCHANGED <<ip, iir, events>>
    BY <1>1 DEF Calls, open_, close_, write_, read_, read_poll, ioctl_
  <2>3. CASE open_  BY <2>1, <2>2, <2>3 DEF open_
  <2>4. CASE ~open_
    <3>1. UNCHANGED <<err, modem>>
      BY <1>1, <2>4 DEF Calls, close_, write_, read_, read_poll, ioctl_
    <3> QED  BY <2>1, <2>2, <3>1
  <2> QED  BY <2>3, <2>4
<1>2. CASE Serve
  BY <1>2 DEF OneSession, Serve, SetFcr, ReadLcr, WriteLcr, LcrPut, SetupFails, SetDlab, SetDll,
              SetDlh, ClearDlab, Setup, SetupNoThread, SwitchRead,
              StartRxWrite, StartTxWrite, Push, PollTx, PollTemt, PollPut, PollPop,
              Pop, PollLsr, PollRbr
<1>3. CASE IrqStep
  <2>1. CASE IrqEntry  BY <1>3, <2>1 DEF OneSession, IrqEntry, Iir, Due
  <2>2. CASE ReadLsr \/ ReadRbr \/ RereadLsr \/ DiscardRbr
    BY <1>3, <2>2 DEF ReadLsr, ReadRbr, RereadLsr, DiscardRbr
  <2>3. CASE HoldLcr \/ ClearBusy \/ RestoreLcr \/ RestoreMcr
    BY <2>3 DEF HoldLcr, ClearBusy, RestoreLcr, RestoreMcr
  <2>4. CASE ReadMsr \/ TxPop \/ TxSwitchRead \/ TxSwitchWrite
    BY <1>3, <2>4 DEF ReadMsr, TxPop, TxSwitchRead, TxSwitchWrite, Done
  <2>5. CASE TxSize \/ TxPut  BY <1>3, <2>5 DEF TxSize, TxPut
  <2> QED  BY <1>3, <2>1, <2>2, <2>3, <2>4, <2>5 DEF IrqStep, IrqThread
<1>4. CASE HwStep
  <2>1. events \in Nat  BY HwAssumption DEF StreamInv, TypeInv, UartTypeOK, HwTypeOK
  <2> QED  BY <1>4, <2>1 DEF HwStep, Hardware, Arrive, LineEvent, Shift
<1> QED  BY <1>1, <1>2, <1>3, <1>4 DEF Next

LEMMA SessionNext ==
  ASSUME OneSession, StreamInv, Next
  PROVE  SessionInv'
<1> USE DEF SessionInv, Opening
<1> SessionInv /\ QuietInv  BY DEF StreamInv
<1>1. CASE Calls
  <2>1. CASE open_
    <3>1. setups = 0 /\ ~started
      BY <2>1, UartAssumption DEF open_, OneSession, StreamInv, TypeInv, UartTypeOK, ThreadTypeOK
    <3> QED  BY <2>1, <3>1 DEF open_, irqVars
  <2>2. CASE close_ \/ write_ \/ read_ \/ read_poll
    BY <2>2 DEF close_, write_, read_, read_poll, hwVars, setVars, lineVars, irqVars
  <2>3. CASE ioctl_  BY <2>3 DEF ioctl_, OneSession, irqVars
  <2> QED  BY <1>1, <2>1, <2>2, <2>3 DEF Calls
<1>2. CASE Serve
  <2>1. CASE SetFcr \/ ReadLcr \/ WriteLcr \/ SetupFails \/ SetDlab \/ SetDll \/ SetDlh
             \/ ClearDlab \/ Setup \/ SetupNoThread
    BY <2>1 DEF SetFcr, ReadLcr, WriteLcr, LcrPut, SetupFails, SetDlab, SetDll, SetDlh, ClearDlab,
                Setup, SetupNoThread, hwVars, setVars, lineVars, irqVars
  <2>2. CASE SwitchRead \/ StartRxWrite \/ StartTxWrite
    BY <2>2 DEF SwitchRead, StartRxWrite, StartTxWrite, hwVars, setVars, lineVars, irqVars
  <2>3. CASE Push \/ PollTx \/ PollTemt \/ PollPut \/ PollPop \/ Pop \/ PollLsr \/ PollRbr
    BY <2>3 DEF Push, PollTx, PollTemt, PollPut, PollPop, Pop, PollLsr, PollRbr,
                hwVars, setVars, lineVars, irqVars
  <2> QED  BY <1>2, <2>1, <2>2, <2>3 DEF Serve
<1>3. CASE IrqStep
  <2>1. started /\ started' = started  BY <1>3 DEF IrqStep, IrqThread, IrqEntry, ReadLsr, HoldLcr,
       ClearBusy, RestoreLcr, RestoreMcr, ReadRbr, RereadLsr, DiscardRbr, ReadMsr, TxSize, TxPut,
       TxPop, TxSwitchRead, TxSwitchWrite
  <2>2. UNCHANGED <<dlab, fifos, trigger, clocked, loopback>>
    BY <1>3 DEF IrqStep, IrqThread, IrqEntry, ReadLsr, HoldLcr, ClearBusy, RestoreLcr, RestoreMcr,
                ReadRbr, RereadLsr, DiscardRbr, ReadMsr, TxSize, TxPut, TxPop, TxSwitchRead,
                TxSwitchWrite, hwVars, setVars, lineVars, QuietInv
  <2> QED  BY <1>3, <2>1, <2>2 DEF IrqStep, loopVars
<1>4. CASE HwStep
  BY <1>4 DEF HwStep, Hardware, Arrive, LineEvent, Shift, setVars, lineVars, irqVars, loopVars
<1> QED  BY <1>1, <1>2, <1>3, <1>4 DEF Next

(* Where users poll there is never an interrupt. *)
LEMMA PolledQuiet ==
  ASSUME OneSession, StreamInv, IrqStep
  PROVE  ~ByPolls
<1> SUFFICES ASSUME ByPolls  PROVE FALSE  OBVIOUS
<1>1. ip = "wait" /\ ier \subseteq {"LINE"} /\ events = 0 /\ ~busy
  BY HwAssumption DEF StreamInv, PollInv, QuietInv, TypeInv, UartTypeOK, HwTypeOK
<1>2. err = {} /\ ~modem  BY <1>1 DEF StreamInv, QuietInv
<1>3. Iir = {"NOIRQ"}  BY <1>1, <1>2 DEF Iir, Due
<1> QED  BY <1>1, <1>3 DEF IrqStep, IrqThread, IrqEntry, ReadLsr, HoldLcr, ClearBusy, RestoreLcr,
     RestoreMcr, ReadRbr, RereadLsr, DiscardRbr, ReadMsr, TxSize, TxPut, TxPop, TxSwitchRead,
     TxSwitchWrite

LEMMA PollNext ==
  ASSUME OneSession, StreamInv, Next
  PROVE  PollInv'
<1> USE DEF PollInv, ByPolls, Polling, Opening
<1> PollInv /\ SessionInv  BY DEF StreamInv
<1>1. CASE Calls
  <2>1. CASE open_
    <3>1. ip = "wait"
      BY <2>1, UartAssumption
         DEF open_, OneSession, StreamInv, SessionInv, TypeInv, UartTypeOK, ThreadTypeOK
    <3>2. "P" \in flags' => MaxEvents = 0  BY <2>1 DEF open_, OneSession
    <3> QED  BY <2>1, <3>1, <3>2 DEF open_, irqVars
  <2>2. CASE close_ \/ write_ \/ read_ \/ read_poll
    BY <2>2 DEF close_, write_, read_, read_poll, hwVars, irqVars
  <2>3. CASE ioctl_  BY <2>3 DEF ioctl_, OneSession, irqVars
  <2> QED  BY <1>1, <2>1, <2>2, <2>3 DEF Calls
<1>2. CASE Serve
  <2>1. CASE SetFcr \/ ReadLcr \/ WriteLcr \/ SetupFails \/ SetDlab \/ SetDll \/ SetDlh
             \/ ClearDlab \/ Setup \/ SetupNoThread
    <3>1. ier' \subseteq ier \cup {"LINE"}
      <4>1. CASE SetDlh
        <5>1. dlab  BY <4>1 DEF SetDlh, SessionInv
        <5> QED  BY <4>1, <5>1 DEF SetDlh, IerPut
      <4>2. CASE Setup \/ SetupNoThread  BY <4>2 DEF Setup, SetupNoThread, IerPut
      <4>3. CASE SetFcr \/ ReadLcr \/ WriteLcr \/ SetupFails \/ SetDlab \/ SetDll \/ ClearDlab
        BY <4>3 DEF SetFcr, ReadLcr, WriteLcr, SetupFails, SetDlab, SetDll, ClearDlab, hwVars
      <4> QED  BY <2>1, <4>1, <4>2, <4>3
    <3>2. ip' = ip
      BY <2>1 DEF SetFcr, ReadLcr, WriteLcr, LcrPut, SetupFails, SetDlab, SetDll, SetDlh,
                  ClearDlab, Setup, SetupNoThread, irqVars
    <3> QED  BY <2>1, <3>1, <3>2, SessionNext
             DEF SetFcr, ReadLcr, WriteLcr, LcrPut, SetupFails, SetDlab, SetDll, SetDlh,
                 ClearDlab, Setup, SetupNoThread
  <2>2. CASE SwitchRead \/ StartRxWrite \/ StartTxWrite
    BY <2>2 DEF SwitchRead, StartRxWrite, StartTxWrite, hwVars, irqVars, SessionInv
  <2>3. CASE Push \/ PollTx \/ PollTemt \/ PollPut \/ PollPop \/ Pop \/ PollLsr \/ PollRbr
    BY <2>3 DEF Push, PollTx, PollTemt, PollPut, PollPop, Pop, PollLsr, PollRbr, hwVars, irqVars
  <2> QED  BY <1>2, <2>1, <2>2, <2>3 DEF Serve
<1>3. CASE IrqStep
  <2>1. ~ByPolls  BY <1>3, PolledQuiet
  <2> QED  BY <1>3, <2>1 DEF IrqStep, loopVars
<1>4. CASE HwStep
  BY <1>4 DEF HwStep, Hardware, Arrive, LineEvent, Shift, irqVars, loopVars
<1> QED  BY <1>1, <1>2, <1>3, <1>4 DEF Next

(***************************************************************************)
(* The way out.                                                            *)
(***************************************************************************)
LEMMA TxTypes ==
  ASSUME StreamInv
  PROVE  /\ wire \in Seq(Bytes) /\ Len(wire) \in Nat
         /\ txFifo \in Seq(Bytes) /\ Len(txFifo) \in Nat /\ Len(txFifo) <= TxDepth
         /\ tx_buffer \in Seq(Bytes) /\ Len(tx_buffer) \in Nat
         /\ written \in Nat /\ written \in 0..MaxWrites /\ cnt \in Nat
BY UartAssumption DEF StreamInv, TypeInv, UartTypeOK, HwTypeOK, IrqTypeOK, ThreadTypeOK

LEMMA TxKept ==
  ASSUME TxInv, ~started' => ~started, UNCHANGED <<wire, txFifo, tx_buffer, written>>,
         Doubled' = Doubled
  PROVE  TxInv'
BY DEF TxInv

(* The handler at work, the device is set up and nobody polls.               *)
LEMMA HandlerAlone ==
  ASSUME OneSession, StreamInv, IrqStep
  PROVE  /\ ~ByPolls /\ lp \notin Polling
         /\ started /\ started' = started
         /\ ~dlab /\ fifos
         /\ IrqEntry \/ ReadLsr \/ ReadRbr \/ RereadLsr \/ ReadMsr
            \/ TxSize \/ TxPut \/ TxPop \/ TxSwitchRead \/ TxSwitchWrite
<1>1. ~ByPolls /\ lp \notin Polling
  BY PolledQuiet DEF StreamInv, PollInv, ByPolls
<1>2. started /\ started' = started
  BY DEF StreamInv, SessionInv, IrqStep, IrqThread, IrqEntry, ReadLsr, HoldLcr, ClearBusy,
         RestoreLcr, RestoreMcr, ReadRbr, RereadLsr, DiscardRbr, ReadMsr, TxSize, TxPut, TxPop,
         TxSwitchRead, TxSwitchWrite
<1>3. ~dlab /\ fifos  BY <1>2 DEF StreamInv, SessionInv, Opening
<1>4. ~HoldLcr /\ ~ClearBusy /\ ~RestoreLcr /\ ~RestoreMcr /\ ~DiscardRbr
  BY DEF StreamInv, QuietInv, DataInv, HoldLcr, ClearBusy, RestoreLcr, RestoreMcr, DiscardRbr
<1> QED  BY <1>1, <1>2, <1>3, <1>4 DEF IrqStep, IrqThread

LEMMA TxPutNext ==
  ASSUME OneSession, StreamInv, Doubled = 0, Doubled' = 1, tx_buffer # <<>>,
         ThrPut(Front(tx_buffer)), ~dlab, fifos, Len(txFifo) < TxDepth,
         UNCHANGED <<wire, tx_buffer, written>>, started, started'
  PROVE  TxInv' /\ Len(txFifo') = Len(txFifo) + 1
<1> USE TxTypes DEF TxInv
<1> TxInv  BY DEF StreamInv
<1>1. txFifo' = Append(txFifo, Head(tx_buffer))  BY DEF ThrPut, Room, Front
<1>2. Head(tx_buffer) = Len(wire) + Len(txFifo) + 1 /\ Head(tx_buffer) \in Bytes
  BY CountsTail
<1>3. /\ Len(txFifo') = Len(txFifo) + 1
      /\ Counts(txFifo', Len(wire))
  BY <1>1, <1>2, CountsAppend
<1> QED  BY <1>3

LEMMA TxPopNext ==
  ASSUME OneSession, StreamInv, Doubled = 1, Doubled' = 0, tx_buffer # <<>>,
         tx_buffer' = Popped(tx_buffer),
         UNCHANGED <<wire, txFifo, written>>, started, started'
  PROVE  TxInv' /\ Len(tx_buffer') = Len(tx_buffer) - 1
<1> USE TxTypes DEF TxInv
<1> TxInv  BY DEF StreamInv
<1>1. tx_buffer' = Tail(tx_buffer)  BY DEF Popped
<1>2. /\ Len(tx_buffer') = Len(tx_buffer) - 1
      /\ Counts(tx_buffer', written - Len(tx_buffer) + 1)
  BY <1>1, CountsTail
<1> QED  BY <1>2

LEMMA PushNext ==
  ASSUME OneSession, StreamInv, Push
  PROVE  TxInv' /\ Len(tx_buffer') = Len(tx_buffer) + 1
<1> USE TxTypes DEF TxInv
<1> TxInv  BY DEF StreamInv
<1>1. written + 1 \in Bytes
  <2>1. left > 0 /\ written + left <= MaxWrites /\ left \in Nat
    BY DEF Push, StreamInv, TypeInv, LeftToMove, UartTypeOK, ThreadTypeOK
  <2>2. written + 1 \in 0..MaxWrites  BY <2>1, UartAssumption
  <2> QED  BY <2>2, BytesType
<1>2. /\ Len(tx_buffer') = Len(tx_buffer) + 1
      /\ Counts(tx_buffer', written - Len(tx_buffer))
  BY <1>1, CountsAppend DEF Push
<1>3. started /\ started'  BY DEF Push, StreamInv, SessionInv, Opening, irqVars
<1>4. Doubled' = Doubled /\ UNCHANGED <<wire, txFifo>> /\ written' = written + 1
  BY DEF Push, Doubled, irqVars, hwVars
<1> QED  BY <1>2, <1>3, <1>4

LEMMA ShiftNext ==
  ASSUME OneSession, StreamInv, Shift, UNCHANGED <<queueVars, irqVars, loopVars>>
  PROVE  /\ TxInv'
         /\ Len(txFifo') = Len(txFifo) - 1
         /\ Len(wire) < written
         /\ wire' = Append(wire, Len(wire) + 1)
<1> USE TxTypes DEF TxInv, queueVars, irqVars, loopVars
<1> TxInv  BY DEF StreamInv
<1>6. ~loopback  BY DEF StreamInv, SessionInv
<1>1. /\ Head(txFifo) = Len(wire) + 1 /\ Head(txFifo) \in Bytes
      /\ Len(txFifo') = Len(txFifo) - 1
      /\ Counts(txFifo', Len(wire) + 1)
      /\ Len(txFifo) > 0
  BY CountsTail DEF Shift
<1>7. wire' = Append(wire, Head(txFifo))  BY <1>6 DEF Shift
<1>2. /\ Len(wire') = Len(wire) + 1
      /\ Counts(wire', 0)
  BY <1>1, <1>7, CountsAppend
<1>3. Doubled = 1 => tx_buffer # <<>>
  BY DEF Doubled, StreamInv, RoomInv
<1>4. Len(wire) < written
  <2>1. Doubled \in {0, 1}  BY DEF Doubled
  <2>2. CASE Doubled = 0  BY <2>2, <1>1
  <2>3. CASE Doubled = 1  BY <2>3, <1>1, <1>3, EmptySeq
  <2> QED  BY <2>1, <2>2, <2>3
<1>5. Doubled' = Doubled  BY DEF Doubled
<1> QED  BY <1>1, <1>2, <1>4, <1>5, <1>7

LEMMA TxNext ==
  ASSUME OneSession, StreamInv, Next
  PROVE  TxInv'
<1> TxInv  BY DEF StreamInv
<1> USE TxTypes
<1>1. CASE Calls
  <2>1. CASE open_
    <3>1. ~started /\ txFifo = <<>>
      BY <2>1, UartAssumption
         DEF open_, OneSession, StreamInv, SessionInv, TxInv, TypeInv, UartTypeOK, ThreadTypeOK
    <3>2. Doubled' = Doubled  BY <2>1 DEF open_, Doubled, irqVars
    <3> QED  BY <2>1, <3>1, <3>2, TxKept DEF open_, irqVars, queueVars
  <2>2. CASE ~open_
    <3>1. Doubled' = Doubled /\ started' = started
      BY <1>1, <2>2 DEF Calls, close_, write_, read_, read_poll, ioctl_, Doubled, irqVars
    <3>2. UNCHANGED <<wire, txFifo, tx_buffer, written>>
      BY <1>1, <2>2 DEF Calls, close_, write_, read_, read_poll, ioctl_, hwVars, queueVars
    <3> QED  BY <3>1, <3>2, TxKept
  <2> QED  BY <2>1, <2>2
<1>2. CASE Serve
  <2>1. CASE Push  BY <2>1, PushNext
  <2>2. CASE PollPut
    <3>1. ByPolls /\ ip = "wait" /\ tx_buffer # <<>> /\ txFifo = <<>>
      BY <2>2 DEF PollPut, StreamInv, RoomInv, PollInv, ByPolls, Polling
    <3>2. started /\ started' /\ ~dlab /\ fifos
      BY <2>2 DEF PollPut, StreamInv, SessionInv, Opening, irqVars
    <3>3. Doubled = 0 /\ Doubled' = 1  BY <2>2, <3>1 DEF PollPut, Doubled
    <3> QED  BY <2>2, <3>1, <3>2, <3>3, TxPutNext, HwAssumption, EmptyType DEF PollPut, queueVars
  <2>3. CASE PollPop
    <3>1. ByPolls /\ ip = "wait" /\ tx_buffer # <<>>
      BY <2>3 DEF PollPop, StreamInv, RoomInv, PollInv, ByPolls, Polling
    <3>2. started /\ started'  BY <2>3 DEF PollPop, StreamInv, SessionInv, Opening, irqVars
    <3>3. Doubled = 1 /\ Doubled' = 0  BY <2>3, <3>1 DEF PollPop, Doubled, irqVars
    <3> QED  BY <2>3, <3>1, <3>2, <3>3, TxPopNext DEF PollPop, hwVars
  <2>4. CASE SetDll
    <3>1. dlab  BY <2>4 DEF SetDll, StreamInv, SessionInv
    <3>2. Doubled' = Doubled /\ started' = started  BY <2>4 DEF SetDll, Doubled, irqVars
    <3> QED  BY <2>4, <3>1, <3>2, TxKept DEF SetDll, ThrPut, queueVars
  <2>5. CASE SetFcr \/ ReadLcr \/ WriteLcr \/ SetupFails \/ SetDlab \/ SetDlh \/ ClearDlab
             \/ Setup \/ SetupNoThread \/ SwitchRead
             \/ StartRxWrite \/ StartTxWrite \/ PollTx \/ PollTemt \/ Pop \/ PollLsr \/ PollRbr
    <3>5. SetFcr => txFifo = <<>>
      BY DEF SetFcr, StreamInv, SessionInv, Opening, TxInv
    <3>1. UNCHANGED <<wire, txFifo, tx_buffer, written>>
      BY <2>5, <3>5 DEF SetFcr, ReadLcr, WriteLcr, LcrPut, SetupFails, SetDlab, SetDlh, ClearDlab,
                        Setup, SetupNoThread, SwitchRead, StartRxWrite,
           StartTxWrite, PollTx, PollTemt, Pop, PollLsr, PollRbr, hwVars, queueVars
    <3>2. ip' = ip /\ "poll_pop" \notin {lp, lp'}
      BY <2>5 DEF SetFcr, ReadLcr, WriteLcr, LcrPut, SetupFails, SetDlab, SetDlh, ClearDlab,
                  Setup, SetupNoThread, SwitchRead, StartRxWrite,
           StartTxWrite, PollTx, PollTemt, Pop, PollLsr, PollRbr, irqVars
    <3>3. ~started' => ~started
      BY <2>5 DEF SetFcr, ReadLcr, WriteLcr, LcrPut, SetupFails, SetDlab, SetDlh, ClearDlab,
                  Setup, SetupNoThread, SwitchRead, StartRxWrite,
           StartTxWrite, PollTx, PollTemt, Pop, PollLsr, PollRbr, irqVars
    <3>4. Doubled' = Doubled  BY <3>2 DEF Doubled
    <3> QED  BY <3>1, <3>3, <3>4, TxKept
  <2> QED  BY <1>2, <2>1, <2>2, <2>3, <2>4, <2>5 DEF Serve
<1>3. CASE IrqStep
  <2>1. /\ lp \notin Polling /\ lp' \notin Polling
        /\ started /\ started' = started /\ ~dlab /\ fifos
    BY <1>3, HandlerAlone DEF IrqStep, loopVars
  <2>2. CASE TxPut
    <3>1. tx_buffer # <<>> /\ Len(txFifo) < TxDepth
      BY <2>2, EmptyType, HwAssumption DEF TxPut, StreamInv, RoomInv
    <3>2. Doubled = 0 /\ Doubled' = 1  BY <2>1, <2>2 DEF TxPut, Doubled, Polling
    <3> QED  BY <1>3, <2>1, <2>2, <3>1, <3>2, TxPutNext DEF TxPut, IrqStep, loopVars, queueVars
  <2>3. CASE TxPop
    <3>1. tx_buffer # <<>>
      BY <2>3, EmptyType DEF TxPop, StreamInv, RoomInv
    <3>2. Doubled = 1 /\ Doubled' = 0  BY <2>1, <2>3 DEF TxPop, Doubled, Polling, Done
    <3> QED  BY <1>3, <2>1, <2>3, <3>1, <3>2, TxPopNext DEF TxPop, IrqStep, loopVars, hwVars
  <2>4. CASE IrqEntry \/ ReadLsr \/ ReadRbr \/ RereadLsr \/ ReadMsr \/ TxSize
             \/ TxSwitchRead \/ TxSwitchWrite
    <3>1. UNCHANGED <<wire, txFifo, tx_buffer, written>>
      BY <1>3, <2>4 DEF IrqStep, loopVars, IrqEntry, ReadLsr, ReadRbr, RereadLsr, ReadMsr, TxSize,
           TxSwitchRead, TxSwitchWrite, hwVars, queueVars
    <3>2. "tx_pop" \notin {ip, ip'}
      BY <2>4 DEF IrqEntry, ReadLsr, ReadRbr, RereadLsr, ReadMsr, TxSize, TxSwitchRead,
           TxSwitchWrite, Done
    <3>3. Doubled' = Doubled  BY <2>1, <3>2 DEF Doubled, Polling
    <3> QED  BY <2>1, <3>1, <3>3, TxKept
  <2> QED  BY <1>3, <2>2, <2>3, <2>4, HandlerAlone
<1>4. CASE HwStep
  <2>1. CASE Shift  BY <1>4, <2>1, ShiftNext DEF HwStep
  <2>2. CASE Arrive \/ LineEvent
    <3>1. UNCHANGED <<wire, txFifo, tx_buffer, written, started, ip, lp>>
      BY <1>4, <2>2 DEF HwStep, Arrive, LineEvent, queueVars, irqVars, loopVars
    <3>2. Doubled' = Doubled  BY <3>1 DEF Doubled
    <3> QED  BY <3>1, <3>2, TxKept
  <2> QED  BY <1>4, <2>1, <2>2 DEF HwStep, Hardware
<1> QED  BY <1>1, <1>2, <1>3, <1>4 DEF Next

LEMMA RoomNext ==
  ASSUME OneSession, StreamInv, Next
  PROVE  RoomInv'
<1> RoomInv  BY DEF StreamInv
<1> USE TxTypes DEF RoomInv
<1>1. CASE Calls
  <2>1. /\ UNCHANGED <<ip, iir, temt, cnt, tx_buffer>>
        /\ lp' \notin {"poll_temt", "poll_put", "poll_pop"}
    BY <1>1 DEF Calls, open_, close_, write_, read_, read_poll, ioctl_, irqVars, irqLocals,
                queueVars
  <2>2. CASE open_
    <3>1. ip = "wait"
      BY <2>2, UartAssumption
         DEF open_, OneSession, StreamInv, SessionInv, TypeInv, UartTypeOK, ThreadTypeOK
    <3> QED  BY <2>1, <3>1
  <2>3. CASE ~open_
    <3>1. txFifo' = txFifo
      BY <1>1, <2>3 DEF Calls, close_, write_, read_, read_poll, ioctl_, hwVars
    <3> QED  BY <2>1, <3>1
  <2> QED  BY <2>2, <2>3
<1>2. CASE Serve
  <2>1. CASE Push
    <3>1. Len(tx_buffer') = Len(tx_buffer) + 1  BY <2>1, PushNext
    <3>2. /\ UNCHANGED <<ip, iir, temt, cnt, txFifo>>
          /\ lp' \notin {"poll_temt", "poll_put", "poll_pop"}
      BY <2>1 DEF Push, irqVars, irqLocals, hwVars
    <3> QED  BY <3>1, <3>2
  <2>2. CASE PollPut \/ PollPop
    <3>1. ip = "wait" /\ ip' = "wait"
      BY <2>2 DEF PollPut, PollPop, StreamInv, PollInv, ByPolls, Polling, irqVars
    <3>2. lp' # "poll_put" /\ (lp' \in {"poll_temt",
         "poll_pop"} => lp = "poll_put" /\ tx_buffer' = tx_buffer)
      BY <2>2 DEF PollPut, PollPop, queueVars
    <3> QED  BY <3>1, <3>2
  <2>3. CASE SetDll
    <3>1. dlab  BY <2>3 DEF SetDll, StreamInv, SessionInv
    <3>2. UNCHANGED <<ip, iir, temt, cnt, txFifo, tx_buffer>>
      BY <2>3, <3>1 DEF SetDll, ThrPut, irqVars, irqLocals, queueVars
    <3> QED  BY <2>3, <3>2 DEF SetDll
  <2>4. CASE PollTx \/ PollTemt
    BY <2>4 DEF PollTx, PollTemt, hwVars, queueVars, irqVars, irqLocals
  <2>5. CASE SetFcr \/ ReadLcr \/ WriteLcr \/ SetupFails \/ SetDlab \/ SetDlh \/ ClearDlab
             \/ Setup \/ SetupNoThread \/ SwitchRead
             \/ StartRxWrite \/ StartTxWrite \/ Pop \/ PollLsr \/ PollRbr
    <3>3. SetFcr => txFifo = <<>>
      BY DEF SetFcr, StreamInv, SessionInv, Opening, TxInv
    <3>1. UNCHANGED <<ip, iir, temt, cnt, txFifo, tx_buffer>>
      BY <2>5, <3>3 DEF SetFcr, ReadLcr, WriteLcr, LcrPut, SetupFails, SetDlab, SetDlh, ClearDlab,
                        Setup, SetupNoThread, SwitchRead, StartRxWrite,
           StartTxWrite, Pop, PollLsr, PollRbr, hwVars, queueVars, irqVars, irqLocals
    <3>2. lp' \notin {"poll_temt", "poll_put", "poll_pop"}
      BY <2>5 DEF SetFcr, ReadLcr, WriteLcr, LcrPut, SetupFails, SetDlab, SetDlh, ClearDlab,
                  Setup, SetupNoThread, SwitchRead, StartRxWrite,
           StartTxWrite, Pop, PollLsr, PollRbr
    <3> QED  BY <3>1, <3>2
  <2> QED  BY <1>2, <2>1, <2>2, <2>3, <2>4, <2>5 DEF Serve
<1>3. CASE IrqStep
  <2>1. /\ lp' \notin {"poll_temt", "poll_put", "poll_pop"}
        /\ started /\ started' = started /\ ~dlab /\ fifos
        /\ trigger = TxTrigger
    BY <1>3, HandlerAlone DEF IrqStep, loopVars, Polling, StreamInv, SessionInv
  <2>2. CASE IrqEntry
    BY <2>1, <2>2 DEF OneSession, IrqEntry, Iir, Due, hwVars, queueVars
  <2>3. CASE ReadLsr  BY <2>1, <2>3 DEF ReadLsr, Lsr, queueVars
  <2>4. CASE ReadRbr \/ RereadLsr  BY <2>1, <2>4 DEF ReadRbr, RereadLsr, irqLocals
  <2>5. CASE ReadMsr
    BY <2>1, <2>5, EmptyType, IrqAssumption, HwAssumption DEF ReadMsr, Done, irqLocals, queueVars
  <2>6. CASE TxSize
    <3>1. UNCHANGED <<tx_buffer, txFifo, iir, temt>> /\ ip' \in {"tx_off", "tx_put"}
      BY <2>6 DEF TxSize, hwVars, queueVars
    <3>2. cnt' \in Nat /\ cnt' <= FifoLeft /\ cnt' <= Len(tx_buffer) /\ (ip' = "tx_put" => cnt' > 0)
      BY <2>6, IrqAssumption DEF TxSize
    <3> QED  BY <2>1, <2>6, <3>1, <3>2, IrqAssumption, HwAssumption DEF TxSize
  <2>7. CASE TxPut
    <3>1. UNCHANGED <<tx_buffer, iir, temt, cnt>> /\ ip' = "tx_pop" /\ ip = "tx_put"
      BY <2>7 DEF TxPut, queueVars, irqLocals
    <3>2. tx_buffer # <<>> /\ Len(txFifo) < TxDepth  BY <3>1, EmptyType, HwAssumption
    <3>3. Doubled = 0 /\ Doubled' = 1
      BY <1>3, <2>7, HandlerAlone DEF TxPut, Doubled, Polling, IrqStep, loopVars
    <3>4. Len(txFifo') = Len(txFifo) + 1
      BY <1>3, <2>1, <2>7, <3>2, <3>3, TxPutNext DEF TxPut, IrqStep, loopVars, queueVars
    <3> QED  BY <2>1, <3>1, <3>4, HwAssumption
  <2>8. CASE TxPop
    <3>1. tx_buffer # <<>> /\ cnt \in 1..Len(tx_buffer)  BY <2>8, EmptyType DEF TxPop
    <3>2. Doubled = 1 /\ Doubled' = 0
      BY <1>3, <2>8, HandlerAlone DEF TxPop, Doubled, Polling, IrqStep, loopVars, Done
    <3>3. Len(tx_buffer') = Len(tx_buffer) - 1
      BY <1>3, <2>1, <2>8, <3>1, <3>2, TxPopNext DEF TxPop, IrqStep, loopVars, hwVars
    <3>4. txFifo' = txFifo /\ ip = "tx_pop"  BY <2>8 DEF TxPop, hwVars
    <3>5. CASE cnt > 1
      <4>1. ip' = "tx_put" /\ cnt' = cnt - 1 /\ UNCHANGED <<iir, temt>>  BY <2>8, <3>5 DEF TxPop
      <4> QED  BY <2>1, <3>1, <3>3, <3>4, <3>5, <4>1, HwAssumption
    <3>6. CASE ~(cnt > 1)
      <4>1. ip' \in {"tx_on", "wait"}  BY <2>8, <3>6 DEF TxPop, Done
      <4> QED  BY <2>1, <4>1
    <3> QED  BY <3>5, <3>6
  <2>9. CASE TxSwitchRead \/ TxSwitchWrite
    BY <2>1, <2>9 DEF TxSwitchRead, TxSwitchWrite, Done
  <2> QED  BY <1>3, <2>2, <2>3, <2>4, <2>5, <2>6, <2>7, <2>8, <2>9, HandlerAlone
<1>4. CASE HwStep
  <2>1. UNCHANGED <<ip, iir, temt, cnt, tx_buffer, lp>>
    BY <1>4 DEF HwStep, queueVars, irqVars, irqLocals, loopVars
  <2>2. CASE Shift
    <3>1. Len(txFifo') = Len(txFifo) - 1  BY <1>4, <2>2, ShiftNext DEF HwStep
    <3>2. txFifo # <<>>  BY <2>2 DEF Shift
    <3> QED  BY <2>1, <3>1, <3>2, HwAssumption
  <2>3. CASE Arrive \/ LineEvent
    <3>1. txFifo' = txFifo  BY <2>3 DEF Arrive, LineEvent
    <3> QED  BY <2>1, <3>1
  <2> QED  BY <1>4, <2>2, <2>3 DEF HwStep, Hardware
<1> QED  BY <1>1, <1>2, <1>3, <1>4 DEF Next

(***************************************************************************)
(* The way in.                                                             *)
(***************************************************************************)
LEMMA RxTypes ==
  ASSUME StreamInv
  PROVE  /\ reads \in Seq(Bytes) /\ Len(reads) \in Nat
         /\ rxFifo \in Seq(Bytes) /\ Len(rxFifo) \in Nat
         /\ rx_buffer \in Seq(Bytes) /\ Len(rx_buffer) \in Nat
         /\ arrived \in Nat /\ arrived \in 0..MaxArrivals /\ left \in Nat
BY HwAssumption DEF StreamInv, TypeInv, UartTypeOK, HwTypeOK, IrqTypeOK, ThreadTypeOK

LEMMA RxKept ==
  ASSUME RxInv, ~started' => ~started, ByPolls' => ByPolls \/ ~started, ~clocked' => arrived = 0,
         UNCHANGED <<reads, rxFifo, rx_buffer, arrived>>,
         lp' = "pop" => left' <= Len(rx_buffer)
  PROVE  RxInv'
BY DEF RxInv

LEMMA PopNext ==
  ASSUME OneSession, StreamInv, Pop
  PROVE  /\ RxInv'
         /\ Len(reads) < arrived
         /\ reads' = Append(reads, Len(reads) + 1)
<1> USE RxTypes DEF RxInv
<1> RxInv  BY DEF StreamInv
<1>1. left > 0 /\ left <= Len(rx_buffer)
  BY DEF Pop, StreamInv, TypeInv, LeftToMove
<1>2. rx_buffer # <<>>  BY <1>1, EmptyType
<1>3. reads' = Append(reads, Head(rx_buffer)) /\ rx_buffer' = Tail(rx_buffer)
  BY <1>2 DEF Pop, Front, Popped
<1>4. /\ Head(rx_buffer) = Len(reads) + 1 /\ Head(rx_buffer) \in Bytes
      /\ Len(rx_buffer') = Len(rx_buffer) - 1
      /\ Counts(rx_buffer', Len(reads) + 1)
  BY <1>2, <1>3, CountsTail
<1>5. Len(reads') = Len(reads) + 1 /\ Counts(reads', 0)  BY <1>3, <1>4, CountsAppend
<1>6. /\ UNCHANGED <<rxFifo, arrived, clocked, started, flags, file_flag>>
      /\ lp' = "pop" => left' = left - 1
  BY DEF Pop, hwVars, setVars, lineVars, irqVars
<1>7. started  BY DEF Pop, StreamInv, SessionInv, Opening
<1>8. ~ByPolls'
  <2>1. "P" \notin file_flag /\ flags = {}
    BY DEF Pop, StreamInv, PollInv, Opening
  <2> QED  BY <2>1, <1>6 DEF ByPolls
<1>9. Len(reads') + Len(rx_buffer') = Len(reads) + Len(rx_buffer)  BY <1>4, <1>5
<1>10. Counts(rx_buffer', Len(reads'))  BY <1>4, <1>5
<1>11. Counts(rxFifo', Len(reads') + Len(rx_buffer'))  BY <1>6, <1>9
<1>12. lp' = "pop" => left' <= Len(rx_buffer')  BY <1>1, <1>4, <1>6
<1>13. arrived' = Len(reads') + Len(rx_buffer') + Len(rxFifo')  BY <1>6, <1>9
<1>14. started' /\ (~clocked' => arrived' = 0)  BY <1>6, <1>7
<1>15. RxInv'  BY <1>5, <1>8, <1>10, <1>11, <1>12, <1>13, <1>14
<1>16. Len(reads) < arrived  BY <1>1
<1> QED  BY <1>3, <1>4, <1>15, <1>16

LEMMA PollRbrNext ==
  ASSUME OneSession, StreamInv, PollRbr
  PROVE  /\ RxInv'
         /\ Len(reads) < arrived
         /\ reads' = Append(reads, Len(reads) + 1)
<1> USE RxTypes DEF RxInv
<1> RxInv  BY DEF StreamInv
<1>1. ByPolls /\ ByPolls' /\ rx_buffer = <<>> /\ rx_buffer' = <<>>
  BY DEF PollRbr, StreamInv, PollInv, ByPolls, Polling, queueVars
<1>2. rxFifo # <<>> /\ ~dlab /\ started /\ started'
  BY DEF PollRbr, StreamInv, DataInv, SessionInv, Opening, irqVars
<1>3. reads' = Append(reads, Head(rxFifo)) /\ rxFifo' = Tail(rxFifo)
  BY <1>2 DEF PollRbr, RbrByte, RbrPop
<1>4. Len(rx_buffer) = 0 /\ Len(rx_buffer') = 0  BY <1>1, EmptyType
<1>5. /\ Head(rxFifo) = Len(reads) + 1 /\ Head(rxFifo) \in Bytes
      /\ Len(rxFifo) > 0
      /\ Len(rxFifo') = Len(rxFifo) - 1
      /\ Counts(rxFifo', Len(reads) + 1)
  BY <1>2, <1>3, <1>4, CountsTail
<1>6. Len(reads') = Len(reads) + 1 /\ Counts(reads', 0)  BY <1>3, <1>5, CountsAppend
<1>7. UNCHANGED <<arrived, clocked>> /\ lp' # "pop"  BY DEF PollRbr, setVars, lineVars
<1>8. Counts(rx_buffer', Len(reads'))  BY <1>4 DEF Counts
<1>9. Counts(rxFifo', Len(reads') + Len(rx_buffer'))  BY <1>4, <1>5, <1>6
<1> QED  BY <1>1, <1>2, <1>3, <1>4, <1>5, <1>6, <1>7, <1>8, <1>9

LEMMA ReadRbrNext ==
  ASSUME OneSession, StreamInv, ReadRbr, IrqStep
  PROVE  RxInv'
<1> USE RxTypes DEF RxInv
<1> RxInv  BY DEF StreamInv
<1>1. /\ ~ByPolls /\ started /\ started' /\ ~dlab
      /\ UNCHANGED <<loopVars, arrived, clocked>>
  BY HandlerAlone DEF IrqStep, ReadRbr, setVars, lineVars
<1>2. ~ByPolls' /\ UNCHANGED <<reads, lp, left>>  BY <1>1 DEF loopVars, ByPolls
<1>3. CASE rlsr.DR /\ rx_buffer' = Append(rx_buffer, RbrByte) /\ RbrPop
  <2>1. rxFifo # <<>>  BY <1>3 DEF ReadRbr, StreamInv, DataInv
  <2>2. rx_buffer' = Append(rx_buffer, Head(rxFifo)) /\ rxFifo' = Tail(rxFifo)
    BY <1>1, <1>3, <2>1 DEF RbrByte, RbrPop
  <2>3. /\ Head(rxFifo) = Len(reads) + Len(rx_buffer) + 1 /\ Head(rxFifo) \in Bytes
        /\ Len(rxFifo') = Len(rxFifo) - 1
        /\ Counts(rxFifo', Len(reads) + Len(rx_buffer) + 1)
    BY <2>1, <2>2, CountsTail
  <2>4. Len(rx_buffer') = Len(rx_buffer) + 1 /\ Counts(rx_buffer', Len(reads))
    BY <2>2, <2>3, CountsAppend
  <2>5. Counts(rxFifo', Len(reads') + Len(rx_buffer'))  BY <1>2, <2>3, <2>4
  <2> QED  BY <1>1, <1>2, <2>3, <2>4, <2>5
<1>4. CASE UNCHANGED <<rx_buffer, rxFifo>>
  BY <1>1, <1>2, <1>4, RxKept
<1> QED  BY <1>3, <1>4 DEF ReadRbr

LEMMA ArriveNext ==
  ASSUME OneSession, StreamInv, Arrive, UNCHANGED <<queueVars, irqVars, loopVars>>
  PROVE  RxInv' /\ Len(rxFifo') = Len(rxFifo) + 1
<1> USE RxTypes DEF RxInv
<1> RxInv  BY DEF StreamInv
<1>1. arrived + 1 \in 0..MaxArrivals  BY HwAssumption DEF Arrive
<1>2. arrived + 1 \in Bytes  BY <1>1, BytesType
<1>3. /\ Len(rxFifo') = Len(rxFifo) + 1
      /\ Counts(rxFifo', Len(reads) + Len(rx_buffer))
  BY <1>2, CountsAppend DEF Arrive
<1>4. UNCHANGED <<reads, rx_buffer, started, flags, file_flag, lp, left>>
  BY DEF queueVars, irqVars, loopVars
<1>5. clocked' /\ arrived' = arrived + 1  BY DEF Arrive, setVars, lineVars
<1> QED  BY <1>3, <1>4, <1>5 DEF ByPolls

LEMMA RxNext ==
  ASSUME OneSession, StreamInv, Next
  PROVE  RxInv'
<1> RxInv  BY DEF StreamInv
<1> USE RxTypes
<1>1. CASE Calls
  <2>1. CASE open_
    <3>1. ~started /\ setups = 0
      BY <2>1, UartAssumption
         DEF open_, OneSession, StreamInv, SessionInv, TypeInv, UartTypeOK, ThreadTypeOK
    <3>2. arrived = 0 /\ Len(rxFifo) = 0  BY <3>1 DEF RxInv, StreamInv, SessionInv
    <3>3. rxFifo' = rxFifo  BY <2>1, <3>2, EmptySeq DEF open_
    <3>4. UNCHANGED <<reads, rx_buffer, arrived, started>> /\ lp' = "fcr"
      BY <2>1 DEF open_, queueVars, irqVars
    <3> QED  BY <3>1, <3>2, <3>3, <3>4, RxKept
  <2>2. CASE ~open_
    <3>1. /\ UNCHANGED <<reads, rxFifo, rx_buffer, arrived, started, clocked>>
          /\ ByPolls' => ByPolls
      BY <1>1, <2>2 DEF Calls, close_, write_, read_, read_poll, ioctl_, hwVars, setVars, lineVars,
                        queueVars, irqVars, ByPolls
    <3>2. lp' = "pop" => left' <= Len(rx_buffer)
      BY <1>1, <2>2 DEF Calls, close_, write_, read_, read_poll, ioctl_, OneSession
    <3> QED  BY <3>1, <3>2, RxKept DEF RxInv
  <2> QED  BY <2>1, <2>2
<1>2. CASE Serve
  <2>1. CASE Pop  BY <2>1, PopNext
  <2>2. CASE PollRbr  BY <2>2, PollRbrNext
  <2>3. CASE SetFcr \/ ReadLcr \/ WriteLcr \/ SetupFails \/ SetDlab \/ SetDll \/ SetDlh
             \/ ClearDlab \/ Setup \/ SetupNoThread \/ SwitchRead
             \/ StartRxWrite \/ StartTxWrite \/ Push \/ PollTx \/ PollTemt
             \/ PollPut \/ PollPop \/ PollLsr
    <3>4. SetFcr => arrived = 0 /\ rxFifo = <<>>
      <4>1. SetFcr => arrived = 0  BY DEF SetFcr, StreamInv, SessionInv, RxInv
      <4>2. arrived = 0 => Len(rxFifo) = 0  BY DEF RxInv
      <4> QED  BY <4>1, <4>2, EmptySeq
    <3>1. UNCHANGED <<reads, rxFifo, rx_buffer, arrived>>
      BY <2>3, <3>4 DEF SetFcr, ReadLcr, WriteLcr, SetupFails, SetDlab, SetDll, SetDlh, ClearDlab,
           Setup, SetupNoThread, SwitchRead, StartRxWrite, StartTxWrite, Push, PollTx, PollTemt,
           PollPut, PollPop, PollLsr, hwVars, queueVars
    <3>5. ~clocked' => ~clocked
      BY <2>3 DEF SetFcr, ReadLcr, WriteLcr, SetupFails, SetDlab, SetDll, SetDlh, ClearDlab,
           Setup, SetupNoThread, SwitchRead, StartRxWrite, StartTxWrite, Push, PollTx, PollTemt,
           PollPut, PollPop, PollLsr, hwVars, setVars, lineVars
    <3>2. lp' # "pop" /\ (~started' => ~started)
      BY <2>3 DEF SetFcr, ReadLcr, WriteLcr, LcrPut, SetupFails, SetDlab, SetDll, SetDlh,
                  ClearDlab, Setup, SetupNoThread, SwitchRead, StartRxWrite,
           StartTxWrite, Push, PollTx, PollTemt, PollPut, PollPop, PollLsr, irqVars
    <3>3. ByPolls' => ByPolls
      BY <2>3 DEF SetFcr, ReadLcr, WriteLcr, LcrPut, SetupFails, SetDlab, SetDll, SetDlh,
                  ClearDlab, Setup, SetupNoThread, SwitchRead, StartRxWrite,
           StartTxWrite, Push, PollTx, PollTemt, PollPut, PollPop, PollLsr, ByPolls
    <3> QED  BY <3>1, <3>2, <3>3, <3>5, RxKept DEF RxInv
  <2> QED  BY <1>2, <2>1, <2>2, <2>3 DEF Serve
<1>3. CASE IrqStep
  <2>1. CASE ReadRbr  BY <1>3, <2>1, ReadRbrNext
  <2>2. CASE ~ReadRbr
    <3>1. UNCHANGED <<reads, rxFifo, rx_buffer, arrived, clocked, lp, left, flags, file_flag,
         started>>
      BY <1>3, <2>2, HandlerAlone DEF IrqStep, loopVars, IrqEntry, ReadLsr, RereadLsr, ReadMsr,
         TxSize, TxPut, TxPop, TxSwitchRead, TxSwitchWrite, hwVars, setVars, lineVars, queueVars
    <3> QED  BY <3>1, RxKept DEF ByPolls, RxInv
  <2> QED  BY <2>1, <2>2
<1>4. CASE HwStep
  <2>1. CASE Arrive  BY <1>4, <2>1, ArriveNext DEF HwStep
  <2>2. CASE LineEvent \/ Shift
    <3>1. UNCHANGED <<reads, rxFifo, rx_buffer, arrived, clocked, lp, left, flags, file_flag,
         started>>
      BY <1>4, <2>2 DEF HwStep, LineEvent, Shift, setVars, lineVars, queueVars, irqVars, loopVars,
                        StreamInv, SessionInv
    <3> QED  BY <3>1, RxKept DEF ByPolls, RxInv
  <2> QED  BY <1>4, <2>1, <2>2 DEF HwStep, Hardware
<1> QED  BY <1>1, <1>2, <1>3, <1>4 DEF Next

LEMMA DataNext ==
  ASSUME OneSession, StreamInv, Next
  PROVE  DataInv'
<1> DataInv  BY DEF StreamInv
<1> USE RxTypes DEF DataInv
<1>1. CASE Calls
  <2>1. UNCHANGED <<ip, iir, rlsr>> /\ lp' # "poll_rbr"
    BY <1>1 DEF Calls, open_, close_, write_, read_, read_poll, ioctl_, irqVars, irqLocals
  <2>2. CASE open_
    <3>1. ip = "wait" /\ err' = {}
      BY <2>2, UartAssumption
         DEF open_, OneSession, StreamInv, SessionInv, TypeInv, UartTypeOK, ThreadTypeOK
    <3> QED  BY <2>1, <3>1
  <2>3. CASE ~open_
    <3>1. UNCHANGED <<rxFifo, err>>
      BY <1>1, <2>3 DEF Calls, close_, write_, read_, read_poll, ioctl_, hwVars
    <3> QED  BY <2>1, <3>1
  <2> QED  BY <2>2, <2>3
<1>2. CASE Serve
  <2>1. CASE PollRbr
    <3>1. ByPolls  BY <2>1 DEF PollRbr, StreamInv, PollInv, ByPolls, Polling
    <3>2. ip = "wait" /\ MaxEvents = 0  BY <3>1 DEF StreamInv, PollInv
    <3>3. err = {}  BY <3>2, HwAssumption DEF StreamInv, QuietInv, TypeInv, UartTypeOK, HwTypeOK
    <3>4. UNCHANGED <<ip, iir, rlsr, err>> /\ lp' # "poll_rbr"
      BY <2>1 DEF PollRbr, irqVars, irqLocals
    <3> QED  BY <3>2, <3>3, <3>4
  <2>2. CASE PollLsr
    <3>1. UNCHANGED <<ip, iir, rlsr, rxFifo>> /\ err' = {} /\ (lp' = "poll_rbr" => rxFifo # <<>>)
      BY <2>2 DEF PollLsr, Lsr, irqVars, irqLocals
    <3> QED  BY <3>1
  <2>3. CASE SetFcr \/ ReadLcr \/ WriteLcr \/ SetupFails \/ SetDlab \/ SetDll \/ SetDlh
             \/ ClearDlab \/ Setup \/ SetupNoThread \/ SwitchRead
             \/ StartRxWrite \/ StartTxWrite \/ Push \/ PollTx \/ PollTemt
             \/ PollPut \/ PollPop \/ Pop
    <3>3. SetFcr => rxFifo = <<>>
      <4>1. SetFcr => arrived = 0  BY DEF SetFcr, StreamInv, SessionInv, RxInv
      <4>2. arrived = 0 => Len(rxFifo) = 0  BY DEF StreamInv, RxInv
      <4> QED  BY <4>1, <4>2, EmptySeq
    <3>1. UNCHANGED <<ip, iir, rlsr, rxFifo>>
      BY <2>3, <3>3 DEF SetFcr, ReadLcr, WriteLcr, LcrPut, SetupFails, SetDlab, SetDll, SetDlh,
                        ClearDlab, Setup, SetupNoThread, SwitchRead, StartRxWrite,
           StartTxWrite, Push, PollTx, PollTemt, PollPut, PollPop, Pop, hwVars, irqVars, irqLocals
    <3>2. lp' # "poll_rbr" /\ (err' # {} => err # {})
      BY <2>3 DEF SetFcr, ReadLcr, WriteLcr, LcrPut, SetupFails, SetDlab, SetDll, SetDlh,
                  ClearDlab, Setup, SetupNoThread, SwitchRead, StartRxWrite,
           StartTxWrite, Push, PollTx, PollTemt, PollPut, PollPop, Pop, hwVars
    <3> QED  BY <3>1, <3>2
  <2> QED  BY <1>2, <2>1, <2>2, <2>3 DEF Serve
<1>3. CASE IrqStep
  <2>1. lp' # "poll_rbr"  BY <1>3, HandlerAlone DEF IrqStep, loopVars, Polling
  <2>2. CASE IrqEntry  BY <2>1, <2>2 DEF OneSession, IrqEntry, Iir, Due, hwVars
  <2>3. CASE ReadLsr  BY <2>1, <2>3 DEF ReadLsr, Lsr, StreamInv, QuietInv
  <2>4. CASE ReadRbr  BY <2>1, <2>4 DEF ReadRbr
  <2>5. CASE RereadLsr
    <3>1. ip' \in {"rx", "modem"} /\ err' = {} /\ rxFifo' = rxFifo  BY <2>5 DEF RereadLsr
    <3>2. ip' = "rx" => rlsr' = Lsr  BY <2>5 DEF RereadLsr
    <3>3. Lsr.DR => rxFifo # <<>>  BY DEF Lsr
    <3> QED  BY <2>1, <3>1, <3>2, <3>3
  <2>6. CASE ReadMsr \/ TxSize \/ TxPut \/ TxPop \/ TxSwitchRead \/ TxSwitchWrite
    <3>1. UNCHANGED <<rxFifo, err>> /\ ip # "rx_lsr"
      BY <2>6 DEF ReadMsr, TxSize, TxPut, TxPop, TxSwitchRead, TxSwitchWrite, hwVars
    <3>2. ip' \notin {"lsr", "rx", "rx_lsr", "discard"}
      BY <2>6 DEF ReadMsr, TxSize, TxPut, TxPop, TxSwitchRead, TxSwitchWrite, Done
    <3> QED  BY <2>1, <3>1, <3>2
  <2> QED  BY <1>3, <2>2, <2>3, <2>4, <2>5, <2>6, HandlerAlone
<1>4. CASE HwStep
  <2>1. UNCHANGED <<ip, iir, rlsr, lp>>  BY <1>4 DEF HwStep, irqVars, irqLocals, loopVars
  <2>2. CASE Arrive
    <3>1. rxFifo' # <<>>  BY <1>4, <2>2, ArriveNext, EmptyType DEF HwStep
    <3> QED  BY <2>1, <3>1
  <2>3. CASE LineEvent  BY <2>1, <2>3 DEF LineEvent
  <2>4. CASE Shift  BY <2>1, <2>4 DEF Shift, StreamInv, SessionInv
  <2> QED  BY <1>4, <2>2, <2>3, <2>4 DEF HwStep, Hardware
<1> QED  BY <1>1, <1>2, <1>3, <1>4 DEF Next

LEMMA StreamNext == OneSession /\ StreamInv /\ [Next]_vars => StreamInv'
<1> SUFFICES ASSUME OneSession, StreamInv, [Next]_vars  PROVE StreamInv'  OBVIOUS
<1>1. TypeInv'  BY TypeNext DEF StreamInv
<1>2. CASE Next
  BY <1>1, <1>2, QuietNext, SessionNext, PollNext, TxNext, RoomNext, RxNext, DataNext DEF StreamInv
<1>3. CASE UNCHANGED vars
  <2> USE <1>3 DEF StreamInv, vars, hwVars, setVars, lineVars, queueVars, irqVars, irqLocals,
                   loopVars
  <2>1. QuietInv' /\ SessionInv' /\ PollInv'
    BY DEF QuietInv, SessionInv, PollInv, ByPolls
  <2>2. TxInv' /\ RoomInv'  BY DEF TxInv, Doubled, RoomInv
  <2>3. RxInv' /\ DataInv'  BY DEF RxInv, ByPolls, DataInv
  <2> QED  BY <1>1, <2>1, <2>2, <2>3
<1> QED  BY <1>2, <1>3

(***************************************************************************)
(* Every step is one of the channel's, or none.                            *)
(***************************************************************************)
LEMMA TxStep ==
  ASSUME OneSession, StreamInv, [Next]_vars
  PROVE  [Tx!Send \/ Tx!Deliver]_<<written, wire>>
<1>1. CASE Push  BY <1>1 DEF Push, hwVars, Tx!Send
<1>2. CASE Shift /\ HwStep
  <2>1. Len(wire) < written /\ wire' = Append(wire, Len(wire) + 1)
    BY <1>2, ShiftNext DEF HwStep
  <2> QED  BY <1>2, <2>1 DEF HwStep, loopVars, Tx!Deliver
<1>3. CASE ~Push /\ ~(Shift /\ HwStep)
  <2>1. CASE Calls
    BY <2>1 DEF Calls, open_, close_, write_, read_, read_poll, ioctl_, hwVars
  <2>2. CASE Serve
    BY <1>3, <2>2 DEF Serve, SetFcr, ReadLcr, WriteLcr, LcrPut, SetupFails, SetDlab, SetDll,
                      SetDlh, ClearDlab, Setup, SetupNoThread, SwitchRead,
       StartRxWrite, StartTxWrite, PollTx, PollTemt, PollPut, PollPop, Pop, PollLsr, PollRbr, hwVars
  <2>3. CASE IrqStep
    BY <2>3, HandlerAlone DEF IrqStep, IrqEntry, ReadLsr, ReadRbr, RereadLsr, ReadMsr, TxSize,
       TxPut, TxPop, TxSwitchRead, TxSwitchWrite, hwVars, loopVars
  <2>4. CASE HwStep
    BY <1>3, <2>4 DEF HwStep, Hardware, Arrive, LineEvent, loopVars
  <2>5. CASE UNCHANGED vars  BY <2>5 DEF vars, hwVars, loopVars
  <2> QED  BY <2>1, <2>2, <2>3, <2>4, <2>5 DEF Next
<1> QED  BY <1>1, <1>2, <1>3

LEMMA RxStep ==
  ASSUME OneSession, StreamInv, [Next]_vars
  PROVE  [Rx!Send \/ Rx!Deliver]_<<arrived, reads>>
<1>1. CASE Arrive /\ HwStep
  BY <1>1 DEF Arrive, HwStep, loopVars, Rx!Send
<1>2. CASE Pop \/ PollRbr
  <2>1. Len(reads) < arrived /\ reads' = Append(reads, Len(reads) + 1)
    BY <1>2, PopNext, PollRbrNext
  <2> QED  BY <1>2, <2>1 DEF Pop, PollRbr, hwVars, Rx!Deliver
<1>3. CASE ~(Arrive /\ HwStep) /\ ~(Pop \/ PollRbr)
  <2>1. CASE Calls
    BY <2>1 DEF Calls, open_, close_, write_, read_, read_poll, ioctl_, hwVars
  <2>2. CASE Serve
    BY <1>3, <2>2 DEF Serve, SetFcr, ReadLcr, WriteLcr, LcrPut, SetupFails, SetDlab, SetDll,
                      SetDlh, ClearDlab, Setup, SetupNoThread, SwitchRead,
       StartRxWrite, StartTxWrite, Push, PollTx, PollTemt, PollPut, PollPop, PollLsr, hwVars
  <2>3. CASE IrqStep
    BY <2>3, HandlerAlone DEF IrqStep, IrqEntry, ReadLsr, ReadRbr, RereadLsr, ReadMsr, TxSize,
       TxPut, TxPop, TxSwitchRead, TxSwitchWrite, hwVars, loopVars
  <2>4. CASE HwStep
    BY <1>3, <2>4 DEF HwStep, Hardware, Shift, LineEvent, loopVars
  <2>5. CASE UNCHANGED vars  BY <2>5 DEF vars, hwVars, loopVars
  <2> QED  BY <2>1, <2>2, <2>3, <2>4, <2>5 DEF Next
<1> QED  BY <1>1, <1>2, <1>3

(* Whatever the sizes and the bounds, within one session the line carries    *)
(* what write_ took, each byte once and in order: the interrupt thread's     *)
(* bursts fit the fifo, and neither loses to the other what is in the queue. *)
THEOREM UartSendsStream ==
  ASSUME OneSession
  PROVE  Spec => TxStream
<1>1. Init => StreamInv /\ Tx!ByteInit
  BY StreamInit DEF Init, HwInit, Tx!ByteInit
<1>2. StreamInv /\ [Next]_vars => StreamInv'
  BY StreamNext
<1>3. StreamInv /\ [Next]_vars => [Tx!Send \/ Tx!Deliver]_<<written, wire>>
  BY TxStep
<1> QED  BY <1>1, <1>2, <1>3, PTL DEF Spec, TxStream, Tx!ByteSpec

(* And read_ gives out what came into the fifo, each byte once and in order: *)
(* an error bit makes the handler wait, never skip, and the branch of        *)
(* handle_irq that reads a byte and drops it is not reached.                 *)
THEOREM UartReceivesStream ==
  ASSUME OneSession
  PROVE  Spec => RxStream
<1>1. Init => StreamInv /\ Rx!ByteInit
  BY StreamInit DEF Init, HwInit, Rx!ByteInit
<1>2. StreamInv /\ [Next]_vars => StreamInv'
  BY StreamNext
<1>3. StreamInv /\ [Next]_vars => [Rx!Send \/ Rx!Deliver]_<<arrived, reads>>
  BY RxStep
<1> QED  BY <1>1, <1>2, <1>3, PTL DEF Spec, RxStream, Rx!ByteSpec
=============================================================================
