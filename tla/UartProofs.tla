----------------------------- MODULE UartProofs -----------------------------
(* Proofs about UartClass.tla for any sizes, flags and bounds: the types, and *)
(* that no session, reset or busy interrupt reorders or doubles bytes.       *)
EXTENDS UartProps, SequenceTheorems, TLAPS

(***************************************************************************)
(* Types.  A call that moves bytes knows how many are left.                *)
(***************************************************************************)
LeftToMove ==
  /\ lp = "push" => left > 0 /\ written + left <= MaxWrites
  /\ lp \in {"pop", "poll_rbr", "lcr", "lcr_write"} => left > 0

TypeInv == UartTypeOK /\ LeftToMove

LEMMA BytesType ==
  /\ 0 \in Bytes
  /\ 0..MaxArrivals \subseteq Bytes
  /\ 0..MaxWrites \subseteq Bytes
BY HwAssumption, UartAssumption DEF Bytes

LEMMA FrontType ==
  ASSUME NEW q \in Seq(Bytes)
  PROVE  Front(q) \in Bytes /\ Popped(q) \in Seq(Bytes)
BY BytesType DEF Front, Popped

LEMMA RbrType ==
  ASSUME HwTypeOK, RbrPop
  PROVE  /\ RbrByte \in Bytes
         /\ rxFifo' \in Seq(Bytes) /\ Len(rxFifo') <= RxDepth
<1> USE HwAssumption DEF HwTypeOK, RbrPop, RbrByte
<1>1. CASE dlab \/ rxFifo = <<>>  BY <1>1, BytesType
<1>2. CASE ~dlab /\ rxFifo # <<>>  BY <1>2, HeadTailProperties
<1> QED  BY <1>1, <1>2

LEMMA ThrType ==
  ASSUME HwTypeOK, NEW b \in Bytes, ThrPut(b)
  PROVE  txFifo' \in Seq(Bytes) /\ Len(txFifo') <= TxDepth
BY HwAssumption, AppendProperties DEF HwTypeOK, ThrPut, Room

LEMMA IerType ==
  ASSUME HwTypeOK, NEW bits \in SUBSET Interrupts, IerPut(bits)
  PROVE  ier' \subseteq Interrupts /\ dlh' \subseteq Interrupts
BY DEF HwTypeOK, IerPut

LEMMA LsrType == HwTypeOK => Lsr \in Status /\ NoLsr \in Status
BY DEF Lsr, NoLsr, Status, HwTypeOK

LEMMA EmptyType == <<>> \in Seq(Bytes) /\ Len(<<>>) = 0
OBVIOUS

LEMMA TypeInit == Init => TypeInv
<1> SUFFICES ASSUME Init  PROVE TypeInv  OBVIOUS
<1> USE BytesType DEF Init
<1>1. HwTypeOK
  <2>1. /\ ier \subseteq Interrupts
        /\ rxFifo \in Seq(Bytes) /\ Len(rxFifo) <= RxDepth
        /\ txFifo \in Seq(Bytes) /\ Len(txFifo) <= TxDepth
        /\ wire \in Seq(Bytes)
    BY EmptyType, HwAssumption DEF HwInit
  <2>2. arrived \in 0..MaxArrivals /\ events \in 0..MaxEvents /\ busies \in 0..MaxBusy
    BY HwAssumption DEF HwInit
  <2>3. /\ err \subseteq {"BI", "OTHER"} /\ modem \in BOOLEAN /\ busy \in BOOLEAN
        /\ clocked \in BOOLEAN /\ fifos \in BOOLEAN /\ dlab \in BOOLEAN
        /\ dlh \subseteq Interrupts /\ loopback \in BOOLEAN
        /\ trigger \in {0, TxTrigger}
    BY DEF HwInit
  <2> QED  BY <2>1, <2>2, <2>3 DEF HwTypeOK
<1>2. IrqTypeOK
  <2>1. NoLsr \in Status /\ NoHeld \in [dlab : BOOLEAN, fifos : BOOLEAN]
    BY DEF NoLsr, Status, NoHeld
  <2> QED  BY <2>1, EmptyType DEF IrqInit, IrqTypeOK
<1>3. ThreadTypeOK
  <2>1. setups \in 0..MaxSetups /\ written \in 0..MaxWrites  BY UartAssumption
  <2>2. reads \in Seq(Bytes)  BY EmptyType
  <2> QED  BY <2>1, <2>2 DEF ThreadTypeOK
<1>4. LeftToMove  BY DEF LeftToMove
<1> QED  BY <1>1, <1>2, <1>3, <1>4 DEF TypeInv, UartTypeOK

(***************************************************************************)
(* The interrupt thread keeps the types.                                   *)
(***************************************************************************)
LEMMA LoopVarsKept ==
  ASSUME TypeInv, UNCHANGED loopVars
  PROVE  ThreadTypeOK' /\ LeftToMove'
BY DEF TypeInv, UartTypeOK, ThreadTypeOK, LeftToMove, loopVars

LEMMA DoneType ==
  ASSUME Done, rx_buffer' \in Seq(Bytes), tx_buffer' \in Seq(Bytes), started' \in BOOLEAN
  PROVE  IrqTypeOK'
<1>1. NoLsr \in Status /\ NoHeld \in [dlab : BOOLEAN, fifos : BOOLEAN]
  BY DEF NoLsr, Status, NoHeld
<1> QED  BY <1>1 DEF Done, IrqTypeOK

LEMMA TypeIrq == TypeInv /\ IrqStep => TypeInv'
<1> SUFFICES ASSUME TypeInv, IrqThread, UNCHANGED loopVars  PROVE TypeInv'
  BY DEF IrqStep
<1>1. ThreadTypeOK' /\ LeftToMove'  BY LoopVarsKept
<1> SUFFICES HwTypeOK' /\ IrqTypeOK'  BY <1>1 DEF TypeInv, UartTypeOK
<1> HwTypeOK /\ IrqTypeOK  BY DEF TypeInv, UartTypeOK
<1> USE DEF hwVars, setVars, lineVars, queueVars, irqLocals
<1>2. CASE IrqEntry
  <2>1. HwTypeOK'  BY <1>2 DEF IrqEntry, HwTypeOK
  <2>2. iir' \in {"LINESTA", "RXDVAL", "CHARTO", "THREMP", "MSTA", "BUSBSY", "NOIRQ"}
    BY <1>2 DEF IrqEntry, Iir, Due
  <2>3. IrqTypeOK'  BY <1>2, <2>2 DEF IrqEntry, IrqTypeOK
  <2> QED  BY <2>1, <2>3
<1>3. CASE ReadLsr
  <2>1. HwTypeOK'  BY <1>3 DEF ReadLsr, HwTypeOK
  <2>2. /\ temt' \in BOOLEAN
        /\ rlsr' \in Status /\ cnt' \in Nat
        /\ ip' \in {"rx", "busy", "discard", "modem"}
    BY <1>3, LsrType, IrqAssumption DEF ReadLsr, IrqTypeOK, Lsr
  <2> QED  BY <1>3, <2>1, <2>2 DEF ReadLsr, IrqTypeOK
<1>4. CASE HoldLcr
  <2>1. HwTypeOK'  BY <1>4 DEF HoldLcr, HwTypeOK
  <2>2. held' \in [dlab : BOOLEAN, fifos : BOOLEAN]  BY <1>4 DEF HoldLcr, HwTypeOK
  <2> QED  BY <1>4, <2>1, <2>2 DEF HoldLcr, IrqTypeOK
<1>5. CASE ClearBusy
  <2>1. fifos' \in BOOLEAN  BY <1>5 DEF ClearBusy, IrqTypeOK
  <2>2. busy' \in BOOLEAN /\ loopback' \in BOOLEAN /\ trigger' \in {0, TxTrigger}
    BY <1>5 DEF ClearBusy
  <2>3. /\ rxFifo' \in Seq(Bytes) /\ Len(rxFifo') <= RxDepth
        /\ txFifo' \in Seq(Bytes) /\ Len(txFifo') <= TxDepth
    BY <1>5, EmptyType, HwAssumption DEF ClearBusy
  <2>4. HwTypeOK'  BY <1>5, <2>1, <2>2, <2>3 DEF ClearBusy, HwTypeOK
  <2>5. IrqTypeOK'  BY <1>5 DEF ClearBusy, IrqTypeOK
  <2> QED  BY <2>4, <2>5
<1>6. CASE RestoreLcr
  <2>1. HwTypeOK'  BY <1>6 DEF RestoreLcr, HwTypeOK, IrqTypeOK
  <2>2. IrqTypeOK'  BY <1>6 DEF RestoreLcr, IrqTypeOK
  <2> QED  BY <2>1, <2>2
<1>16. CASE RestoreMcr
  <2>1. HwTypeOK'  BY <1>16 DEF RestoreMcr, HwTypeOK
  <2>2. IrqTypeOK'  BY <1>16, DoneType DEF RestoreMcr, IrqTypeOK
  <2> QED  BY <2>1, <2>2
<1>7. CASE ReadRbr
  <2>1. /\ rx_buffer' \in Seq(Bytes)
        /\ rxFifo' \in Seq(Bytes) /\ Len(rxFifo') <= RxDepth
    <3>1. CASE ~rlsr.ERR /\ rlsr.DR
      <4>1. RbrPop /\ rx_buffer' = Append(rx_buffer, RbrByte)  BY <1>7, <3>1 DEF ReadRbr
      <4> QED  BY <4>1, RbrType, AppendProperties DEF IrqTypeOK
    <3>2. CASE ~(~rlsr.ERR /\ rlsr.DR)
      BY <1>7, <3>2 DEF ReadRbr, IrqTypeOK, HwTypeOK
    <3> QED  BY <3>1, <3>2
  <2>2. HwTypeOK'  BY <1>7, <2>1 DEF ReadRbr, HwTypeOK
  <2>3. IrqTypeOK'  BY <1>7, <2>1 DEF ReadRbr, IrqTypeOK
  <2> QED  BY <2>2, <2>3
<1>8. CASE RereadLsr
  <2>1. HwTypeOK'  BY <1>8 DEF RereadLsr, HwTypeOK
  <2>2. /\ ip' \in {"rx", "modem"}
        /\ rlsr' \in Status /\ cnt' \in Nat
    BY <1>8, LsrType DEF RereadLsr, IrqTypeOK
  <2> QED  BY <1>8, <2>1, <2>2 DEF RereadLsr, IrqTypeOK
<1>9. CASE DiscardRbr
  <2>1. HwTypeOK'  BY <1>9, RbrType DEF DiscardRbr, HwTypeOK
  <2>2. IrqTypeOK'  BY <1>9 DEF DiscardRbr, IrqTypeOK
  <2> QED  BY <2>1, <2>2
<1>10. CASE ReadMsr
  <2>1. HwTypeOK'  BY <1>10 DEF ReadMsr, HwTypeOK
  <2>2. IrqTypeOK'
    <3>1. CASE Done  BY <1>10, <3>1, DoneType DEF ReadMsr, IrqTypeOK
    <3>2. CASE ~Done  BY <1>10, <3>2 DEF ReadMsr, IrqTypeOK
    <3> QED  BY <3>1, <3>2
  <2> QED  BY <2>1, <2>2
<1>11. CASE TxSize
  <2>1. HwTypeOK'  BY <1>11 DEF TxSize, HwTypeOK
  <2>2. IrqTypeOK'  BY <1>11, IrqAssumption DEF TxSize, IrqTypeOK
  <2> QED  BY <2>1, <2>2
<1>12. CASE TxPut
  <2>1. HwTypeOK'  BY <1>12, ThrType, FrontType DEF TxPut, HwTypeOK, IrqTypeOK
  <2>2. IrqTypeOK'  BY <1>12 DEF TxPut, IrqTypeOK
  <2> QED  BY <2>1, <2>2
<1>13. CASE TxPop
  <2>1. HwTypeOK'  BY <1>13 DEF TxPop, HwTypeOK
  <2>2. tx_buffer' \in Seq(Bytes)  BY <1>13, FrontType DEF TxPop, IrqTypeOK
  <2>3. IrqTypeOK'
    <3>1. CASE Done  BY <1>13, <2>2, <3>1, DoneType DEF TxPop, IrqTypeOK
    <3>2. CASE ~Done  BY <1>13, <2>2, <3>2 DEF TxPop, IrqTypeOK
    <3> QED  BY <3>1, <3>2
  <2> QED  BY <2>1, <2>3
<1>14. CASE TxSwitchRead
  <2>1. HwTypeOK'  BY <1>14 DEF TxSwitchRead, HwTypeOK
  <2>2. IrqTypeOK'  BY <1>14 DEF TxSwitchRead, IrqTypeOK, HwTypeOK, IerNow
  <2> QED  BY <2>1, <2>2
<1>15. CASE TxSwitchWrite
  <2>1. ier' \subseteq Interrupts /\ dlh' \subseteq Interrupts
    <3>1. /\ ireg \ {"THRI"} \subseteq Interrupts
          /\ ireg \cup {"THRI"} \subseteq Interrupts
      BY DEF IrqTypeOK, Interrupts
    <3> QED  BY <1>15, <3>1, IerType DEF TxSwitchWrite
  <2>2. HwTypeOK'  BY <1>15, <2>1 DEF TxSwitchWrite, HwTypeOK
  <2>3. IrqTypeOK'  BY <1>15, DoneType DEF TxSwitchWrite, IrqTypeOK
  <2> QED  BY <2>2, <2>3
<1> QED  BY <1>2, <1>3, <1>4, <1>5, <1>6, <1>7, <1>8, <1>9, <1>10, <1>11, <1>12, <1>13,
            <1>14, <1>15, <1>16 DEF IrqThread

(***************************************************************************)
(* The loop thread and the hardware keep the types.                        *)
(***************************************************************************)
LEMMA IrqVarsKept ==
  ASSUME IrqTypeOK, UNCHANGED <<queueVars, irqVars>>, started' \in BOOLEAN
  PROVE  IrqTypeOK'
BY DEF IrqTypeOK, queueVars, irqVars, irqLocals

LEMMA HwVarsKept == HwTypeOK /\ UNCHANGED hwVars => HwTypeOK'
BY DEF HwTypeOK, hwVars, setVars, lineVars

LEMMA TypeHw == TypeInv /\ HwStep => TypeInv'
<1> SUFFICES ASSUME TypeInv, Hardware, UNCHANGED <<queueVars, irqVars, loopVars>>
             PROVE  TypeInv'
  BY DEF HwStep
<1>1. ThreadTypeOK' /\ LeftToMove'  BY LoopVarsKept
<1>2. IrqTypeOK'  BY IrqVarsKept DEF TypeInv, UartTypeOK, IrqTypeOK, irqVars
<1>3. HwTypeOK  BY DEF TypeInv, UartTypeOK
<1>4. HwTypeOK'
  <2> USE DEF setVars, lineVars
  <2>1. CASE Arrive
    <3>3. arrived \in 0..MaxArrivals /\ arrived < MaxArrivals /\ arrived' = arrived + 1
      BY <2>1, <1>3 DEF Arrive, HwTypeOK
    <3>1. arrived' \in 0..MaxArrivals /\ arrived + 1 \in Bytes
      BY <3>3, BytesType, HwAssumption
    <3>2. rxFifo' \in Seq(Bytes) /\ Len(rxFifo') <= RxDepth
      BY <2>1, <3>1, <1>3, AppendProperties, HwAssumption DEF Arrive, HwTypeOK, Room
    <3> QED  BY <2>1, <3>1, <3>2, <1>3 DEF Arrive, HwTypeOK
  <2>2. CASE LineEvent
    <3>1. events' \in 0..MaxEvents  BY <2>2, <1>3, HwAssumption DEF LineEvent, HwTypeOK
    <3>2. err' \subseteq {"BI", "OTHER"} /\ modem' \in BOOLEAN  BY <2>2, <1>3 DEF LineEvent,
         HwTypeOK
    <3> QED  BY <2>2, <3>1, <3>2, <1>3 DEF LineEvent, HwTypeOK
  <2>3. CASE Shift
    <3>1. txFifo' \in Seq(Bytes) /\ Len(txFifo') <= TxDepth /\ Head(txFifo) \in Bytes
      BY <2>3, <1>3, HeadTailProperties, HwAssumption DEF Shift, HwTypeOK
    <3>2. wire' \in Seq(Bytes)
      <4>1. wire' \in {wire, Append(wire, Head(txFifo))}  BY <2>3 DEF Shift
      <4>2. wire \in Seq(Bytes)  BY <1>3 DEF HwTypeOK
      <4> QED  BY <3>1, <4>1, <4>2, AppendProperties
    <3>3. rxFifo' \in Seq(Bytes) /\ Len(rxFifo') <= RxDepth
      <4>1. \/ rxFifo' = rxFifo
            \/ Len(rxFifo) < RxDepth /\ rxFifo' = Append(rxFifo, 0)
        BY <2>3, <1>3, HwAssumption DEF Shift, HwTypeOK, Room
      <4>2. rxFifo \in Seq(Bytes) /\ Len(rxFifo) <= RxDepth  BY <1>3 DEF HwTypeOK
      <4> QED  BY <4>1, <4>2, AppendProperties, BytesType, HwAssumption
    <3> QED  BY <2>3, <3>1, <3>2, <3>3, <1>3 DEF Shift, HwTypeOK
  <2> QED  BY <2>1, <2>2, <2>3 DEF Hardware
<1> QED  BY <1>1, <1>2, <1>3, <1>4 DEF TypeInv, UartTypeOK

LEMMA LcrType ==
  ASSUME HwTypeOK, NEW bit \in BOOLEAN, LcrPut(bit)
  PROVE  dlab' \in BOOLEAN /\ busy' \in BOOLEAN /\ busies' \in 0..MaxBusy
<1>1. CASE UNCHANGED <<busy, busies>>  BY <1>1 DEF HwTypeOK, LcrPut
<1>2. CASE busies < MaxBusy /\ busy' = TRUE /\ busies' = busies + 1
  BY <1>2, HwAssumption DEF HwTypeOK, LcrPut
<1> QED  BY <1>1, <1>2 DEF LcrPut

LEMMA TypeCalls == TypeInv /\ Calls => TypeInv'
<1> SUFFICES ASSUME TypeInv, Calls  PROVE TypeInv'  OBVIOUS
<1>1. HwTypeOK /\ IrqTypeOK /\ ThreadTypeOK  BY DEF TypeInv, UartTypeOK
<1>2. IrqTypeOK'
  BY <1>1, IrqVarsKept
     DEF Calls, open_, close_, write_, read_, read_poll, ioctl_, IrqTypeOK, irqVars
<1> SUFFICES HwTypeOK' /\ ThreadTypeOK' /\ LeftToMove'  BY <1>2 DEF TypeInv, UartTypeOK
<1>3. CASE open_
  <2>1. HwTypeOK'
    <3>1. /\ rxFifo' \in Seq(Bytes) /\ Len(rxFifo') <= RxDepth
          /\ txFifo' \in Seq(Bytes) /\ Len(txFifo') <= TxDepth
      BY <1>3, EmptyType, HwAssumption DEF open_
    <3>2. /\ ier' \subseteq Interrupts /\ trigger' \in {0, TxTrigger}
          /\ err' \subseteq {"BI", "OTHER"} /\ modem' \in BOOLEAN /\ busy' \in BOOLEAN
          /\ clocked' \in BOOLEAN /\ fifos' \in BOOLEAN /\ dlab' \in BOOLEAN
          /\ dlh' \subseteq Interrupts /\ loopback' \in BOOLEAN
      BY <1>3 DEF open_
    <3> QED  BY <1>3, <1>1, <3>1, <3>2 DEF open_, HwTypeOK
  <2>2. setups' \in 0..MaxSetups /\ flags' \in Flags /\ lp' = "fcr"
    BY <1>3, <1>1, UartAssumption DEF open_, ThreadTypeOK
  <2> QED  BY <1>3, <1>1, <2>1, <2>2 DEF open_, ThreadTypeOK, LeftToMove
<1>4. CASE close_
  BY <1>4, <1>1, HwVarsKept DEF close_, ThreadTypeOK, LeftToMove
<1>5. CASE write_
  <2>1. left' \in 1..(MaxWrites - written) /\ lp' = "push" /\ written' = written
    BY <1>5 DEF write_
  <2> QED  BY <1>5, <1>1, <2>1, HwVarsKept, UartAssumption DEF write_, ThreadTypeOK, LeftToMove
<1>6. CASE read_
  <2>1. left' \in 1..Len(rx_buffer) /\ lp' = "pop" /\ Len(rx_buffer) \in Nat
    BY <1>6, <1>1, LenProperties DEF read_, IrqTypeOK
  <2> QED  BY <1>6, <1>1, <2>1, HwVarsKept DEF read_, ThreadTypeOK, LeftToMove
<1>7. CASE read_poll
  <2>1. left' \in 1..MaxArrivals /\ lp' = "poll_lsr"
    BY <1>7 DEF read_poll
  <2> QED  BY <1>7, <1>1, <2>1, HwVarsKept, HwAssumption DEF read_poll, ThreadTypeOK, LeftToMove
<1>8. CASE ioctl_
  <2>1. setups' \in 0..MaxSetups /\ lp' \in {"set_lcr", "set_baud"}
    BY <1>8, <1>1, UartAssumption DEF ioctl_, ThreadTypeOK
  <2> QED  BY <1>8, <1>1, <2>1, HwVarsKept DEF ioctl_, ThreadTypeOK, LeftToMove
<1> QED  BY <1>3, <1>4, <1>5, <1>6, <1>7, <1>8 DEF Calls

LEMMA TypeServe == TypeInv /\ Serve => TypeInv'
<1> SUFFICES ASSUME TypeInv, Serve  PROVE TypeInv'  OBVIOUS
<1>1. HwTypeOK /\ IrqTypeOK /\ ThreadTypeOK /\ LeftToMove  BY DEF TypeInv, UartTypeOK
<1>2. /\ Pop => Front(rx_buffer) \in Bytes /\ Popped(rx_buffer) \in Seq(Bytes)
      /\ Front(tx_buffer) \in Bytes /\ Popped(tx_buffer) \in Seq(Bytes)
  BY <1>1, FrontType DEF IrqTypeOK
<1>3. CASE SetupFails
  <2>1. HwTypeOK' /\ IrqTypeOK'  BY <1>3, <1>1, HwVarsKept, IrqVarsKept DEF SetupFails, IrqTypeOK,
       irqVars
  <2> QED  BY <1>3, <1>1, <2>1 DEF SetupFails, ThreadTypeOK, LeftToMove, TypeInv, UartTypeOK
<1>4. CASE SetDlab \/ ClearDlab
  <2>1. HwTypeOK'  BY <1>4, <1>1 DEF SetDlab, ClearDlab, HwTypeOK
  <2>2. IrqTypeOK'  BY <1>4, <1>1, IrqVarsKept DEF SetDlab, ClearDlab, IrqTypeOK, irqVars
  <2> QED  BY <1>4, <1>1, <2>1, <2>2 DEF SetDlab, ClearDlab, ThreadTypeOK, LeftToMove, TypeInv,
       UartTypeOK
<1>5. CASE SetDll
  <2>1. txFifo' \in Seq(Bytes) /\ Len(txFifo') <= TxDepth
    BY <1>5, <1>1, ThrType, BytesType DEF SetDll
  <2>2. HwTypeOK'  BY <1>5, <1>1, <2>1 DEF SetDll, HwTypeOK, setVars, lineVars
  <2>3. IrqTypeOK'  BY <1>5, <1>1, IrqVarsKept DEF SetDll, IrqTypeOK, irqVars
  <2> QED  BY <1>5, <1>1, <2>2, <2>3 DEF SetDll, ThreadTypeOK, LeftToMove, TypeInv, UartTypeOK
<1>6. CASE SetDlh
  <2>1. ier' \subseteq Interrupts /\ dlh' \subseteq Interrupts
    <3>1. HighBytes \subseteq SUBSET Interrupts  BY UartAssumption DEF Interrupts
    <3> QED  BY <1>6, <1>1, <3>1, IerType DEF SetDlh
  <2>2. HwTypeOK'  BY <1>6, <1>1, <2>1 DEF SetDlh, HwTypeOK, lineVars
  <2>3. IrqTypeOK'  BY <1>6, <1>1, IrqVarsKept DEF SetDlh, IrqTypeOK, irqVars
  <2> QED  BY <1>6, <1>1, <2>2, <2>3 DEF SetDlh, ThreadTypeOK, LeftToMove, TypeInv, UartTypeOK
<1>7. CASE Setup \/ SetupNoThread
  <2>1. ier' \subseteq Interrupts /\ dlh' \subseteq Interrupts
    <3>1. {"LINE"} \subseteq Interrupts  BY DEF Interrupts
    <3> QED  BY <1>7, <1>1, <3>1, IerType DEF Setup, SetupNoThread
  <2>2. HwTypeOK'  BY <1>7, <1>1, <2>1 DEF Setup, SetupNoThread, HwTypeOK, lineVars
  <2>3. IrqTypeOK'
    BY <1>7, <1>1 DEF Setup, SetupNoThread, IrqTypeOK, queueVars, irqVars, irqLocals
  <2>4. ThreadTypeOK' /\ LeftToMove'
    <3>1. CASE Setup /\ lp' = "rx_on" /\ UNCHANGED <<file_flag, flags>>
      BY <1>7, <1>1, <3>1 DEF Setup, ThreadTypeOK, LeftToMove
    <3>2. CASE Setup /\ lp' = "idle" /\ file_flag' = flags /\ flags' = {}
      BY <1>7, <1>1, <3>2 DEF Setup, ThreadTypeOK, LeftToMove
    <3>3. CASE SetupNoThread  BY <1>1, <3>3 DEF SetupNoThread, ThreadTypeOK, LeftToMove
    <3> QED  BY <1>7, <3>1, <3>2, <3>3 DEF Setup
  <2> QED  BY <2>2, <2>3, <2>4 DEF TypeInv, UartTypeOK
<1>8. CASE SwitchRead
  <2>1. lreg' \subseteq Interrupts  BY <1>8, <1>1 DEF SwitchRead, IerNow, HwTypeOK
  <2>2. HwTypeOK' /\ IrqTypeOK'  BY <1>8, <1>1, HwVarsKept, IrqVarsKept DEF SwitchRead, IrqTypeOK,
       irqVars
  <2> QED  BY <1>8, <1>1, <2>1, <2>2 DEF SwitchRead, ThreadTypeOK, LeftToMove, TypeInv, UartTypeOK
<1>9. CASE StartRxWrite \/ StartTxWrite
  <2>1. ier' \subseteq Interrupts /\ dlh' \subseteq Interrupts
    <3>1. /\ lreg \cup {"RDI"} \subseteq Interrupts
          /\ lreg \cup {"THRI"} \subseteq Interrupts
      BY <1>1 DEF ThreadTypeOK, Interrupts
    <3> QED  BY <1>9, <1>1, <3>1, IerType DEF StartRxWrite, StartTxWrite
  <2>2. HwTypeOK'  BY <1>9, <1>1, <2>1 DEF StartRxWrite, StartTxWrite, HwTypeOK, setVars, lineVars
  <2>3. IrqTypeOK'  BY <1>9, <1>1, IrqVarsKept DEF StartRxWrite, StartTxWrite, IrqTypeOK, irqVars
  <2> QED  BY <1>9, <1>1, <2>2, <2>3
           DEF StartRxWrite, StartTxWrite, ThreadTypeOK, LeftToMove, TypeInv, UartTypeOK
<1>10. CASE Push
  <2>1. left > 0 /\ written + left <= MaxWrites /\ written \in Nat /\ left \in Nat
    BY <1>10, <1>1, UartAssumption DEF Push, LeftToMove, ThreadTypeOK
  <2>2. written' \in 0..MaxWrites /\ written + 1 \in Bytes
    BY <1>10, <2>1, BytesType, UartAssumption DEF Push
  <2>3. tx_buffer' \in Seq(Bytes)  BY <1>10, <1>1, <2>2, AppendProperties DEF Push, IrqTypeOK
  <2>4. IrqTypeOK'  BY <1>10, <1>1, <2>3 DEF Push, IrqTypeOK, irqVars, irqLocals
  <2>5. HwTypeOK'  BY <1>10, <1>1, HwVarsKept DEF Push
  <2>6. lp' \in {"push", "poll_tx", "tx_on"} /\ (lp' = "push" => left > 1)  BY <1>10 DEF Push
  <2>7. left' \in Nat /\ (left > 1 => left' > 0) /\ written' + left' <= MaxWrites
    BY <1>10, <2>1, UartAssumption DEF Push
  <2> QED  BY <1>10, <1>1, <2>2, <2>4, <2>5, <2>6, <2>7
           DEF Push, ThreadTypeOK, LeftToMove, TypeInv, UartTypeOK
<1>11. CASE PollTx
  <2>1. HwTypeOK' /\ IrqTypeOK'  BY <1>11, <1>1, HwVarsKept, IrqVarsKept DEF PollTx, IrqTypeOK,
       irqVars
  <2> QED  BY <1>11, <1>1, <2>1 DEF PollTx, ThreadTypeOK, LeftToMove, TypeInv, UartTypeOK
<1>12. CASE PollTemt
  <2>1. HwTypeOK'  BY <1>12, <1>1 DEF PollTemt, HwTypeOK, setVars, lineVars
  <2>2. IrqTypeOK'  BY <1>12, <1>1, IrqVarsKept DEF PollTemt, IrqTypeOK, irqVars
  <2> QED  BY <1>12, <1>1, <2>1, <2>2 DEF PollTemt, ThreadTypeOK, LeftToMove, TypeInv, UartTypeOK
<1>13. CASE PollPut
  <2>1. txFifo' \in Seq(Bytes) /\ Len(txFifo') <= TxDepth
    BY <1>13, <1>1, <1>2, ThrType DEF PollPut
  <2>2. HwTypeOK'  BY <1>13, <1>1, <2>1 DEF PollPut, HwTypeOK, setVars, lineVars
  <2>3. IrqTypeOK'  BY <1>13, <1>1, IrqVarsKept DEF PollPut, IrqTypeOK, irqVars
  <2> QED  BY <1>13, <1>1, <2>2, <2>3 DEF PollPut, ThreadTypeOK, LeftToMove, TypeInv, UartTypeOK
<1>14. CASE PollPop
  <2>1. HwTypeOK'  BY <1>14, <1>1, HwVarsKept DEF PollPop
  <2>2. IrqTypeOK'  BY <1>14, <1>1, <1>2 DEF PollPop, IrqTypeOK, irqVars, irqLocals
  <2> QED  BY <1>14, <1>1, <2>1, <2>2 DEF PollPop, ThreadTypeOK, LeftToMove, TypeInv, UartTypeOK
<1>15. CASE Pop
  <2>1. HwTypeOK'  BY <1>15, <1>1, HwVarsKept DEF Pop
  <2>2. IrqTypeOK'  BY <1>15, <1>1, <1>2 DEF Pop, IrqTypeOK, irqVars, irqLocals
  <2>3. reads' \in Seq(Bytes)  BY <1>15, <1>1, <1>2, AppendProperties DEF Pop, ThreadTypeOK
  <2>4. left' \in Nat /\ (lp' = "pop" => left' > 0)  BY <1>15, <1>1 DEF Pop, LeftToMove,
       ThreadTypeOK
  <2>5. lp' \in {"pop", "idle"}  BY <1>15 DEF Pop
  <2> QED  BY <1>15, <1>1, <2>1, <2>2, <2>3, <2>4, <2>5
           DEF Pop, ThreadTypeOK, LeftToMove, TypeInv, UartTypeOK
<1>16. CASE PollLsr
  <2>1. HwTypeOK'  BY <1>16, <1>1 DEF PollLsr, HwTypeOK, setVars, lineVars
  <2>2. IrqTypeOK'  BY <1>16, <1>1, IrqVarsKept DEF PollLsr, IrqTypeOK, irqVars
  <2>3. left' \in Nat /\ (lp' = "poll_rbr" => left' > 0) /\ lp' \in {"poll_rbr", "idle"}
    BY <1>16, <1>1 DEF PollLsr, ThreadTypeOK
  <2> QED  BY <1>16, <1>1, <2>1, <2>2, <2>3 DEF PollLsr, ThreadTypeOK, LeftToMove, TypeInv,
       UartTypeOK
<1>17. CASE PollRbr
  <2>1. RbrByte \in Bytes /\ rxFifo' \in Seq(Bytes) /\ Len(rxFifo') <= RxDepth
    BY <1>17, <1>1, RbrType DEF PollRbr
  <2>2. HwTypeOK'  BY <1>17, <1>1, <2>1 DEF PollRbr, HwTypeOK, setVars, lineVars
  <2>3. IrqTypeOK'  BY <1>17, <1>1, IrqVarsKept DEF PollRbr, IrqTypeOK, irqVars
  <2>4. reads' \in Seq(Bytes)  BY <1>17, <1>1, <2>1, AppendProperties DEF PollRbr, ThreadTypeOK
  <2>5. left' \in Nat  BY <1>17, <1>1 DEF PollRbr, LeftToMove, ThreadTypeOK
  <2> QED  BY <1>17, <1>1, <2>2, <2>3, <2>4, <2>5
           DEF PollRbr, ThreadTypeOK, LeftToMove, TypeInv, UartTypeOK
<1>18. CASE SetFcr
  <2>1. /\ rxFifo' \in Seq(Bytes) /\ Len(rxFifo') <= RxDepth
        /\ txFifo' \in Seq(Bytes) /\ Len(txFifo') <= TxDepth
    BY <1>18, <1>1, EmptyType, HwAssumption DEF SetFcr, HwTypeOK
  <2>2. HwTypeOK'  BY <1>18, <1>1, <2>1 DEF SetFcr, HwTypeOK
  <2>3. IrqTypeOK'  BY <1>18, <1>1, IrqVarsKept DEF SetFcr, IrqTypeOK, irqVars
  <2> QED  BY <1>18, <1>1, <2>2, <2>3 DEF SetFcr, ThreadTypeOK, LeftToMove, TypeInv, UartTypeOK
<1>19. CASE ReadLcr
  <2>1. HwTypeOK' /\ IrqTypeOK'  BY <1>19, <1>1, HwVarsKept, IrqVarsKept DEF ReadLcr, IrqTypeOK,
       irqVars
  <2>2. lcr' \in BOOLEAN  BY <1>19, <1>1 DEF ReadLcr, HwTypeOK
  <2> QED  BY <1>19, <1>1, <2>1, <2>2 DEF ReadLcr, ThreadTypeOK, LeftToMove, TypeInv, UartTypeOK
<1>20. CASE WriteLcr
  <2>1. dlab' \in BOOLEAN /\ busy' \in BOOLEAN /\ busies' \in 0..MaxBusy
    BY <1>20, <1>1, LcrType DEF WriteLcr, ThreadTypeOK
  <2>2. HwTypeOK'  BY <1>20, <1>1, <2>1 DEF WriteLcr, HwTypeOK
  <2>3. IrqTypeOK'  BY <1>20, <1>1, IrqVarsKept DEF WriteLcr, IrqTypeOK, irqVars
  <2>4. left \in Nat /\ (lp = "lcr_write" => left > 0)  BY <1>1 DEF ThreadTypeOK, LeftToMove
  <2>5. left' \in Nat /\ lp' \in {"lcr", "baud", "idle"} /\ (lp' = "lcr" => left' > 0)
    <3>1. CASE lp = "lcr_write"  BY <1>20, <2>4, <3>1 DEF WriteLcr
    <3>2. CASE lp # "lcr_write"  BY <1>20, <2>4, <3>2 DEF WriteLcr
    <3> QED  BY <3>1, <3>2
  <2>6. ThreadTypeOK'  BY <1>20, <1>1, <2>5 DEF WriteLcr, ThreadTypeOK
  <2>7. LeftToMove'  BY <2>5 DEF LeftToMove
  <2> QED  BY <2>2, <2>3, <2>6, <2>7 DEF TypeInv, UartTypeOK
<1> QED  BY <1>3, <1>4, <1>5, <1>6, <1>7, <1>8, <1>9, <1>10, <1>11, <1>12, <1>13, <1>14,
            <1>15, <1>16, <1>17, <1>18, <1>19, <1>20 DEF Serve

LEMMA TypeNext == TypeInv /\ [Next]_vars => TypeInv'
<1> SUFFICES ASSUME TypeInv, [Next]_vars  PROVE TypeInv'  OBVIOUS
<1>1. CASE UNCHANGED vars
  <2>1. HwTypeOK'  BY <1>1, HwVarsKept DEF vars, TypeInv, UartTypeOK
  <2>2. IrqTypeOK'
    BY <1>1, IrqVarsKept DEF vars, TypeInv, UartTypeOK, IrqTypeOK, irqVars
  <2>3. ThreadTypeOK' /\ LeftToMove'  BY <1>1, LoopVarsKept DEF vars
  <2> QED  BY <2>1, <2>2, <2>3 DEF TypeInv, UartTypeOK
<1> QED  BY <1>1, TypeIrq, TypeHw, TypeCalls, TypeServe DEF Next

(* Whatever the users call and the hardware does, every register, queue and  *)
(* local of the two threads keeps its type: no fifo is filled over its depth *)
(* and no count of bytes left to move drops below zero.                      *)
THEOREM UartTypes == Spec => []UartTypeOK
<1>1. Spec => []TypeInv  BY TypeInit, TypeNext, PTL DEF Spec
<1>2. TypeInv => UartTypeOK  BY DEF TypeInv
<1> QED  BY <1>1, <1>2, PTL

(***************************************************************************)
(* Runs of consecutive numbers.                                            *)
(***************************************************************************)
Counts(s, n) == \A i \in 1..Len(s) : s[i] = n + i

LEMMA CountsEmpty == ASSUME NEW n  PROVE Counts(<<>>, n)
BY EmptyType DEF Counts

LEMMA CountsAppend ==
  ASSUME NEW S, NEW s \in Seq(S), NEW n \in Int, Counts(s, n), NEW e \in S, e = n + Len(s) + 1
  PROVE  /\ Append(s, e) \in Seq(S)
         /\ Len(Append(s, e)) = Len(s) + 1
         /\ Counts(Append(s, e), n)
BY AppendProperties DEF Counts

LEMMA CountsTail ==
  ASSUME NEW S, NEW s \in Seq(S), NEW n \in Int, Counts(s, n), s # <<>>
  PROVE  /\ Head(s) = n + 1
         /\ Tail(s) \in Seq(S)
         /\ Len(s) \in Nat /\ Len(s) > 0
         /\ Len(Tail(s)) = Len(s) - 1
         /\ Counts(Tail(s), n + 1)
<1>1. /\ Head(s) = s[1]
      /\ Tail(s) \in Seq(S)
      /\ Len(s) \in Nat /\ Len(s) > 0
      /\ Len(Tail(s)) = Len(s) - 1
      /\ \A i \in 1..Len(Tail(s)) : Tail(s)[i] = s[i + 1]
  BY HeadTailProperties
<1> QED  BY <1>1 DEF Counts

(***************************************************************************)
(* Where the loop thread polls.                                            *)
(***************************************************************************)
Polling == {"poll_tx", "poll_temt", "poll_put", "poll_pop", "poll_lsr", "poll_rbr"}

(***************************************************************************)
(* Users who poll take the same bytes as the interrupt thread; the order is  *)
(* promised to those who do not.                                             *)
(***************************************************************************)
InterruptMode == \A f \in Flags : "P" \notin f

(***************************************************************************)
(* Rising sequences, one below another; a 0 is no byte.                    *)
(***************************************************************************)
Below(s, t) ==
  \A i \in 1..Len(s), j \in 1..Len(t) : s[i] # 0 /\ t[j] # 0 => s[i] < t[j]
Upto(s, n) == \A i \in 1..Len(s) : s[i] <= n
Nonzero(s) == \A i \in 1..Len(s) : s[i] # 0
Over(e, s) == \A i \in 1..Len(s) : s[i] # 0 /\ e # 0 => s[i] < e

LEMMA OrderEmpty ==
  ASSUME NEW s, NEW n
  PROVE  Rising(<<>>) /\ Below(s, <<>>) /\ Below(<<>>, s) /\ Upto(<<>>, n) /\ Nonzero(<<>>)
BY EmptyType DEF Rising, Below, Upto, Nonzero

LEMMA OverUpto ==
  ASSUME NEW s \in Seq(Nat), NEW n \in Nat, Upto(s, n), NEW e \in Nat, e = 0 \/ e > n
  PROVE  Over(e, s)
BY DEF Upto, Over

LEMMA UptoMore ==
  ASSUME NEW s \in Seq(Nat), NEW m \in Nat, NEW n \in Nat, m <= n, Upto(s, m)
  PROVE  Upto(s, n)
BY DEF Upto

LEMMA OrderAppend ==
  ASSUME NEW s \in Seq(Nat), NEW e \in Nat
  PROVE  /\ Rising(s) /\ Over(e, s) => Rising(Append(s, e))
         /\ \A t \in Seq(Nat) : Below(t, s) /\ Over(e, t) => Below(t, Append(s, e))
         /\ \A n \in Nat : Upto(s, n) /\ e <= n => Upto(Append(s, e), n)
         /\ Nonzero(s) /\ e # 0 => Nonzero(Append(s, e))
<1>1. /\ Len(s) \in Nat
      /\ Len(Append(s, e)) = Len(s) + 1
      /\ \A i \in 1..Len(s) : Append(s, e)[i] = s[i]
      /\ Append(s, e)[Len(s) + 1] = e
  BY AppendProperties
<1>2. \A i \in 1..Len(Append(s, e)) :
        \/ i \in 1..Len(s) /\ Append(s, e)[i] = s[i]
        \/ i = Len(s) + 1 /\ Append(s, e)[i] = e
  BY <1>1
<1>3. Rising(s) /\ Over(e, s) => Rising(Append(s, e))  BY <1>1, <1>2 DEF Rising, Over
<1>4. \A t \in Seq(Nat) : Below(t, s) /\ Over(e, t) => Below(t, Append(s, e))
  BY <1>2 DEF Below, Over
<1>5. \A n \in Nat : Upto(s, n) /\ e <= n => Upto(Append(s, e), n)  BY <1>2 DEF Upto
<1>6. Nonzero(s) /\ e # 0 => Nonzero(Append(s, e))  BY <1>2 DEF Nonzero
<1> QED  BY <1>3, <1>4, <1>5, <1>6

LEMMA OrderTail ==
  ASSUME NEW s \in Seq(Nat), s # <<>>
  PROVE  /\ Rising(s) => Rising(Tail(s))
         /\ \A t \in Seq(Nat) : Below(t, s) => Below(t, Tail(s)) /\ Over(Head(s), t)
         /\ \A t \in Seq(Nat) : Below(s, t) => Below(Tail(s), t)
         /\ \A n \in Nat : Upto(s, n) => Upto(Tail(s), n) /\ Head(s) <= n
         /\ Nonzero(s) => Nonzero(Tail(s)) /\ Head(s) # 0
<1>1. /\ Head(s) = s[1] /\ Len(s) \in Nat /\ Len(s) > 0
      /\ Len(Tail(s)) = Len(s) - 1
      /\ \A i \in 1..Len(Tail(s)) : Tail(s)[i] = s[i + 1]
  BY HeadTailProperties
<1>2. 1 \in 1..Len(s) /\ \A i \in 1..Len(Tail(s)) : i + 1 \in 1..Len(s) /\ Tail(s)[i] = s[i + 1]
  BY <1>1
<1>3. Rising(s) => Rising(Tail(s))  BY <1>1, <1>2 DEF Rising
<1>4. \A t \in Seq(Nat) : Below(t, s) => Below(t, Tail(s)) /\ Over(Head(s), t)
  BY <1>1, <1>2 DEF Below, Over
<1>5. \A t \in Seq(Nat) : Below(s, t) => Below(Tail(s), t)  BY <1>2 DEF Below
<1>6. \A n \in Nat : Upto(s, n) => Upto(Tail(s), n) /\ Head(s) <= n  BY <1>1, <1>2 DEF Upto
<1>7. Nonzero(s) => Nonzero(Tail(s)) /\ Head(s) # 0  BY <1>1, <1>2 DEF Nonzero
<1> QED  BY <1>3, <1>4, <1>5, <1>6, <1>7

LEMMA OrderHead ==
  ASSUME NEW s \in Seq(Nat), s # <<>>, Rising(s)
  PROVE  \A i \in 1..Len(Tail(s)) : Head(s) # 0 /\ Tail(s)[i] # 0 => Head(s) < Tail(s)[i]
<1>1. /\ Head(s) = s[1] /\ Len(s) \in Nat /\ Len(s) > 0
      /\ \A i \in 1..Len(Tail(s)) : i + 1 \in 1..Len(s) /\ Tail(s)[i] = s[i + 1]
  BY HeadTailProperties
<1>2. \A j \in 1..Len(Tail(s)) : s[1] # 0 /\ s[j + 1] # 0 => s[1] < s[j + 1]
  BY <1>1 DEF Rising
<1> QED  BY <1>1, <1>2

(* A byte e goes to the end of s, all of t is above it.                      *)
LEMMA OrderBetween ==
  ASSUME NEW s \in Seq(Nat), NEW t \in Seq(Nat), NEW e \in Nat, Below(s, t),
         \A i \in 1..Len(t) : e # 0 /\ t[i] # 0 => e < t[i]
  PROVE  Below(Append(s, e), t)
<1>1. \A i \in 1..Len(Append(s, e)) :
        \/ i \in 1..Len(s) /\ Append(s, e)[i] = s[i]
        \/ Append(s, e)[i] = e
  BY AppendProperties
<1> QED  BY <1>1 DEF Below

(* A byte goes from the head of one sequence to the end of another.          *)
LEMMA OrderMove ==
  ASSUME NEW s \in Seq(Nat), NEW t \in Seq(Nat), Rising(s), Rising(t), Below(s, t), t # <<>>
  PROVE  Rising(Append(s, Head(t))) /\ Below(Append(s, Head(t)), Tail(t))
<1>1. Head(t) \in Nat /\ Tail(t) \in Seq(Nat)  BY HeadTailProperties
<1>2. Over(Head(t), s) /\ Below(s, Tail(t))  BY OrderTail
<1>3. Below(Append(s, Head(t)), Tail(t))  BY <1>1, <1>2, OrderHead, OrderBetween
<1> QED  BY <1>1, <1>2, <1>3, OrderAppend

(***************************************************************************)
(* The inductive invariant.                                                *)
(***************************************************************************)
Unpolled == "P" \notin flags /\ "P" \notin file_flag /\ lp \notin Polling

(* As long as there was no busy interrupt DLAB is set where the divisor is.  *)
CalmInv ==
  busies = 0 =>
    /\ ~busy /\ iir # "BUSBSY" /\ ip \notin {"busy", "busy_fifo", "busy_lcr", "busy_mcr"}
    /\ lp \in {"divisor", "set_divisor"} => dlab

(* The bytes before this one have been put into the fifo, or dropped.        *)
Put == written - Len(tx_buffer) + IF ip = "tx_pop" THEN 1 ELSE 0

QueueInv ==
  /\ Len(tx_buffer) <= written
  /\ Counts(tx_buffer, written - Len(tx_buffer))
  /\ ip \in {"tx_put", "tx_pop"} => cnt \in 1..Len(tx_buffer)

OutInv ==
  /\ Rising(wire) /\ Rising(txFifo) /\ Below(wire, txFifo)
  /\ Upto(wire, Put) /\ Upto(txFifo, Put)
  /\ busies = 0 => Nonzero(wire) /\ Nonzero(txFifo)

InInv ==
  /\ Rising(reads) /\ Rising(rx_buffer) /\ Rising(rxFifo)
  /\ Below(reads, rx_buffer) /\ Below(reads, rxFifo) /\ Below(rx_buffer, rxFifo)
  /\ Upto(reads, arrived) /\ Upto(rx_buffer, arrived) /\ Upto(rxFifo, arrived)

OrderInv == TypeInv /\ Unpolled /\ CalmInv /\ QueueInv /\ OutInv /\ InInv

LEMMA NatSeq == ASSUME NEW s \in Seq(Bytes)  PROVE s \in Seq(Nat)
<1>1. Bytes \subseteq Nat  BY DEF Bytes
<1> QED  BY <1>1, SeqMonotonic

LEMMA OrderTypes ==
  ASSUME OrderInv
  PROVE  /\ wire \in Seq(Nat) /\ txFifo \in Seq(Nat) /\ tx_buffer \in Seq(Nat)
         /\ reads \in Seq(Nat) /\ rx_buffer \in Seq(Nat) /\ rxFifo \in Seq(Nat)
         /\ Len(tx_buffer) \in Nat
         /\ written \in Nat /\ arrived \in Nat /\ cnt \in Nat
         /\ busies \in Nat
<1>1. HwTypeOK /\ IrqTypeOK /\ ThreadTypeOK  BY DEF OrderInv, TypeInv, UartTypeOK
<1>2. wire \in Seq(Nat) /\ txFifo \in Seq(Nat) /\ rxFifo \in Seq(Nat)
  BY <1>1, NatSeq DEF HwTypeOK
<1>3. tx_buffer \in Seq(Nat) /\ rx_buffer \in Seq(Nat)  BY <1>1, NatSeq DEF IrqTypeOK
<1>4. reads \in Seq(Nat)  BY <1>1, NatSeq DEF ThreadTypeOK
<1>5. /\ Len(tx_buffer) \in Nat /\ written \in Nat /\ arrived \in Nat /\ cnt \in Nat
      /\ busies \in Nat
  BY <1>1, <1>3, HwAssumption, UartAssumption DEF HwTypeOK, IrqTypeOK, ThreadTypeOK
<1> QED  BY <1>2, <1>3, <1>4, <1>5

LEMMA PutType ==
  ASSUME OrderInv
  PROVE  Put \in Nat /\ Put \in {written - Len(tx_buffer), written - Len(tx_buffer) + 1}
BY OrderTypes DEF OrderInv, QueueInv, Put

LEMMA OrderInit == Init => OrderInv
<1> SUFFICES ASSUME Init  PROVE OrderInv  OBVIOUS
<1>1. TypeInv  BY TypeInit
<1>2. Unpolled /\ CalmInv  BY DEF Init, HwInit, IrqInit, Unpolled, Polling, CalmInv
<1>3. /\ wire = <<>> /\ txFifo = <<>> /\ tx_buffer = <<>>
      /\ reads = <<>> /\ rx_buffer = <<>> /\ rxFifo = <<>>
      /\ written = 0 /\ ip = "wait"
  BY DEF Init, HwInit, IrqInit
<1>4. QueueInv
  <2>1. Counts(tx_buffer, written - Len(tx_buffer))  BY <1>3, CountsEmpty
  <2>2. Len(tx_buffer) = 0  BY <1>3, EmptyType
  <2> QED  BY <1>3, <2>1, <2>2 DEF QueueInv
<1>5. OutInv /\ InInv
  <2>1. Rising(<<>>) /\ Below(<<>>, <<>>) /\ Nonzero(<<>>)  BY OrderEmpty
  <2>2. Upto(<<>>, Put) /\ Upto(<<>>, arrived)  BY OrderEmpty
  <2> QED  BY <1>3, <2>1, <2>2 DEF OutInv, InInv
<1> QED  BY <1>1, <1>2, <1>4, <1>5 DEF OrderInv

LEMMA UnpolledNext ==
  ASSUME InterruptMode, OrderInv, Next
  PROVE  Unpolled'
<1> USE DEF Unpolled, Polling
<1> Unpolled  BY DEF OrderInv
<1>1. CASE Calls
  BY <1>1 DEF Calls, open_, close_, write_, read_, read_poll, ioctl_, InterruptMode
<1>2. CASE Serve
  BY <1>2 DEF Serve, SetFcr, ReadLcr, WriteLcr, LcrPut, SetupFails, SetDlab, SetDll, SetDlh,
              ClearDlab, Setup, SetupNoThread, SwitchRead, StartRxWrite, StartTxWrite, Push,
              PollTx, PollTemt, PollPut, PollPop, Pop, PollLsr, PollRbr
<1>3. CASE IrqStep \/ HwStep  BY <1>3 DEF IrqStep, HwStep, loopVars
<1> QED  BY <1>1, <1>2, <1>3 DEF Next

LEMMA CalmNext ==
  ASSUME InterruptMode, OrderInv, Next
  PROVE  CalmInv'
<1> USE DEF CalmInv
<1> CalmInv  BY DEF OrderInv
<1> SUFFICES ASSUME busies' = 0
             PROVE  /\ ~busy' /\ iir' # "BUSBSY"
                    /\ ip' \notin {"busy", "busy_fifo", "busy_lcr", "busy_mcr"}
                    /\ lp' \in {"divisor", "set_divisor"} => dlab'
  OBVIOUS
<1>1. CASE Calls
  <2>1. CASE open_  BY <2>1 DEF open_, irqVars, irqLocals
  <2>2. CASE ioctl_  BY <2>2 DEF ioctl_, hwVars, setVars, lineVars, irqVars, irqLocals
  <2>3. CASE close_ \/ write_ \/ read_ \/ read_poll
    BY <2>3 DEF close_, write_, read_, read_poll, hwVars, setVars, lineVars, irqVars, irqLocals
  <2> QED  BY <1>1, <2>1, <2>2, <2>3 DEF Calls
<1>2. CASE Serve
  <2>1. busies = 0 /\ UNCHANGED <<busy, ip, iir>>
    BY <1>2, OrderTypes DEF Serve, SetFcr, ReadLcr, WriteLcr, LcrPut, SetupFails, SetDlab, SetDll,
                            SetDlh, ClearDlab, Setup, SetupNoThread, SwitchRead,
         StartRxWrite, StartTxWrite, Push, PollTx, PollTemt, PollPut, PollPop,
         Pop, PollLsr, PollRbr, hwVars, setVars, lineVars, irqVars, irqLocals
  <2>2. lp' \in {"divisor", "set_divisor"} => dlab'
    BY <1>2 DEF Serve, SetFcr, ReadLcr, WriteLcr, LcrPut, SetupFails, SetDlab, SetDll, SetDlh,
                ClearDlab, Setup, SetupNoThread, SwitchRead,
         StartRxWrite, StartTxWrite, Push, PollTx, PollTemt, PollPut, PollPop,
         Pop, PollLsr, PollRbr
  <2> QED  BY <2>1, <2>2
<1>3. CASE IrqStep
  <2>1. busies = 0 /\ ~busy /\ iir # "BUSBSY" /\ ~HoldLcr /\ ~ClearBusy
        /\ ~RestoreLcr /\ ~RestoreMcr
    BY <1>3 DEF IrqStep, IrqThread, IrqEntry, ReadLsr, HoldLcr, ClearBusy, RestoreLcr, RestoreMcr,
                ReadRbr, RereadLsr, DiscardRbr, ReadMsr, TxSize, TxPut, TxPop, TxSwitchRead,
                TxSwitchWrite, hwVars, setVars, lineVars
  <2>2. UNCHANGED <<busy, dlab, lp>>
    BY <1>3, <2>1 DEF IrqStep, IrqThread, IrqEntry, ReadLsr, ReadRbr, loopVars,
         RereadLsr, DiscardRbr, ReadMsr, TxSize, TxPut, TxPop, TxSwitchRead, TxSwitchWrite,
         hwVars, setVars, lineVars
  <2>3. iir' # "BUSBSY" /\ ip' \notin {"busy", "busy_fifo", "busy_lcr", "busy_mcr"}
    <3>1. CASE IrqEntry  BY <2>1, <3>1 DEF IrqEntry, Iir, Due
    <3>2. CASE ~IrqEntry
      BY <1>3, <2>1, <3>2 DEF IrqStep, IrqThread, ReadLsr, ReadRbr, RereadLsr, DiscardRbr,
           ReadMsr, TxSize, TxPut, TxPop, TxSwitchRead, TxSwitchWrite, irqLocals, Done
    <3> QED  BY <3>1, <3>2
  <2> QED  BY <2>1, <2>2, <2>3
<1>4. CASE HwStep
  BY <1>4 DEF HwStep, Hardware, Arrive, LineEvent, Shift, setVars, lineVars, irqVars, irqLocals,
              loopVars
<1> QED  BY <1>1, <1>2, <1>3, <1>4 DEF Next

(***************************************************************************)
(* The queue of the way out.                                               *)
(***************************************************************************)
LEMMA QueueNext ==
  ASSUME InterruptMode, OrderInv, Next
  PROVE  QueueInv'
<1> QueueInv /\ Unpolled  BY DEF OrderInv
<1> USE OrderTypes DEF QueueInv
<1>1. CASE Push
  <2>1. /\ tx_buffer' = Append(tx_buffer, written + 1) /\ written' = written + 1
        /\ UNCHANGED <<ip, cnt>>
    BY <1>1 DEF Push, irqVars, irqLocals
  <2>2. /\ Len(tx_buffer') = Len(tx_buffer) + 1
        /\ Counts(tx_buffer', written - Len(tx_buffer))
    BY <2>1, CountsAppend
  <2>3. Counts(tx_buffer', written' - Len(tx_buffer'))  BY <2>1, <2>2
  <2> QED  BY <2>1, <2>2, <2>3
<1>2. CASE TxPop /\ IrqStep
  <2>1. tx_buffer # <<>> /\ cnt \in 1..Len(tx_buffer)  BY <1>2, EmptyType DEF TxPop
  <2>2. tx_buffer' = Tail(tx_buffer) /\ written' = written
    BY <1>2, <2>1 DEF TxPop, Popped, IrqStep, loopVars
  <2>3. /\ Len(tx_buffer') = Len(tx_buffer) - 1
        /\ Counts(tx_buffer', written - Len(tx_buffer) + 1)
    BY <2>1, <2>2, CountsTail
  <2>6. written' = written  BY <2>2
  <2>4. Counts(tx_buffer', written' - Len(tx_buffer'))  BY <2>3, <2>6
  <2>5. ip' \in {"tx_put", "tx_pop"} => cnt > 1 /\ cnt' = cnt - 1  BY <1>2 DEF TxPop, Done
  <2>7. ip' \in {"tx_put", "tx_pop"} => cnt' \in 1..Len(tx_buffer')
    <3> SUFFICES ASSUME ip' \in {"tx_put", "tx_pop"}  PROVE cnt' \in 1..Len(tx_buffer')
      OBVIOUS
    <3>1. cnt > 1 /\ cnt' = cnt - 1  BY <2>5
    <3>2. cnt' \in 1..(Len(tx_buffer) - 1)  BY <2>1, <3>1
    <3> QED  BY <2>3, <3>2
  <2>8. Len(tx_buffer') <= written'  BY <2>3, <2>6
  <2> QED  BY <2>4, <2>7, <2>8
<1>3. CASE ~Push /\ ~(TxPop /\ IrqStep)
  <2>1. CASE Calls
    BY <2>1 DEF Calls, open_, close_, write_, read_, read_poll, ioctl_, queueVars, irqVars,
                irqLocals
  <2>2. CASE Serve
    <3>1. UNCHANGED <<tx_buffer, written, ip, cnt>>
      BY <1>3, <2>2 DEF Serve, SetFcr, ReadLcr, WriteLcr, LcrPut, SetupFails, SetDlab, SetDll,
                        SetDlh, ClearDlab, Setup, SetupNoThread, SwitchRead,
         StartRxWrite, StartTxWrite, PollTx, PollTemt, PollPut, PollPop, Pop, PollLsr, PollRbr,
         queueVars, irqVars, irqLocals, Unpolled, Polling
    <3> QED  BY <3>1
  <2>3. CASE IrqStep
    <3>1. UNCHANGED <<tx_buffer, written>>
      BY <1>3, <2>3 DEF IrqStep, loopVars, IrqThread, IrqEntry, ReadLsr, HoldLcr, ClearBusy,
                        RestoreLcr, RestoreMcr, ReadRbr, RereadLsr, DiscardRbr, ReadMsr, TxSize,
                        TxPut, TxSwitchRead, TxSwitchWrite, queueVars
    <3>2. CASE TxSize
      BY <3>1, <3>2, IrqAssumption DEF TxSize
    <3>3. CASE ~TxSize
      <4>1. ip' \in {"tx_put", "tx_pop"} => ip \in {"tx_put", "tx_pop"} /\ cnt' = cnt
        BY <1>3, <2>3, <3>3 DEF IrqStep, IrqThread, IrqEntry, ReadLsr, HoldLcr, ClearBusy,
           RestoreLcr, RestoreMcr, ReadRbr, RereadLsr, DiscardRbr, ReadMsr, TxPut, TxSwitchRead,
           TxSwitchWrite, Done, irqLocals
      <4> QED  BY <3>1, <4>1
    <3> QED  BY <3>2, <3>3
  <2>4. CASE HwStep  BY <2>4 DEF HwStep, queueVars, irqVars, irqLocals, loopVars
  <2> QED  BY <2>1, <2>2, <2>3, <2>4 DEF Next
<1> QED  BY <1>1, <1>2, <1>3

(***************************************************************************)
(* The way out.                                                            *)
(***************************************************************************)
LEMMA OutKept ==
  ASSUME OutInv, UNCHANGED <<wire, txFifo>>, Put' = Put, busies' = 0 => busies = 0
  PROVE  OutInv'
BY DEF OutInv

LEMMA OutReset ==
  ASSUME OutInv, wire' = wire, txFifo' = <<>>, Put' = Put, busies' = 0 => busies = 0
  PROVE  OutInv'
<1>1. Rising(txFifo') /\ Below(wire', txFifo') /\ Upto(txFifo', Put') /\ Nonzero(txFifo')
  BY OrderEmpty
<1> QED  BY <1>1 DEF OutInv

(* THR takes the byte behind those before, or the divisor's, or neither.     *)
LEMMA OutPut ==
  ASSUME OrderInv, NEW b \in Nat, ThrPut(b), b = 0 \/ b > Put, b <= Put',
         Put' \in Nat, Put' >= Put,
         UNCHANGED <<wire, busies>>, busies = 0 => b # 0 \/ dlab
  PROVE  OutInv'
<1> USE OrderTypes, PutType DEF OutInv
<1> OutInv  BY DEF OrderInv
<1>1. Upto(wire', Put') /\ Upto(txFifo, Put')  BY UptoMore
<1>2. CASE txFifo' = txFifo  BY <1>1, <1>2
<1>3. CASE txFifo' = Append(txFifo, b) /\ ~dlab
  <2>1. Over(b, wire) /\ Over(b, txFifo)  BY OverUpto
  <2>2. Rising(txFifo') /\ Below(wire, txFifo') /\ Upto(txFifo', Put')
    BY <1>1, <1>3, <2>1, OrderAppend
  <2>3. busies = 0 => Nonzero(txFifo')  BY <1>3, OrderAppend
  <2> QED  BY <1>1, <2>2, <2>3
<1> QED  BY <1>2, <1>3 DEF ThrPut

LEMMA OutNext ==
  ASSUME InterruptMode, OrderInv, Next
  PROVE  OutInv'
<1> OutInv /\ Unpolled /\ CalmInv /\ QueueInv  BY DEF OrderInv
<1> USE OrderTypes
<1>1. CASE Calls
  <2>1. UNCHANGED <<wire, tx_buffer, written, ip>>
    BY <1>1 DEF Calls, open_, close_, write_, read_, read_poll, ioctl_, hwVars, queueVars, irqVars
  <2>2. Put' = Put  BY <2>1 DEF Put
  <2>3. busies' = 0 => busies = 0
    BY <1>1 DEF Calls, open_, close_, write_, read_, read_poll, ioctl_, hwVars, setVars, lineVars
  <2>4. CASE open_  BY <2>1, <2>2, <2>3, <2>4, OutReset DEF open_
  <2>5. CASE ~open_
    <3>1. txFifo' = txFifo
      BY <1>1, <2>5 DEF Calls, close_, write_, read_, read_poll, ioctl_, hwVars
    <3> QED  BY <2>1, <2>2, <2>3, <3>1, OutKept
  <2> QED  BY <2>4, <2>5
<1>2. CASE Serve
  <2>1. UNCHANGED <<wire, ip>> /\ (busies' = 0 => busies = 0) /\ (SetDll => busies' = busies)
    BY <1>2, OrderTypes DEF Serve, SetFcr, ReadLcr, WriteLcr, LcrPut, SetupFails, SetDlab, SetDll,
                            SetDlh, ClearDlab, Setup, SetupNoThread, SwitchRead,
       StartRxWrite, StartTxWrite, Push, PollTx, PollTemt, PollPut, PollPop, Pop, PollLsr, PollRbr,
       hwVars, setVars, lineVars, irqVars
  <2>2. CASE SetDll
    <3>1. UNCHANGED <<tx_buffer, written>>  BY <2>2 DEF SetDll, queueVars
    <3>2. Put' = Put  BY <2>1, <3>1 DEF Put
    <3>3. busies = 0 => dlab  BY <2>2 DEF SetDll, CalmInv
    <3> QED  BY <2>1, <2>2, <3>2, <3>3, OutPut, PutType DEF SetDll
  <2>3. CASE Push
    <3>1. Len(tx_buffer') = Len(tx_buffer) + 1 /\ written' = written + 1
      BY <2>3, AppendProperties DEF Push
    <3>2. Put' = Put  BY <2>1, <3>1 DEF Put
    <3> QED  BY <2>1, <2>3, <3>2, OutKept DEF Push, hwVars
  <2>4. CASE ~SetDll /\ ~Push
    <3>1. UNCHANGED <<tx_buffer, written>> /\ txFifo' \in {txFifo, <<>>}
      BY <1>2, <2>4 DEF Serve, SetFcr, ReadLcr, WriteLcr, LcrPut, SetupFails, SetDlab, SetDlh,
                        ClearDlab, Setup, SetupNoThread, SwitchRead,
         StartRxWrite, StartTxWrite, PollTx, PollTemt, PollPut, PollPop, Pop, PollLsr, PollRbr,
         hwVars, queueVars, Unpolled, Polling
    <3>2. Put' = Put  BY <2>1, <3>1 DEF Put
    <3> QED  BY <2>1, <3>1, <3>2, OutKept, OutReset
  <2> QED  BY <2>2, <2>3, <2>4
<1>3. CASE IrqStep
  <2>1. UNCHANGED <<wire, busies, written>>
    BY <1>3 DEF IrqStep, loopVars, IrqThread, IrqEntry, ReadLsr, HoldLcr, ClearBusy, RestoreLcr,
                RestoreMcr, ReadRbr, RereadLsr, DiscardRbr, ReadMsr, TxSize, TxPut, TxPop,
                TxSwitchRead, TxSwitchWrite, hwVars, setVars, lineVars
  <2>2. CASE TxPut
    <3>1. tx_buffer # <<>>  BY <2>2, EmptyType DEF TxPut, QueueInv
    <3>2. Front(tx_buffer) = written - Len(tx_buffer) + 1 /\ Front(tx_buffer) \in Nat
      BY <3>1, CountsTail DEF Front, QueueInv
    <3>3. tx_buffer' = tx_buffer /\ ip = "tx_put" /\ ip' = "tx_pop"  BY <2>2 DEF TxPut, queueVars
    <3>4. Put = written - Len(tx_buffer) /\ Put' = Put + 1  BY <2>1, <3>3 DEF Put
    <3>5. Front(tx_buffer) > Put /\ Front(tx_buffer) <= Put'  BY <3>2, <3>4
    <3>6. Front(tx_buffer) # 0 /\ Put' \in Nat /\ Put' >= Put  BY <3>2, <3>4, PutType DEF QueueInv
    <3> QED  BY <2>1, <2>2, <3>2, <3>5, <3>6, OutPut DEF TxPut
  <2>3. CASE TxPop
    <3>1. tx_buffer # <<>>  BY <2>3, EmptyType DEF TxPop, QueueInv
    <3>2. Len(tx_buffer') = Len(tx_buffer) - 1
      BY <2>3, <3>1, HeadTailProperties DEF TxPop, Popped
    <3>3. ip = "tx_pop" /\ ip' # "tx_pop" /\ txFifo' = txFifo  BY <2>3 DEF TxPop, Done, hwVars
    <3>4. Put' = Put  BY <2>1, <3>2, <3>3 DEF Put
    <3> QED  BY <2>1, <3>3, <3>4, OutKept
  <2>4. CASE ~TxPut /\ ~TxPop
    <3>1. tx_buffer' = tx_buffer /\ "tx_pop" \notin {ip, ip'} /\ txFifo' \in {txFifo, <<>>}
      BY <1>3, <2>4 DEF IrqStep, IrqThread, IrqEntry, ReadLsr, HoldLcr, ClearBusy,
         RestoreLcr, RestoreMcr, ReadRbr, RereadLsr, DiscardRbr, ReadMsr, TxSize, TxSwitchRead,
         TxSwitchWrite, Done, hwVars, queueVars
    <3>2. Put' = Put  BY <2>1, <3>1 DEF Put
    <3> QED  BY <2>1, <3>1, <3>2, OutKept, OutReset
  <2> QED  BY <2>2, <2>3, <2>4
<1>4. CASE HwStep
  <2>1. UNCHANGED <<tx_buffer, written, ip, busies>>
    BY <1>4 DEF HwStep, Hardware, Arrive, LineEvent, Shift, setVars, lineVars, queueVars, irqVars,
                loopVars
  <2>2. Put' = Put  BY <2>1 DEF Put
  <2>3. CASE Shift
    <3>1. txFifo # <<>> /\ txFifo' = Tail(txFifo)  BY <2>3 DEF Shift
    <3>2. Head(txFifo) \in Nat  BY <3>1, HeadTailProperties
    <3>3. Rising(txFifo') /\ Upto(txFifo', Put) /\ Head(txFifo) <= Put
      BY <3>1, OrderTail, PutType DEF OutInv
    <3>4. busies = 0 => Nonzero(txFifo') /\ Head(txFifo) # 0  BY <3>1, OrderTail DEF OutInv
    <3>5. CASE wire' = Append(wire, Head(txFifo))
      <4>1. Rising(wire') /\ Below(wire', txFifo')  BY <3>1, <3>5, OrderMove DEF OutInv
      <4>2. Upto(wire', Put)  BY <3>2, <3>3, <3>5, OrderAppend, PutType DEF OutInv
      <4>3. busies = 0 => Nonzero(wire')  BY <3>2, <3>4, <3>5, OrderAppend DEF OutInv
      <4> QED  BY <2>1, <2>2, <3>3, <3>4, <4>1, <4>2, <4>3 DEF OutInv
    <3>6. CASE wire' = wire
      <4>1. Below(wire, txFifo')  BY <3>1, OrderTail DEF OutInv
      <4> QED  BY <2>1, <2>2, <3>3, <3>4, <3>6, <4>1 DEF OutInv
    <3> QED  BY <2>3, <3>5, <3>6 DEF Shift
  <2>4. CASE Arrive \/ LineEvent
    <3>1. UNCHANGED <<wire, txFifo>>  BY <2>4 DEF Arrive, LineEvent
    <3> QED  BY <2>1, <2>2, <3>1, OutKept
  <2> QED  BY <1>4, <2>3, <2>4 DEF HwStep, Hardware
<1> QED  BY <1>1, <1>2, <1>3, <1>4 DEF Next

(***************************************************************************)
(* The way in.                                                             *)
(***************************************************************************)
LEMMA InKept ==
  ASSUME InInv, UNCHANGED <<reads, rx_buffer, rxFifo, arrived>>
  PROVE  InInv'
BY DEF InInv

LEMMA InReset ==
  ASSUME InInv, UNCHANGED <<reads, rx_buffer, arrived>>, rxFifo' = <<>>
  PROVE  InInv'
<1>1. /\ Rising(rxFifo') /\ Upto(rxFifo', arrived')
      /\ Below(reads', rxFifo') /\ Below(rx_buffer', rxFifo')
  BY OrderEmpty
<1> QED  BY <1>1 DEF InInv

(* RBR is read: it yields the head of the fifo, or 0 and leaves the fifo.    *)
LEMMA RbrOrder ==
  ASSUME OrderInv, RbrPop
  PROVE  /\ RbrByte \in Nat /\ RbrByte <= arrived
         /\ Over(RbrByte, reads) /\ Over(RbrByte, rx_buffer)
         /\ rxFifo' \in Seq(Nat) /\ Rising(rxFifo') /\ Upto(rxFifo', arrived)
         /\ Below(reads, rxFifo') /\ Below(rx_buffer, rxFifo')
         /\ \A i \in 1..Len(rxFifo') : RbrByte # 0 /\ rxFifo'[i] # 0 => RbrByte < rxFifo'[i]
<1> USE OrderTypes DEF InInv
<1> InInv  BY DEF OrderInv
<1>1. CASE dlab \/ rxFifo = <<>>
  <2>1. RbrByte = 0 /\ rxFifo' = rxFifo  BY <1>1 DEF RbrByte, RbrPop
  <2>2. Over(0, reads) /\ Over(0, rx_buffer)  BY DEF Over
  <2> QED  BY <2>1, <2>2
<1>2. CASE ~dlab /\ rxFifo # <<>>
  <2>1. RbrByte = Head(rxFifo) /\ rxFifo' = Tail(rxFifo)  BY <1>2 DEF RbrByte, RbrPop
  <2>2. Head(rxFifo) \in Nat /\ Tail(rxFifo) \in Seq(Nat)  BY <1>2, HeadTailProperties
  <2>3. /\ Head(rxFifo) <= arrived
        /\ Over(Head(rxFifo), reads) /\ Over(Head(rxFifo), rx_buffer)
        /\ Rising(Tail(rxFifo)) /\ Upto(Tail(rxFifo), arrived)
        /\ Below(reads, Tail(rxFifo)) /\ Below(rx_buffer, Tail(rxFifo))
    BY <1>2, OrderTail
  <2>4. \A i \in 1..Len(Tail(rxFifo)) :
          Head(rxFifo) # 0 /\ Tail(rxFifo)[i] # 0 => Head(rxFifo) < Tail(rxFifo)[i]
    BY <1>2, OrderHead
  <2> QED  BY <2>1, <2>2, <2>3, <2>4
<1> QED  BY <1>1, <1>2

LEMMA RbrNext ==
  ASSUME OrderInv, RbrPop, rx_buffer' = Append(rx_buffer, RbrByte), UNCHANGED <<reads, arrived>>
  PROVE  InInv'
<1> USE OrderTypes
<1> InInv  BY DEF OrderInv
<1>1. /\ RbrByte \in Nat /\ RbrByte <= arrived
      /\ Over(RbrByte, reads) /\ Over(RbrByte, rx_buffer)
      /\ rxFifo' \in Seq(Nat) /\ Rising(rxFifo') /\ Upto(rxFifo', arrived)
      /\ Below(reads, rxFifo') /\ Below(rx_buffer, rxFifo')
  BY RbrOrder
<1>2. Rising(rx_buffer') /\ Upto(rx_buffer', arrived) /\ Below(reads, rx_buffer')
  BY <1>1, OrderAppend DEF InInv
<1>3. Below(rx_buffer', rxFifo')  BY <1>1, RbrOrder, OrderBetween
<1> QED  BY <1>1, <1>2, <1>3 DEF InInv

LEMMA PopOrder ==
  ASSUME OrderInv, Pop
  PROVE  InInv'
<1> USE OrderTypes
<1> InInv  BY DEF OrderInv
<1>1. UNCHANGED <<rxFifo, arrived>>  BY DEF Pop, hwVars
<1>2. CASE rx_buffer = <<>>
  <2>1. reads' = Append(reads, 0) /\ rx_buffer' = rx_buffer  BY <1>2 DEF Pop, Front, Popped
  <2>2. Over(0, reads) /\ 0 <= arrived  BY DEF Over
  <2>3. Rising(Append(reads, 0)) /\ Upto(Append(reads, 0), arrived)
    BY <2>2, OrderAppend DEF InInv
  <2>4. Below(Append(reads, 0), rx_buffer) /\ Below(Append(reads, 0), rxFifo)
    BY OrderBetween DEF InInv
  <2> QED  BY <1>1, <2>1, <2>3, <2>4 DEF InInv
<1>3. CASE rx_buffer # <<>>
  <2>1. reads' = Append(reads, Head(rx_buffer)) /\ rx_buffer' = Tail(rx_buffer)
    BY <1>3 DEF Pop, Front, Popped
  <2>2. Head(rx_buffer) \in Nat /\ 1 \in 1..Len(rx_buffer) /\ Head(rx_buffer) = rx_buffer[1]
    BY <1>3, HeadTailProperties
  <2>3. /\ Rising(Tail(rx_buffer)) /\ Upto(Tail(rx_buffer), arrived)
        /\ Below(Tail(rx_buffer), rxFifo) /\ Head(rx_buffer) <= arrived
    BY <1>3, OrderTail DEF InInv
  <2>4. Rising(Append(reads, Head(rx_buffer))) /\ Below(Append(reads, Head(rx_buffer)),
       Tail(rx_buffer))
    BY <1>3, OrderMove DEF InInv
  <2>5. Upto(Append(reads, Head(rx_buffer)), arrived)  BY <2>2, <2>3, OrderAppend DEF InInv
  <2>6. \A i \in 1..Len(rxFifo) : rx_buffer[1] # 0 /\ rxFifo[i] # 0 => rx_buffer[1] < rxFifo[i]
    BY <2>2 DEF InInv, Below
  <2>7. Below(Append(reads, Head(rx_buffer)), rxFifo)  BY <2>2, <2>6, OrderBetween DEF InInv
  <2> QED  BY <1>1, <2>1, <2>3, <2>4, <2>5, <2>7 DEF InInv
<1> QED  BY <1>2, <1>3

LEMMA InNext ==
  ASSUME InterruptMode, OrderInv, Next
  PROVE  InInv'
<1> InInv /\ Unpolled  BY DEF OrderInv
<1> USE OrderTypes
<1>1. CASE Calls
  <2>1. UNCHANGED <<reads, rx_buffer, arrived>> /\ rxFifo' \in {rxFifo, <<>>}
    BY <1>1 DEF Calls, open_, close_, write_, read_, read_poll, ioctl_, hwVars, queueVars
  <2> QED  BY <2>1, InKept, InReset
<1>2. CASE Serve
  <2>1. CASE Pop  BY <2>1, PopOrder
  <2>2. CASE ~Pop
    <3>1. UNCHANGED <<reads, rx_buffer, arrived>> /\ rxFifo' \in {rxFifo, <<>>}
      BY <1>2, <2>2 DEF Serve, SetFcr, ReadLcr, WriteLcr, LcrPut, SetupFails, SetDlab, SetDll,
                        SetDlh, ClearDlab, Setup, SetupNoThread, SwitchRead,
         StartRxWrite, StartTxWrite, Push, PollTx, PollTemt, PollPut, PollPop, PollLsr, PollRbr,
         hwVars, queueVars, Unpolled, Polling
    <3> QED  BY <3>1, InKept, InReset
  <2> QED  BY <2>1, <2>2
<1>3. CASE IrqStep
  <2>1. UNCHANGED <<reads, arrived>>
    BY <1>3 DEF IrqStep, loopVars, IrqThread, IrqEntry, ReadLsr, HoldLcr, ClearBusy, RestoreLcr,
                RestoreMcr, ReadRbr, RereadLsr, DiscardRbr, ReadMsr, TxSize, TxPut, TxPop,
                TxSwitchRead, TxSwitchWrite, hwVars
  <2>2. CASE ReadRbr
    <3>1. CASE rx_buffer' = Append(rx_buffer, RbrByte) /\ RbrPop  BY <2>1, <3>1, RbrNext
    <3>2. CASE UNCHANGED <<rx_buffer, rxFifo>>  BY <2>1, <3>2, InKept
    <3> QED  BY <2>2, <3>1, <3>2 DEF ReadRbr
  <2>3. CASE DiscardRbr
    <3>1. RbrPop /\ rx_buffer' = rx_buffer  BY <2>3 DEF DiscardRbr, queueVars
    <3>2. /\ Rising(rxFifo') /\ Upto(rxFifo', arrived)
          /\ Below(reads, rxFifo') /\ Below(rx_buffer, rxFifo')
      BY <3>1, RbrOrder
    <3> QED  BY <2>1, <3>1, <3>2 DEF InInv
  <2>4. CASE ~ReadRbr /\ ~DiscardRbr
    <3>1. rx_buffer' = rx_buffer /\ rxFifo' \in {rxFifo, <<>>}
      BY <1>3, <2>4 DEF IrqStep, IrqThread, IrqEntry, ReadLsr, HoldLcr, ClearBusy,
         RestoreLcr, RestoreMcr, RereadLsr, ReadMsr, TxSize, TxPut, TxPop, TxSwitchRead,
         TxSwitchWrite, hwVars, queueVars
    <3> QED  BY <2>1, <3>1, InKept, InReset
  <2> QED  BY <2>2, <2>3, <2>4
<1>4. CASE HwStep
  <2>1. UNCHANGED <<reads, rx_buffer>>  BY <1>4 DEF HwStep, queueVars, loopVars
  <2>2. CASE Arrive
    <3>1. arrived' = arrived + 1 /\ rxFifo' = Append(rxFifo, arrived + 1)  BY <2>2 DEF Arrive
    <3>2. Over(arrived + 1, reads) /\ Over(arrived + 1, rx_buffer) /\ Over(arrived + 1, rxFifo)
      BY OverUpto DEF InInv
    <3>3. Upto(reads, arrived + 1) /\ Upto(rx_buffer, arrived + 1) /\ Upto(rxFifo, arrived + 1)
      BY UptoMore DEF InInv
    <3>4. /\ Rising(rxFifo') /\ Upto(rxFifo', arrived + 1)
          /\ Below(reads, rxFifo') /\ Below(rx_buffer, rxFifo')
      BY <3>1, <3>2, <3>3, OrderAppend DEF InInv
    <3> QED  BY <2>1, <3>1, <3>3, <3>4 DEF InInv
  <2>3. CASE LineEvent
    <3>1. UNCHANGED <<rxFifo, arrived>>  BY <2>3 DEF LineEvent
    <3> QED  BY <2>1, <3>1, InKept
  <2>4. CASE Shift
    <3>1. arrived' = arrived /\ rxFifo' \in {rxFifo, Append(rxFifo, 0)}  BY <2>4 DEF Shift
    <3>2. CASE rxFifo' = rxFifo  BY <2>1, <3>1, <3>2, InKept
    <3>3. CASE rxFifo' = Append(rxFifo, 0)
      <4>1. Over(0, reads) /\ Over(0, rx_buffer) /\ Over(0, rxFifo) /\ 0 <= arrived  BY DEF Over
      <4>2. /\ Rising(rxFifo') /\ Upto(rxFifo', arrived)
            /\ Below(reads, rxFifo') /\ Below(rx_buffer, rxFifo')
        BY <3>3, <4>1, OrderAppend DEF InInv
      <4> QED  BY <2>1, <3>1, <4>2 DEF InInv
    <3> QED  BY <3>1, <3>2, <3>3
  <2> QED  BY <1>4, <2>2, <2>3, <2>4 DEF HwStep, Hardware
<1> QED  BY <1>1, <1>2, <1>3, <1>4 DEF Next

LEMMA OrderNext == InterruptMode /\ OrderInv /\ [Next]_vars => OrderInv'
<1> SUFFICES ASSUME InterruptMode, OrderInv, [Next]_vars  PROVE OrderInv'  OBVIOUS
<1>1. TypeInv'  BY TypeNext DEF OrderInv
<1>2. CASE Next
  BY <1>1, <1>2, UnpolledNext, CalmNext, QueueNext, OutNext, InNext DEF OrderInv
<1>3. CASE UNCHANGED vars
  <2> USE <1>3 DEF OrderInv, vars, hwVars, setVars, lineVars, queueVars, irqVars, irqLocals,
                   loopVars
  <2>1. Unpolled' /\ CalmInv' /\ QueueInv'  BY DEF Unpolled, CalmInv, QueueInv
  <2>2. OutInv' /\ InInv'  BY OutKept, InKept DEF Put
  <2> QED  BY <1>1, <2>1, <2>2
<1> QED  BY <1>2, <1>3

(* Users open and close, set frames and baud rates, and busy interrupts      *)
(* reset the fifos in any order and number: what leaves on the line rises,   *)
(* and it is only bytes of write_ as long as there was no busy interrupt.    *)
THEOREM UartSendsInOrder ==
  ASSUME InterruptMode
  PROVE  Spec => []TxRises
<1>1. Init => OrderInv  BY OrderInit
<1>2. OrderInv /\ [Next]_vars => OrderInv'  BY OrderNext
<1>3. OrderInv => TxRises  BY DEF OrderInv, OutInv, TxRises, Nonzero
<1> QED  BY <1>1, <1>2, <1>3, PTL DEF Spec

(* And what read_ gives out rises, whatever was lost or read as a 0 before.  *)
THEOREM UartReceivesInOrder ==
  ASSUME InterruptMode
  PROVE  Spec => []RxRises
<1>1. Init => OrderInv  BY OrderInit
<1>2. OrderInv /\ [Next]_vars => OrderInv'  BY OrderNext
<1>3. OrderInv => RxRises  BY DEF OrderInv, InInv, RxRises
<1> QED  BY <1>1, <1>2, <1>3, PTL DEF Spec
=============================================================================
