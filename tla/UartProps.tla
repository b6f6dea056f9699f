----------------------------- MODULE UartProps -----------------------------
(* What UartClass.tla is checked for. *)
EXTENDS UartClass

(***************************************************************************)
(* Every variable holds a value of its type.                               *)
(***************************************************************************)
Bytes == 0..(IF MaxArrivals > MaxWrites THEN MaxArrivals ELSE MaxWrites)
Interrupts == {"RDI", "THRI", "LINE"}
Status == [DR : BOOLEAN, TEMT : BOOLEAN, ERR : BOOLEAN, BI : BOOLEAN]

HwTypeOK ==
  /\ ier \subseteq Interrupts
  /\ rxFifo \in Seq(Bytes) /\ Len(rxFifo) <= RxDepth
  /\ txFifo \in Seq(Bytes) /\ Len(txFifo) <= TxDepth
  /\ wire \in Seq(Bytes)
  /\ arrived \in 0..MaxArrivals
  /\ events \in 0..MaxEvents
  /\ busies \in 0..MaxBusy
  /\ err \subseteq {"BI", "OTHER"} /\ modem \in BOOLEAN /\ busy \in BOOLEAN
  /\ clocked \in BOOLEAN /\ fifos \in BOOLEAN /\ dlab \in BOOLEAN
  /\ dlh \subseteq Interrupts /\ loopback \in BOOLEAN
  /\ trigger \in {0, TxTrigger}

IrqTypeOK ==
  /\ rx_buffer \in Seq(Bytes)
  /\ tx_buffer \in Seq(Bytes)
  /\ started \in BOOLEAN /\ temt \in BOOLEAN
  /\ ip \in {"wait", "lsr", "busy", "busy_fifo", "busy_lcr", "busy_mcr", "rx", "rx_lsr", "discard",
             "modem", "tx", "tx_put", "tx_pop", "tx_off", "tx_on", "tx_off_write", "tx_on_write"}
  /\ iir \in {"LINESTA", "RXDVAL", "CHARTO", "THREMP", "MSTA", "BUSBSY", "NOIRQ"}
  /\ rlsr \in Status
  /\ cnt \in Nat
  /\ ireg \subseteq Interrupts
  /\ held \in [dlab : BOOLEAN, fifos : BOOLEAN]

ThreadTypeOK ==
  /\ lp \in {"idle", "fcr", "lcr", "lcr_write", "baud", "divisor", "high", "dlab",
             "set_lcr", "set_lcr_write", "set_baud", "set_divisor", "set_high", "set_dlab",
             "setup", "rx_on", "tx_on", "rx_on_write", "tx_on_write",
             "push", "poll_tx", "poll_temt", "poll_put", "poll_pop",
             "pop", "poll_lsr", "poll_rbr"}
  /\ {file_flag, flags} \subseteq Flags \cup {{}}
  /\ left \in Nat
  /\ lreg \subseteq Interrupts
  /\ lcr \in BOOLEAN
  /\ setups \in 0..MaxSetups
  /\ written \in 0..MaxWrites
  /\ reads \in Seq(Bytes)

UartTypeOK == HwTypeOK /\ IrqTypeOK /\ ThreadTypeOK

(***************************************************************************)
(* The two directions of the line.                                         *)
(***************************************************************************)
Tx == INSTANCE ByteChannel WITH sent <- written, got <- wire
Rx == INSTANCE ByteChannel WITH sent <- arrived, got <- reads

(* Within one session the bytes write_ took leave on the line each once and  *)
(* in order, through a queue, handle_irq_tx's bursts and a fifo that is      *)
(* never filled over its depth, whatever the interrupt thread is doing when  *)
(* the loop thread pushes.                                                   *)
TxStream == Tx!ByteSpec

(* Within one session read_ gives out the bytes that came into the fifo each *)
(* once and in order; none is lost to a stale LSR, to an error bit, or to    *)
(* the read that discards a byte.                                            *)
RxStream == Rx!ByteSpec

(* The bytes of the line are in order; a 0 is none.                          *)
Rising(s) ==
  \A i, j \in 1..Len(s) : i < j /\ s[i] # 0 /\ s[j] # 0 => s[i] < s[j]

(* Across sessions, resets of the fifos and busy interrupts bytes are lost,  *)
(* but none that write_ took is doubled or overtaken: what the line carries  *)
(* rises.  What nobody wrote leaves on it, a byte of the divisor, only where *)
(* a busy interrupt took DLAB away while the baud rate was set.              *)
TxRises ==
  /\ Rising(wire)
  /\ busies = 0 => \A i \in 1..Len(wire) : wire[i] # 0

(* And so does what read_ gives out, but for what is not a byte of the line: *)
(* a reset between the interrupt thread's look at LSR and its read of RBR    *)
(* leaves it with the 0 of an empty fifo, and DLAB left on by the busy       *)
(* branch with the divisor.                                                  *)
RxRises == Rising(reads)

(* Every byte that comes in while a session reads by interrupts reaches the  *)
(* queue: a burst that ends, or an error that makes the handler skip a byte, *)
(* leaves an interrupt behind.                                               *)
RxServed ==
  \A k \in 1..MaxArrivals :
    arrived >= k /\ {"R"} = file_flag \ {"W"}
      ~> \E i \in 1..Len(rx_buffer \o reads) : (rx_buffer \o reads)[i] = k

(***************************************************************************)
(* What the interface's documentation and comments say, and the code does  *)
(* not do.                                                                 *)
(***************************************************************************)

(* write writes the device: its bytes leave.  handle_irq_tx finds the queue  *)
(* empty, write_ pushes and enables the interrupt, and then handle_irq_tx    *)
(* disables it.                                                              *)
TxServed ==
  \A k \in 1..MaxWrites :
    written >= k ~> \E i \in 1..Len(wire) : wire[i] = k
=============================================================================
