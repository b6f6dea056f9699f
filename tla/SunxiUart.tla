----------------------------- MODULE SunxiUart -----------------------------
(* The interrupt thread of sunxi-uart.cxx: loop_run calls handle_irq, which  *)
(* moves bytes between the fifos and the runtime's two queues.  The loop     *)
(* thread works on the same queues and registers meanwhile; every shared     *)
(* access of handle_irq is a step of its own here.  One push, pop or size of *)
(* a queue is one step.                                                      *)
EXTENDS SunxiHw

CONSTANTS FifoLeft,  \* handle_irq_tx: bytes it puts at most, 32
          RxBurst    \* handle_irq_rx: the start of cnt, 255

ASSUME IrqAssumption ==
  /\ FifoLeft \in Nat \ {0}
  /\ RxBurst \in Nat
  /\ FifoLeft + TxTrigger <= TxDepth

VARIABLES rx_buffer, tx_buffer,  \* the runtime's queues
          started,               \* irq_handle: the thread runs
          ip,                    \* where it is
          iir,                   \* handle_irq's copy of IIR
          temt,                  \* TEMT in its lsr, the rest of which is used at once
          rlsr,                  \* handle_irq_rx's lsr, inside its loop
          cnt,                   \* handle_irq_rx's or handle_irq_tx's cnt
          ireg,                  \* tx_switch's ier
          held                   \* the busy branch's lcr and fcr

queueVars == <<rx_buffer, tx_buffer>>
irqLocals == <<iir, temt, rlsr, cnt, ireg, held>>
irqVars == <<started, ip, irqLocals>>

Lsr == [DR |-> rxFifo # <<>>, TEMT |-> txFifo = <<>>,
        ERR |-> err # {}, BI |-> "BI" \in err]
NoLsr == [DR |-> FALSE, TEMT |-> FALSE, ERR |-> FALSE, BI |-> FALSE]
NoHeld == [dlab |-> FALSE, fifos |-> TRUE]

IrqInit ==
  /\ rx_buffer = <<>>
  /\ tx_buffer = <<>>
  /\ started = FALSE
  /\ ip = "wait"
  /\ iir = "NOIRQ"
  /\ temt = FALSE
  /\ rlsr = NoLsr
  /\ cnt = 0
  /\ ireg = {}
  /\ held = NoHeld

(* front() and pop(); on an empty queue front() is whatever lies there. *)
Front(q) == IF q = <<>> THEN 0 ELSE Head(q)
Popped(q) == IF q = <<>> THEN q ELSE Tail(q)

(* At the end of handle_irq the thread waits in loop_run with no locals. *)
Done ==
  /\ ip' = "wait"
  /\ iir' = "NOIRQ"
  /\ temt' = FALSE
  /\ rlsr' = NoLsr
  /\ cnt' = 0
  /\ ireg' = {}
  /\ held' = NoHeld

IrqEntry ==
  /\ ip = "wait"
  /\ started
  /\ iir' \in Iir \ {"NOIRQ"}
  /\ ip' = "lsr"
  /\ UNCHANGED <<hwVars, queueVars, started, temt, rlsr, cnt, ireg, held>>

(* LSR's error bits are cleared by the read. *)
ReadLsr ==
  /\ ip = "lsr"
  /\ temt' = Lsr.TEMT
  /\ err' = {}
  /\ IF iir # "BUSBSY" /\ (Lsr.DR \/ Lsr.BI)
     THEN ip' = "rx" /\ rlsr' = Lsr /\ cnt' = RxBurst
     ELSE /\ ip' = IF iir = "BUSBSY" THEN "busy"
                   ELSE IF iir \in {"RXDVAL", "LINESTA", "CHARTO"} THEN "discard" ELSE "modem"
          /\ UNCHANGED <<rlsr, cnt>>
  /\ UNCHANGED <<ier, rxFifo, txFifo, arrived, wire, modem, busy, events, setVars,
                 queueVars, started, iir, ireg, held>>

(* The busy branch reads LCR and FCR.  FCR cannot be read: its address reads *)
(* IIR, whose bit 0, FCR's enable bit, is clear when an interrupt more       *)
(* urgent than the busy one has come up.                                     *)
HoldLcr ==
  /\ ip = "busy"
  /\ \E i \in Iir : held' = [dlab |-> dlab, fifos |-> i \in {"BUSBSY", "NOIRQ"}]
  /\ ip' = "busy_fifo"
  /\ UNCHANGED <<hwVars, queueVars, started, iir, temt, rlsr, cnt, ireg>>

(* MCR gets its loopback bit.  Reading USR clears the interrupt.  What was   *)
(* read goes back to FCR: no bit of it raises THRE above an empty fifo, and  *)
(* bit 0 may turn the fifos off.  Either way both are reset.                 *)
ClearBusy ==
  /\ ip = "busy_fifo"
  /\ loopback' = TRUE
  /\ busy' = FALSE
  /\ fifos' = held.fifos
  /\ trigger' = 0
  /\ rxFifo' = <<>>
  /\ txFifo' = <<>>
  /\ ip' = "busy_lcr"
  /\ UNCHANGED <<ier, arrived, wire, err, modem, events, busies, clocked, dlab, dlh,
                 queueVars, started, irqLocals>>

(* LCR gets back what was read, whatever the loop thread has put there since. *)
RestoreLcr ==
  /\ ip = "busy_lcr"
  /\ dlab' = held.dlab
  /\ ip' = "busy_mcr"
  /\ UNCHANGED <<ier, rxFifo, txFifo, arrived, wire, err, modem, busy, events, busies,
                 clocked, fifos, trigger, dlh, loopback, queueVars, started, irqLocals>>

(* MCR was read without its loopback bit, which nothing else sets. *)
RestoreMcr ==
  /\ ip = "busy_mcr"
  /\ loopback' = FALSE
  /\ Done
  /\ UNCHANGED <<ier, rxFifo, txFifo, arrived, wire, err, modem, busy, events,
                 lineVars, dlh, queueVars, started>>

(* handle_irq_rx: one turn of its loop; a byte with an error waits a turn. *)
ReadRbr ==
  /\ ip = "rx"
  /\ IF ~rlsr.ERR /\ rlsr.DR
     THEN rx_buffer' = Append(rx_buffer, RbrByte) /\ RbrPop
     ELSE UNCHANGED <<rx_buffer, rxFifo>>
  /\ ip' = "rx_lsr"
  /\ UNCHANGED <<ier, txFifo, arrived, wire, err, modem, busy, events, setVars,
                 tx_buffer, started, irqLocals>>

(* Faulty variant: the loop is not bounded. *)
RereadLsrEndless ==
  /\ ip = "rx_lsr"
  /\ err' = {}
  /\ IF Lsr.DR \/ Lsr.BI
     THEN ip' = "rx" /\ rlsr' = Lsr /\ cnt' = cnt - 1
     ELSE ip' = "modem" /\ rlsr' = NoLsr /\ cnt' = 0
  /\ UNCHANGED <<ier, rxFifo, txFifo, arrived, wire, modem, busy, events, setVars,
                 queueVars, started, iir, temt, ireg, held>>

RereadLsr ==
  /\ ip = "rx_lsr"
  /\ err' = {}
  /\ IF (Lsr.DR \/ Lsr.BI) /\ cnt > 0
     THEN ip' = "rx" /\ rlsr' = Lsr /\ cnt' = cnt - 1
     ELSE ip' = "modem" /\ rlsr' = NoLsr /\ cnt' = 0
  /\ UNCHANGED <<ier, rxFifo, txFifo, arrived, wire, modem, busy, events, setVars,
                 queueVars, started, iir, temt, ireg, held>>

(* A data, timeout or error interrupt but no data: read and ignore. *)
DiscardRbr ==
  /\ ip = "discard"
  /\ RbrPop
  /\ ip' = "modem"
  /\ UNCHANGED <<ier, txFifo, arrived, wire, err, modem, busy, events, setVars,
                 queueVars, started, irqLocals>>

(* handle_irq_modem_status, and the test that leads to handle_irq_tx. *)
ReadMsr ==
  /\ ip = "modem"
  /\ modem' = FALSE
  /\ IF iir = "THREMP" \/ (temt /\ tx_buffer # <<>>)
     THEN ip' = "tx" /\ UNCHANGED irqLocals
     ELSE Done
  /\ UNCHANGED <<ier, rxFifo, txFifo, arrived, wire, err, busy, events, setVars, queueVars, started>>

(* Faulty variant: the fifo's room is forgotten. *)
TxSizeUncapped ==
  /\ ip = "tx"
  /\ cnt' = Len(tx_buffer)
  /\ ip' = IF cnt' = 0 THEN "tx_off" ELSE "tx_put"
  /\ UNCHANGED <<hwVars, queueVars, started, iir, temt, rlsr, ireg, held>>

TxSize ==
  /\ ip = "tx"
  /\ cnt' = IF Len(tx_buffer) > FifoLeft THEN FifoLeft ELSE Len(tx_buffer)
  /\ ip' = IF cnt' = 0 THEN "tx_off" ELSE "tx_put"
  /\ UNCHANGED <<hwVars, queueVars, started, iir, temt, rlsr, ireg, held>>

TxPut ==
  /\ ip = "tx_put"
  /\ ThrPut(Front(tx_buffer))
  /\ ip' = "tx_pop"
  /\ UNCHANGED <<ier, rxFifo, arrived, wire, err, modem, busy, events, setVars,
                 queueVars, started, irqLocals>>

(* pop(), and behind the last byte the test for tx_switch(true). *)
TxPop ==
  /\ ip = "tx_pop"
  /\ tx_buffer' = Popped(tx_buffer)
  /\ IF cnt > 1
     THEN ip' = "tx_put" /\ cnt' = cnt - 1 /\ UNCHANGED <<iir, temt, rlsr, ireg, held>>
     ELSE IF temt /\ tx_buffer' # <<>>
     THEN ip' = "tx_on" /\ UNCHANGED irqLocals
     ELSE Done
  /\ UNCHANGED <<hwVars, rx_buffer, started>>

(* tx_switch reads IER, and writes it back with the bit changed. *)
TxSwitchRead ==
  /\ ip \in {"tx_off", "tx_on"}
  /\ ireg' = IerNow
  /\ ip' = IF ip = "tx_off" THEN "tx_off_write" ELSE "tx_on_write"
  /\ UNCHANGED <<hwVars, queueVars, started, iir, temt, rlsr, cnt, held>>

TxSwitchWrite ==
  /\ ip \in {"tx_off_write", "tx_on_write"}
  /\ IerPut(IF ip = "tx_off_write" THEN ireg \ {"THRI"} ELSE ireg \cup {"THRI"})
  /\ Done
  /\ UNCHANGED <<rxFifo, txFifo, arrived, wire, err, modem, busy, events, lineVars,
                 loopback, queueVars, started>>

IrqThread ==
  \/ IrqEntry \/ ReadLsr \/ HoldLcr \/ ClearBusy \/ RestoreLcr \/ RestoreMcr
  \/ ReadRbr \/ RereadLsr \/ DiscardRbr \/ ReadMsr
  \/ TxSize \/ TxPut \/ TxPop \/ TxSwitchRead \/ TxSwitchWrite
=============================================================================
