----------------------------- MODULE UartClass -----------------------------
(* One device of the uart class driver (drivers/uart.cxx) on sunxi-uart: the *)
(* loop thread serves open, close, write, read and ioctl one after the other *)
(* and calls the api_* functions of sunxi-uart.cxx, while the interrupt      *)
(* thread of SunxiUart.tla and the hardware run.                             *)
EXTENDS SunxiUart

CONSTANTS Settings,  \* what users set by ioctl: "FRAME", parity or stop bits, or "BAUD"
          HighBytes, \* high bytes of the divisors in use, as what they are in IER
          Flags,     \* the flags users open with: sets of "R", "W" and "P"
          MaxSetups, \* bound: calls of open, and of ioctl behind the first
          MaxWrites, \* bound: bytes written
          MaxPushes  \* bound: what the interrupt thread pushes, zeros included

ASSUME UartAssumption ==
  /\ Settings \subseteq {"FRAME", "BAUD"}
  /\ HighBytes \subseteq SUBSET {"RDI", "THRI", "LINE"} /\ HighBytes # {}
  /\ Flags \subseteq SUBSET {"R", "W", "P"}
  /\ {MaxSetups, MaxWrites, MaxPushes} \subseteq Nat

VARIABLES lp,         \* where the loop thread is
          file_flag,  \* the runtime's file_flag
          flags,      \* open's argument
          left,       \* bytes left to move in write or read
          lreg,       \* tx_switch's or rx_switch's ier
          lcr,        \* DLAB in the LCR read by api_config_parity and its like
          setups,     \* how many times open went past its test, and ioctl was called
          written,    \* how many bytes write took
          reads       \* the bytes read gave out

loopVars == <<lp, file_flag, flags, left, lreg, lcr, setups, written, reads>>
vars == <<hwVars, queueVars, irqVars, loopVars>>

Init ==
  /\ HwInit
  /\ IrqInit
  /\ lp = "idle"
  /\ file_flag = {}
  /\ flags = {}
  /\ left = 0
  /\ lreg = {}
  /\ lcr = FALSE
  /\ setups = 0
  /\ written = 0
  /\ reads = <<>>

(* LCR written while the line is active raises the busy interrupt. *)
LcrPut(bit) ==
  /\ dlab' = bit
  /\ \/ UNCHANGED <<busy, busies>>
     \/ busies < MaxBusy /\ busy' = TRUE /\ busies' = busies + 1

(***************************************************************************)
(* open_ and close_.                                                       *)
(***************************************************************************)

(* setup_clk resets the device. *)
open_ ==
  /\ lp = "idle"
  /\ file_flag = {}
  /\ setups < MaxSetups
  /\ setups' = setups + 1
  /\ flags' \in Flags
  /\ ier' = {}
  /\ rxFifo' = <<>>
  /\ txFifo' = <<>>
  /\ err' = {}
  /\ modem' = FALSE
  /\ busy' = FALSE
  /\ clocked' = FALSE
  /\ fifos' = FALSE
  /\ trigger' = 0
  /\ dlab' = FALSE
  /\ dlh' = {}
  /\ loopback' = FALSE
  /\ lp' = "fcr"
  /\ UNCHANGED <<arrived, wire, events, busies, queueVars, irqVars, file_flag,
                 left, lreg, lcr, written, reads>>

(* Enabling the fifos clears them.  Then LCR is changed three times. *)
SetFcr ==
  /\ lp = "fcr"
  /\ rxFifo' = IF fifos THEN rxFifo ELSE <<>>
  /\ txFifo' = IF fifos THEN txFifo ELSE <<>>
  /\ fifos' = TRUE
  /\ trigger' = TxTrigger
  /\ left' = 3
  /\ lp' = "lcr"
  /\ UNCHANGED <<ier, arrived, wire, err, modem, busy, events, busies, clocked, dlab, dlh,
                 loopback, queueVars, irqVars, file_flag, flags, lreg, lcr, setups, written, reads>>

(* api_config_data_bit, api_config_parity and api_config_stop_bit read LCR,  *)
(* and write it back with a few bits changed, in open_ and in ioctl_.        *)
ReadLcr ==
  /\ lp \in {"lcr", "set_lcr"}
  /\ lcr' = dlab
  /\ lp' = IF lp = "lcr" THEN "lcr_write" ELSE "set_lcr_write"
  /\ UNCHANGED <<hwVars, queueVars, irqVars, file_flag, flags, left, lreg, setups, written, reads>>

WriteLcr ==
  /\ lp \in {"lcr_write", "set_lcr_write"}
  /\ LcrPut(lcr)
  /\ lcr' = FALSE
  /\ IF lp = "lcr_write"
     THEN left' = left - 1 /\ lp' = IF left > 1 THEN "lcr" ELSE "baud"
     ELSE lp' = "idle" /\ UNCHANGED left
  /\ UNCHANGED <<ier, rxFifo, txFifo, arrived, wire, err, modem, events, clocked, fifos, trigger,
                 dlh, loopback, queueVars, irqVars, file_flag, flags, lreg, setups, written, reads>>

(* api_config_baud_rate: DLAB is set, the divisor is written, DLAB is reset. *)
(* HALT's FORCECFG keeps the busy interrupt away.                            *)
SetDlab ==
  /\ lp \in {"baud", "set_baud"}
  /\ dlab' = TRUE
  /\ lp' = IF lp = "baud" THEN "divisor" ELSE "set_divisor"
  /\ UNCHANGED <<ier, rxFifo, txFifo, arrived, wire, err, modem, busy, events, busies, clocked,
                 fifos, trigger, dlh, loopback, queueVars, irqVars,
                 file_flag, flags, left, lreg, lcr, setups, written, reads>>

(* DLL and DLH lie where THR and IER do: when the busy branch has taken DLAB *)
(* away, the low byte goes out on the line, here as a 0, and the high byte   *)
(* enables and disables interrupts.                                          *)
SetDll ==
  /\ lp \in {"divisor", "set_divisor"}
  /\ ThrPut(0)
  /\ clocked' = (clocked \/ dlab)
  /\ lp' = IF lp = "divisor" THEN "high" ELSE "set_high"
  /\ UNCHANGED <<ier, rxFifo, arrived, wire, err, modem, busy, events, busies, fifos, trigger,
                 dlab, dlh, loopback, queueVars, irqVars,
                 file_flag, flags, left, lreg, lcr, setups, written, reads>>

SetDlh ==
  /\ lp \in {"high", "set_high"}
  /\ \E high \in HighBytes : IerPut(high)
  /\ lp' = IF lp = "high" THEN "dlab" ELSE "set_dlab"
  /\ UNCHANGED <<rxFifo, txFifo, arrived, wire, err, modem, busy, events, lineVars, loopback,
                 queueVars, irqVars, file_flag, flags, left, lreg, lcr, setups, written, reads>>

ClearDlab ==
  /\ lp \in {"dlab", "set_dlab"}
  /\ dlab' = FALSE
  /\ lp' = IF lp = "dlab" THEN "setup" ELSE "idle"
  /\ UNCHANGED <<ier, rxFifo, txFifo, arrived, wire, err, modem, busy, events, busies, clocked,
                 fifos, trigger, dlh, loopback, queueVars, irqVars,
                 file_flag, flags, left, lreg, lcr, setups, written, reads>>

(* One of the three refuses the frame the device asks for. *)
SetupFails ==
  /\ lp = "lcr_write"
  /\ flags' = {}
  /\ left' = 0
  /\ lcr' = FALSE
  /\ lp' = "idle"
  /\ UNCHANGED <<hwVars, queueVars, irqVars, file_flag, lreg, setups, written, reads>>

(* IER is 0x8c and MCR 3; the first time the interrupt thread is created,    *)
(* which may fail.                                                           *)
Setup ==
  /\ lp = "setup"
  /\ IerPut({"LINE"})
  /\ loopback' = FALSE
  /\ started' = TRUE
  /\ IF "R" \in flags /\ "P" \notin flags
     THEN lp' = "rx_on" /\ UNCHANGED <<file_flag, flags>>
     ELSE lp' = "idle" /\ file_flag' = flags /\ flags' = {}
  /\ UNCHANGED <<rxFifo, txFifo, arrived, wire, err, modem, busy, events, lineVars,
                 queueVars, ip, irqLocals, left, lreg, lcr, setups, written, reads>>

SetupNoThread ==
  /\ lp = "setup"
  /\ ~started
  /\ IerPut({"LINE"})
  /\ loopback' = FALSE
  /\ flags' = {}
  /\ lp' = "idle"
  /\ UNCHANGED <<rxFifo, txFifo, arrived, wire, err, modem, busy, events, lineVars,
                 queueVars, irqVars, file_flag, left, lreg, lcr, setups, written, reads>>

close_ ==
  /\ lp = "idle"
  /\ file_flag' = {}
  /\ UNCHANGED <<hwVars, queueVars, irqVars, lp, flags, left, lreg, lcr, setups, written, reads>>

(***************************************************************************)
(* api_start_rx and api_start_tx: IER is read, then written.               *)
(***************************************************************************)
SwitchRead ==
  /\ lp \in {"rx_on", "tx_on"}
  /\ lreg' = IerNow
  /\ lp' = IF lp = "rx_on" THEN "rx_on_write" ELSE "tx_on_write"
  /\ UNCHANGED <<hwVars, queueVars, irqVars, file_flag, flags, left, lcr, setups, written, reads>>

(* Faulty variant: start_rx writes the wrong bit. *)
StartRxWrongBit ==
  /\ lp = "rx_on_write"
  /\ IerPut(lreg \cup {"THRI"})
  /\ lreg' = {}
  /\ file_flag' = flags
  /\ flags' = {}
  /\ lp' = "idle"
  /\ UNCHANGED <<rxFifo, txFifo, arrived, wire, err, modem, busy, events, lineVars,
                 loopback, queueVars, irqVars, left, lcr, setups, written, reads>>

StartRxWrite ==
  /\ lp = "rx_on_write"
  /\ IerPut(lreg \cup {"RDI"})
  /\ lreg' = {}
  /\ file_flag' = flags
  /\ flags' = {}
  /\ lp' = "idle"
  /\ UNCHANGED <<rxFifo, txFifo, arrived, wire, err, modem, busy, events, lineVars,
                 loopback, queueVars, irqVars, left, lcr, setups, written, reads>>

StartTxWrite ==
  /\ lp = "tx_on_write"
  /\ IerPut(lreg \cup {"THRI"})
  /\ lreg' = {}
  /\ lp' = "idle"
  /\ UNCHANGED <<rxFifo, txFifo, arrived, wire, err, modem, busy, events, lineVars,
                 loopback, queueVars, irqVars, file_flag, flags, left, lcr, setups, written, reads>>

(***************************************************************************)
(* write_, with api_poll_tx.                                               *)
(***************************************************************************)
write_ ==
  /\ lp = "idle"
  /\ "W" \in file_flag
  /\ left' \in 1..(MaxWrites - written)
  /\ lp' = "push"
  /\ UNCHANGED <<hwVars, queueVars, irqVars, file_flag, flags, lreg, lcr, setups, written, reads>>

(* Faulty variant: poll_tx is called without FF_POLL. *)
PushPolls ==
  /\ lp = "push"
  /\ tx_buffer' = Append(tx_buffer, written + 1)
  /\ written' = written + 1
  /\ left' = left - 1
  /\ lp' = IF left > 1 THEN "push" ELSE "poll_tx"
  /\ UNCHANGED <<hwVars, rx_buffer, irqVars, file_flag, flags, lreg, lcr, setups, reads>>

Push ==
  /\ lp = "push"
  /\ tx_buffer' = Append(tx_buffer, written + 1)
  /\ written' = written + 1
  /\ left' = left - 1
  /\ lp' = IF left > 1 THEN "push" ELSE IF "P" \in file_flag THEN "poll_tx" ELSE "tx_on"
  /\ UNCHANGED <<hwVars, rx_buffer, irqVars, file_flag, flags, lreg, lcr, setups, reads>>

PollTx ==
  /\ lp = "poll_tx"
  /\ lp' = IF tx_buffer = <<>> THEN "idle" ELSE "poll_temt"
  /\ UNCHANGED <<hwVars, queueVars, irqVars, file_flag, flags, left, lreg, lcr, setups, written, reads>>

(* Faulty variant: the loop does not wait. *)
PollTemtUnwaited ==
  /\ lp = "poll_temt"
  /\ err' = {}
  /\ lp' = "poll_put"
  /\ UNCHANGED <<ier, rxFifo, txFifo, arrived, wire, modem, busy, events, setVars,
                 queueVars, irqVars, file_flag, flags, left, lreg, lcr, setups, written, reads>>

(* The loop on LSR ends when TEMT is set. *)
PollTemt ==
  /\ lp = "poll_temt"
  /\ txFifo = <<>>
  /\ err' = {}
  /\ lp' = "poll_put"
  /\ UNCHANGED <<ier, rxFifo, txFifo, arrived, wire, modem, busy, events, setVars,
                 queueVars, irqVars, file_flag, flags, left, lreg, lcr, setups, written, reads>>

PollPut ==
  /\ lp = "poll_put"
  /\ ThrPut(Front(tx_buffer))
  /\ lp' = "poll_pop"
  /\ UNCHANGED <<ier, rxFifo, arrived, wire, err, modem, busy, events, setVars,
                 queueVars, irqVars, file_flag, flags, left, lreg, lcr, setups, written, reads>>

PollPop ==
  /\ lp = "poll_pop"
  /\ tx_buffer' = Popped(tx_buffer)
  /\ lp' = "poll_tx"
  /\ UNCHANGED <<hwVars, rx_buffer, irqVars, file_flag, flags, left, lreg, lcr, setups, written, reads>>

(***************************************************************************)
(* read_, with api_poll_rx.                                                *)
(***************************************************************************)
read_ ==
  /\ lp = "idle"
  /\ "R" \in file_flag
  /\ "P" \notin file_flag
  /\ left' \in 1..Len(rx_buffer)
  /\ lp' = "pop"
  /\ UNCHANGED <<hwVars, queueVars, irqVars, file_flag, flags, lreg, lcr, setups, written, reads>>

(* Faulty variant: the byte is read behind the pop. *)
PopFirst ==
  /\ lp = "pop"
  /\ reads' = Append(reads, Front(Popped(rx_buffer)))
  /\ rx_buffer' = Popped(rx_buffer)
  /\ left' = left - 1
  /\ lp' = IF left > 1 THEN "pop" ELSE "idle"
  /\ UNCHANGED <<hwVars, tx_buffer, irqVars, file_flag, flags, lreg, lcr, setups, written>>

(* Faulty variant: the byte stays in the queue. *)
PopForgotten ==
  /\ lp = "pop"
  /\ reads' = Append(reads, Front(rx_buffer))
  /\ left' = left - 1
  /\ lp' = IF left > 1 THEN "pop" ELSE "idle"
  /\ UNCHANGED <<hwVars, queueVars, irqVars, file_flag, flags, lreg, lcr, setups, written>>

Pop ==
  /\ lp = "pop"
  /\ reads' = Append(reads, Front(rx_buffer))
  /\ rx_buffer' = Popped(rx_buffer)
  /\ left' = left - 1
  /\ lp' = IF left > 1 THEN "pop" ELSE "idle"
  /\ UNCHANGED <<hwVars, tx_buffer, irqVars, file_flag, flags, lreg, lcr, setups, written>>

read_poll ==
  /\ lp = "idle"
  /\ {"R", "P"} \subseteq file_flag
  /\ left' \in 1..MaxArrivals
  /\ lp' = "poll_lsr"
  /\ UNCHANGED <<hwVars, queueVars, irqVars, file_flag, flags, lreg, lcr, setups, written, reads>>

(* Faulty variant: LSR is not looked at. *)
PollLsrUnchecked ==
  /\ lp = "poll_lsr"
  /\ err' = {}
  /\ IF left > 0
     THEN lp' = "poll_rbr" /\ UNCHANGED left
     ELSE lp' = "idle" /\ left' = 0
  /\ UNCHANGED <<ier, rxFifo, txFifo, arrived, wire, modem, busy, events, setVars,
                 queueVars, irqVars, file_flag, flags, lreg, lcr, setups, written, reads>>

PollLsr ==
  /\ lp = "poll_lsr"
  /\ err' = {}
  /\ IF left > 0 /\ Lsr.DR
     THEN lp' = "poll_rbr" /\ UNCHANGED left
     ELSE lp' = "idle" /\ left' = 0
  /\ UNCHANGED <<ier, rxFifo, txFifo, arrived, wire, modem, busy, events, setVars,
                 queueVars, irqVars, file_flag, flags, lreg, lcr, setups, written, reads>>

PollRbr ==
  /\ lp = "poll_rbr"
  /\ reads' = Append(reads, RbrByte)
  /\ RbrPop
  /\ left' = left - 1
  /\ lp' = "poll_lsr"
  /\ UNCHANGED <<ier, txFifo, arrived, wire, err, modem, busy, events, setVars,
                 queueVars, irqVars, file_flag, flags, lreg, lcr, setups, written>>

(* ioctl_ sets the frame or the baud rate, whether or not the device is      *)
(* open; before the first open it reaches no register.                       *)
ioctl_ ==
  /\ lp = "idle"
  /\ setups \in 1..(MaxSetups - 1)
  /\ setups' = setups + 1
  /\ \/ "FRAME" \in Settings /\ lp' = "set_lcr"
     \/ "BAUD" \in Settings /\ lp' = "set_baud"
  /\ UNCHANGED <<hwVars, queueVars, irqVars, file_flag, flags, left, lreg, lcr, written, reads>>

Calls == open_ \/ close_ \/ write_ \/ read_ \/ read_poll \/ ioctl_

Serve == \/ SetFcr \/ ReadLcr \/ WriteLcr \/ SetupFails
         \/ SetDlab \/ SetDll \/ SetDlh \/ ClearDlab \/ Setup \/ SetupNoThread
         \/ SwitchRead \/ StartRxWrite \/ StartTxWrite
         \/ Push \/ PollTx \/ PollTemt \/ PollPut \/ PollPop
         \/ Pop \/ PollLsr \/ PollRbr

IrqStep ==
  /\ IrqThread
  /\ Len(rx_buffer') + Len(reads) <= MaxPushes
  /\ UNCHANGED loopVars
HwStep == Hardware /\ UNCHANGED <<queueVars, irqVars, loopVars>>

Next == Calls \/ Serve \/ IrqStep \/ HwStep

Spec == Init /\ [][Next]_vars

(* Both threads run when they can, and the line shifts bytes out; calls and  *)
(* bytes that come in are up to the users and the other end of the line.     *)
Fairness ==
  /\ WF_vars(Serve)
  /\ WF_vars(IrqStep)
  /\ WF_vars(Shift /\ UNCHANGED <<queueVars, irqVars, loopVars>>)

FairSpec == Spec /\ Fairness
=============================================================================
