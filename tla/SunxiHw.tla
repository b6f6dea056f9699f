------------------------------ MODULE SunxiHw ------------------------------
(* The T3 UART as sunxi-uart.cxx uses it through its registers.  Bytes are   *)
(* numbered in the order they enter a fifo; 0 is what an empty one yields.   *)
EXTENDS Integers, Sequences

CONSTANTS RxDepth, TxDepth,  \* fifo sizes
          TxTrigger,         \* FCR_TXTRG: THRE is raised at this level or below
          MaxArrivals,       \* bound: bytes that come in
          MaxEvents,         \* bound: line errors and modem changes
          MaxBusy,           \* bound: LCR written while the line is active
          Ghosts             \* a timeout interrupt may come without data

ASSUME HwAssumption ==
  /\ {RxDepth, TxDepth} \subseteq Nat \ {0}
  /\ {TxTrigger, MaxArrivals, MaxEvents, MaxBusy} \subseteq Nat
  /\ TxTrigger < TxDepth
  /\ Ghosts \in BOOLEAN

VARIABLES ier,      \* enabled interrupts: ERBFI, ETHREI, and ELSI with EDSSI
          rxFifo, txFifo,
          arrived,  \* how many bytes came into rxFifo
          wire,     \* the bytes that left on the line
          err,      \* LSR's error bits: "BI", a break, and "OTHER"
          modem,    \* MSR has a change
          busy,     \* LCR was written while the line was active
          events,   \* how many line errors and modem changes there were
          busies,   \* how many times busy was raised
          clocked,  \* the baud clock runs: the divisor is not 0, as after a reset
          fifos,    \* FCR_FIFO_EN
          trigger,  \* FCR's level for THRE
          dlab,     \* LCR_DLAB: RBR, THR and IER are the divisor's bytes
          dlh,      \* the divisor's high byte, as what it is in IER
          loopback  \* MCR_LOOP: what is sent is received

lineVars == <<busies, clocked, fifos, trigger, dlab>>
setVars == <<lineVars, dlh, loopback>>
hwVars == <<ier, rxFifo, txFifo, arrived, wire, err, modem, busy, events, setVars>>

HwInit ==
  /\ ier = {}
  /\ rxFifo = <<>>
  /\ txFifo = <<>>
  /\ arrived = 0
  /\ wire = <<>>
  /\ err = {}
  /\ modem = FALSE
  /\ busy = FALSE
  /\ events = 0
  /\ busies = 0
  /\ clocked = FALSE
  /\ fifos = FALSE
  /\ dlab = FALSE
  /\ trigger = 0
  /\ dlh = {}
  /\ loopback = FALSE

(* The interrupt that is due, most urgent first. *)
Due == IF err # {} /\ "LINE" \in ier THEN "LINESTA"
       ELSE IF rxFifo # <<>> /\ "RDI" \in ier THEN "RXDVAL"
       ELSE IF Len(txFifo) <= trigger /\ "THRI" \in ier THEN "THREMP"
       ELSE IF modem /\ "LINE" \in ier THEN "MSTA"
       ELSE IF busy THEN "BUSBSY"
       ELSE "NOIRQ"

(* What the IIR register may name. *)
Iir == {Due} \cup IF Ghosts /\ "RDI" \in ier /\ rxFifo = <<>> /\ Due # "LINESTA"
                  THEN {"CHARTO"} ELSE {}

Room(fifo, depth) == Len(fifo) < IF fifos THEN depth ELSE 1

(* Reading RBR, and writing THR: a full fifo drops the byte.  Under DLAB the *)
(* fifos are out of reach: what is read and written is the divisor.          *)
RbrByte == IF dlab \/ rxFifo = <<>> THEN 0 ELSE Head(rxFifo)
RbrPop == rxFifo' = IF dlab \/ rxFifo = <<>> THEN rxFifo ELSE Tail(rxFifo)
ThrPut(b) ==
  txFifo' = IF ~dlab /\ Room(txFifo, TxDepth) THEN Append(txFifo, b) ELSE txFifo

(* Reading and writing IER; under DLAB that is the divisor's high byte.      *)
IerNow == IF dlab THEN dlh ELSE ier
IerPut(bits) == IF dlab THEN dlh' = bits /\ UNCHANGED ier ELSE ier' = bits /\ UNCHANGED dlh

Arrive ==
  /\ clocked
  /\ ~loopback
  /\ arrived < MaxArrivals
  /\ Room(rxFifo, RxDepth)
  /\ arrived' = arrived + 1
  /\ rxFifo' = Append(rxFifo, arrived + 1)
  /\ UNCHANGED <<ier, txFifo, wire, err, modem, busy, events, setVars>>

(* A byte has an error, or finds the fifo full, or is a break; or a modem    *)
(* line changes.                                                             *)
LineEvent ==
  /\ clocked
  /\ events < MaxEvents
  /\ events' = events + 1
  /\ \/ rxFifo # <<>> /\ (\E e \in {"BI", "OTHER"} : err' = err \cup {e}) /\ UNCHANGED modem
     \/ modem' = TRUE /\ UNCHANGED err
  /\ UNCHANGED <<ier, rxFifo, txFifo, arrived, wire, busy, setVars>>

(* A byte leaves, or comes back: that is none of the line's.                 *)
Shift ==
  /\ clocked
  /\ txFifo # <<>>
  /\ txFifo' = Tail(txFifo)
  /\ IF ~loopback THEN wire' = Append(wire, Head(txFifo)) /\ UNCHANGED rxFifo
     ELSE /\ rxFifo' = IF Room(rxFifo, RxDepth) THEN Append(rxFifo, 0) ELSE rxFifo
          /\ UNCHANGED wire
  /\ UNCHANGED <<ier, arrived, err, modem, busy, events, setVars>>

Hardware == Arrive \/ LineEvent \/ Shift
=============================================================================
