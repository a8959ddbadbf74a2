------------------------------ MODULE UartDriver ------------------------------
(***************************************************************************)
(* The interrupt-driven UART driver (M2_BSP/UART/uart_irq.c) of one port   *)
(* used by one task, as UART0 is by the xTP task.  Every load and store    *)
(* the task shares with the interrupt is a step of its own; the interrupt  *)
(* handler runs to its end.  Bytes are numbered in the order in which the  *)
(* task hands them to the transmitter, and in which the line delivers them *)
(* to the receiver, so that a number out of place is a byte lost, repeated *)
(* or overtaken.                                                           *)
(*                                                                         *)
(* UART0_InterruptHandler, patched as uart_irq.c asks, calls the transmit  *)
(* callback whenever the holding register is free, also when a received    *)
(* byte raised the interrupt and the transmit interrupt is masked.  clean  *)
(* tells whether that has ever happened in the middle of a write.          *)
(***************************************************************************)
EXTENDS RingBuffer

CONSTANTS
  TxSize,    \* slots of tx_buffer; one stays empty
  RxSize,    \* slots of rx_buffer
  MaxWrite,  \* bound: the bytes of one UART_Driver_Write
  MaxOut,    \* bound: the bytes written
  MaxIn      \* bound: the bytes that arrive

ASSUME UartAssumption ==
  /\ TxSize \in Nat /\ TxSize > 1
  /\ RxSize \in Nat /\ RxSize > 1
  /\ MaxWrite \in Nat /\ MaxOut \in Nat /\ MaxIn \in Nat

NoByte == 0

VARIABLES
  tx,                 \* tx_buffer
  tx_busy,            \* tx_busy
  tx_irq,             \* the TXRDY interrupt is unmasked
  thr,                \* the holding register; NoByte when SR has TXRDY
  sent,               \* what has left on the line
  rx,                 \* rx_buffer
  rhr,                \* the receive register; NoByte unless SR has RXRDY
  line_error,         \* SR has OVRE, FRAME or PARE
  rx_overflow_count,  \* rx_overflow_count
  flushed,            \* history: bytes a line error threw away
  arrived,            \* history: bytes the line delivered
  received,           \* history: what the task has read
  pc,                 \* the task's next step
  left,               \* bytes the Write in progress has still to store
  written,            \* bytes it has stored
  accepted,           \* history: bytes stored by all writes
  hand,               \* the element a RingBuffer_Get has copied
  new_tail,           \* and the tail it is about to store
  clean               \* no callback ran in a write with its interrupt masked

line_vars == <<thr, sent, rhr, line_error, flushed, arrived>>
driver_vars == <<tx, tx_busy, tx_irq, rx, rx_overflow_count>>
task_vars == <<received, pc, left, written, accepted, hand, new_tail>>
vars == <<line_vars, driver_vars, task_vars, clean>>

\* The steps of a write, of which the last six are UART_Driver_StartTx, and of a read.
Storing == {"put", "publish"}
Starting == {"start", "get", "advance", "busy", "send", "load", "enable"}
Reading == {"read", "store"}

Init ==
  /\ tx = Create(TxSize) /\ tx_busy = FALSE /\ tx_irq = FALSE
  /\ rx = Create(RxSize) /\ rx_overflow_count = 0
  /\ thr = NoByte /\ sent = <<>>
  /\ rhr = NoByte /\ line_error = FALSE /\ flushed = 0 /\ arrived = 0
  /\ received = <<>> /\ pc = "idle" /\ left = 0 /\ written = 0 /\ accepted = 0
  /\ hand = NoByte /\ new_tail = 0
  /\ clean = TRUE

(***************************************************************************)
(* UART_Driver_Write, and UART_Driver_WriteByte as a write of one byte.    *)
(***************************************************************************)
Write(n) ==
  /\ pc = "idle"
  /\ accepted + n <= MaxOut
  /\ pc' = "put" /\ left' = n /\ written' = 0
  /\ UNCHANGED <<line_vars, driver_vars, received, accepted, hand, new_tail, clean>>

\* RingBuffer_Put finds room and stores the element.
PutElement ==
  /\ pc = "put"
  /\ ~Full(tx)
  /\ tx' = Fill(tx, accepted + 1)
  /\ pc' = "publish"
  /\ UNCHANGED <<line_vars, tx_busy, tx_irq, rx, rx_overflow_count,
                 received, left, written, accepted, hand, new_tail, clean>>

\* No room for 10 ms (UART_Driver_Write), or at once (UART_Driver_WriteByte).
GiveUp ==
  /\ pc = "put"
  /\ Full(tx)
  /\ pc' = IF written > 0 THEN "start" ELSE "idle"
  /\ left' = 0
  /\ UNCHANGED <<line_vars, driver_vars, received, written, accepted, hand, new_tail, clean>>

\* The write goes on for one element more than it was given.
Fault_PublishElement ==
  /\ pc = "publish"
  /\ tx' = Publish(tx)
  /\ accepted' = accepted + 1
  /\ written' = written + 1
  /\ left' = left - 1
  /\ pc' = IF left = 0 THEN "start" ELSE "put"
  /\ UNCHANGED <<line_vars, tx_busy, tx_irq, rx, rx_overflow_count,
                 received, hand, new_tail, clean>>

PublishElement ==
  /\ pc = "publish"
  /\ tx' = Publish(tx)
  /\ accepted' = accepted + 1
  /\ written' = written + 1
  /\ left' = left - 1
  /\ pc' = IF left = 1 THEN "start" ELSE "put"
  /\ UNCHANGED <<line_vars, tx_busy, tx_irq, rx, rx_overflow_count,
                 received, hand, new_tail, clean>>

(***************************************************************************)
(* UART_Driver_StartTx.                                                    *)
(***************************************************************************)
\* tx_busy is not looked at.
Fault_TestBusy ==
  /\ pc = "start"
  /\ pc' = "get"
  /\ UNCHANGED <<line_vars, driver_vars, received, left, written, accepted, hand, new_tail, clean>>

TestBusy ==
  /\ pc = "start"
  /\ pc' = IF tx_busy THEN "idle" ELSE "get"
  /\ UNCHANGED <<line_vars, driver_vars, received, left, written, accepted, hand, new_tail, clean>>

TakeElement ==
  /\ pc = "get"
  /\ IF Empty(tx)
       THEN pc' = "idle" /\ UNCHANGED <<hand, new_tail>>
       ELSE /\ hand' = Front(tx)
            /\ new_tail' = Following(tx, tx.tail)
            /\ pc' = "advance"
  /\ UNCHANGED <<line_vars, driver_vars, received, left, written, accepted, clean>>

StoreTail ==
  /\ pc = "advance"
  /\ tx' = Advance(tx, new_tail)
  /\ pc' = "busy"
  /\ UNCHANGED <<line_vars, tx_busy, tx_irq, rx, rx_overflow_count,
                 received, left, written, accepted, hand, new_tail, clean>>

SetBusy ==
  /\ pc = "busy"
  /\ tx_busy' = TRUE
  /\ pc' = "send"
  /\ UNCHANGED <<line_vars, tx, tx_irq, rx, rx_overflow_count,
                 received, left, written, accepted, hand, new_tail, clean>>

\* The element is dropped when the holding register is taken.
TestReady ==
  /\ pc = "send"
  /\ pc' = IF thr = NoByte THEN "load" ELSE "enable"
  /\ UNCHANGED <<line_vars, driver_vars, received, left, written, accepted, hand, new_tail, clean>>

LoadHolding ==
  /\ pc = "load"
  /\ thr' = hand
  /\ pc' = "enable"
  /\ UNCHANGED <<sent, rhr, line_error, flushed, arrived, driver_vars,
                 received, left, written, accepted, hand, new_tail, clean>>

\* The interrupt is not unmasked.
Fault_EnableTx ==
  /\ pc = "enable"
  /\ pc' = "idle"
  /\ UNCHANGED <<line_vars, driver_vars, received, left, written, accepted, hand, new_tail, clean>>

EnableTx ==
  /\ pc = "enable"
  /\ tx_irq' = TRUE
  /\ pc' = "idle"
  /\ UNCHANGED <<line_vars, tx, tx_busy, rx, rx_overflow_count,
                 received, left, written, accepted, hand, new_tail, clean>>

(***************************************************************************)
(* UART_Driver_ReadByte; UART_Driver_Read is a sequence of them.           *)
(***************************************************************************)
Read ==
  /\ pc = "idle"
  /\ ~Empty(rx)
  /\ pc' = "read"
  /\ UNCHANGED <<line_vars, driver_vars, received, left, written, accepted, hand, new_tail, clean>>

CopyElement ==
  /\ pc = "read"
  /\ hand' = Front(rx)
  /\ new_tail' = Following(rx, rx.tail)
  /\ pc' = "store"
  /\ UNCHANGED <<line_vars, driver_vars, received, left, written, accepted, clean>>

StoreRxTail ==
  /\ pc = "store"
  /\ rx' = Advance(rx, new_tail)
  /\ received' = Append(received, hand)
  /\ pc' = "idle"
  /\ UNCHANGED <<line_vars, tx, tx_busy, tx_irq, rx_overflow_count,
                 left, written, accepted, hand, new_tail, clean>>

(***************************************************************************)
(* The interrupt.  UART_RX_Callback throws a byte received with an error   *)
(* away and otherwise stores it, or counts it when the ring is full;       *)
(* UART_TX_Callback sends the next byte or masks its interrupt.            *)
(***************************************************************************)
Pending == line_error \/ rhr # NoByte \/ (tx_irq /\ thr = NoByte)

\* A byte that finds the ring full is dropped without being counted.
Fault_RxCallback ==
  /\ line_error' = FALSE
  /\ rhr' = NoByte
  /\ UNCHANGED rx_overflow_count
  /\ IF rhr = NoByte \/ line_error
       THEN flushed' = (IF rhr = NoByte THEN flushed ELSE flushed + 1) /\ UNCHANGED rx
       ELSE rx' = (IF Full(rx) THEN rx ELSE Put(rx, rhr)) /\ UNCHANGED flushed

RxCallback ==
  /\ line_error' = FALSE
  /\ rhr' = NoByte
  /\ IF rhr = NoByte \/ line_error
       THEN /\ flushed' = IF rhr = NoByte THEN flushed ELSE flushed + 1
            /\ UNCHANGED <<rx, rx_overflow_count>>
       ELSE /\ UNCHANGED flushed
            /\ IF Full(rx)
                 THEN rx_overflow_count' = rx_overflow_count + 1 /\ UNCHANGED rx
                 ELSE rx' = Put(rx, rhr) /\ UNCHANGED rx_overflow_count

\* The interrupt is masked but tx_busy is left set.
Fault_TxCallback ==
  IF thr # NoByte THEN UNCHANGED <<thr, tx, tx_irq, tx_busy>>
  ELSE IF Empty(tx)
    THEN tx_irq' = FALSE /\ UNCHANGED <<thr, tx, tx_busy>>
    ELSE thr' = Front(tx) /\ tx' = Get(tx) /\ UNCHANGED <<tx_irq, tx_busy>>

TxCallback ==
  IF thr # NoByte THEN UNCHANGED <<thr, tx, tx_irq, tx_busy>>
  ELSE IF Empty(tx)
    THEN tx_irq' = FALSE /\ tx_busy' = FALSE /\ UNCHANGED <<thr, tx>>
    ELSE thr' = Front(tx) /\ tx' = Get(tx) /\ UNCHANGED <<tx_irq, tx_busy>>

Interrupt ==
  /\ Pending
  /\ RxCallback
  /\ TxCallback
  /\ clean' = (clean /\ (tx_irq \/ thr # NoByte \/ pc \notin Storing \cup Starting))
  /\ UNCHANGED <<sent, arrived, task_vars>>

(***************************************************************************)
(* The line.  A byte that finds the receive register taken overruns it.    *)
(***************************************************************************)
Transmit ==
  /\ thr # NoByte
  /\ sent' = Append(sent, thr)
  /\ thr' = NoByte
  /\ UNCHANGED <<rhr, line_error, flushed, arrived, driver_vars, task_vars, clean>>

Arrive(bad) ==
  /\ arrived < MaxIn
  /\ arrived' = arrived + 1
  /\ rhr' = arrived + 1
  /\ line_error' = (line_error \/ bad \/ rhr # NoByte)
  /\ flushed' = IF rhr = NoByte THEN flushed ELSE flushed + 1
  /\ UNCHANGED <<thr, sent, driver_vars, task_vars, clean>>

StartTx == TestBusy \/ TakeElement \/ StoreTail \/ SetBusy \/ TestReady \/ LoadHolding \/ EnableTx

Continue ==
  PutElement \/ GiveUp \/ PublishElement \/ StartTx \/ CopyElement \/ StoreRxTail

Next ==
  \/ \E n \in 1..MaxWrite : Write(n)
  \/ Read
  \/ Continue
  \/ Interrupt
  \/ Transmit
  \/ \E bad \in BOOLEAN : Arrive(bad)

Spec == Init /\ [][Next]_vars

FairSpec == Spec /\ WF_vars(Continue) /\ WF_vars(Interrupt) /\ WF_vars(Transmit)

-------------------------------------------------------------------------------
\* The types of the variables.
UartTypeOK ==
  /\ tx \in Rings(TxSize) /\ rx \in Rings(RxSize)
  /\ tx_busy \in BOOLEAN /\ tx_irq \in BOOLEAN /\ line_error \in BOOLEAN /\ clean \in BOOLEAN
  /\ thr \in Nat /\ rhr \in Nat /\ hand \in Nat
  /\ sent \in Seq(Nat) /\ received \in Seq(Nat)
  /\ rx_overflow_count \in Nat /\ flushed \in Nat /\ arrived \in Nat
  /\ left \in Nat /\ written \in Nat /\ accepted \in Nat
  /\ new_tail \in Nat
  /\ pc \in {"idle"} \cup Storing \cup Starting \cup Reading

One(byte) == IF byte = NoByte THEN <<>> ELSE <<byte>>

\* The byte UART_Driver_StartTx holds between the ring and the holding register.
InHand == IF pc \in {"busy", "send", "load"} THEN <<hand>> ELSE <<>>

(***************************************************************************)
(* Every byte a write stored leaves once, in the order of the writes:      *)
(* what was sent, what waits in the holding register, what the task holds  *)
(* and what the ring holds are, one after the other, all bytes accepted.   *)
(* StartTx may neither find the register taken nor share a byte with the   *)
(* interrupt (RingBuffer_Get has two callers).                             *)
(***************************************************************************)
BytesInOrder ==
  clean => sent \o One(thr) \o InHand \o Contents(tx) = [i \in 1..accepted |-> i]

\* Outside UART_Driver_StartTx a driver that is busy has its interrupt, and bytes
\* that no write in progress will start have it too: none waits for a next write.
NeverStranded ==
  /\ tx_busy /\ pc \notin Starting => tx_irq
  /\ ~Empty(tx) /\ pc \notin Starting /\ (pc \in Storing => written = 0) => tx_irq

(***************************************************************************)
(* The receiver loses no byte unnoticed and invents none: the task reads   *)
(* bytes in the order of the line, and every byte that arrived was read,   *)
(* is in the ring or the register, was counted by rx_overflow_count, or    *)
(* was thrown away by a line error.                                        *)
(***************************************************************************)
Rising(s) == \A i, j \in 1..Len(s) : i < j => s[i] < s[j]

ReceivedInOrder ==
  /\ Rising(received \o Contents(rx) \o One(rhr))
  /\ Len(received) + Held(rx) + Len(One(rhr)) + rx_overflow_count + flushed = arrived

\* Every byte accepted leaves, whatever the order in which the task, the line and
\* the interrupt run.
AllSent == \A n \in 1..MaxOut : accepted >= n ~> ~clean \/ Len(sent) >= n
===============================================================================
