----------------------------- MODULE SampleBuffers -----------------------------
(***************************************************************************)
(* The acquisition path of an experiment (app_experiment.c): the SPI0       *)
(* interrupt stores every ADC sample in the current buffer of a pool; a     *)
(* full buffer goes through fram_queue to the PSRAM task, which writes it   *)
(* to the external memory and gives it back through free_queue.             *)
(*                                                                         *)
(* Interrupts preempt every task.  The PSRAM task has a higher priority     *)
(* than the experiment task and the command line, so those two only run     *)
(* while it is blocked (PsramBlocked): on an empty fram_queue, or in the    *)
(* debug print after a block, which waits while the UART's ring is full.    *)
(* What they and the TC3 interrupt do to the data path (ResetAddress, the   *)
(* bus, the sampling flag) happens here at any time their priority allows;  *)
(* Experiment says when it really does.                                     *)
(*                                                                         *)
(* A sample is its ordinal number: the model tells samples apart, not their *)
(* values.  Addresses count blocks of BUF_SIZE samples.                     *)
(***************************************************************************)
EXTENDS Integers, Sequences, FiniteSets, Functions

CONSTANTS
    BUF_COUNT,    \* buffers of adc_pool
    BUF_SIZE,     \* samples of a buffer
    Capacity,     \* blocks the memory chip holds; addresses wrap at its end
    MaxSamples,   \* bound: samples captured in a behaviour
    NoBuffer,
    Blank, Torn   \* a place of the memory that holds no block, or part of one

Buffers == 0 .. BUF_COUNT - 1   \* adc_pool

ASSUME BuffersAssumption == BUF_COUNT \in Nat \ {0} /\ NoBuffer \notin Buffers
ASSUME SizeAssumption ==
    BUF_SIZE \in Nat \ {0} /\ Capacity \in Nat \ {0} /\ MaxSamples \in Nat

VARIABLES
    sampling_enable,   \* samples are kept
    current_buf,       \* the buffer the interrupt fills,
    buf_idx,           \* and the next index in it
    data,              \* contents of every buffer
    free_queue, fram_queue,
    task,              \* where the PSRAM task stands
    recv_buf,          \* the buffer it took last
    psram_mux,         \* which processor the memory's bus is switched to
    psram_addr,        \* next block to write
    psram,             \* contents of the memory
    captured,          \* history: samples kept so far
    written, stored,   \* history: what became of the blocks since ResetAddress, and the end of the last
    fresh              \* history: the PSRAM task was done with its queue at ResetAddress

queues == <<free_queue, fram_queue>>
memory == <<psram_addr, psram, written, stored, fresh>>
filling == <<current_buf, buf_idx, data, captured>>
bufferVars == <<sampling_enable, filling, queues, task, recv_buf, psram_mux, memory>>

Block == [0 .. BUF_SIZE - 1 -> Nat]

ASSUME BlankAssumption == Blank \notin Block /\ Torn \notin Block

\* The buffers on their way to the memory: queued, or held by the PSRAM task.
InFlight == Range(fram_queue) \cup IF task = "receive" THEN {} ELSE {recv_buf}

\* The PSRAM task waits for a full buffer: none is queued or in its hands.
PsramDone == task = "receive" /\ fram_queue = <<>>

\* The PSRAM task is, or may be, blocked, so tasks of lower priority may run.
PsramBlocked == PsramDone \/ task = "print"

\* experiment_init: the pool in free_queue, its first buffer taken for filling.
experiment_init ==
    /\ sampling_enable = FALSE
    /\ current_buf = 0 /\ buf_idx = 0
    /\ data = [b \in Buffers |-> [j \in 0 .. BUF_SIZE - 1 |-> 0]]
    /\ free_queue = [i \in 1 .. BUF_COUNT - 1 |-> i]
    /\ fram_queue = <<>>
    /\ task = "receive" /\ recv_buf = NoBuffer
    /\ psram_mux = "MCU" /\ psram_addr = 0
    /\ psram = [a \in 0 .. Capacity - 1 |-> Blank]
    /\ captured = 0 /\ written = <<>> /\ stored = 0 /\ fresh = TRUE

\* Fault: current_buf not replaced after the full buffer was sent.
Fault_SwapBuffer_KeepsCurrent ==
    IF free_queue = <<>>
    THEN UNCHANGED <<current_buf, queues>>
    ELSE /\ free_queue' = Tail(free_queue)
         /\ fram_queue' = Append(fram_queue, current_buf)
         /\ UNCHANGED current_buf

\* Fault: a fram_queue created with room for one buffer; the free buffer taken
\* for a failed send goes back.
Fault_SwapBuffer_ShortQueue ==
    IF free_queue = <<>> \/ Len(fram_queue) = 1
    THEN UNCHANGED <<current_buf, queues>>
    ELSE /\ free_queue' = Tail(free_queue)
         /\ fram_queue' = Append(fram_queue, current_buf)
         /\ current_buf' = Head(free_queue)

\* Fault: the full buffer is put at the front of fram_queue.
Fault_SwapBuffer_ToFront ==
    IF free_queue = <<>>
    THEN UNCHANGED <<current_buf, queues>>
    ELSE /\ free_queue' = Tail(free_queue)
         /\ fram_queue' = <<current_buf>> \o fram_queue
         /\ current_buf' = Head(free_queue)

\* A sample arrives.  The last one of a buffer swaps it for a free one; when
\* there is none, the buffer is filled again from its start and its samples
\* are lost.  As in the code, the free buffer is taken before the full one is
\* sent, and is not put back when the send fails.
SwapBuffer ==
    IF free_queue = <<>>
    THEN UNCHANGED <<current_buf, queues>>
    ELSE /\ free_queue' = Tail(free_queue)
         /\ IF Len(fram_queue) < BUF_COUNT
            THEN /\ fram_queue' = Append(fram_queue, current_buf)
                 /\ current_buf' = Head(free_queue)
            ELSE UNCHANGED <<fram_queue, current_buf>>

SPI0_Handler ==
    /\ sampling_enable
    /\ captured < MaxSamples
    /\ captured' = captured + 1
    /\ data' = [data EXCEPT ![current_buf][buf_idx] = captured]
    /\ \/ /\ buf_idx + 1 < BUF_SIZE
          /\ buf_idx' = buf_idx + 1
          /\ UNCHANGED <<current_buf, queues>>
       \/ /\ buf_idx + 1 >= BUF_SIZE
          /\ buf_idx' = 0
          /\ SwapBuffer
    /\ UNCHANGED <<sampling_enable, task, recv_buf, psram_mux, memory>>

\* Fault: the buffer is only looked at in fram_queue, not taken.
Fault_ReceiveBlock ==
    /\ task = "receive" /\ fram_queue # <<>>
    /\ recv_buf' = Head(fram_queue)
    /\ task' = "write"
    /\ UNCHANGED <<sampling_enable, filling, queues, psram_mux, memory>>

\* The PSRAM task: take a full buffer,
ReceiveBlock ==
    /\ task = "receive" /\ fram_queue # <<>>
    /\ recv_buf' = Head(fram_queue)
    /\ fram_queue' = Tail(fram_queue)
    /\ task' = "write"
    /\ UNCHANGED <<sampling_enable, filling, free_queue, psram_mux, memory>>

\* write it at psram_addr: the DMA burst reaches the chip when the bus is ours.
\* The task only waits for its end, but the interrupts go on,
Done(entry) ==
    /\ written' = Append(written, entry)
    /\ stored' = data[recv_buf][0] + BUF_SIZE
    /\ task' = "print"
    /\ UNCHANGED <<psram_addr, fresh>>

StartWrite ==
    /\ task = "write"
    /\ IF psram_mux = "MCU" THEN task' = "burst" /\ UNCHANGED memory
                            ELSE Done(Blank) /\ UNCHANGED psram
    /\ UNCHANGED <<sampling_enable, filling, queues, recv_buf, psram_mux>>

\* and a bus switched over before the end of the burst leaves a torn block.
FinishWrite ==
    /\ task = "burst"
    /\ LET block == IF psram_mux = "MCU" THEN data[recv_buf] ELSE Torn
       IN  /\ psram' = [psram EXCEPT ![psram_addr % Capacity] = block]
           /\ Done(block)
    /\ UNCHANGED <<sampling_enable, filling, queues, recv_buf, psram_mux>>

\* Print a sample of the block (the task may wait there) and then advance the
\* address, whatever it is by now,
AdvanceAddress ==
    /\ task = "print"
    /\ psram_addr' = psram_addr + 1
    /\ task' = "return"
    /\ UNCHANGED <<sampling_enable, filling, queues, recv_buf, psram_mux, psram, written, stored, fresh>>


\* give the buffer back; the task waits for ever when free_queue is full.
ReturnBuffer ==
    /\ task = "return" /\ Len(free_queue) < BUF_COUNT
    /\ free_queue' = Append(free_queue, recv_buf)
    /\ task' = "receive"
    /\ UNCHANGED <<sampling_enable, filling, fram_queue, recv_buf, psram_mux, memory>>

APP_PSRAMTask == ReceiveBlock \/ StartWrite \/ FinishWrite \/ AdvanceAddress \/ ReturnBuffer

\* The experiment task starts a run: psram_addr = 0, the bus, the sampling flag.
ResetAddress ==
    /\ PsramBlocked
    /\ psram_addr' = 0 /\ written' = <<>> /\ fresh' = PsramDone
    /\ UNCHANGED <<sampling_enable, filling, queues, task, recv_buf, psram_mux, psram, stored>>

bsp_psram_sw_mcu ==
    /\ PsramBlocked
    /\ psram_mux' = "MCU"
    /\ UNCHANGED <<sampling_enable, filling, queues, task, recv_buf, memory>>

StartSampling ==
    /\ PsramBlocked
    /\ sampling_enable' = TRUE
    /\ UNCHANGED <<filling, queues, task, recv_buf, psram_mux, memory>>

\* The TC3 interrupt ends it: sampling off, and later the bus to the MPU.
StopSampling ==
    /\ sampling_enable' = FALSE
    /\ UNCHANGED <<filling, queues, task, recv_buf, psram_mux, memory>>

bsp_psram_sw_mpu ==
    /\ psram_mux' = "MPU"
    /\ UNCHANGED <<sampling_enable, filling, queues, task, recv_buf, memory>>

Next ==
    \/ SPI0_Handler \/ APP_PSRAMTask
    \/ ResetAddress \/ bsp_psram_sw_mcu \/ StartSampling
    \/ StopSampling \/ bsp_psram_sw_mpu

Spec == experiment_init /\ [][Next]_bufferVars

\* The PSRAM task is always ready before the tasks that could starve it.
FairSpec == Spec /\ WF_bufferVars(APP_PSRAMTask)
--------------------------------------------------------------------------------
\* Every variable has its type.
TypeOK ==
    /\ sampling_enable \in BOOLEAN
    /\ current_buf \in Buffers /\ buf_idx \in 0 .. BUF_SIZE - 1
    /\ data \in [Buffers -> Block]
    /\ free_queue \in Seq(Buffers) /\ fram_queue \in Seq(Buffers)
    /\ task \in {"receive", "write", "burst", "print", "return"}
    /\ recv_buf \in Buffers \cup {NoBuffer}
    /\ task # "receive" => recv_buf \in Buffers
    /\ psram_mux \in {"MCU", "MPU"} /\ psram_addr \in Nat
    /\ psram \in [0 .. Capacity - 1 -> Block \cup {Blank, Torn}]
    /\ captured \in Nat /\ written \in Seq(Block \cup {Blank, Torn}) /\ stored \in Nat
    /\ fresh \in BOOLEAN

\* Every buffer of the pool is in exactly one place: being filled, in one of
\* the queues, or held by the PSRAM task (app_experiment.c:228-242, 272-287).
\* A buffer in two places would be overwritten on its way to the memory; one
\* in none is lost until the next reset.
PoolPartitioned ==
    /\ IsInjective(free_queue) /\ IsInjective(fram_queue)
    /\ Range(free_queue) \cap Range(fram_queue) = {}
    /\ current_buf \notin Range(free_queue) \cup InFlight
    /\ task # "receive" => recv_buf \notin Range(free_queue) \cup Range(fram_queue)
    /\ Buffers = Range(free_queue) \cup InFlight \cup {current_buf}

\* The interrupt never takes a free buffer it cannot use (the send of line 235
\* cannot fail after the receive of 234 succeeded), and the PSRAM task never
\* waits to give one back (line 284).
QueuesHaveRoom ==
    /\ free_queue # <<>> => Len(fram_queue) < BUF_COUNT
    /\ task = "return" => Len(free_queue) < BUF_COUNT

\* No step changes the contents of a buffer that is queued or being written:
\* the interrupt only touches the current one.
InFlightUntouched == [][\A b \in InFlight : data'[b] = data[b]]_bufferVars

\* The buffers whose contents have still to be written.
Writing == task \in {"write", "burst"}
Waiting == Range(fram_queue) \cup IF Writing THEN {recv_buf} ELSE {}

\* A buffer that waits holds BUF_SIZE consecutive samples, later than those
\* stored and earlier than those being collected; buffers wait in the order of
\* capture; and the current buffer holds the samples since its filling began.
\* So nothing of an older filling is left in a full buffer, whatever was
\* dropped before it (app_experiment.c:226-240).
BlockOf(s) == [j \in 0 .. BUF_SIZE - 1 |-> s + j]
Before(b, c) == data[b][0] + BUF_SIZE <= data[c][0]

WaitingWhole ==
    \A b \in Waiting :
        /\ data[b] = BlockOf(data[b][0])
        /\ stored <= data[b][0] /\ data[b][0] + BUF_SIZE <= captured - buf_idx

WaitingInOrder ==
    /\ \A i, j \in DOMAIN fram_queue : i < j => Before(fram_queue[i], fram_queue[j])
    /\ Writing => \A i \in DOMAIN fram_queue : Before(recv_buf, fram_queue[i])

FillsInOrder ==
    /\ stored <= captured - buf_idx
    /\ \A j \in 0 .. buf_idx - 1 : data[current_buf][j] = captured - buf_idx + j

BlocksWhole == WaitingWhole /\ WaitingInOrder /\ FillsInOrder

\* Samples are dropped only when every other buffer of the pool waits for the
\* memory: no buffer is idle while data is lost (app_experiment.c:234-240).
DropOnlyWhenBehind ==
    [][captured' # captured /\ buf_idx' = 0 /\ current_buf' = current_buf
         => InFlight = Buffers \ {current_buf}]_bufferVars

\* The path keeps the promise of SampleLog (app_experiment.c:272-287).
Log == INSTANCE SampleLog WITH
           BlockSize <- BUF_SIZE, Lost <- Blank, log <- written, seen <- stored,
           link <- IF psram_mux = "MCU" THEN "open"
                   ELSE IF task = "burst" THEN "closing" ELSE "closed"
ImplementsSampleLog == Log!Spec

\* The memory holds the log: its last Capacity positions, each at its address
\* modulo the capacity, where an earlier block was overwritten.  (An address
\* reset while the PSRAM task prints is advanced once more, past a position
\* nothing was written to.)
MemoryHoldsLog ==
    fresh =>
        /\ Len(written) = psram_addr + IF task = "print" THEN 1 ELSE 0
        /\ \A i \in DOMAIN written :
               i + Capacity > Len(written) /\ written[i] # Blank
                   => psram[(i - 1) % Capacity] = written[i]

================================================================================
