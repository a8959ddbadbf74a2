---------------------------- MODULE ExperimentProofs ----------------------------
(***************************************************************************)
(* What the acquisition path promises for any pool, buffer size and memory *)
(* (SampleBuffers), and what the control of an experiment promises in      *)
(* addition for any set of laser channels, phase lengths and sampling      *)
(* rates and any length of the command queue: types, the laser, what the   *)
(* hand-over of the memory can lose, and what the memory holds.  The       *)
(* control's steps are steps of the path or leave it alone, so it inherits *)
(* the path's invariant IInv.                                              *)
(***************************************************************************)
EXTENDS Experiment, FiniteSetTheorems, TLAPS

USE SizeAssumption
--------------------------------------------------------------------------------
(* Queues without repetition.                                               *)

LEMMA RangeOfQueue ==
  ASSUME NEW S, NEW q \in Seq(S)
  PROVE  /\ Range(q) = {q[i] : i \in 1 .. Len(q)}
         /\ Range(q) \subseteq S
         /\ q = <<>> <=> Range(q) = {}
<1>1. Len(q) \in Nat /\ DOMAIN q = 1 .. Len(q) /\ \A i \in 1 .. Len(q) : q[i] \in S
  OBVIOUS
<1>2. Range(q) = {q[i] : i \in 1 .. Len(q)}
  BY <1>1 DEF Range
<1>3. q = <<>> => Range(q) = {}
  BY <1>2
<1>4. ASSUME q # <<>> PROVE q[1] \in Range(q)
  <2>1. 1 \in 1 .. Len(q)
    BY <1>4
  <2>. QED BY <1>2, <2>1
<1>. QED BY <1>1, <1>2, <1>3, <1>4

LEMMA Appended ==
  ASSUME NEW S, NEW q \in Seq(S), NEW e \in S
  PROVE  /\ Append(q, e) \in Seq(S)
         /\ Range(Append(q, e)) = Range(q) \cup {e}
         /\ IsInjective(q) /\ e \notin Range(q) => IsInjective(Append(q, e))
<1>1. Append(q, e) \in Seq(S) /\ Len(Append(q, e)) = Len(q) + 1
  OBVIOUS
<1>2. \A i \in 1 .. Len(q) : Append(q, e)[i] = q[i]
  OBVIOUS
<1>3. Append(q, e)[Len(q) + 1] = e
  OBVIOUS
<1>4. DOMAIN q = 1 .. Len(q) /\ DOMAIN Append(q, e) = 1 .. Len(q) + 1
  BY <1>1
<1>5. Range(Append(q, e)) = Range(q) \cup {e}
  <2>1. \A x \in Range(q) : x \in Range(Append(q, e))
    BY <1>2, <1>4 DEF Range
  <2>2. e \in Range(Append(q, e))
    BY <1>3, <1>4 DEF Range
  <2>3. \A x \in Range(Append(q, e)) : x \in Range(q) \cup {e}
    <3>1. TAKE x \in Range(Append(q, e))
    <3>2. PICK i \in 1 .. Len(q) + 1 : x = Append(q, e)[i]
      BY <1>4 DEF Range
    <3>3. CASE i = Len(q) + 1
      BY <3>2, <3>3, <1>3
    <3>4. CASE i \in 1 .. Len(q)
      BY <3>2, <3>4, <1>2, <1>4 DEF Range
    <3>. QED BY <3>2, <3>3, <3>4
  <2>. QED BY <2>1, <2>2, <2>3
<1>6. ASSUME IsInjective(q), e \notin Range(q)
      PROVE  IsInjective(Append(q, e))
  <2>1. \A i \in 1 .. Len(q) : q[i] # e
    BY <1>4, <1>6 DEF Range
  <2>. QED BY <1>2, <1>3, <1>4, <1>6, <2>1 DEF IsInjective
<1>. QED BY <1>1, <1>5, <1>6

LEMMA Taken ==
  ASSUME NEW S, NEW q \in Seq(S), q # <<>>, IsInjective(q)
  PROVE  /\ Tail(q) \in Seq(S) /\ Head(q) \in Range(q) /\ Head(q) \in S
         /\ Range(Tail(q)) = Range(q) \ {Head(q)}
         /\ IsInjective(Tail(q))
<1>1. /\ Len(q) \in Nat \ {0} /\ DOMAIN q = 1 .. Len(q)
      /\ Tail(q) \in Seq(S) /\ Len(Tail(q)) = Len(q) - 1
      /\ Head(q) = q[1]
  OBVIOUS
<1>2. DOMAIN Tail(q) = 1 .. Len(q) - 1
  BY <1>1
<1>3. \A i \in 1 .. Len(q) - 1 : Tail(q)[i] = q[i + 1]
  BY <1>1
<1>4. Head(q) \in Range(q) /\ Head(q) \in S
  BY <1>1 DEF Range
<1>5. Range(Tail(q)) = Range(q) \ {Head(q)}
  <2>1. \A x \in Range(Tail(q)) : x \in Range(q) \ {Head(q)}
    BY <1>1, <1>2, <1>3 DEF Range, IsInjective
  <2>2. \A x \in Range(q) \ {Head(q)} : x \in Range(Tail(q))
    <3>1. TAKE x \in Range(q) \ {Head(q)}
    <3>2. PICK i \in 1 .. Len(q) : x = q[i]
      BY <1>1 DEF Range
    <3>3. i # 1
      BY <1>1, <3>2
    <3>4. i - 1 \in DOMAIN Tail(q) /\ Tail(q)[i - 1] = x
      BY <1>1, <1>2, <1>3, <3>2, <3>3
    <3>. QED BY <3>4 DEF Range
  <2>. QED BY <2>1, <2>2
<1>6. IsInjective(Tail(q))
  BY <1>1, <1>2, <1>3 DEF IsInjective
<1>. QED BY <1>1, <1>4, <1>5, <1>6

\* The pool.
LEMMA Pool ==
  /\ IsFiniteSet(Buffers) /\ Cardinality(Buffers) = BUF_COUNT
  /\ 0 \in Buffers /\ Buffers \ {0} = 1 .. BUF_COUNT - 1
  /\ BUF_COUNT \in Nat \ {0} /\ NoBuffer \notin Buffers
<1>1. IsFiniteSet(Buffers) /\ Cardinality(Buffers) = BUF_COUNT
  BY BuffersAssumption, FS_Interval DEF Buffers
<1>. QED BY <1>1, BuffersAssumption DEF Buffers

\* A queue of distinct buffers that lacks one has room in a queue of BUF_COUNT.
LEMMA Room ==
  ASSUME NEW q \in Seq(Buffers), IsInjective(q), NEW b \in Buffers, b \notin Range(q)
  PROVE  Len(q) < BUF_COUNT
<1>1. Len(q) \in Nat /\ DOMAIN q = 1 .. Len(q)
  OBVIOUS
<1>2. q \in Injection(1 .. Len(q), Buffers \ {b})
  BY <1>1 DEF Injection, Range
<1>3. IsFiniteSet(Buffers \ {b}) /\ Cardinality(Buffers \ {b}) = Cardinality(Buffers) - 1
  BY FS_RemoveElement, Pool
<1>4. Cardinality(1 .. Len(q)) <= Cardinality(Buffers \ {b})
  BY <1>2, <1>3, FS_Injection
<1>5. Cardinality(1 .. Len(q)) = Len(q)
  BY <1>1, FS_Interval
<1>. QED BY <1>1, <1>3, <1>4, <1>5, Pool
--------------------------------------------------------------------------------
(* The inductive invariant.                                                 *)

IInv == TypeOK /\ PoolPartitioned /\ BlocksWhole

LEMMA Initially == experiment_init => IInv
<1>. SUFFICES ASSUME experiment_init PROVE IInv
  OBVIOUS
<1>. USE DEF experiment_init
<1>2. /\ free_queue \in Seq(1 .. BUF_COUNT - 1) /\ DOMAIN free_queue = 1 .. BUF_COUNT - 1
      /\ \A i \in 1 .. BUF_COUNT - 1 : free_queue[i] = i
  BY Pool
<1>3. free_queue \in Seq(Buffers) /\ Range(free_queue) = Buffers \ {current_buf}
  <2>1. current_buf = 0 /\ 1 .. BUF_COUNT - 1 \subseteq Buffers
    BY Pool
  <2>2. free_queue \in Seq(Buffers)
    <3>1. \A i \in 1 .. BUF_COUNT - 1 : i \in Buffers
      BY <2>1
    <3>2. free_queue \in [1 .. BUF_COUNT - 1 -> Buffers] /\ BUF_COUNT - 1 \in Nat
      BY <3>1, Pool
    <3>. QED BY <3>2
  <2>3. Range(free_queue) = 1 .. BUF_COUNT - 1
    BY <1>2 DEF Range
  <2>. QED BY <2>1, <2>2, <2>3, Pool
<1>8. IsInjective(free_queue)
  BY <1>2 DEF IsInjective
<1>4. TypeOK
  <2>1. data \in [Buffers -> Block]
    BY DEF Block
  <2>2. psram \in [0 .. Capacity - 1 -> Block \cup {Blank, Torn}]
    OBVIOUS
  <2>3. fram_queue \in Seq(Buffers) /\ written \in Seq(Block \cup {Blank, Torn})
    OBVIOUS
  <2>4. sampling_enable \in BOOLEAN /\ fresh \in BOOLEAN
    OBVIOUS
  <2>5. buf_idx \in 0 .. BUF_SIZE - 1 /\ psram_addr \in Nat /\ captured \in Nat /\ stored \in Nat
    OBVIOUS
  <2>. QED BY <1>3, <2>1, <2>2, <2>3, <2>4, <2>5, Pool DEF TypeOK
<1>5. Range(fram_queue) = {} /\ IsInjective(fram_queue)
  BY DEF Range, IsInjective
<1>6. PoolPartitioned
  BY <1>3, <1>5, <1>8, Pool DEF PoolPartitioned, InFlight
<1>7. BlocksWhole
  BY <1>5 DEF BlocksWhole, WaitingWhole, WaitingInOrder, FillsInOrder, Waiting, Writing
<1>. QED BY <1>4, <1>6, <1>7 DEF IInv
--------------------------------------------------------------------------------
(* The interrupt.                                                           *)

\* What a sample does to the current buffer, whatever becomes of it then.
LEMMA SampleKept ==
  ASSUME IInv, SPI0_Handler
  PROVE  /\ data' \in [Buffers -> Block] /\ captured' = captured + 1 /\ captured \in Nat
         /\ \A b \in Buffers \ {current_buf} : data'[b] = data[b]
         /\ \A j \in 0 .. buf_idx : data'[current_buf][j] = captured - buf_idx + j
         /\ current_buf \in Buffers /\ buf_idx \in 0 .. BUF_SIZE - 1
         /\ stored <= captured - buf_idx
         /\ UNCHANGED <<sampling_enable, task, recv_buf, psram_mux, psram_addr, psram, written,
                        stored, fresh>>
<1>. USE DEF IInv, TypeOK, SPI0_Handler, memory
<1>1. /\ data \in [Buffers -> Block] /\ current_buf \in Buffers /\ buf_idx \in 0 .. BUF_SIZE - 1
      /\ captured \in Nat /\ captured' = captured + 1
      /\ data' = [data EXCEPT ![current_buf][buf_idx] = captured]
  OBVIOUS
<1>2. data[current_buf] \in [0 .. BUF_SIZE - 1 -> Nat]
  BY <1>1 DEF Block
<1>3. data' = [data EXCEPT ![current_buf] = [data[current_buf] EXCEPT ![buf_idx] = captured]]
  BY <1>1
<1>4. [data[current_buf] EXCEPT ![buf_idx] = captured] \in Block
  BY <1>1, <1>2 DEF Block
<1>5. data' \in [Buffers -> Block]
  BY <1>1, <1>3, <1>4
<1>6. \A b \in Buffers \ {current_buf} : data'[b] = data[b]
  BY <1>1, <1>3
<1>7. data'[current_buf] = [data[current_buf] EXCEPT ![buf_idx] = captured]
  BY <1>1, <1>3
<1>8. \A j \in 0 .. buf_idx - 1 : data[current_buf][j] = captured - buf_idx + j
  BY DEF BlocksWhole, FillsInOrder
<1>9. \A j \in 0 .. buf_idx : data'[current_buf][j] = captured - buf_idx + j
  <2>1. data'[current_buf][buf_idx] = captured
    BY <1>1, <1>2, <1>7
  <2>2. \A j \in 0 .. buf_idx - 1 : data'[current_buf][j] = data[current_buf][j]
    BY <1>1, <1>2, <1>7
  <2>. SUFFICES ASSUME NEW j \in 0 .. buf_idx
                PROVE  data'[current_buf][j] = captured - buf_idx + j
    OBVIOUS
  <2>3. CASE j = buf_idx
    BY <1>1, <2>1, <2>3
  <2>4. CASE j \in 0 .. buf_idx - 1
    BY <1>8, <2>2, <2>4
  <2>. QED BY <1>1, <2>3, <2>4
<1>10. stored <= captured - buf_idx
  BY DEF BlocksWhole, FillsInOrder
<1>. QED BY <1>1, <1>5, <1>6, <1>9, <1>10

LEMMA FirstSample ==
  ASSUME TypeOK, NEW b \in Buffers
  PROVE  data[b] \in Block /\ data[b][0] \in Nat
<1>1. data[b] \in Block
  BY DEF TypeOK
<1>2. 0 \in 0 .. BUF_SIZE - 1
  OBVIOUS
<1>. QED BY <1>1, <1>2 DEF Block

\* A buffer that waits is none the interrupt writes to.
LEMMA WaitingNotCurrent ==
  ASSUME IInv
  PROVE  /\ Waiting \subseteq InFlight /\ InFlight \subseteq Buffers \ {current_buf}
         /\ Range(fram_queue) = {fram_queue[i] : i \in DOMAIN fram_queue}
         /\ Range(fram_queue) \subseteq Buffers
<1>1. Range(fram_queue) \subseteq Buffers
  BY RangeOfQueue DEF IInv, TypeOK
<1>. QED BY <1>1 DEF IInv, PoolPartitioned, TypeOK, Waiting, Writing, InFlight, Range

LEMMA SampleWithin ==
  ASSUME IInv, SPI0_Handler, UNCHANGED <<current_buf, free_queue, fram_queue>>,
         \/ buf_idx + 1 < BUF_SIZE /\ buf_idx' = buf_idx + 1
         \/ buf_idx' = 0
  PROVE  IInv'
<1>a. /\ data' \in [Buffers -> Block] /\ captured' = captured + 1 /\ captured \in Nat
      /\ \A b \in Buffers \ {current_buf} : data'[b] = data[b]
      /\ \A j \in 0 .. buf_idx : data'[current_buf][j] = captured - buf_idx + j
      /\ current_buf \in Buffers /\ buf_idx \in 0 .. BUF_SIZE - 1
      /\ stored <= captured - buf_idx
      /\ UNCHANGED <<sampling_enable, task, recv_buf, psram_mux, psram_addr, psram, written,
                     stored, fresh>>
  BY SampleKept
<1>b. Waiting \subseteq Buffers \ {current_buf}
  BY WaitingNotCurrent
<1>c. buf_idx' \in 0 .. BUF_SIZE - 1 /\ captured' \in Nat
  BY <1>a
<1>1. TypeOK'
  BY <1>a, <1>c DEF IInv, TypeOK
<1>2. InFlight' = InFlight /\ Waiting' = Waiting
  BY <1>a DEF InFlight, Waiting, Writing
<1>3. PoolPartitioned'
  BY <1>2, <1>a DEF IInv, PoolPartitioned
<1>4. \A b \in Waiting : data'[b] = data[b] /\ data[b][0] \in Nat
  BY <1>a, <1>b, FirstSample DEF IInv
<1>5. captured - buf_idx <= captured' - buf_idx' /\ captured - buf_idx \in Int
  BY <1>a
<1>6. WaitingWhole'
  <2>. SUFFICES ASSUME NEW b \in Waiting
                PROVE  /\ data'[b] = BlockOf(data'[b][0])
                       /\ stored' <= data'[b][0]
                       /\ data'[b][0] + BUF_SIZE <= captured' - buf_idx'
    BY <1>2 DEF WaitingWhole, BlockOf
  <2>1. /\ data[b] = BlockOf(data[b][0])
        /\ stored <= data[b][0] /\ data[b][0] + BUF_SIZE <= captured - buf_idx
    BY DEF IInv, BlocksWhole, WaitingWhole
  <2>2. data'[b] = data[b] /\ data[b][0] \in Nat
    BY <1>4
  <2>3. captured' - buf_idx' \in Int
    BY <1>c
  <2>. QED BY <2>1, <2>2, <2>3, <1>5, <1>a
<1>7. WaitingInOrder'
  <2>1. \A i \in DOMAIN fram_queue : fram_queue[i] \in Waiting
    BY DEF Waiting, Range
  <2>2. (Writing => recv_buf \in Waiting) /\ Writing' = Writing
    BY <1>a DEF Waiting, Writing
  <2>. QED BY <1>4, <1>a, <2>1, <2>2 DEF IInv, BlocksWhole, WaitingInOrder, Before
<1>8. FillsInOrder'
  <2>1. CASE buf_idx' = buf_idx + 1
    BY <1>a, <2>1 DEF FillsInOrder
  <2>2. CASE buf_idx' = 0
    <3>1. stored \in Nat
      BY DEF IInv, TypeOK
    <3>2. stored' <= captured' - buf_idx'
      BY <1>a, <2>2, <3>1
    <3>3. \A j \in 0 .. buf_idx' - 1 : FALSE
      BY <2>2
    <3>. QED BY <3>2, <3>3 DEF FillsInOrder
  <2>. QED BY <2>1, <2>2
<1>. QED BY <1>1, <1>3, <1>6, <1>7, <1>8 DEF IInv, BlocksWhole

\* The sample that fills a buffer goes into its last slot.
LEMMA LastSlot ==
  ASSUME NEW i \in 0 .. BUF_SIZE - 1, i + 1 >= BUF_SIZE
  PROVE  i = BUF_SIZE - 1
  OBVIOUS

\* A full buffer that finds a free one is queued, as the last and latest.
LEMMA SampleSwaps ==
  ASSUME IInv, SPI0_Handler, buf_idx + 1 >= BUF_SIZE, buf_idx' = 0, free_queue # <<>>,
         free_queue' = Tail(free_queue), fram_queue' = Append(fram_queue, current_buf),
         current_buf' = Head(free_queue)
  PROVE  IInv'
<1>a. /\ data' \in [Buffers -> Block] /\ captured' = captured + 1 /\ captured \in Nat
      /\ \A b \in Buffers \ {current_buf} : data'[b] = data[b]
      /\ \A j \in 0 .. buf_idx : data'[current_buf][j] = captured - buf_idx + j
      /\ current_buf \in Buffers /\ buf_idx \in 0 .. BUF_SIZE - 1
      /\ stored <= captured - buf_idx
      /\ UNCHANGED <<sampling_enable, task, recv_buf, psram_mux, psram_addr, psram, written,
                     stored, fresh>>
  BY SampleKept
<1>b. Waiting \subseteq Buffers \ {current_buf} /\ Range(fram_queue) \subseteq Buffers
  BY WaitingNotCurrent
<1>c. buf_idx = BUF_SIZE - 1
  BY <1>a, LastSlot
<1>d. /\ free_queue \in Seq(Buffers) /\ fram_queue \in Seq(Buffers) /\ stored \in Nat
      /\ task \in {"receive", "write", "burst", "print", "return"}
      /\ (task # "receive" => recv_buf \in Buffers)
  BY DEF IInv, TypeOK
<1>e. PoolPartitioned
  BY DEF IInv
<1>f. current_buf \notin Range(fram_queue)
  BY <1>e DEF PoolPartitioned, InFlight
<1>1. /\ free_queue' \in Seq(Buffers) /\ current_buf' \in Range(free_queue)
      /\ current_buf' \in Buffers /\ IsInjective(free_queue')
      /\ Range(free_queue') = Range(free_queue) \ {current_buf'}
  BY <1>d, <1>e, Taken DEF PoolPartitioned
<1>2. /\ fram_queue' \in Seq(Buffers) /\ IsInjective(fram_queue')
      /\ Range(fram_queue') = Range(fram_queue) \cup {current_buf}
  BY <1>a, <1>d, <1>e, <1>f, Appended DEF PoolPartitioned
<1>3. TypeOK'
  BY <1>a, <1>1, <1>2 DEF IInv, TypeOK
<1>4. /\ InFlight' = InFlight \cup {current_buf}
      /\ Waiting' = Waiting \cup {current_buf}
  BY <1>a, <1>2 DEF InFlight, Waiting, Writing
<1>5. PoolPartitioned'
  BY <1>a, <1>e, <1>1, <1>2, <1>4 DEF PoolPartitioned, InFlight
\* The block just filled starts at sample s.
<1>. DEFINE s == captured - buf_idx
<1>6. /\ s \in Nat /\ captured' - buf_idx' = s + BUF_SIZE
      /\ data'[current_buf] = BlockOf(s) /\ data'[current_buf][0] = s
  <2>1. s + BUF_SIZE = captured + 1 /\ s \in Int
    BY <1>a, <1>c
  <2>2. s \in Nat
    BY <1>a, <1>d, <2>1
  <2>3. data'[current_buf] \in [0 .. BUF_SIZE - 1 -> Nat]
    BY <1>a DEF Block
  <2>4. \A j \in 0 .. BUF_SIZE - 1 : data'[current_buf][j] = s + j
    BY <1>a, <1>c
  <2>5. data'[current_buf] = BlockOf(s)
    BY <2>3, <2>4 DEF BlockOf
  <2>6. data'[current_buf][0] = s + 0
    BY <2>4
  <2>. QED BY <1>a, <2>1, <2>2, <2>5, <2>6
<1>7. \A b \in Waiting : /\ data'[b] = data[b] /\ data[b][0] \in Nat
                         /\ data[b] = BlockOf(data[b][0])
                         /\ stored <= data[b][0] /\ data[b][0] + BUF_SIZE <= s
  BY <1>a, <1>b, FirstSample DEF IInv, BlocksWhole, WaitingWhole
<1>. HIDE DEF s
<1>8. WaitingWhole'
  <2>. SUFFICES ASSUME NEW b \in Waiting \cup {current_buf}
                PROVE  /\ data'[b] = BlockOf(data'[b][0])
                       /\ stored' <= data'[b][0]
                       /\ data'[b][0] + BUF_SIZE <= captured' - buf_idx'
    BY <1>4 DEF WaitingWhole, BlockOf
  <2>1. CASE b = current_buf
    BY <1>a, <1>6, <2>1 DEF s
  <2>2. CASE b \in Waiting
    BY <1>a, <1>6, <1>7, <2>2
  <2>. QED BY <2>1, <2>2
<1>9. WaitingInOrder'
  <2>1. Len(fram_queue) \in Nat /\ DOMAIN fram_queue = 1 .. Len(fram_queue)
    BY <1>d
  <2>2. DOMAIN fram_queue' = 1 .. Len(fram_queue) + 1
    BY <1>d
  <2>3. \A i \in 1 .. Len(fram_queue) : fram_queue'[i] = fram_queue[i]
                                       /\ fram_queue[i] \in Waiting
    <3>1. \A i \in 1 .. Len(fram_queue) : fram_queue'[i] = fram_queue[i]
      BY <1>a, <1>d, <2>1
    <3>2. \A i \in 1 .. Len(fram_queue) : fram_queue[i] \in Waiting
      BY <2>1 DEF Waiting, Range
    <3>. QED BY <3>1, <3>2
  <2>4. fram_queue'[Len(fram_queue) + 1] = current_buf
    BY <1>d
  <2>5. (Writing => recv_buf \in Waiting) /\ Writing' = Writing
    BY <1>a DEF Waiting, Writing
  <2>6. ASSUME NEW i \in DOMAIN fram_queue', NEW j \in DOMAIN fram_queue', i < j
        PROVE  Before(fram_queue[i], fram_queue[j])'
    <3>0. i \in 1 .. Len(fram_queue)
      BY <2>1, <2>2, <2>6
    <3>1. CASE j \in 1 .. Len(fram_queue)
      BY <1>7, <2>1, <2>3, <2>6, <3>0, <3>1 DEF IInv, BlocksWhole, WaitingInOrder, Before
    <3>2. CASE j = Len(fram_queue) + 1
      BY <1>6, <1>7, <2>3, <2>4, <3>0, <3>2 DEF Before
    <3>. QED BY <2>1, <2>2, <3>1, <3>2
  <2>7. ASSUME Writing, NEW i \in DOMAIN fram_queue'
        PROVE  Before(recv_buf, fram_queue[i])'
    <3>1. CASE i \in 1 .. Len(fram_queue)
      <4>1. Before(recv_buf, fram_queue[i])
        BY <2>1, <2>7, <3>1 DEF IInv, BlocksWhole, WaitingInOrder
      <4>2. recv_buf' = recv_buf /\ data'[recv_buf] = data[recv_buf]
        BY <1>a, <1>7, <2>5, <2>7
      <4>3. fram_queue'[i] = fram_queue[i] /\ data'[fram_queue[i]] = data[fram_queue[i]]
        BY <1>7, <2>3, <3>1
      <4>. QED BY <4>1, <4>2, <4>3 DEF Before
    <3>2. CASE i = Len(fram_queue) + 1
      BY <1>a, <1>6, <1>7, <2>4, <2>5, <2>7, <3>2 DEF Before
    <3>. QED BY <2>1, <2>2, <3>1, <3>2
  <2>. QED BY <1>a, <2>5, <2>6, <2>7 DEF WaitingInOrder
<1>10. FillsInOrder'
  <2>1. stored' <= captured' - buf_idx'
    BY <1>a, <1>d
  <2>2. \A j \in 0 .. buf_idx' - 1 : FALSE
    OBVIOUS
  <2>. QED BY <2>1, <2>2 DEF FillsInOrder
<1>. QED BY <1>3, <1>5, <1>8, <1>9, <1>10 DEF IInv, BlocksWhole

LEMMA SPI0_HandlerKeeps ==
  ASSUME IInv, SPI0_Handler
  PROVE  IInv'
<1>1. CASE buf_idx + 1 < BUF_SIZE /\ buf_idx' = buf_idx + 1 /\ UNCHANGED <<current_buf, queues>>
  BY <1>1, SampleWithin DEF queues
<1>2. CASE buf_idx + 1 >= BUF_SIZE /\ buf_idx' = 0 /\ SwapBuffer
  <2>1. CASE free_queue = <<>>
    BY <1>2, <2>1, SampleWithin DEF SwapBuffer, queues
  <2>2. CASE free_queue # <<>>
    <3>1. current_buf \in Buffers /\ current_buf \notin Range(fram_queue)
          /\ fram_queue \in Seq(Buffers) /\ IsInjective(fram_queue)
      BY DEF IInv, TypeOK, PoolPartitioned, InFlight
    <3>2. Len(fram_queue) < BUF_COUNT
      BY <3>1, Room
    <3>. QED BY <1>2, <2>2, <3>2, SampleSwaps DEF SwapBuffer
  <2>. QED BY <2>1, <2>2
<1>. QED BY <1>1, <1>2 DEF SPI0_Handler
--------------------------------------------------------------------------------
(* The PSRAM task.                                                          *)

LEMMA ReceiveBlockKeeps ==
  ASSUME IInv, ReceiveBlock
  PROVE  IInv'
<1>. USE DEF ReceiveBlock, filling, memory
<1>a. /\ fram_queue \in Seq(Buffers) /\ IsInjective(fram_queue) /\ fram_queue # <<>>
      /\ Len(fram_queue) \in Nat \ {0} /\ DOMAIN fram_queue = 1 .. Len(fram_queue)
      /\ recv_buf' = fram_queue[1]
  BY DEF IInv, TypeOK, PoolPartitioned
<1>b. /\ Tail(fram_queue) \in Seq(Buffers) /\ IsInjective(Tail(fram_queue))
      /\ Head(fram_queue) \in Range(fram_queue) /\ Head(fram_queue) \in Buffers
      /\ Range(Tail(fram_queue)) = Range(fram_queue) \ {Head(fram_queue)}
  BY <1>a, Taken
<1>1. TypeOK'
  BY <1>b DEF IInv, TypeOK
<1>2. InFlight' = InFlight /\ Waiting' = Waiting
  BY <1>b DEF InFlight, Waiting, Writing
<1>3. PoolPartitioned'
  BY <1>b, <1>2 DEF IInv, PoolPartitioned, InFlight
<1>4. WaitingWhole'
  BY <1>2 DEF IInv, BlocksWhole, WaitingWhole, BlockOf
<1>5. WaitingInOrder'
  <2>1. /\ DOMAIN fram_queue' = 1 .. Len(fram_queue) - 1
        /\ \A i \in 1 .. Len(fram_queue) - 1 : fram_queue'[i] = fram_queue[i + 1]
    BY <1>a
  <2>2. \A i, j \in 1 .. Len(fram_queue) : i < j => Before(fram_queue[i], fram_queue[j])
    BY <1>a DEF IInv, BlocksWhole, WaitingInOrder
  <2>3. \A i, j \in DOMAIN fram_queue' : i < j => Before(fram_queue[i + 1], fram_queue[j + 1])
    BY <1>a, <2>1, <2>2
  <2>4. \A i \in DOMAIN fram_queue' : Before(fram_queue[1], fram_queue[i + 1])
    BY <1>a, <2>1, <2>2
  <2>. QED BY <1>a, <2>1, <2>3, <2>4 DEF WaitingInOrder, Before
<1>6. FillsInOrder'
  BY DEF IInv, BlocksWhole, FillsInOrder
<1>. QED BY <1>1, <1>3, <1>4, <1>5, <1>6 DEF IInv, BlocksWhole

\* The end of a write, whatever the memory holds of the block.
LEMMA DoneKeeps ==
  ASSUME IInv, Writing, NEW entry \in Block \cup {Blank, Torn}, Done(entry),
         psram' \in [0 .. Capacity - 1 -> Block \cup {Blank, Torn}],
         UNCHANGED <<sampling_enable, filling, queues, recv_buf, psram_mux>>
  PROVE  IInv'
<1>a. /\ task \in {"write", "burst"} /\ task' = "print" /\ recv_buf \in Buffers
      /\ recv_buf \in Waiting /\ UNCHANGED <<psram_addr, fresh>>
      /\ written' = Append(written, entry) /\ stored' = data[recv_buf][0] + BUF_SIZE
  BY DEF IInv, TypeOK, Waiting, Writing, Done
<1>u. UNCHANGED <<sampling_enable, current_buf, buf_idx, data, captured, free_queue, fram_queue,
                  recv_buf, psram_mux>>
  BY DEF filling, queues
<1>b. data[recv_buf] \in Block /\ data[recv_buf][0] \in Nat
  BY <1>a, FirstSample DEF IInv
<1>c. stored' \in Nat
  BY <1>a, <1>b
<1>1. TypeOK'
  <2>1. written' \in Seq(Block \cup {Blank, Torn})
    BY <1>a DEF IInv, TypeOK
  <2>. QED BY <1>a, <1>u, <1>c, <2>1 DEF IInv, TypeOK
<1>2. InFlight' = InFlight /\ Waiting' = Range(fram_queue) /\ ~Writing'
  BY <1>a, <1>u DEF InFlight, Waiting, Writing
<1>3. PoolPartitioned'
  BY <1>a, <1>u, <1>2 DEF IInv, PoolPartitioned
<1>4. WaitingWhole'
  <2>1. ASSUME NEW b \in Range(fram_queue)
        PROVE  stored' <= data[b][0]
    <3>1. PICK i \in DOMAIN fram_queue : b = fram_queue[i]
      BY <2>1 DEF Range
    <3>2. Before(recv_buf, fram_queue[i])
      BY <3>1 DEF IInv, BlocksWhole, WaitingInOrder
    <3>. QED BY <1>a, <3>1, <3>2 DEF Before
  <2>2. Range(fram_queue) \subseteq Waiting
    BY DEF Waiting
  <2>. QED BY <1>u, <1>2, <2>1, <2>2 DEF IInv, BlocksWhole, WaitingWhole, BlockOf
<1>5. WaitingInOrder'
  BY <1>u, <1>2 DEF IInv, BlocksWhole, WaitingInOrder, Before
<1>6. FillsInOrder'
  BY <1>a, <1>u DEF IInv, BlocksWhole, WaitingWhole, FillsInOrder
<1>. QED BY <1>1, <1>3, <1>4, <1>5, <1>6 DEF IInv, BlocksWhole

\* A step of the task that leaves it with the same buffer to write, or to return.
LEMMA MovesOnKeeps ==
  ASSUME IInv, task \notin {"receive"}, task' \in {"burst", "return"}, Writing' = Writing,
         psram_addr' \in Nat,
         UNCHANGED <<sampling_enable, filling, queues, recv_buf, psram_mux, psram, written, stored,
                     fresh>>
  PROVE  IInv'
<1>1. TypeOK'
  BY DEF IInv, TypeOK, filling, queues
<1>2. InFlight' = InFlight /\ Waiting' = Waiting
  BY DEF InFlight, Waiting, queues
<1>3. PoolPartitioned'
  BY <1>2 DEF IInv, PoolPartitioned, filling, queues
<1>4. WaitingWhole'
  BY <1>2 DEF IInv, BlocksWhole, WaitingWhole, BlockOf, filling
<1>5. WaitingInOrder'
  BY DEF IInv, BlocksWhole, WaitingInOrder, Before, filling, queues
<1>6. FillsInOrder'
  BY DEF IInv, BlocksWhole, FillsInOrder, filling
<1>. QED BY <1>1, <1>3, <1>4, <1>5, <1>6 DEF IInv, BlocksWhole

\* What the end of a write puts in the log and in the memory.
LEMMA WriteSteps ==
  ASSUME TypeOK, StartWrite \/ FinishWrite
  PROVE  \/ /\ task' = "burst" /\ task = "write" /\ psram_mux = "MCU" /\ UNCHANGED memory
         \/ /\ task = "write" /\ psram_mux = "MPU" /\ Done(Blank) /\ UNCHANGED psram
         \/ /\ task = "burst" /\ psram_mux = "MCU" /\ Done(data[recv_buf])
            /\ psram' = [psram EXCEPT ![psram_addr % Capacity] = data[recv_buf]]
         \/ /\ task = "burst" /\ psram_mux = "MPU" /\ Done(Torn)
            /\ psram' = [psram EXCEPT ![psram_addr % Capacity] = Torn]
<1>1. psram_mux = "MCU" \/ psram_mux = "MPU"
  BY DEF TypeOK
<1>. QED BY <1>1 DEF StartWrite, FinishWrite

LEMMA WriteKeeps ==
  ASSUME IInv, StartWrite \/ FinishWrite
  PROVE  IInv'
<1>1. UNCHANGED <<sampling_enable, filling, queues, recv_buf, psram_mux>>
  BY DEF StartWrite, FinishWrite
<1>2. /\ psram \in [0 .. Capacity - 1 -> Block \cup {Blank, Torn}] /\ psram_addr \in Nat
      /\ (task # "receive" => recv_buf \in Buffers)
  BY DEF IInv, TypeOK
<1>3. CASE task' = "burst" /\ task = "write" /\ UNCHANGED memory
  BY <1>1, <1>2, <1>3, MovesOnKeeps DEF Writing, memory
<1>4. CASE task = "write" /\ Done(Blank) /\ UNCHANGED psram
  BY <1>1, <1>2, <1>4, DoneKeeps DEF Writing
<1>5. ASSUME task = "burst", NEW entry \in Block \cup {Torn}, Done(entry),
             psram' = [psram EXCEPT ![psram_addr % Capacity] = entry]
      PROVE  IInv'
  <2>1. psram' \in [0 .. Capacity - 1 -> Block \cup {Blank, Torn}]
    BY <1>2, <1>5
  <2>. QED BY <1>1, <1>5, <2>1, DoneKeeps DEF Writing
<1>6. task = "burst" => data[recv_buf] \in Block
  BY <1>2, FirstSample DEF IInv
<1>. QED BY <1>3, <1>4, <1>5, <1>6, WriteSteps DEF IInv

LEMMA AdvanceAddressKeeps ==
  ASSUME IInv, AdvanceAddress
  PROVE  IInv'
<1>1. psram_addr' \in Nat
  BY DEF AdvanceAddress, IInv, TypeOK
<1>. QED BY <1>1, MovesOnKeeps DEF AdvanceAddress, Writing

LEMMA ReturnBufferKeeps ==
  ASSUME IInv, ReturnBuffer
  PROVE  IInv'
<1>. USE DEF ReturnBuffer, filling, memory
<1>a. /\ task = "return" /\ recv_buf \in Buffers /\ free_queue \in Seq(Buffers)
      /\ IsInjective(free_queue) /\ recv_buf \notin Range(free_queue)
  BY DEF IInv, TypeOK, PoolPartitioned
<1>b. /\ free_queue' \in Seq(Buffers) /\ IsInjective(free_queue')
      /\ Range(free_queue') = Range(free_queue) \cup {recv_buf}
  BY <1>a, Appended
<1>1. TypeOK'
  BY <1>b DEF IInv, TypeOK
<1>2. InFlight = Range(fram_queue) \cup {recv_buf} /\ InFlight' = Range(fram_queue)
  BY <1>a DEF InFlight
<1>3. PoolPartitioned'
  BY <1>a, <1>b, <1>2 DEF IInv, PoolPartitioned
<1>4. Waiting' = Waiting /\ Writing' = Writing
  BY <1>a DEF Waiting, Writing
<1>5. BlocksWhole'
  BY <1>a, <1>4 DEF IInv, BlocksWhole, WaitingWhole, WaitingInOrder, FillsInOrder, Before, BlockOf
<1>. QED BY <1>1, <1>3, <1>5 DEF IInv
--------------------------------------------------------------------------------
(* The steps of the experiment task and of the tick interrupt.              *)

LEMMA OthersKeep ==
  ASSUME IInv,
         ResetAddress \/ bsp_psram_sw_mcu \/ StartSampling \/ StopSampling \/ bsp_psram_sw_mpu
  PROVE  IInv'
<1>1. UNCHANGED <<filling, queues, task, recv_buf, stored>>
  BY DEF ResetAddress, bsp_psram_sw_mcu, StartSampling, StopSampling, bsp_psram_sw_mpu, memory
<1>2. TypeOK'
  <2>1. sampling_enable' \in BOOLEAN
    BY DEF IInv, TypeOK, ResetAddress, bsp_psram_sw_mcu, StartSampling, StopSampling,
           bsp_psram_sw_mpu
  <2>2. /\ psram_mux' \in {"MCU", "MPU"} /\ psram_addr' \in Nat
        /\ psram' = psram /\ (written' = written \/ written' = <<>>)
        /\ (fresh' = fresh \/ fresh' = PsramDone)
    BY DEF IInv, TypeOK, ResetAddress, bsp_psram_sw_mcu, StartSampling, StopSampling,
           bsp_psram_sw_mpu, memory
  <2>3. written' \in Seq(Block \cup {Blank, Torn})
    <3>1. written \in Seq(Block \cup {Blank, Torn}) /\ <<>> \in Seq(Block \cup {Blank, Torn})
      BY DEF IInv, TypeOK
    <3>. QED BY <2>2, <3>1
  <2>4. fresh' \in BOOLEAN
    BY <2>2 DEF IInv, TypeOK, PsramDone
  <2>. QED BY <1>1, <2>1, <2>2, <2>3, <2>4 DEF IInv, TypeOK, filling, queues
<1>3. PoolPartitioned'
  BY <1>1 DEF IInv, PoolPartitioned, InFlight, filling, queues
<1>4. BlocksWhole'
  <2>1. Waiting' = Waiting /\ Writing' = Writing  BY <1>1 DEF Waiting, Writing, queues
  <2>2. WaitingWhole'  BY <1>1, <2>1 DEF IInv, BlocksWhole, WaitingWhole, filling
  <2>3. WaitingInOrder'
    BY <1>1, <2>1 DEF IInv, BlocksWhole, WaitingInOrder, Before, BlockOf, filling, queues
  <2>4. FillsInOrder'  BY <1>1 DEF IInv, BlocksWhole, FillsInOrder, filling
  <2>. QED BY <2>2, <2>3, <2>4 DEF BlocksWhole
<1>. QED BY <1>2, <1>3, <1>4 DEF IInv

LEMMA StutterKeeps ==
  ASSUME IInv, UNCHANGED bufferVars
  PROVE  IInv'
<1>1. TypeOK'
  BY DEF IInv, TypeOK, bufferVars, filling, queues, memory
<1>2. PoolPartitioned'
  BY DEF IInv, PoolPartitioned, InFlight, bufferVars, filling, queues
<1>3. BlocksWhole'
  BY DEF IInv, BlocksWhole, WaitingWhole, WaitingInOrder, FillsInOrder, Waiting, Writing,
         Before, BlockOf, bufferVars, filling, queues, memory
<1>. QED BY <1>1, <1>2, <1>3 DEF IInv

LEMMA NextKeeps ==
  ASSUME IInv, [Next]_bufferVars
  PROVE  IInv'
<1>1. CASE SPI0_Handler
  BY <1>1, SPI0_HandlerKeeps
<1>2. CASE APP_PSRAMTask
  BY <1>2, ReceiveBlockKeeps, WriteKeeps, AdvanceAddressKeeps, ReturnBufferKeeps DEF APP_PSRAMTask
<1>3. CASE ResetAddress \/ bsp_psram_sw_mcu \/ StartSampling \/ StopSampling \/ bsp_psram_sw_mpu
  BY <1>3, OthersKeep
<1>4. CASE UNCHANGED bufferVars
  BY <1>4, StutterKeeps
<1>. QED BY <1>1, <1>2, <1>3, <1>4 DEF Next

\* The inductive invariant holds in every reachable state.
THEOREM Invariance == Spec => []IInv
<1>. QED BY Initially, NextKeeps, PTL DEF Spec

\* Every variable keeps its type.
THEOREM TypeCorrect == Spec => []TypeOK
<1>1. IInv => TypeOK
  BY DEF IInv
<1>. QED BY <1>1, Invariance, PTL

\* Every buffer of the pool is always in exactly one place.
THEOREM PoolPartitionedHolds == Spec => []PoolPartitioned
<1>1. IInv => PoolPartitioned
  BY DEF IInv
<1>. QED BY <1>1, Invariance, PTL

\* Every waiting buffer is one whole block of consecutive samples, in order.
THEOREM BlocksWholeHolds == Spec => []BlocksWhole
<1>1. IInv => BlocksWhole
  BY DEF IInv
<1>. QED BY <1>1, Invariance, PTL

\* No send to a queue of the pool ever fails or blocks.
THEOREM QueuesHaveRoomHolds == Spec => []QueuesHaveRoom
<1>1. ASSUME IInv PROVE QueuesHaveRoom
  <2>1. Len(fram_queue) < BUF_COUNT
    <3>1. current_buf \in Buffers /\ current_buf \notin Range(fram_queue)
          /\ fram_queue \in Seq(Buffers) /\ IsInjective(fram_queue)
      BY <1>1 DEF IInv, TypeOK, PoolPartitioned, InFlight
    <3>. QED BY <3>1, Room
  <2>2. Len(free_queue) < BUF_COUNT
    <3>1. current_buf \in Buffers /\ current_buf \notin Range(free_queue)
          /\ free_queue \in Seq(Buffers) /\ IsInjective(free_queue)
      BY <1>1 DEF IInv, TypeOK, PoolPartitioned
    <3>. QED BY <3>1, Room
  <2>. QED BY <2>1, <2>2 DEF QueuesHaveRoom
<1>. QED BY <1>1, Invariance, PTL

\* No step changes a buffer on its way to the memory.
THEOREM InFlightUntouchedHolds == Spec => InFlightUntouched
<1>1. ASSUME IInv, Next
      PROVE  \A b \in InFlight : data'[b] = data[b]
  <2>1. CASE SPI0_Handler
    BY <1>1, <2>1, SampleKept, WaitingNotCurrent
  <2>2. CASE ~SPI0_Handler
    BY <1>1, <2>2 DEF Next, APP_PSRAMTask, ReceiveBlock, StartWrite, FinishWrite,
       AdvanceAddress, ReturnBuffer, ResetAddress,
       bsp_psram_sw_mcu, StartSampling, StopSampling, bsp_psram_sw_mpu, filling
  <2>. QED BY <2>1, <2>2
<1>. QED BY <1>1, Invariance, PTL DEF Spec, InFlightUntouched

\* Samples are dropped only while every other buffer is on its way.
THEOREM DropOnlyWhenBehindHolds == Spec => DropOnlyWhenBehind
<1>1. ASSUME IInv, Next, captured' # captured, buf_idx' = 0, current_buf' = current_buf
      PROVE  InFlight = Buffers \ {current_buf}
  <2>1. SPI0_Handler
    BY <1>1 DEF Next, APP_PSRAMTask, ReceiveBlock, StartWrite, FinishWrite,
       AdvanceAddress, ReturnBuffer, ResetAddress,
       bsp_psram_sw_mcu, StartSampling, StopSampling, bsp_psram_sw_mpu, filling
  <2>2. buf_idx \in Nat /\ free_queue \in Seq(Buffers) /\ fram_queue \in Seq(Buffers)
    BY <1>1 DEF IInv, TypeOK
  <2>3. SwapBuffer
    BY <1>1, <2>1, <2>2 DEF SPI0_Handler
  <2>4. free_queue = <<>>
    <3>. SUFFICES ASSUME free_queue # <<>> PROVE FALSE
      OBVIOUS
    <3>1. current_buf \in Buffers /\ current_buf \notin Range(fram_queue)
          /\ current_buf \notin Range(free_queue)
          /\ IsInjective(fram_queue) /\ IsInjective(free_queue)
      BY <1>1 DEF IInv, TypeOK, PoolPartitioned, InFlight
    <3>2. Len(fram_queue) < BUF_COUNT
      BY <2>2, <3>1, Room
    <3>3. current_buf' = Head(free_queue)
      BY <2>3, <3>2 DEF SwapBuffer
    <3>4. Head(free_queue) \in Range(free_queue)
      BY <2>2, <3>1, Taken
    <3>. QED BY <1>1, <3>1, <3>3, <3>4
  <2>5. Range(free_queue) = {}
    BY <2>4 DEF Range
  <2>. QED BY <1>1, <2>5 DEF IInv, PoolPartitioned
<1>. QED BY <1>1, Invariance, PTL DEF Spec, DropOnlyWhenBehind

\* The acquisition path implements the log of blocks: whole ones while the bus
\* is the MCU's, at most one torn by each hand-over, none stored after it.
THEOREM Implements == Spec => ImplementsSampleLog
<1>. DEFINE link == IF psram_mux = "MCU" THEN "open"
                    ELSE IF task = "burst" THEN "closing" ELSE "closed"
<1>1. experiment_init => Log!Init
  BY DEF experiment_init, Log!Init
<1>2. ASSUME IInv, [Next]_bufferVars
      PROVE  [Log!Next]_Log!vars
  <2>. TypeOK
    BY <1>2 DEF IInv
  <2>1. psram_mux \in {"MCU", "MPU"}
    BY DEF TypeOK
  <2>2. ASSUME Writing
        PROVE  /\ data[recv_buf][0] \in Nat /\ stored \in Nat /\ stored <= data[recv_buf][0]
               /\ data[recv_buf] = Log!Block(data[recv_buf][0])
    <3>1. recv_buf \in Buffers /\ recv_buf \in Waiting
      BY <2>2 DEF TypeOK, Writing, Waiting
    <3>2. data[recv_buf][0] \in Nat
      BY <3>1, FirstSample
    <3>. QED BY <1>2, <3>1, <3>2 DEF IInv, BlocksWhole, WaitingWhole, BlockOf, Log!Block, TypeOK
  <2>3. ASSUME Writing, NEW entry, Done(entry)
        PROVE  Log!Fill(entry) /\ stored' - BUF_SIZE = data[recv_buf][0]
    <3>1. /\ written' = Append(written, entry)
          /\ stored' = data[recv_buf][0] + BUF_SIZE
      BY <2>3 DEF Done
    <3>2. data[recv_buf][0] \in Nat /\ stored \in Nat /\ stored <= data[recv_buf][0]
      BY <2>2, <2>3
    <3>3. stored' - BUF_SIZE = data[recv_buf][0]
      BY <3>1, <3>2
    <3>. QED BY <3>1, <3>2, <3>3 DEF Log!Fill
  <2>4. CASE StartWrite \/ FinishWrite
    <3>1. psram_mux' = psram_mux
      BY <2>4 DEF StartWrite, FinishWrite
    <3>2. CASE task' = "burst" /\ task = "write" /\ psram_mux = "MCU" /\ UNCHANGED memory
      BY <3>1, <3>2 DEF Log!vars, memory
    <3>3. CASE task = "write" /\ psram_mux = "MPU" /\ Done(Blank)
      <4>1. Writing /\ link = "closed" /\ link' = "closed"
        BY <3>1, <3>3 DEF Writing, Done
      <4>2. Log!Fill(Blank)
        BY <2>3, <3>3, <4>1
      <4>. QED BY <4>1, <4>2 DEF Log!Next, Log!Pass
    <3>4. CASE task = "burst" /\ psram_mux = "MCU" /\ Done(data[recv_buf])
      <4>1. Writing /\ link = "open" /\ link' = "open"
        BY <3>1, <3>4 DEF Writing
      <4>2. Log!Fill(data[recv_buf]) /\ data[recv_buf] = Log!Block(stored' - BUF_SIZE)
        BY <2>2, <2>3, <3>4, <4>1
      <4>. QED BY <4>1, <4>2 DEF Log!Next, Log!Store
    <3>5. CASE task = "burst" /\ psram_mux = "MPU" /\ Done(Torn)
      <4>1. Writing /\ link = "closing" /\ link' = "closed"
        BY <3>1, <3>5 DEF Writing, Done
      <4>2. Log!Fill(Torn)
        BY <2>3, <3>5, <4>1
      <4>. QED BY <4>1, <4>2 DEF Log!Next, Log!Tear
    <3>. QED BY <2>4, <3>2, <3>3, <3>4, <3>5, WriteSteps
  <2>5. CASE ResetAddress
    <3>1. task # "burst" /\ UNCHANGED <<task, psram_mux, stored>> /\ written' = <<>>
      BY <2>5 DEF ResetAddress, PsramBlocked, PsramDone
    <3>. QED BY <3>1 DEF Log!Next, Log!Restart
  <2>6. CASE bsp_psram_sw_mcu
    <3>1. task # "burst" /\ UNCHANGED <<task, written, stored>> /\ psram_mux' = "MCU"
      BY <2>6 DEF bsp_psram_sw_mcu, PsramBlocked, PsramDone, memory
    <3>. QED BY <2>1, <3>1 DEF Log!Next, Log!Open, Log!vars
  <2>7. CASE bsp_psram_sw_mpu
    <3>1. UNCHANGED <<task, written, stored>> /\ psram_mux' = "MPU"
      BY <2>7 DEF bsp_psram_sw_mpu, memory
    <3>. QED BY <2>1, <3>1 DEF Log!Next, Log!Close, Log!vars
  <2>8. CASE /\ UNCHANGED <<written, stored, psram_mux>>
             /\ task' = "burst" <=> task = "burst"
    BY <2>8 DEF Log!vars
  <2>9. CASE SPI0_Handler \/ StartSampling \/ StopSampling \/ UNCHANGED bufferVars
    BY <2>8, <2>9 DEF SPI0_Handler, StartSampling, StopSampling, bufferVars, memory
  <2>10. CASE ReceiveBlock \/ AdvanceAddress \/ ReturnBuffer
    BY <2>8, <2>10 DEF ReceiveBlock, AdvanceAddress, ReturnBuffer, memory
  <2>. QED BY <1>2, <2>4, <2>5, <2>6, <2>7, <2>9, <2>10 DEF Next, APP_PSRAMTask
<1>. QED BY <1>1, <1>2, Invariance, PTL DEF Spec, ImplementsSampleLog, Log!Spec

----------------------------------------------------------------------------
(* The contents of the memory *)

\* Two addresses less than the capacity apart are different places of the chip.
LEMMA PlacesDiffer ==
  ASSUME NEW a \in Nat, NEW b \in Nat, a < b, b < a + Capacity
  PROVE  a % Capacity # b % Capacity
<1>a. \A c \in Nat : /\ c = Capacity * (c \div Capacity) + (c % Capacity)
                       /\ c \div Capacity \in Int /\ c % Capacity \in Int
  BY SMT
<1>1. /\ a = Capacity * (a \div Capacity) + (a % Capacity)
      /\ b = Capacity * (b \div Capacity) + (b % Capacity)
      /\ a \div Capacity \in Int /\ b \div Capacity \in Int
      /\ a % Capacity \in Int /\ b % Capacity \in Int
  BY <1>a
<1>b. a \div Capacity \in Int /\ b \div Capacity \in Int
  BY <1>a
<1>2. PICK n \in Int : n = (b \div Capacity) - (a \div Capacity)
  BY <1>b
<1>. SUFFICES ASSUME a % Capacity = b % Capacity PROVE FALSE
  OBVIOUS
<1>3. b - a = Capacity * n
  BY <1>1, <1>2
<1>4. CASE n <= 0
  BY <1>3, <1>4
<1>5. CASE n >= 1
  BY <1>3, <1>5
<1>. QED BY <1>2, <1>4, <1>5

\* A block written: the next position of the log, at its place.
LEMMA LogGrows ==
  ASSUME TypeOK, MemoryHoldsLog, Writing, NEW entry, Done(entry),
         \/ entry = Blank /\ UNCHANGED psram
         \/ psram' = [psram EXCEPT ![psram_addr % Capacity] = entry]
  PROVE  MemoryHoldsLog'
<1>. SUFFICES ASSUME fresh PROVE MemoryHoldsLog'
  BY DEF Done, MemoryHoldsLog
<1>1. /\ written' = Append(written, entry) /\ task # "print" /\ task' = "print"
      /\ psram_addr' = psram_addr /\ psram_addr \in Nat
      /\ Len(written) \in Nat
  BY DEF Done, Writing, TypeOK
<1>2. Len(written) = psram_addr
  BY <1>1 DEF MemoryHoldsLog
<1>5. psram_addr \in Nat
  BY <1>1
<1>3. /\ Len(written') = psram_addr + 1 /\ DOMAIN written' = 1 .. psram_addr + 1
      /\ written'[psram_addr + 1] = entry
      /\ \A i \in 1 .. psram_addr : written'[i] = written[i]
      /\ DOMAIN written = 1 .. psram_addr
  BY <1>1, <1>2 DEF TypeOK
<1>4. ASSUME NEW i \in 1 .. psram_addr + 1, i + Capacity > psram_addr + 1, written'[i] # Blank
      PROVE  psram'[(i - 1) % Capacity] = written'[i]
  <2>1. (i - 1) % Capacity \in 0 .. Capacity - 1 /\ psram_addr % Capacity \in 0 .. Capacity - 1
    BY <1>1
  <2>2. DOMAIN psram = 0 .. Capacity - 1
    BY DEF TypeOK
  <2>3. CASE i = psram_addr + 1
    BY <1>1, <1>3, <1>4, <2>1, <2>2, <2>3
  <2>4. CASE i \in 1 .. psram_addr
    <3>1. psram[(i - 1) % Capacity] = written[i]
      BY <1>1, <1>2, <1>3, <1>4, <2>4 DEF MemoryHoldsLog
    <3>2. (i - 1) % Capacity # psram_addr % Capacity
      <4>1. i - 1 \in Nat /\ i - 1 < psram_addr /\ psram_addr < (i - 1) + Capacity
        BY <1>5, <1>4, <2>4
      <4>. QED BY <1>5, <4>1, PlacesDiffer
    <3>3. psram'[(i - 1) % Capacity] = psram[(i - 1) % Capacity]
      BY <2>1, <2>2, <3>2
    <3>. QED BY <1>3, <2>4, <3>1, <3>3
  <2>. QED BY <1>5, <2>3, <2>4
<1>. QED BY <1>1, <1>3, <1>4 DEF MemoryHoldsLog

LEMMA LogKept ==
  ASSUME IInv, MemoryHoldsLog, [Next]_bufferVars
  PROVE  MemoryHoldsLog'
<1>1. CASE StartWrite \/ FinishWrite
  <2>1. CASE task' = "burst" /\ task = "write" /\ UNCHANGED memory
    BY <2>1 DEF MemoryHoldsLog, memory
  <2>. QED BY <1>1, <2>1, WriteSteps, LogGrows DEF IInv, Writing
<1>2. CASE AdvanceAddress
  <2>1. /\ task = "print" /\ task' # "print" /\ psram_addr' = psram_addr + 1
        /\ UNCHANGED <<psram, written, fresh>> /\ psram_addr \in Nat
    BY <1>2 DEF AdvanceAddress, IInv, TypeOK
  <2>. QED BY <2>1 DEF MemoryHoldsLog
<1>3. CASE ResetAddress
  <2>1. /\ psram_addr' = 0 /\ written' = <<>> /\ (fresh' => task' # "print")
    BY <1>3 DEF ResetAddress, PsramDone
  <2>. QED BY <2>1 DEF MemoryHoldsLog
<1>4. CASE /\ UNCHANGED <<psram_addr, psram, written, fresh>>
           /\ task' = "print" <=> task = "print"
  BY <1>4 DEF MemoryHoldsLog
<1>5. CASE SPI0_Handler \/ ReceiveBlock \/ ReturnBuffer
  BY <1>4, <1>5 DEF SPI0_Handler, ReceiveBlock, ReturnBuffer, memory
<1>6. CASE \/ StartSampling \/ StopSampling \/ bsp_psram_sw_mcu \/ bsp_psram_sw_mpu
           \/ UNCHANGED bufferVars
  BY <1>4, <1>6 DEF StartSampling, StopSampling, bsp_psram_sw_mcu, bsp_psram_sw_mpu, bufferVars,
     memory
<1>. QED BY <1>1, <1>2, <1>3, <1>5, <1>6 DEF Next, APP_PSRAMTask

----------------------------------------------------------------------------
(* The control does to the path what SampleBuffers allows *)

LEMMA StepsOfBuffers ==
  ASSUME [ExperimentNext]_allVars
  PROVE  [Next]_bufferVars
<1>1. CASE CommandLine
  BY <1>1 DEF CommandLine, CMD_Exp_Start, CMD_Exp_Start_Laser, CMD_Exp_End, SetProfile
<1>2. CASE App_EXPTask
  BY <1>2 DEF App_EXPTask, TakeRun, TakeEnd, SetupBus, SetupRun, SetupLasers, StartRun,
              StartTimer, Next
<1>3. CASE TC3_CH1_My_Handler
  BY <1>3 DEF TC3_CH1_My_Handler, TickPre, TickMain, TickPost, TickDone, Next
<1>4. CASE Acquire
  BY <1>4 DEF Acquire, Next
<1>5. CASE UNCHANGED allVars
  BY <1>5 DEF allVars
<1>. QED  BY <1>1, <1>2, <1>3, <1>4, <1>5 DEF ExperimentNext

\* What is proved of the path holds in every experiment.
LEMMA Composition == ExperimentSpec => Spec
<1>1. Init => experiment_init  BY DEF Init
<1>2. [ExperimentNext]_allVars => [Next]_bufferVars  BY StepsOfBuffers
<1>. QED  BY <1>1, <1>2, PTL DEF ExperimentSpec, Spec

----------------------------------------------------------------------------
(* Types *)

Runs == [channel : Channels \cup BadChannels \cup {0},
         sub_state : {"PRE", "MAIN", "POST", "DONE"}, counter : Nat,
         pre : Nat, main : Nat, post : Nat, rate : Nat]

LEMMA RunCounts ==
  ASSUME NEW r \in Runs
  PROVE  /\ [r EXCEPT !.counter = @ + 1] \in Runs
         /\ [r EXCEPT !.counter = @ + 1].sub_state = r.sub_state
         /\ [r EXCEPT !.counter = @ + 1].channel = r.channel
<1>1. [r EXCEPT !.counter = @ + 1] \in Runs  BY DEF Runs
<1>2. [r EXCEPT !.counter = @ + 1].sub_state = r.sub_state  BY Zenon DEF Runs
<1>3. [r EXCEPT !.counter = @ + 1].channel = r.channel  BY Zenon DEF Runs
<1>. QED  BY ONLY <1>1, <1>2, <1>3, Zenon

LEMMA RunEnters ==
  ASSUME NEW r \in Runs, NEW s \in {"PRE", "MAIN", "POST", "DONE"}
  PROVE  /\ [r EXCEPT !.counter = 0, !.sub_state = s] \in Runs
         /\ [r EXCEPT !.counter = 0, !.sub_state = s].sub_state = s
         /\ [r EXCEPT !.counter = 0, !.sub_state = s].channel = r.channel
<1>1. [r EXCEPT !.counter = 0, !.sub_state = s] \in Runs  BY DEF Runs
<1>2. [r EXCEPT !.counter = 0, !.sub_state = s].sub_state = s  BY Zenon DEF Runs
<1>3. [r EXCEPT !.counter = 0, !.sub_state = s].channel = r.channel  BY Zenon DEF Runs
<1>. QED  BY ONLY <1>1, <1>2, <1>3, Zenon

LEMMA Numbers == UINT16_MAX \in Nat /\ TimerClock \in Nat
  BY SMT DEF UINT16_MAX, TimerClock

LEMMA RatePositive == \A rate \in Rates : rate \in Nat /\ rate # 0
  BY ControlAssumption, Numbers

LEMMA PeriodFits ==
  ASSUME NEW rate \in Rates, NEW p \in Periods(rate)
  PROVE  p \in 0 .. UINT16_MAX
<1>1. UINT16_MAX \in Nat /\ TimerClock \in Nat  BY Numbers
<1>2. rate \in Nat \ {0}  BY RatePositive
<1>3. TimerClock \div rate \in Nat  BY <1>1, <1>2
<1>4. PICK q \in Nat : q = (TimerClock \div rate) \div 1000  BY <1>3, SMT
<1>5. p \in IF q <= UINT16_MAX THEN {q} ELSE {q % (UINT16_MAX + 1), UINT16_MAX}
  BY <1>4 DEF Periods
<1>6. q % (UINT16_MAX + 1) \in 0 .. UINT16_MAX  BY <1>1, <1>4
<1>. QED  BY <1>1, <1>4, <1>5, <1>6

ControlOK ==
    /\ experiment_command_queue \in Seq({"RUN", "END"})
    /\ Len(experiment_command_queue) <= CommandDepth /\ commands \in Nat
    /\ s_exp_profile \in AnyProfile
    /\ exp_pc \in {"receive", "mux", "fields", "all_off", "sampling", "timer"}
    /\ exp_rt \in Runs
    /\ period \in 0 .. UINT16_MAX
    /\ laser \in Channels \cup {Off}
    /\ timer_on \in BOOLEAN /\ run_start \in Nat /\ clean \in BOOLEAN /\ handed \in Nat

LEMMA CommandSent ==
  ASSUME ControlOK, NEW c \in {"RUN", "END"}, Send(c)
  PROVE  /\ experiment_command_queue' \in Seq({"RUN", "END"})
         /\ Len(experiment_command_queue') <= CommandDepth
         /\ commands' \in Nat
  BY ControlAssumption DEF ControlOK, Send, commandVars

LEMMA CommandTaken ==
  ASSUME ControlOK, experiment_command_queue # <<>>,
         experiment_command_queue' = Tail(experiment_command_queue)
  PROVE  /\ experiment_command_queue' \in Seq({"RUN", "END"})
         /\ Len(experiment_command_queue') <= CommandDepth
  BY ControlAssumption DEF ControlOK

\* What a tick does to the run and its laser.
LEMMA TickRun ==
  ASSUME ControlOK, TC3_CH1_My_Handler
  PROVE  /\ timer_on
         /\ exp_rt' \in Runs /\ exp_rt'.channel = exp_rt.channel
         /\ \/ exp_rt'.sub_state = exp_rt.sub_state /\ laser' = laser
            \/ /\ exp_rt.sub_state = "PRE" /\ exp_rt'.sub_state = "MAIN"
               /\ laser' = IF exp_rt.channel \in Channels THEN exp_rt.channel ELSE laser
            \/ exp_rt.sub_state = "MAIN" /\ exp_rt'.sub_state = "POST" /\ laser' = Off
            \/ exp_rt.sub_state = "POST" /\ exp_rt'.sub_state = "DONE" /\ laser' = laser
         /\ \/ timer_on' = timer_on /\ handed' = handed
            \/ exp_rt.sub_state = "DONE" /\ timer_on' = FALSE /\ handed' = Len(written)
         /\ clean' = clean
<1>1. exp_rt \in Runs  BY DEF ControlOK
<1>2. CASE TickPre
  <2>1. CASE Count /\ UNCHANGED laser
    BY <1>1, <1>2, <2>1, RunCounts DEF Count, TickPre, TC3_CH1_My_Handler, ControlOK
  <2>2. CASE bsp_laser_int_sw_on(exp_rt.channel) /\ Enter("MAIN")
    BY <1>1, <1>2, <2>2, RunEnters DEF Enter, bsp_laser_int_sw_on, TickPre,
       TC3_CH1_My_Handler, ControlOK
  <2>. QED  BY <1>2, <2>1, <2>2 DEF TickPre
<1>3. CASE TickMain
  <2>1. CASE Count /\ UNCHANGED laser
    BY <1>1, <1>3, <2>1, RunCounts DEF Count, TickMain, TC3_CH1_My_Handler, ControlOK
  <2>2. CASE laser' = Off /\ Enter("POST")
    BY <1>1, <1>3, <2>2, RunEnters DEF Enter, TickMain, TC3_CH1_My_Handler, ControlOK
  <2>. QED  BY <1>3, <2>1, <2>2 DEF TickMain
<1>4. CASE TickPost
  <2>1. CASE Count
    BY <1>1, <1>4, <2>1, RunCounts DEF Count, TickPost, TC3_CH1_My_Handler, ControlOK
  <2>2. CASE Enter("DONE")
    BY <1>1, <1>4, <2>2, RunEnters DEF Enter, TickPost, TC3_CH1_My_Handler, ControlOK
  <2>. QED  BY <1>4, <2>1, <2>2 DEF TickPost
<1>5. CASE TickDone
  BY <1>1, <1>5, RunCounts DEF Count, TickDone, TC3_CH1_My_Handler, ControlOK
<1>. QED  BY <1>2, <1>3, <1>4, <1>5 DEF TC3_CH1_My_Handler

LEMMA ControlTypes ==
  ASSUME TypeOK, ControlOK, [ExperimentNext]_allVars
  PROVE  ControlOK'
<1>1. ASSUME CommandLine PROVE ControlOK'
  <2>1. /\ UNCHANGED <<exp_pc, exp_rt, period, laser, timer_on, run_start, clean, handed>>
        /\ s_exp_profile' = s_exp_profile \/ s_exp_profile' \in AnyProfile
        /\ \/ UNCHANGED <<experiment_command_queue, commands>>
           \/ \E c \in {"RUN", "END"} : Send(c)
    BY <1>1 DEF CommandLine, CMD_Exp_Start, CMD_Exp_Start_Laser, CMD_Exp_End, SetProfile,
                AnyProfile, Profiles, commandVars
  <2>. QED  BY <2>1, CommandSent DEF ControlOK
<1>2. ASSUME TakeRun \/ TakeEnd PROVE ControlOK'
  <2>1. /\ experiment_command_queue # <<>>
        /\ experiment_command_queue' = Tail(experiment_command_queue)
        /\ UNCHANGED <<commands, s_exp_profile, exp_rt, period, laser, timer_on, run_start, handed>>
        /\ exp_pc' \in {exp_pc, "mux"} /\ clean' \in {clean, Quiet}
    BY <1>2 DEF TakeRun, TakeEnd
  <2>2. Quiet \in BOOLEAN  BY DEF Quiet
  <2>. QED  BY <2>1, <2>2, CommandTaken DEF ControlOK
<1>3. ASSUME SetupRun PROVE ControlOK'
  <2>1. s_exp_profile \in AnyProfile  BY DEF ControlOK
  <2>2. /\ s_exp_profile.channel \in Channels \cup BadChannels
        /\ s_exp_profile.pre \in Nat /\ s_exp_profile.main \in Nat /\ s_exp_profile.post \in Nat
        /\ s_exp_profile.rate \in Rates
    BY <2>1, ControlAssumption DEF AnyProfile, Profiles
  <2>5. s_exp_profile.rate \in Nat  BY <2>2, RatePositive, Zenon
  <2>3. exp_rt' \in Runs  BY <1>3, <2>2, <2>5 DEF SetupRun, Runs
  <2>4. period' \in 0 .. UINT16_MAX  BY <1>3, <2>2, PeriodFits DEF SetupRun
  <2>. QED  BY <1>3, <2>3, <2>4 DEF SetupRun, ControlOK, commandVars
<1>4. ASSUME SetupBus \/ SetupLasers \/ StartRun \/ StartTimer PROVE ControlOK'
  BY <1>4 DEF SetupBus, SetupLasers, StartRun, StartTimer, ControlOK, TypeOK, commandVars
<1>5. ASSUME TC3_CH1_My_Handler PROVE ControlOK'
  <2>1. exp_rt' \in Runs /\ laser' \in Channels \cup {Off} /\ timer_on' \in BOOLEAN
        /\ clean' \in BOOLEAN
    BY <1>5, TickRun DEF ControlOK
  <2>2. handed' \in Nat
    <3>1. written \in Seq(Block \cup {Blank, Torn}) /\ handed \in Nat
      BY DEF TypeOK, ControlOK
    <3>2. Len(written) \in Nat  BY <3>1
    <3>. QED  BY <1>5, <3>1, <3>2, TickRun
  <2>. QED  BY <1>5, <2>1, <2>2 DEF TC3_CH1_My_Handler, ControlOK, commandVars
<1>6. ASSUME Acquire \/ UNCHANGED allVars PROVE ControlOK'
  BY <1>6 DEF Acquire, allVars, control, ControlOK, commandVars
<1>. QED
  BY <1>1, <1>2, <1>3, <1>4, <1>5, <1>6 DEF ExperimentNext, App_EXPTask

LEMMA InitControl == ASSUME Init PROVE ControlOK
<1>1. s_exp_profile \in AnyProfile  BY DEF Init, AnyProfile, Profiles
<1>2. exp_rt \in Runs  BY DEF Init, Runs
<1>3. /\ experiment_command_queue \in Seq({"RUN", "END"})
      /\ Len(experiment_command_queue) <= CommandDepth
  BY ControlAssumption DEF Init
<1>4. period \in 0 .. UINT16_MAX  BY Numbers DEF Init
<1>. QED  BY <1>1, <1>2, <1>3, <1>4 DEF Init, ControlOK

\* The path and the control keep their types.
THEOREM ExperimentTypeCorrect == ExperimentSpec => []ExperimentTypeOK
<1>1. Init => IInv /\ ControlOK  BY Initially, InitControl DEF Init
<1>2. IInv /\ ControlOK /\ [ExperimentNext]_allVars => (IInv /\ ControlOK)'
  BY StepsOfBuffers, NextKeeps, ControlTypes DEF IInv
<1>3. IInv /\ ControlOK => ExperimentTypeOK
  BY DEF IInv, ControlOK, ExperimentTypeOK, Runs
<1>. QED  BY <1>1, <1>2, <1>3, PTL DEF ExperimentSpec

----------------------------------------------------------------------------
(* The laser *)

\* The laser is off from the end of the main phase on, whoever starts what.
\* A clean run is set up with the timer stopped and the laser off.
LaserInv ==
    /\ exp_rt.sub_state \in {"POST", "DONE"} => laser = Off
    /\ LaserOffWhenIdle
    /\ clean /\ exp_pc # "receive" => ~timer_on /\ laser = Off
    /\ clean /\ exp_pc \in {"all_off", "sampling", "timer"} => exp_rt.sub_state = "PRE"
    /\ LaserOnlyInMain

LEMMA LaserKept ==
  ASSUME ControlOK, LaserInv, [ExperimentNext]_allVars
  PROVE  LaserInv'
<1>. USE DEF LaserInv, LaserOffWhenIdle, LaserOnlyInMain
<1>1. ASSUME CommandLine PROVE LaserInv'
  <2>1. UNCHANGED <<exp_pc, exp_rt, laser, timer_on, clean>>
    BY <1>1 DEF CommandLine, CMD_Exp_Start, CMD_Exp_Start_Laser, CMD_Exp_End, SetProfile
  <2>. QED  BY <2>1
<1>2. ASSUME TakeRun PROVE LaserInv'
  <2>1. /\ exp_pc = "receive" /\ exp_pc' = "mux" /\ (clean' => ~timer_on)
        /\ UNCHANGED <<exp_rt, laser, timer_on>>
    BY <1>2 DEF TakeRun, Quiet
  <2>2. clean' => laser' = Off /\ ~timer_on'  BY <2>1
  <2>. QED  BY <2>1, <2>2
<1>3. ASSUME TakeEnd PROVE LaserInv'
  BY <1>3 DEF TakeEnd
<1>4. ASSUME SetupBus PROVE LaserInv'
  BY <1>4 DEF SetupBus
<1>5. ASSUME SetupRun PROVE LaserInv'
  <2>1. /\ exp_pc = "fields" /\ exp_pc' = "all_off" /\ exp_rt'.sub_state = "PRE"
        /\ UNCHANGED <<laser, timer_on, clean>>
    BY <1>5 DEF SetupRun
  <2>. QED  BY <2>1
<1>6. ASSUME SetupLasers PROVE LaserInv'
  <2>1. /\ exp_pc = "all_off" /\ exp_pc' = "sampling" /\ laser' = Off
        /\ UNCHANGED <<exp_rt, timer_on, clean>>
    BY <1>6 DEF SetupLasers
  <2>. QED  BY <2>1
<1>7. ASSUME StartRun PROVE LaserInv'
  BY <1>7 DEF StartRun
<1>8. ASSUME StartTimer PROVE LaserInv'
  BY <1>8 DEF StartTimer
<1>9. ASSUME TC3_CH1_My_Handler PROVE LaserInv'
  <2>1. exp_pc' = exp_pc  BY <1>9 DEF TC3_CH1_My_Handler
  <2>2. timer_on /\ exp_rt'.channel = exp_rt.channel /\ clean' = clean  BY <1>9, TickRun
  <2>3. CASE exp_rt'.sub_state = exp_rt.sub_state /\ laser' = laser
    <3>1. timer_on' = timer_on \/ exp_rt.sub_state = "DONE"  BY <1>9, TickRun
    <3>. QED  BY <2>1, <2>2, <2>3, <3>1
  <2>4. CASE /\ exp_rt.sub_state = "PRE" /\ exp_rt'.sub_state = "MAIN"
             /\ laser' = IF exp_rt.channel \in Channels THEN exp_rt.channel ELSE laser
    <3>1. timer_on' = timer_on  BY <1>9, <2>4, TickRun
    <3>. QED  BY <2>1, <2>2, <2>4, <3>1
  <2>5. CASE exp_rt.sub_state = "MAIN" /\ exp_rt'.sub_state = "POST" /\ laser' = Off
    <3>1. timer_on' = timer_on  BY <1>9, <2>5, TickRun
    <3>. QED  BY <2>1, <2>2, <2>5, <3>1
  <2>6. CASE exp_rt.sub_state = "POST" /\ exp_rt'.sub_state = "DONE" /\ laser' = laser
    <3>1. timer_on' = timer_on  BY <1>9, <2>6, TickRun
    <3>. QED  BY <2>1, <2>2, <2>6, <3>1
  <2>. QED  BY <1>9, TickRun, <2>3, <2>4, <2>5, <2>6
<1>10. ASSUME Acquire \/ UNCHANGED allVars PROVE LaserInv'
  <2>1. UNCHANGED control  BY <1>10 DEF Acquire, allVars
  <2>. QED  BY <2>1 DEF control
<1>. QED
  BY <1>1, <1>2, <1>3, <1>4, <1>5, <1>6, <1>7, <1>8, <1>9, <1>10 DEF ExperimentNext, App_EXPTask

LEMMA LaserAlways == ExperimentSpec => []LaserInv
<1>1. Init => IInv /\ ControlOK  BY Initially, InitControl DEF Init
<1>2. Init => LaserInv  BY DEF Init, LaserInv, LaserOffWhenIdle, LaserOnlyInMain
<1>3. IInv /\ ControlOK /\ [ExperimentNext]_allVars => (IInv /\ ControlOK)'
  BY StepsOfBuffers, NextKeeps, ControlTypes DEF IInv
<1>4. ControlOK /\ LaserInv /\ [ExperimentNext]_allVars => LaserInv'  BY LaserKept
<1>. QED  BY <1>1, <1>2, <1>3, <1>4, PTL DEF ExperimentSpec

\* In a clean run the laser is on exactly in the main phase, and never on
\* otherwise (app_experiment.c:178-188).
THEOREM LaserOnlyInMainPhase == ExperimentSpec => []LaserOnlyInMain
<1>1. LaserInv => LaserOnlyInMain  BY DEF LaserInv
<1>. QED  BY <1>1, LaserAlways, PTL

\* Whatever runs were requested over one another, the laser is off when the
\* timer has stopped and the task waits (app_experiment.c:152, 186, 201).
THEOREM LaserNotLeftOn == ExperimentSpec => []LaserOffWhenIdle
<1>1. LaserInv => LaserOffWhenIdle  BY DEF LaserInv
<1>. QED  BY <1>1, LaserAlways, PTL

----------------------------------------------------------------------------
(* The hand-over of the memory *)

Setup == {"mux", "fields", "all_off", "sampling"}

\* A clean run samples from the end of its setup to the end of its last phase,
\* the MPU has the memory only between runs, and until the sampling of a run
\* that found the PSRAM task done starts, its log and the queue are empty.
OverInv ==
    /\ clean /\ sampling_enable =>
         exp_pc = "timer" \/ (exp_pc = "receive" /\ timer_on /\ exp_rt.sub_state # "DONE")
    /\ clean /\ psram_mux = "MPU" => exp_pc \in {"receive", "mux"} /\ ~timer_on
    /\ clean /\ fresh /\ exp_pc \in Setup => written = <<>> /\ PsramDone

LEMMA OverKept ==
  ASSUME TypeOK, ControlOK, LaserInv, OverInv, [ExperimentNext]_allVars
  PROVE  OverInv'
<1>. USE DEF OverInv, PsramDone, Setup
<1>1. ASSUME CommandLine PROVE OverInv'
  <2>1. UNCHANGED <<exp_pc, exp_rt, timer_on, clean, bufferVars>>
    BY <1>1 DEF CommandLine, CMD_Exp_Start, CMD_Exp_Start_Laser, CMD_Exp_End, SetProfile
  <2>. QED  BY <2>1 DEF bufferVars, queues, memory
<1>2. ASSUME TakeRun PROVE OverInv'
  <2>1. /\ exp_pc' = "mux" /\ clean' = (~timer_on /\ ~sampling_enable)
        /\ fresh' = PsramDone /\ written' = <<>>
        /\ UNCHANGED <<timer_on, sampling_enable, task, fram_queue>>
    BY <1>2 DEF TakeRun, ResetAddress, Quiet, queues
  <2>. QED  BY <2>1
<1>3. ASSUME TakeEnd \/ SetupBus PROVE OverInv'
  <2>1. /\ psram_mux' = "MCU"
        /\ UNCHANGED <<exp_rt, timer_on, clean, sampling_enable, fresh, written, task, fram_queue>>
        /\ \/ exp_pc = "receive" /\ exp_pc' = exp_pc
           \/ exp_pc = "mux" /\ exp_pc' = "fields"
    BY <1>3 DEF TakeEnd, SetupBus, bsp_psram_sw_mcu, queues, memory
  <2>. QED  BY <2>1
<1>4. ASSUME SetupRun \/ SetupLasers PROVE OverInv'
  <2>1. /\ exp_pc \in {"fields", "all_off"} /\ exp_pc' \in {"all_off", "sampling"}
        /\ UNCHANGED <<timer_on, clean, bufferVars>>
    BY <1>4 DEF SetupRun, SetupLasers
  <2>. QED  BY <2>1 DEF bufferVars, queues, memory
<1>5. ASSUME StartRun PROVE OverInv'
  <2>1. /\ exp_pc = "sampling" /\ exp_pc' = "timer" /\ UNCHANGED <<clean, psram_mux>>
    BY <1>5 DEF StartRun, StartSampling
  <2>. QED  BY <2>1
<1>6. ASSUME StartTimer PROVE OverInv'
  <2>1. /\ exp_pc = "timer" /\ exp_pc' = "receive" /\ timer_on'
        /\ UNCHANGED <<exp_rt, clean, psram_mux, sampling_enable>>
    BY <1>6 DEF StartTimer, bufferVars
  <2>2. clean => exp_rt.sub_state = "PRE"  BY <2>1 DEF LaserInv
  <2>. QED  BY <2>1, <2>2
<1>7. ASSUME TC3_CH1_My_Handler PROVE OverInv'
  <2>1. exp_pc' = exp_pc /\ timer_on /\ clean' = clean  BY <1>7, TickRun DEF TC3_CH1_My_Handler
  <2>2. clean => exp_pc = "receive" /\ psram_mux # "MPU"  BY <2>1 DEF LaserInv
  <2>3. CASE TickPre \/ TickMain
    <3>1. exp_rt'.sub_state # "DONE" /\ UNCHANGED <<timer_on, psram_mux, sampling_enable>>
      <4>1. UNCHANGED <<timer_on, psram_mux, sampling_enable>>
        BY <2>3 DEF TickPre, TickMain, bufferVars
      <4>2. exp_rt.sub_state \in {"PRE", "MAIN"}  BY <2>3 DEF TickPre, TickMain
      <4>. QED  BY <1>7, <4>1, <4>2, TickRun
    <3>. QED  BY <2>1, <2>2, <3>1
  <2>4. CASE TickPost
    <3>1. \/ sampling_enable' = FALSE
          \/ Count /\ sampling_enable' = sampling_enable
      BY <2>4 DEF TickPost, StopSampling, bufferVars
    <3>2. UNCHANGED <<timer_on, psram_mux>>
      BY <2>4 DEF TickPost, StopSampling, bufferVars
    <3>3. Count => exp_rt'.sub_state = exp_rt.sub_state  BY RunCounts DEF ControlOK, Count
    <3>. QED  BY <2>1, <2>2, <3>1, <3>2, <3>3
  <2>5. CASE TickDone
    <3>1. exp_rt.sub_state = "DONE" /\ timer_on' = FALSE /\ sampling_enable' = sampling_enable
      BY <2>5 DEF TickDone, bsp_psram_sw_mpu
    <3>. QED  BY <2>1, <2>2, <3>1
  <2>. QED  BY <1>7, <2>3, <2>4, <2>5 DEF TC3_CH1_My_Handler
<1>8. ASSUME Acquire PROVE OverInv'
  <2>1. UNCHANGED <<exp_pc, exp_rt, timer_on, clean>>
    BY <1>8 DEF Acquire, control
  <2>2. UNCHANGED <<sampling_enable, psram_mux, fresh>>
    BY <1>8 DEF Acquire, SPI0_Handler, APP_PSRAMTask, ReceiveBlock, StartWrite, FinishWrite,
       AdvanceAddress, ReturnBuffer, Done, memory
  <2>3. clean /\ fresh => exp_pc \notin Setup
    BY <1>8 DEF Acquire, SPI0_Handler, APP_PSRAMTask, ReceiveBlock, StartWrite, FinishWrite,
       AdvanceAddress, ReturnBuffer
  <2>. QED  BY <2>1, <2>2, <2>3
<1>9. ASSUME UNCHANGED allVars PROVE OverInv'
  BY <1>9 DEF allVars, control, bufferVars, queues, memory
<1>. QED
  BY <1>1, <1>2, <1>3, <1>4, <1>5, <1>6, <1>7, <1>8, <1>9 DEF ExperimentNext, App_EXPTask

\* What a step of the PSRAM task does to the log: nothing, or it adds what
\* became of the block just written.
LEMMA TaskStep ==
  ASSUME IInv, APP_PSRAMTask
  PROVE  /\ UNCHANGED <<data, captured, fresh>>
         /\ \/ UNCHANGED <<written, stored>> /\ Waiting' = Waiting
            \/ /\ Writing /\ recv_buf \in Buffers
               /\ recv_buf \in Waiting /\ Waiting' = Waiting \ {recv_buf}
               /\ stored' = data[recv_buf][0] + BUF_SIZE
               /\ \E entry \in {data[recv_buf], Blank, Torn} :
                     /\ written' = Append(written, entry)
                     /\ psram_mux = "MCU" => entry = data[recv_buf]
<1>. TypeOK /\ PoolPartitioned
  BY DEF IInv
<1>1. CASE ReceiveBlock
  <2>1. fram_queue \in Seq(Buffers) /\ IsInjective(fram_queue) /\ fram_queue # <<>>
    BY <1>1 DEF TypeOK, PoolPartitioned, ReceiveBlock
  <2>2. Head(fram_queue) \in Range(fram_queue)
        /\ Range(Tail(fram_queue)) = Range(fram_queue) \ {Head(fram_queue)}
    BY <2>1, Taken
  <2>3. /\ recv_buf' = Head(fram_queue) /\ fram_queue' = Tail(fram_queue)
        /\ task = "receive" /\ task' = "write"
        /\ UNCHANGED <<data, captured, written, stored, fresh>>
    BY <1>1 DEF ReceiveBlock, filling, memory
  <2>. QED  BY <2>2, <2>3 DEF Waiting, Writing
<1>2. CASE StartWrite \/ FinishWrite
  <2>1. UNCHANGED <<data, captured, fram_queue, recv_buf, fresh>>
    BY <1>2 DEF StartWrite, FinishWrite, filling, queues, Done, memory
  <2>2. CASE task' = "burst" /\ task = "write" /\ UNCHANGED memory
    BY <2>1, <2>2 DEF Waiting, Writing, memory
  <2>3. ASSUME Writing, NEW entry \in {data[recv_buf], Blank, Torn}, Done(entry),
               psram_mux = "MCU" => entry = data[recv_buf]
        PROVE  /\ recv_buf \in Buffers /\ recv_buf \in Waiting /\ Waiting' = Waiting \ {recv_buf}
               /\ stored' = data[recv_buf][0] + BUF_SIZE
               /\ \E e \in {data[recv_buf], Blank, Torn} :
                     /\ written' = Append(written, e)
                     /\ psram_mux = "MCU" => e = data[recv_buf]
    <3>1. task' = "print" /\ written' = Append(written, entry)
          /\ stored' = data[recv_buf][0] + BUF_SIZE
      BY <2>3 DEF Done
    <3>2. recv_buf \in Buffers /\ recv_buf \notin Range(fram_queue)
      BY <2>3 DEF TypeOK, PoolPartitioned, Writing
    <3>3. Waiting = Range(fram_queue) \cup {recv_buf} /\ Waiting' = Range(fram_queue)
      BY <2>1, <2>3, <3>1 DEF Waiting, Writing
    <3>4. \E e \in {data[recv_buf], Blank, Torn} :
             written' = Append(written, e) /\ (psram_mux = "MCU" => e = data[recv_buf])
      BY <2>3, <3>1
    <3>. QED  BY <3>1, <3>2, <3>3, <3>4
  <2>4. CASE task = "write" /\ psram_mux = "MPU" /\ Done(Blank)
    BY <2>1, <2>3, <2>4 DEF Writing
  <2>5. CASE task = "burst" /\ psram_mux = "MCU" /\ Done(data[recv_buf])
    BY <2>1, <2>3, <2>5 DEF Writing
  <2>6. CASE task = "burst" /\ psram_mux = "MPU" /\ Done(Torn)
    BY <2>1, <2>3, <2>6 DEF Writing
  <2>. QED  BY <1>2, <2>2, <2>4, <2>5, <2>6, WriteSteps
<1>3. CASE AdvanceAddress
  BY <1>3 DEF AdvanceAddress, filling, queues, Waiting, Writing
<1>4. CASE ReturnBuffer
  BY <1>4 DEF ReturnBuffer, filling, memory, Waiting, Writing
<1>. QED  BY <1>1, <1>2, <1>3, <1>4 DEF APP_PSRAMTask

LEMMA OneMore ==
  ASSUME NEW S, NEW q \in Seq(S), NEW e
  PROVE  /\ Len(q) \in Nat /\ DOMAIN q = 1 .. Len(q)
         /\ Append(q, e) # <<>> /\ Len(Append(q, e)) = Len(q) + 1
         /\ DOMAIN Append(q, e) = 1 .. Len(q) + 1
         /\ Append(q, e)[Len(q) + 1] = e
         /\ \A i \in 1 .. Len(q) : Append(q, e)[i] = q[i]
  OBVIOUS

\* How many buffers wait.
LEMMA WaitingCounted ==
  ASSUME IInv
  PROVE  /\ IsFiniteSet(Waiting) /\ Cardinality(Waiting) \in 0 .. BUF_COUNT - 1
         /\ \A b \in Waiting : Cardinality(Waiting \ {b}) = Cardinality(Waiting) - 1
<1>1. Waiting \subseteq Buffers \ {current_buf} /\ current_buf \in Buffers
  BY WaitingNotCurrent DEF IInv, TypeOK
<1>2. /\ IsFiniteSet(Buffers \ {current_buf})
      /\ Cardinality(Buffers \ {current_buf}) = BUF_COUNT - 1
  BY <1>1, Pool, FS_RemoveElement
<1>3. IsFiniteSet(Waiting) /\ Cardinality(Waiting) <= BUF_COUNT - 1
  BY <1>1, <1>2, FS_Subset
<1>4. Cardinality(Waiting) \in Nat
  BY <1>3, FS_CardinalityType
<1>5. \A b \in Waiting : Cardinality(Waiting \ {b}) = Cardinality(Waiting) - 1
  BY <1>3, FS_RemoveElement
<1>. QED  BY <1>3, <1>4, <1>5, Pool

\* Until a run is over all its positions are whole; after that the positions
\* filled grow by those that waited.
HandInv ==
    clean /\ fresh =>
        /\ \A i \in DOMAIN written : written[i] \in {Blank, Torn} => RunOver /\ i > handed
        /\ RunOver => /\ handed <= Len(written)
                      /\ Len(written) + Cardinality(Waiting) <= handed + BUF_COUNT - 1

LEMMA HandUnchanged ==
  ASSUME HandInv, clean' = clean, fresh' = fresh,
         UNCHANGED <<written, handed>>, Waiting' = Waiting, RunOver' = RunOver
  PROVE  HandInv'
  BY DEF HandInv

LEMMA HandKept ==
  ASSUME IInv, ControlOK, LaserInv, OverInv, HandInv, [ExperimentNext]_allVars
  PROVE  HandInv'
<1>0. written \in Seq(Block \cup {Blank, Torn}) /\ handed \in Nat /\ BUF_COUNT \in Nat
  BY Pool DEF IInv, TypeOK, ControlOK
<1>1. ASSUME CommandLine \/ TakeEnd \/ SetupBus \/ SetupRun \/ SetupLasers \/ StartRun \/ StartTimer
      PROVE  HandInv'
  <2>1. /\ UNCHANGED <<clean, fresh, written, handed, task, recv_buf, fram_queue>>
        /\ \/ UNCHANGED <<exp_pc, timer_on>>
           \/ exp_pc # "receive" /\ exp_pc' # "receive"
           \/ exp_pc # "receive" /\ timer_on'
    BY <1>1 DEF CommandLine, CMD_Exp_Start, CMD_Exp_Start_Laser, CMD_Exp_End, SetProfile, TakeEnd,
       SetupBus, SetupRun, SetupLasers, StartRun, StartTimer, bsp_psram_sw_mcu, StartSampling,
       bufferVars, queues, memory
  <2>2. Waiting' = Waiting  BY <2>1 DEF Waiting, Writing
  <2>3. RunOver' = RunOver  BY <2>1 DEF RunOver
  <2>. QED  BY <2>1, <2>2, <2>3, HandUnchanged
<1>2. ASSUME TakeRun PROVE HandInv'
  <2>1. written' = <<>> /\ exp_pc' = "mux"  BY <1>2 DEF TakeRun, ResetAddress
  <2>. QED  BY <2>1 DEF HandInv, RunOver
<1>3. ASSUME TC3_CH1_My_Handler PROVE HandInv'
  <2>1. /\ UNCHANGED <<written, fresh, task, recv_buf, fram_queue>>
    BY <1>3 DEF TC3_CH1_My_Handler, TickPre, TickMain, TickPost, TickDone, StopSampling,
       bsp_psram_sw_mpu, bufferVars, queues, memory
  <2>2. timer_on /\ exp_pc' = exp_pc /\ clean' = clean
    BY <1>3, TickRun DEF TC3_CH1_My_Handler
  <2>3. Waiting' = Waiting  BY <2>1 DEF Waiting, Writing
  <2>4. CASE UNCHANGED <<timer_on, handed>>
    <3>1. RunOver' = RunOver  BY <2>2, <2>4 DEF RunOver
    <3>. QED  BY <2>1, <2>2, <2>3, <2>4, <3>1, HandUnchanged
  <2>5. CASE timer_on' = FALSE /\ handed' = Len(written)
    <3>. SUFFICES ASSUME clean, fresh
                  PROVE  /\ \A i \in DOMAIN written : written[i] \in {Blank, Torn} => FALSE
                         /\ Len(written) <= Len(written)
                         /\ Len(written) + Cardinality(Waiting) <= Len(written) + BUF_COUNT - 1
      BY <2>1, <2>2, <2>3, <2>5 DEF HandInv
    <3>1. ~RunOver  BY <2>2 DEF RunOver
    <3>2. Len(written) \in Nat  BY <1>0
    <3>3. Cardinality(Waiting) \in 0 .. BUF_COUNT - 1  BY WaitingCounted
    <3>4. Len(written) + Cardinality(Waiting) <= Len(written) + BUF_COUNT - 1
      BY ONLY <1>0, <3>2, <3>3
    <3>. QED  BY <3>1, <3>2, <3>4 DEF HandInv
  <2>. QED  BY <1>3, <2>4, <2>5, TickRun
<1>4. ASSUME Acquire, SPI0_Handler PROVE HandInv'
  <2>1. UNCHANGED <<exp_pc, timer_on, clean, handed>>  BY <1>4 DEF Acquire, control
  <2>2. UNCHANGED <<written, fresh>> /\ sampling_enable  BY <1>4 DEF SPI0_Handler, memory
  <2>3. clean => ~RunOver  BY <2>2 DEF OverInv, RunOver
  <2>4. RunOver' = RunOver  BY <2>1 DEF RunOver
  <2>. QED  BY <2>1, <2>2, <2>3, <2>4 DEF HandInv
<1>5. ASSUME Acquire, APP_PSRAMTask PROVE HandInv'
  <2>1. UNCHANGED <<exp_pc, timer_on, clean, handed>>  BY <1>5 DEF Acquire, control
  <2>2. RunOver' = RunOver  BY <2>1 DEF RunOver
  <2>3. fresh' = fresh  BY <1>5, TaskStep
  <2>4. CASE UNCHANGED written /\ Waiting' = Waiting
    BY <2>1, <2>2, <2>3, <2>4, HandUnchanged
  <2>5. ASSUME Writing, recv_buf \in Buffers, recv_buf \in Waiting,
               Waiting' = Waiting \ {recv_buf},
               NEW entry \in {data[recv_buf], Blank, Torn}, written' = Append(written, entry),
               psram_mux = "MCU" => entry = data[recv_buf], clean, fresh
        PROVE  /\ \A i \in DOMAIN written' : written'[i] \in {Blank, Torn} => RunOver /\ i > handed
               /\ RunOver => /\ handed <= Len(written')
                             /\ Len(written') + Cardinality(Waiting') <= handed + BUF_COUNT - 1
    <3>1. /\ Len(written) \in Nat /\ DOMAIN written = 1 .. Len(written)
          /\ Len(written') = Len(written) + 1 /\ DOMAIN written' = 1 .. Len(written) + 1
          /\ written'[Len(written) + 1] = entry
          /\ \A i \in 1 .. Len(written) : written'[i] = written[i]
      BY <1>0, <2>5, OneMore
    <3>2. Cardinality(Waiting') = Cardinality(Waiting) - 1 /\ Cardinality(Waiting) \in 0 .. BUF_COUNT - 1
      BY <2>5, WaitingCounted
    <3>3. ASSUME RunOver
          PROVE  /\ handed <= Len(written')
                 /\ Len(written') + Cardinality(Waiting') <= handed + BUF_COUNT - 1
      <4>1. /\ handed <= Len(written)
            /\ Len(written) + Cardinality(Waiting) <= handed + BUF_COUNT - 1
        BY <2>5, <3>3 DEF HandInv
      <4>2. Len(written) \in Nat /\ Len(written') = Len(written) + 1  BY <3>1
      <4>. QED  BY ONLY <1>0, <3>2, <4>1, <4>2
    <3>4. ASSUME entry \in {Blank, Torn}
          PROVE  RunOver
      <4>1. data[recv_buf] \in Block  BY <2>5, FirstSample DEF IInv
      <4>2. psram_mux = "MPU"  BY <2>5, <3>4, <4>1, BlankAssumption DEF IInv, TypeOK
      <4>3. exp_pc \notin Setup  BY <2>5 DEF OverInv, PsramDone, Writing
      <4>. QED  BY <2>5, <4>2, <4>3 DEF OverInv, RunOver, Setup
    <3>5. ASSUME entry \in {Blank, Torn}
          PROVE  Len(written) + 1 > handed
      <4>1. handed <= Len(written)  BY <2>5, <3>4, <3>5 DEF HandInv
      <4>2. Len(written) \in Nat  BY <3>1
      <4>. QED  BY ONLY <1>0, <4>1, <4>2
    <3>6. \A i \in 1 .. Len(written) : written[i] \in {Blank, Torn} => RunOver /\ i > handed
      BY <2>5, <3>1 DEF HandInv
    <3>7. \A i \in 1 .. Len(written) + 1 : i = Len(written) + 1 \/ i \in 1 .. Len(written)
      BY <3>1
    <3>. QED  BY <3>1, <3>3, <3>4, <3>5, <3>6, <3>7
  <2>. QED
    <3>1. ASSUME ~(UNCHANGED written /\ Waiting' = Waiting), clean, fresh
          PROVE  /\ \A i \in DOMAIN written' : written'[i] \in {Blank, Torn} => RunOver /\ i > handed
                 /\ RunOver => /\ handed <= Len(written')
                               /\ Len(written') + Cardinality(Waiting') <= handed + BUF_COUNT - 1
      BY <1>5, <2>5, <3>1, TaskStep
    <3>. QED  BY <2>1, <2>2, <2>3, <2>4, <3>1 DEF HandInv
<1>6. ASSUME UNCHANGED allVars PROVE HandInv'
  <2>1. UNCHANGED <<clean, fresh, written, handed, task, recv_buf, fram_queue, exp_pc, timer_on>>
    BY <1>6 DEF allVars, control, bufferVars, queues, memory
  <2>2. Waiting' = Waiting  BY <2>1 DEF Waiting, Writing
  <2>3. RunOver' = RunOver  BY <2>1 DEF RunOver
  <2>. QED  BY <2>1, <2>2, <2>3, HandUnchanged
<1>. QED
  BY <1>1, <1>2, <1>3, <1>4, <1>5, <1>6 DEF ExperimentNext, App_EXPTask, Acquire

\* Of a clean run that found the PSRAM task done the hand-over can lose only the
\* blocks that wait then (app_experiment.c:193-202, 277-283).
THEOREM HandOverLosesOnlyQueuedHolds == ExperimentSpec => []HandOverLosesOnlyQueued
<1>1. Init => IInv /\ ControlOK  BY Initially, InitControl DEF Init
<1>2. Init => OverInv  BY DEF Init, experiment_init, OverInv, Setup
<1>3. Init => HandInv
  <2>. SUFFICES ASSUME Init PROVE HandInv  OBVIOUS
  <2>1. IInv  BY <1>1
  <2>2. written = <<>> /\ handed = 0  BY DEF Init, experiment_init
  <2>3. DOMAIN written = {} /\ Len(written) = 0  BY <2>2
  <2>4. Cardinality(Waiting) \in 0 .. BUF_COUNT - 1  BY <2>1, WaitingCounted
  <2>. QED  BY <2>2, <2>3, <2>4, Pool DEF HandInv
<1>4. IInv /\ ControlOK /\ [ExperimentNext]_allVars => (IInv /\ ControlOK)'
  BY StepsOfBuffers, NextKeeps, ControlTypes DEF IInv
<1>5. IInv /\ ControlOK /\ LaserInv /\ OverInv /\ [ExperimentNext]_allVars => OverInv'
  BY OverKept DEF IInv
<1>6. IInv /\ ControlOK /\ LaserInv /\ OverInv /\ HandInv /\ [ExperimentNext]_allVars => HandInv'
  BY HandKept
<1>7. IInv /\ ControlOK /\ HandInv => HandOverLosesOnlyQueued
  <2>. SUFFICES ASSUME IInv, ControlOK, HandInv, clean, fresh
                PROVE  /\ \A i \in DOMAIN written : written[i] \in {Blank, Torn} => RunOver /\ i > handed
                       /\ RunOver => Len(written) <= handed + BUF_COUNT - 1
    BY DEF HandOverLosesOnlyQueued
  <2>1. Cardinality(Waiting) \in 0 .. BUF_COUNT - 1  BY WaitingCounted
  <2>2. written \in Seq(Block \cup {Blank, Torn}) /\ handed \in Nat  BY DEF IInv, TypeOK, ControlOK
  <2>3. Len(written) \in Nat  BY <2>2
  <2>4. RunOver => Len(written) + Cardinality(Waiting) <= handed + BUF_COUNT - 1  BY DEF HandInv
  <2>5. RunOver => Len(written) <= handed + BUF_COUNT - 1
    BY ONLY <2>1, <2>2, <2>3, <2>4, Pool
  <2>. QED  BY <2>5 DEF HandInv
<1>. QED  BY <1>1, <1>2, <1>3, <1>4, <1>5, <1>6, <1>7, LaserAlways, PTL DEF ExperimentSpec

----------------------------------------------------------------------------
(* The contents of the memory *)

\* The buffers that wait after a sample: those that waited, untouched, and the
\* one the sample filled.
LEMMA SampleWaits ==
  ASSUME IInv, SPI0_Handler, NEW b \in Waiting'
  PROVE  \/ b \in Waiting /\ data'[b] = data[b]
         \/ data'[b][0] + BUF_SIZE = captured + 1
<1>1. /\ \A c \in Buffers \ {current_buf} : data'[c] = data[c]
      /\ \A j \in 0 .. buf_idx : data'[current_buf][j] = captured - buf_idx + j
      /\ buf_idx \in 0 .. BUF_SIZE - 1 /\ captured \in Nat
      /\ UNCHANGED <<task, recv_buf>>
  BY SampleKept
<1>2. Waiting \subseteq Buffers \ {current_buf}
  BY WaitingNotCurrent
<1>3. CASE UNCHANGED fram_queue
  <2>1. b \in Waiting  BY <1>1, <1>3 DEF Waiting, Writing
  <2>. QED  BY <2>1, <1>1, <1>2
<1>4. CASE fram_queue' = Append(fram_queue, current_buf) /\ buf_idx + 1 >= BUF_SIZE
  <2>1. fram_queue \in Seq(Buffers) /\ current_buf \in Buffers  BY DEF IInv, TypeOK
  <2>2. Range(fram_queue') = Range(fram_queue) \cup {current_buf}  BY <2>1, <1>4, Appended
  <2>3. b \in Waiting \/ b = current_buf  BY <1>1, <2>2 DEF Waiting, Writing
  <2>4. CASE b \in Waiting  BY <2>4, <1>1, <1>2
  <2>5. CASE b = current_buf
    <3>1. data'[b][0] = captured - buf_idx + 0  BY <1>1, <2>5
    <3>2. buf_idx = BUF_SIZE - 1  BY <1>1, <1>4, LastSlot
    <3>3. data'[b][0] = captured - (BUF_SIZE - 1)  BY <3>1, <3>2, <1>1
    <3>. QED  BY <3>3, <1>1
  <2>. QED  BY <2>3, <2>4, <2>5
<1>. QED  BY <1>3, <1>4 DEF SPI0_Handler, SwapBuffer, queues

\* The whole blocks of a log reach into the run, all but the first from its start.
InRun(log, start) ==
    \A i \in DOMAIN log : log[i] \notin {Blank, Torn} =>
        /\ log[i][BUF_SIZE - 1] >= start
        /\ i > 1 => log[i][0] >= start

\* Once its sampling started, every block that waits, and the last one written,
\* reaches into the run.
MemInv ==
    /\ run_start <= captured
    /\ clean /\ fresh =>
         /\ exp_pc \notin Setup => \A b \in Waiting : run_start < data[b][0] + BUF_SIZE
         /\ written # <<>> => run_start < stored
         /\ InRun(written, run_start)

LEMMA MemUnchanged ==
  ASSUME MemInv, clean' = clean,
         UNCHANGED <<run_start, captured, written, stored, fresh, data>>, Waiting' = Waiting,
         exp_pc' \notin Setup => exp_pc \notin Setup
  PROVE  MemInv'
<1>1. InRun(written, run_start)' <=> InRun(written, run_start)  BY DEF InRun
<1>. QED  BY <1>1 DEF MemInv

\* What became of a block that waited is the log's next entry.
LEMMA BlockLogged ==
  ASSUME IInv, MemInv, clean, fresh, exp_pc \notin Setup, run_start \in Nat,
         recv_buf \in Waiting, recv_buf \in Buffers,
         NEW entry \in {data[recv_buf], Blank, Torn}
  PROVE  /\ run_start < data[recv_buf][0] + BUF_SIZE
         /\ InRun(Append(written, entry), run_start)
<1>1. written \in Seq(Block \cup {Blank, Torn}) /\ stored \in Nat  BY DEF IInv, TypeOK
<1>2. PICK block : block = data[recv_buf]  OBVIOUS
<1>3. block \in Block /\ block[0] \in Nat  BY <1>2, FirstSample DEF IInv
<1>4. block = BlockOf(block[0]) /\ stored <= block[0]
  BY <1>2 DEF IInv, BlocksWhole, WaitingWhole
<1>5. run_start < block[0] + BUF_SIZE  BY <1>2 DEF MemInv
<1>6. block[BUF_SIZE - 1] = block[0] + (BUF_SIZE - 1)
  <2>1. BUF_SIZE - 1 \in 0 .. BUF_SIZE - 1  OBVIOUS
  <2>. QED  BY <1>4, <2>1 DEF BlockOf
<1>7. block[BUF_SIZE - 1] >= run_start  BY ONLY <1>3, <1>5, <1>6, SizeAssumption, run_start \in Nat
<1>8. written # <<>> => block[0] >= run_start
  <2>1. written # <<>> => run_start < stored  BY DEF MemInv
  <2>. QED  BY ONLY <1>1, <1>3, <1>4, <2>1, run_start \in Nat
<1>9. /\ Len(written) \in Nat /\ DOMAIN written = 1 .. Len(written)
      /\ DOMAIN Append(written, entry) = 1 .. Len(written) + 1
      /\ Append(written, entry)[Len(written) + 1] = entry
      /\ \A i \in 1 .. Len(written) : Append(written, entry)[i] = written[i]
  BY <1>1, OneMore
<1>10. Len(written) + 1 > 1 => written # <<>>  BY <1>9
<1>11. ASSUME NEW i \in 1 .. Len(written) + 1, Append(written, entry)[i] \notin {Blank, Torn}
       PROVE  /\ Append(written, entry)[i][BUF_SIZE - 1] >= run_start
              /\ i > 1 => Append(written, entry)[i][0] >= run_start
  <2>1. i = Len(written) + 1 \/ i \in 1 .. Len(written)  BY <1>9
  <2>2. CASE i = Len(written) + 1
    <3>1. Append(written, entry)[i] = block  BY <1>2, <1>9, <1>11, <2>2
    <3>. QED  BY <1>7, <1>8, <1>10, <2>2, <3>1
  <2>3. CASE i \in 1 .. Len(written)
    <3>1. Append(written, entry)[i] = written[i]  BY <1>9, <2>3
    <3>2. InRun(written, run_start)  BY DEF MemInv
    <3>. QED  BY <1>9, <1>11, <2>3, <3>1, <3>2 DEF InRun
  <2>. QED  BY <2>1, <2>2, <2>3
<1>12. InRun(Append(written, entry), run_start)  BY <1>9, <1>11 DEF InRun
<1>. QED  BY <1>2, <1>5, <1>12

LEMMA MemKept ==
  ASSUME IInv, ControlOK, LaserInv, OverInv, MemInv, [ExperimentNext]_allVars
  PROVE  MemInv'
<1>0. run_start \in Nat /\ captured \in Nat  BY DEF ControlOK, IInv, TypeOK
<1>1. ASSUME CommandLine \/ TakeEnd \/ SetupBus \/ SetupRun \/ SetupLasers \/ StartTimer
      PROVE  MemInv'
  <2>1. /\ UNCHANGED <<run_start, captured, written, stored, fresh, data, task, recv_buf,
                       fram_queue, clean>>
        /\ \/ exp_pc' = exp_pc
           \/ exp_pc' \in Setup
           \/ exp_pc = "timer"
    BY <1>1 DEF CommandLine, CMD_Exp_Start, CMD_Exp_Start_Laser, CMD_Exp_End, SetProfile, TakeEnd,
       SetupBus, SetupRun, SetupLasers, StartTimer, bsp_psram_sw_mcu, bufferVars, filling, queues,
       memory, Setup
  <2>2. Waiting' = Waiting  BY <2>1 DEF Waiting, Writing
  <2>. QED  BY <2>1, <2>2, MemUnchanged DEF Setup
<1>2. ASSUME TC3_CH1_My_Handler PROVE MemInv'
  <2>1. UNCHANGED <<run_start, exp_pc>>  BY <1>2 DEF TC3_CH1_My_Handler
  <2>2. UNCHANGED <<captured, written, stored, fresh, data, task, recv_buf, fram_queue>>
    BY <1>2 DEF TC3_CH1_My_Handler, TickPre, TickMain, TickPost, TickDone, StopSampling,
       bsp_psram_sw_mpu, bufferVars, filling, queues, memory
  <2>3. clean' = clean  BY <1>2, TickRun
  <2>4. Waiting' = Waiting  BY <2>2 DEF Waiting, Writing
  <2>. QED  BY <2>1, <2>2, <2>3, <2>4, MemUnchanged
<1>3. ASSUME TakeRun PROVE MemInv'
  <2>1. exp_pc' = "mux" /\ written' = <<>> /\ UNCHANGED <<run_start, captured>>
    BY <1>3 DEF TakeRun, ResetAddress, filling
  <2>2. DOMAIN written' = {}  BY <2>1
  <2>3. InRun(written, run_start)'  BY <2>2 DEF InRun
  <2>. QED  BY <2>1, <2>3 DEF MemInv, Setup
<1>4. ASSUME StartRun PROVE MemInv'
  <2>1. /\ exp_pc = "sampling" /\ run_start' = captured
        /\ UNCHANGED <<captured, written, fresh, task, fram_queue, recv_buf, clean>>
    BY <1>4 DEF StartRun, StartSampling, filling, queues, memory
  <2>2. clean' /\ fresh' => written' = <<>> /\ PsramDone'
    BY <2>1 DEF OverInv, Setup, PsramDone
  <2>3. PsramDone' => Waiting' = {}  BY DEF PsramDone, Waiting, Writing, Range
  <2>4. clean' /\ fresh' => InRun(written, run_start)'  BY <2>2 DEF InRun
  <2>5. run_start' <= captured'  BY <2>1, <1>0
  <2>. QED  BY <2>2, <2>3, <2>4, <2>5 DEF MemInv
<1>5. ASSUME Acquire, SPI0_Handler PROVE MemInv'
  <2>1. captured' = captured + 1 /\ UNCHANGED <<written, stored, fresh>>
    BY <1>5, SampleKept
  <2>2. UNCHANGED <<run_start, exp_pc, clean>>  BY <1>5 DEF Acquire, control
  <2>3. clean => exp_pc \notin Setup  BY <1>5 DEF SPI0_Handler, OverInv, Setup
  <2>4. ASSUME clean, fresh, NEW b \in Waiting'  PROVE run_start < data'[b][0] + BUF_SIZE
    <3>1. CASE b \in Waiting /\ data'[b] = data[b]
      BY <2>3, <2>4, <3>1 DEF MemInv
    <3>2. CASE data'[b][0] + BUF_SIZE = captured + 1
      BY <1>0, <3>2 DEF MemInv
    <3>. QED  BY <1>5, <3>1, <3>2, SampleWaits
  <2>5. InRun(written, run_start)' <=> InRun(written, run_start)  BY <2>1, <2>2 DEF InRun
  <2>6. run_start' <= captured'  BY <1>0, <2>1, <2>2 DEF MemInv
  <2>. QED  BY <2>1, <2>2, <2>4, <2>5, <2>6 DEF MemInv
<1>6. ASSUME Acquire, APP_PSRAMTask PROVE MemInv'
  <2>1. UNCHANGED <<data, captured, fresh>>  BY <1>6, TaskStep
  <2>2. UNCHANGED <<run_start, exp_pc, clean>>  BY <1>6 DEF Acquire, control
  <2>3. clean /\ fresh => exp_pc \notin Setup
    <3>1. ~PsramDone
      BY <1>6 DEF APP_PSRAMTask, ReceiveBlock, StartWrite, FinishWrite, AdvanceAddress,
         ReturnBuffer, PsramDone
    <3>. QED  BY <3>1 DEF OverInv
  <2>4. CASE UNCHANGED <<written, stored>> /\ Waiting' = Waiting
    BY <2>1, <2>2, <2>4, MemUnchanged
  <2>5. ASSUME recv_buf \in Buffers, recv_buf \in Waiting, Waiting' = Waiting \ {recv_buf},
               stored' = data[recv_buf][0] + BUF_SIZE,
               NEW entry \in {data[recv_buf], Blank, Torn}, written' = Append(written, entry)
        PROVE  MemInv'
    <3>1. clean /\ fresh => /\ run_start < data[recv_buf][0] + BUF_SIZE
                            /\ InRun(Append(written, entry), run_start)
      BY <1>0, <2>3, <2>5, BlockLogged
    <3>2. InRun(written, run_start)' <=> InRun(Append(written, entry), run_start)
      BY <2>2, <2>5 DEF InRun
    <3>3. clean /\ fresh => \A b \in Waiting' : run_start < data[b][0] + BUF_SIZE
      BY <2>3, <2>5 DEF MemInv
    <3>. QED  BY <2>1, <2>2, <2>5, <3>1, <3>2, <3>3 DEF MemInv
  <2>. QED  BY <1>6, <2>4, <2>5, TaskStep
<1>7. ASSUME UNCHANGED allVars PROVE MemInv'
  <2>1. UNCHANGED <<run_start, captured, written, stored, fresh, data, task, recv_buf,
                    fram_queue, clean, exp_pc>>
    BY <1>7 DEF allVars, control, bufferVars, filling, queues, memory
  <2>2. Waiting' = Waiting  BY <2>1 DEF Waiting, Writing
  <2>. QED  BY <2>1, <2>2, MemUnchanged
<1>. QED
  BY <1>1, <1>2, <1>3, <1>4, <1>5, <1>6, <1>7 DEF ExperimentNext, App_EXPTask, Acquire

\* The memory holds the run's blocks at their addresses, also where it wrapped,
\* and what it holds of a run is of that run (app_experiment.c:93, 119, 228, 283).
THEOREM MemoryHoldsTheRun == ExperimentSpec => []MemoryHoldsRun
<1>1. Init => IInv /\ ControlOK  BY Initially, InitControl DEF Init
<1>2. Init => OverInv  BY DEF Init, experiment_init, OverInv, Setup
<1>3. Init => MemInv /\ MemoryHoldsLog
  <2>. SUFFICES ASSUME Init PROVE MemInv /\ MemoryHoldsLog  OBVIOUS
  <2>1. /\ run_start = 0 /\ captured = 0 /\ written = <<>> /\ psram_addr = 0
        /\ task = "receive" /\ fram_queue = <<>>
    BY DEF Init, experiment_init
  <2>2. Waiting = {}  BY <2>1 DEF Waiting, Writing, Range
  <2>3. DOMAIN written = {} /\ Len(written) = 0  BY <2>1
  <2>4. MemInv  BY <2>1, <2>2, <2>3 DEF MemInv, InRun
  <2>5. MemoryHoldsLog  BY <2>1, <2>3 DEF MemoryHoldsLog
  <2>. QED  BY <2>4, <2>5
<1>4. IInv /\ ControlOK /\ [ExperimentNext]_allVars => (IInv /\ ControlOK)'
  BY StepsOfBuffers, NextKeeps, ControlTypes DEF IInv
<1>5. IInv /\ ControlOK /\ LaserInv /\ OverInv /\ [ExperimentNext]_allVars => OverInv'
  BY OverKept DEF IInv
<1>6. IInv /\ ControlOK /\ LaserInv /\ OverInv /\ MemInv /\ [ExperimentNext]_allVars => MemInv'
  BY MemKept
<1>7. IInv /\ MemoryHoldsLog /\ [ExperimentNext]_allVars => MemoryHoldsLog'
  BY StepsOfBuffers, LogKept
<1>8. MemInv /\ MemoryHoldsLog => MemoryHoldsRun  BY DEF MemInv, MemoryHoldsRun, InRun
<1>. QED  BY <1>1, <1>2, <1>3, <1>4, <1>5, <1>6, <1>7, <1>8, LaserAlways, PTL DEF ExperimentSpec
================================================================================
