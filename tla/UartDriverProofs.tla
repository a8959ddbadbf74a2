--------------------------- MODULE UartDriverProofs ---------------------------
(***************************************************************************)
(* Proofs about RingBuffer and UartDriver, for rings of any size and any   *)
(* number of bytes.  The first part says what the operations of a ring do  *)
(* to its contents, the second what the driver makes of them.              *)
(***************************************************************************)
EXTENDS UartDriver, SequenceTheorems, TLAPS

------------------------------------------------------------------------------
(* What the operations of the ring do to its contents *)

\* The fields of a ring.
LEMMA RingFields ==
  ASSUME NEW size \in Nat, size > 0, NEW rb \in Rings(size)
  PROVE  /\ rb.max_size = size
         /\ rb.head \in 0..size - 1 /\ rb.tail \in 0..size - 1
         /\ rb.buffer \in [0..size - 1 -> Nat]
         /\ \A i \in 0..size - 1 :
              /\ Following(rb, i) \in 0..size - 1
              /\ Following(rb, i) = IF i + 1 = size THEN 0 ELSE i + 1
  BY DEF Rings, Following

\* The contents are a sequence, read slot by slot from the tail.
LEMMA RingContents ==
  ASSUME NEW size \in Nat, size > 0, NEW rb \in Rings(size)
  PROVE  /\ Held(rb) \in 0..size - 1
         /\ \A k \in 1..Held(rb) : Slot(rb, k) \in 0..size - 1
         /\ Contents(rb) \in Seq(Nat)
         /\ Len(Contents(rb)) = Held(rb)
         /\ \A k \in 1..Held(rb) : Contents(rb)[k] = rb.buffer[Slot(rb, k)]
<1>1. Held(rb) \in 0..size - 1
  BY RingFields DEF Held
<1>2. \A k \in 1..Held(rb) : Slot(rb, k) \in 0..size - 1
  <2>1. rb.max_size = size /\ rb.head \in 0..size - 1 /\ rb.tail \in 0..size - 1
    BY RingFields
  <2>2. TAKE k \in 1..Held(rb)
  <2>3. CASE rb.head >= rb.tail
    <3>1. k \in 1..rb.head - rb.tail
      BY <2>3 DEF Held
    <3>. QED BY <2>1, <2>3, <3>1 DEF Slot
  <2>4. CASE rb.head < rb.tail
    <3>1. k \in 1..size + rb.head - rb.tail
      BY <2>1, <2>4 DEF Held
    <3>. QED BY <2>1, <2>4, <3>1 DEF Slot
  <2>. QED BY <2>1, <2>3, <2>4
<1>3. \A k \in 1..Held(rb) : rb.buffer[Slot(rb, k)] \in Nat
  <2>1. rb.buffer \in [0..size - 1 -> Nat]
    BY RingFields
  <2>. QED BY <1>2, <2>1
<1>4. Contents(rb) \in [1..Held(rb) -> Nat]
  BY <1>3 DEF Contents
<1>5. Contents(rb) \in Seq(Nat) /\ Len(Contents(rb)) = Held(rb)
  BY <1>1, <1>4
<1>. QED
  BY <1>1, <1>2, <1>5 DEF Contents

\* One slot stays empty: the ring is full when the others are taken, empty when
\* none is, and RingBuffer_NumFreeSlots tells how many are left.
THEOREM RoomLeft ==
  ASSUME NEW size \in Nat, size > 0, NEW rb \in Rings(size)
  PROVE  /\ Full(rb) <=> Held(rb) = size - 1
         /\ Empty(rb) <=> Held(rb) = 0
         /\ NumFreeSlots(rb) = size - 1 - Held(rb)
<1>1. /\ rb.max_size = size /\ rb.head \in 0..size - 1 /\ rb.tail \in 0..size - 1
      /\ Following(rb, rb.head) = IF rb.head + 1 = size THEN 0 ELSE rb.head + 1
  BY RingFields
<1>2. Full(rb) <=> Held(rb) = size - 1
  <2>1. CASE rb.head + 1 = size
    BY <1>1, <2>1 DEF Full, Held
  <2>2. CASE rb.head + 1 # size
    BY <1>1, <2>2 DEF Full, Held
  <2>. QED BY <2>1, <2>2
<1>3. Empty(rb) <=> Held(rb) = 0
  BY <1>1 DEF Empty, Held
<1>4. NumFreeSlots(rb) = size - 1 - Held(rb)
  BY <1>1 DEF NumFreeSlots, Held
<1>. QED BY <1>2, <1>3, <1>4

\* A new ring is empty.
LEMMA NewRing ==
  ASSUME NEW size \in Nat, size > 0
  PROVE  /\ Create(size) \in Rings(size)
         /\ Empty(Create(size)) /\ Held(Create(size)) = 0 /\ Contents(Create(size)) = <<>>
<1>1. Create(size) \in Rings(size)
  BY DEF Create, Rings
<1>2. Held(Create(size)) = 0 /\ Empty(Create(size))
  BY DEF Create, Held, Empty
<1>3. Contents(Create(size)) \in Seq(Nat) /\ Len(Contents(Create(size))) = 0
  BY <1>1, <1>2, RingContents
<1>. QED
  BY <1>1, <1>2, <1>3, EmptySeq

\* Storing an element at the head changes nothing the ring holds.
LEMMA FillKeeps ==
  ASSUME NEW size \in Nat, size > 0, NEW rb \in Rings(size), NEW el \in Nat
  PROVE  /\ Fill(rb, el) \in Rings(size)
         /\ Fill(rb, el).head = rb.head /\ Fill(rb, el).tail = rb.tail
         /\ Fill(rb, el).buffer[rb.head] = el
         /\ Held(Fill(rb, el)) = Held(rb)
         /\ Contents(Fill(rb, el)) = Contents(rb)
         /\ Full(Fill(rb, el)) <=> Full(rb)
         /\ Empty(Fill(rb, el)) <=> Empty(rb)
<1>1. /\ Fill(rb, el) \in Rings(size)
      /\ Fill(rb, el).head = rb.head /\ Fill(rb, el).tail = rb.tail
      /\ Fill(rb, el).max_size = rb.max_size
      /\ Fill(rb, el).buffer = [rb.buffer EXCEPT ![rb.head] = el]
  BY RingFields DEF Fill, Rings
<1>2. Held(Fill(rb, el)) = Held(rb)
  BY <1>1 DEF Held
<1>3. \A k \in 1..Held(rb) : Slot(Fill(rb, el), k) = Slot(rb, k)
  BY <1>1 DEF Slot
<1>4. \A k \in 1..Held(rb) : Slot(rb, k) # rb.head
  BY RingFields DEF Slot, Held
<1>5. \A k \in 1..Held(rb) : Fill(rb, el).buffer[Slot(rb, k)] = rb.buffer[Slot(rb, k)]
  <2>1. TAKE k \in 1..Held(rb)
  <2>2. Slot(rb, k) \in 0..size - 1 /\ Slot(rb, k) # rb.head
    BY <1>4, RingContents
  <2>3. rb.buffer \in [0..size - 1 -> Nat]
    BY RingFields
  <2>. QED BY <1>1, <2>2, <2>3
<1>6. Contents(Fill(rb, el)) = Contents(rb)
  BY <1>2, <1>3, <1>5 DEF Contents
<1>7. Fill(rb, el).buffer[rb.head] = el
  <2>1. rb.head \in 0..size - 1 /\ rb.buffer \in [0..size - 1 -> Nat]
    BY RingFields
  <2>. QED BY <1>1, <2>1
<1>8. (Full(Fill(rb, el)) <=> Full(rb)) /\ (Empty(Fill(rb, el)) <=> Empty(rb))
  BY <1>1, <1>2, RoomLeft
<1>. QED
  BY <1>1, <1>2, <1>6, <1>7, <1>8

\* A ring stays one whatever slot its tail is moved to.
LEMMA AdvanceRing ==
  ASSUME NEW size \in Nat, size > 0, NEW rb \in Rings(size), NEW t \in 0..size - 1
  PROVE  Advance(rb, t) \in Rings(size)
  BY DEF Advance, Rings

\* Publishing the head appends the element stored there.
THEOREM PublishAppends ==
  ASSUME NEW size \in Nat, size > 0, NEW rb \in Rings(size), ~Full(rb)
  PROVE  /\ Publish(rb) \in Rings(size)
         /\ Publish(rb).tail = rb.tail /\ Publish(rb).buffer = rb.buffer
         /\ Held(Publish(rb)) = Held(rb) + 1
         /\ Contents(Publish(rb)) = Append(Contents(rb), rb.buffer[rb.head])
         /\ ~Empty(Publish(rb))
<1>1. /\ Publish(rb) \in Rings(size)
      /\ Publish(rb).tail = rb.tail /\ Publish(rb).buffer = rb.buffer
      /\ Publish(rb).max_size = size
      /\ Publish(rb).head = IF rb.head + 1 = size THEN 0 ELSE rb.head + 1
  BY RingFields DEF Publish, Rings
<1>2. Held(Publish(rb)) = Held(rb) + 1
  <2>1. /\ rb.max_size = size /\ rb.head \in 0..size - 1 /\ rb.tail \in 0..size - 1
        /\ (IF rb.head + 1 = size THEN 0 ELSE rb.head + 1) # rb.tail
    BY RingFields DEF Full
  <2>2. CASE rb.head + 1 = size
    BY <1>1, <2>1, <2>2 DEF Held
  <2>3. CASE rb.head + 1 # size
    BY <1>1, <2>1, <2>3 DEF Held
  <2>. QED BY <2>2, <2>3
<1>3. \A k \in 1..Held(rb) + 1 : Slot(Publish(rb), k) = Slot(rb, k)
  BY <1>1, RingFields DEF Slot
<1>4. Slot(rb, Held(rb) + 1) = rb.head
  <2>1. rb.max_size = size /\ rb.head \in 0..size - 1 /\ rb.tail \in 0..size - 1
    BY RingFields
  <2>2. CASE rb.head >= rb.tail
    BY <2>1, <2>2 DEF Slot, Held
  <2>3. CASE rb.head < rb.tail
    BY <2>1, <2>3 DEF Slot, Held
  <2>. QED BY <2>1, <2>2, <2>3
<1>5. /\ Contents(Publish(rb)) \in Seq(Nat)
      /\ Len(Contents(Publish(rb))) = Held(rb) + 1
      /\ \A k \in 1..Held(rb) + 1 : Contents(Publish(rb))[k] = rb.buffer[Slot(rb, k)]
  <2> DEFINE new == Publish(rb)
  <2>1. new \in Rings(size) /\ new.buffer = rb.buffer /\ Held(new) = Held(rb) + 1
    BY <1>1, <1>2
  <2>. HIDE DEF new
  <2>2. /\ Contents(new) \in Seq(Nat) /\ Len(Contents(new)) = Held(new)
        /\ \A k \in 1..Held(new) : Contents(new)[k] = new.buffer[Slot(new, k)]
    BY <2>1, RingContents
  <2>3. \A k \in 1..Held(rb) + 1 : Slot(new, k) = Slot(rb, k)
    BY <1>3 DEF new
  <2>4. /\ Contents(new) \in Seq(Nat) /\ Len(Contents(new)) = Held(rb) + 1
        /\ \A k \in 1..Held(rb) + 1 : Contents(new)[k] = rb.buffer[Slot(rb, k)]
    BY <2>1, <2>2, <2>3
  <2>. QED BY <2>4 DEF new
<1>6. rb.buffer[rb.head] \in Nat
  BY RingFields
<1>7. /\ Append(Contents(rb), rb.buffer[rb.head]) \in Seq(Nat)
      /\ Len(Append(Contents(rb), rb.buffer[rb.head])) = Held(rb) + 1
      /\ \A k \in 1..Held(rb) :
           Append(Contents(rb), rb.buffer[rb.head])[k] = rb.buffer[Slot(rb, k)]
      /\ Append(Contents(rb), rb.buffer[rb.head])[Held(rb) + 1] = rb.buffer[rb.head]
  BY <1>6, RingContents, AppendProperties
<1>8. \A k \in 1..Held(rb) + 1 :
        Contents(Publish(rb))[k] = Append(Contents(rb), rb.buffer[rb.head])[k]
  <2>1. TAKE k \in 1..Held(rb) + 1
  <2>2. Contents(Publish(rb))[k] = rb.buffer[Slot(rb, k)]
    BY <1>5, <2>1
  <2>3. CASE k = Held(rb) + 1
    BY <1>4, <1>7, <2>2, <2>3
  <2>4. CASE k # Held(rb) + 1
    <3>1. Held(rb) \in Nat
      BY RingContents
    <3>2. k \in 1..Held(rb)
      BY <2>1, <2>4, <3>1
    <3>. QED BY <1>7, <2>2, <3>2
  <2>. QED BY <2>3, <2>4
<1>9. Contents(Publish(rb)) = Append(Contents(rb), rb.buffer[rb.head])
  BY <1>5, <1>7, <1>8, SeqEqual
<1>10. ~Empty(Publish(rb))
  BY <1>1, <1>2, RoomLeft, RingContents
<1>. QED
  BY <1>1, <1>2, <1>9, <1>10

\* RingBuffer_Put appends its element, and RingBuffer_Get's next element stays.
THEOREM PutAppends ==
  ASSUME NEW size \in Nat, size > 0, NEW rb \in Rings(size), NEW el \in Nat, ~Full(rb)
  PROVE  /\ Put(rb, el) \in Rings(size)
         /\ Put(rb, el).tail = rb.tail
         /\ Held(Put(rb, el)) = Held(rb) + 1
         /\ Contents(Put(rb, el)) = Append(Contents(rb), el)
         /\ ~Empty(Put(rb, el))
         /\ ~Empty(rb) => Front(Put(rb, el)) = Front(rb)
<1> DEFINE filled == Fill(rb, el)
<1>1. /\ filled \in Rings(size) /\ filled.head = rb.head /\ filled.tail = rb.tail
      /\ filled.buffer[rb.head] = el /\ ~Full(filled)
      /\ Held(filled) = Held(rb) /\ Contents(filled) = Contents(rb)
  BY FillKeeps
<1>2. /\ Publish(filled) \in Rings(size)
      /\ Publish(filled).tail = rb.tail
      /\ Held(Publish(filled)) = Held(rb) + 1
      /\ Contents(Publish(filled)) = Append(Contents(rb), el)
      /\ ~Empty(Publish(filled))
      /\ Publish(filled).buffer = filled.buffer
  BY <1>1, PublishAppends
<1>3. ~Empty(rb) => filled.buffer[rb.tail] = rb.buffer[rb.tail]
  BY RingFields DEF Fill, Empty, Rings
<1>. QED
  BY <1>2, <1>3 DEF Put, Front

\* RingBuffer_Get takes the oldest element.
THEOREM GetTakes ==
  ASSUME NEW size \in Nat, size > 0, NEW rb \in Rings(size), ~Empty(rb)
  PROVE  /\ Get(rb) \in Rings(size) /\ Front(rb) \in Nat
         /\ Get(rb).head = rb.head /\ Get(rb).buffer = rb.buffer
         /\ Held(Get(rb)) = Held(rb) - 1
         /\ Contents(rb) = <<Front(rb)>> \o Contents(Get(rb))
         /\ ~Full(Get(rb))
<1>1. /\ Get(rb) \in Rings(size)
      /\ Get(rb).head = rb.head /\ Get(rb).buffer = rb.buffer /\ Get(rb).max_size = size
      /\ Get(rb).tail = IF rb.tail + 1 = size THEN 0 ELSE rb.tail + 1
  BY RingFields DEF Get, Advance, Rings
<1>0. /\ rb.max_size = size /\ rb.head \in 0..size - 1 /\ rb.tail \in 0..size - 1
      /\ rb.head # rb.tail
  BY RingFields DEF Empty
<1>2. Held(Get(rb)) = Held(rb) - 1
  <2>1. CASE rb.tail + 1 = size
    BY <1>0, <1>1, <2>1 DEF Held
  <2>2. CASE rb.tail + 1 # size
    BY <1>0, <1>1, <2>2 DEF Held
  <2>. QED BY <2>1, <2>2
<1>3. \A k \in 1..Held(rb) - 1 : Slot(Get(rb), k) = Slot(rb, k + 1)
  <2>1. TAKE k \in 1..Held(rb) - 1
  <2>2. k \in Nat /\ k >= 1 /\ Held(rb) \in Nat /\ k < Held(rb) /\ Held(rb) <= size - 1
    BY RingContents
  <2>3. CASE rb.tail + 1 = size
    <3>1. Get(rb).tail = 0 /\ rb.tail = size - 1 /\ Get(rb).max_size = size
      BY <1>0, <1>1, <2>3
    <3>2. Slot(Get(rb), k) = k - 1
      BY <2>2, <3>1 DEF Slot
    <3>3. Slot(rb, k + 1) = k - 1
      BY <1>0, <2>2, <3>1 DEF Slot
    <3>. QED BY <3>2, <3>3
  <2>4. CASE rb.tail + 1 # size
    BY <1>0, <1>1, <2>2, <2>4 DEF Slot
  <2>. QED BY <2>3, <2>4
<1>4. Slot(rb, 1) = rb.tail
  BY RingFields DEF Slot
<1>5. Front(rb) \in Nat
  BY RingFields DEF Front
<1> DEFINE rest == Contents(Get(rb))
<1>6. /\ rest \in Seq(Nat) /\ Len(rest) = Held(rb) - 1
      /\ \A k \in 1..Held(rb) - 1 : rest[k] = rb.buffer[Slot(rb, k + 1)]
  BY <1>1, <1>2, <1>3, RingContents
<1>7. /\ <<Front(rb)>> \o rest \in Seq(Nat)
      /\ Len(<<Front(rb)>> \o rest) = Held(rb)
      /\ \A k \in 1..Held(rb) :
           (<<Front(rb)>> \o rest)[k] = IF k = 1 THEN Front(rb) ELSE rest[k - 1]
  <2>1. <<Front(rb)>> \in Seq(Nat) /\ Len(<<Front(rb)>>) = 1 /\ <<Front(rb)>>[1] = Front(rb)
    BY <1>5
  <2>. QED
    BY <1>6, <2>1, RingContents, ConcatProperties
<1>8. \A k \in 1..Held(rb) : Contents(rb)[k] = (<<Front(rb)>> \o rest)[k]
  <2>1. TAKE k \in 1..Held(rb)
  <2>2. Contents(rb)[k] = rb.buffer[Slot(rb, k)] /\ Held(rb) \in Nat
    <3>1. \A i \in 1..Held(rb) : Contents(rb)[i] = rb.buffer[Slot(rb, i)]
      BY RingContents
    <3>2. Held(rb) \in 0..size - 1
      BY RingContents
    <3>. QED BY <2>1, <3>1, <3>2
  <2>3. CASE k = 1
    BY <1>4, <1>7, <2>2, <2>3 DEF Front
  <2>4. CASE k # 1
    <3>1. k - 1 \in 1..Held(rb) - 1
      BY <2>2, <2>4
    <3>2. rest[k - 1] = rb.buffer[Slot(rb, (k - 1) + 1)]
      BY <1>6, <3>1
    <3>3. (k - 1) + 1 = k
      BY <2>2
    <3>. QED BY <1>7, <2>2, <2>4, <3>2, <3>3
  <2>. QED BY <2>3, <2>4
<1>9. Contents(rb) = <<Front(rb)>> \o rest
  <2>1. Contents(rb) \in Seq(Nat) /\ Len(Contents(rb)) = Held(rb)
    BY RingContents
  <2>. QED BY <1>7, <1>8, <2>1, SeqEqual
<1>10. ~Full(Get(rb))
  BY <1>1, <1>2, RoomLeft, RingContents
<1>. QED
  BY <1>1, <1>2, <1>5, <1>9, <1>10

------------------------------------------------------------------------------
(* The driver *)

USE UartAssumption

(***************************************************************************)
(* The inductive invariant, beside the properties themselves.              *)
(***************************************************************************)
\* A write in progress has a byte to store, room for it once it has looked, and
\* the byte in the slot it is about to publish.
StoringInv ==
  /\ pc \in Storing => left > 0
  /\ pc = "publish" => ~Full(tx) /\ tx.buffer[tx.head] = accepted + 1

\* The tail a RingBuffer_Get of the task is about to store.  Only the task takes from
\* the receive ring, so what it copied from there stays the oldest element.
TakingInv ==
  /\ pc = "advance" => new_tail \in 0..TxSize - 1
  /\ pc \in Reading => ~Empty(rx)
  /\ pc = "store" => hand = Front(rx) /\ new_tail = Following(rx, rx.tail)

\* tx_busy is only ever set by a task that goes on to unmask the interrupt.
StartedInv == tx_busy /\ pc \notin {"send", "load", "enable"} => tx_irq

\* As long as no callback has run with its interrupt masked in a write, a driver that
\* is not busy has nothing in the holding register and no interrupt, and
\* UART_Driver_StartTx has transmitter and ring to itself.
Owns ==
  clean =>
    /\ ~tx_busy => thr = NoByte /\ ~tx_irq
    /\ pc \in {"get", "advance", "busy"} => ~tx_busy
    /\ pc \in {"send", "load"} => tx_busy /\ ~tx_irq /\ thr = NoByte
    /\ pc = "enable" => tx_busy /\ ~tx_irq
    /\ pc = "advance" => ~Empty(tx) /\ hand = Front(tx) /\ new_tail = Following(tx, tx.tail)

\* The bytes the receiver still knows of are numbers of bytes that arrived.
Incoming == received \o Contents(rx) \o One(rhr)
Bounded(s, n) == \A i \in 1..Len(s) : s[i] \in 1..n
ReceivedBound == Bounded(Incoming, arrived)

IInv ==
  /\ UartTypeOK /\ StoringInv /\ TakingInv
  /\ StartedInv /\ NeverStranded /\ Owns
  /\ BytesInOrder
  /\ ReceivedInOrder /\ ReceivedBound

-------------------------------------------------------------------------------
(* Types, and where the task stands.                                         *)

LEMMA InitTypes == Init => UartTypeOK /\ StoringInv /\ TakingInv
<1>1. /\ Create(TxSize) \in Rings(TxSize) /\ Create(RxSize) \in Rings(RxSize)
  BY NewRing
<1>2. ASSUME Init PROVE UartTypeOK
  <2>1. tx \in Rings(TxSize) /\ rx \in Rings(RxSize)
    BY <1>1, <1>2 DEF Init
  <2>2. sent \in Seq(Nat) /\ received \in Seq(Nat)
    BY <1>2, EmptySeq DEF Init
  <2>3. thr \in Nat /\ rhr \in Nat /\ hand \in Nat
    BY <1>2 DEF Init, NoByte
  <2>. QED BY <1>2, <2>1, <2>2, <2>3 DEF Init, UartTypeOK
<1>3. Init => StoringInv /\ TakingInv
  BY DEF Init, StoringInv, TakingInv, Storing, Reading
<1>. QED BY <1>2, <1>3

\* What the operations make of the two rings.
LEMMA RingsOfTask ==
  ASSUME UartTypeOK, StoringInv, TakingInv
  PROVE  /\ Fill(tx, accepted + 1) \in Rings(TxSize)
         /\ Fill(tx, accepted + 1).buffer[tx.head] = accepted + 1
         /\ Fill(tx, accepted + 1).head = tx.head
         /\ Full(Fill(tx, accepted + 1)) <=> Full(tx)
         /\ Empty(Fill(tx, accepted + 1)) <=> Empty(tx)
         /\ Contents(Fill(tx, accepted + 1)) = Contents(tx)
         /\ pc = "publish" => /\ Publish(tx) \in Rings(TxSize) /\ ~Empty(Publish(tx))
                              /\ Contents(Publish(tx)) = Append(Contents(tx), accepted + 1)
         /\ pc = "advance" => Advance(tx, new_tail) \in Rings(TxSize)
         /\ pc = "store" => Advance(rx, new_tail) = Get(rx)
         /\ Front(tx) \in Nat /\ Front(rx) \in Nat
         /\ Following(tx, tx.tail) \in 0..TxSize - 1 /\ Following(rx, rx.tail) \in 0..RxSize - 1
<1>1. /\ TxSize > 0 /\ RxSize > 0 /\ TxSize \in Nat /\ RxSize \in Nat
      /\ tx \in Rings(TxSize) /\ rx \in Rings(RxSize)
      /\ accepted + 1 \in Nat
  BY DEF UartTypeOK
<1>2. /\ Fill(tx, accepted + 1) \in Rings(TxSize)
      /\ Fill(tx, accepted + 1).buffer[tx.head] = accepted + 1
      /\ Fill(tx, accepted + 1).head = tx.head
      /\ Full(Fill(tx, accepted + 1)) <=> Full(tx)
      /\ Empty(Fill(tx, accepted + 1)) <=> Empty(tx)
      /\ Contents(Fill(tx, accepted + 1)) = Contents(tx)
  BY <1>1, FillKeeps
<1>3. ASSUME pc = "publish"
      PROVE  /\ Publish(tx) \in Rings(TxSize) /\ ~Empty(Publish(tx))
             /\ Contents(Publish(tx)) = Append(Contents(tx), accepted + 1)
  <2>1. ~Full(tx) /\ tx.buffer[tx.head] = accepted + 1
    BY <1>3 DEF StoringInv
  <2>. QED BY <1>1, <2>1, PublishAppends
<1>4. ASSUME pc = "advance" PROVE Advance(tx, new_tail) \in Rings(TxSize)
  <2>1. new_tail \in 0..TxSize - 1
    BY <1>4 DEF TakingInv
  <2>. QED BY <1>1, <2>1, AdvanceRing
<1>5. ASSUME pc = "store" PROVE Advance(rx, new_tail) = Get(rx)
  BY <1>5 DEF TakingInv, Get
<1>6. /\ tx.tail \in 0..TxSize - 1 /\ tx.buffer \in [0..TxSize - 1 -> Nat]
      /\ rx.tail \in 0..RxSize - 1 /\ rx.buffer \in [0..RxSize - 1 -> Nat]
      /\ Following(tx, tx.tail) \in 0..TxSize - 1 /\ Following(rx, rx.tail) \in 0..RxSize - 1
  BY <1>1, RingFields
<1>7. Front(tx) \in Nat /\ Front(rx) \in Nat
  BY <1>6 DEF Front
<1>. QED BY <1>2, <1>3, <1>4, <1>5, <1>6, <1>7

\* What the interrupt makes of them.
LEMMA RingsOfInterrupt ==
  ASSUME UartTypeOK, Interrupt
  PROVE  /\ tx' \in Rings(TxSize) /\ rx' \in Rings(RxSize)
         /\ tx' = tx \/ (~Empty(tx) /\ tx' = Get(tx))
         /\ tx'.head = tx.head /\ tx'.buffer = tx.buffer
         /\ ~Full(tx) => ~Full(tx')
         /\ rx' = rx \/ (~Full(rx) /\ rx' = Put(rx, rhr))
         /\ rx'.tail = rx.tail /\ Following(rx', rx'.tail) = Following(rx, rx.tail)
         /\ ~Empty(rx) => ~Empty(rx') /\ Front(rx') = Front(rx)
<1>1. /\ TxSize > 0 /\ RxSize > 0 /\ TxSize \in Nat /\ RxSize \in Nat
      /\ tx \in Rings(TxSize) /\ rx \in Rings(RxSize) /\ rhr \in Nat
  BY DEF UartTypeOK
<1>2. tx' = tx \/ (~Empty(tx) /\ tx' = Get(tx))
  BY DEF Interrupt, TxCallback
<1>3. rx' = rx \/ (~Full(rx) /\ rx' = Put(rx, rhr))
  BY DEF Interrupt, RxCallback
<1>4. /\ tx' \in Rings(TxSize) /\ tx'.head = tx.head /\ tx'.buffer = tx.buffer
      /\ ~Full(tx) => ~Full(tx')
  BY <1>1, <1>2, GetTakes
<1>5. /\ rx' \in Rings(RxSize) /\ rx'.tail = rx.tail
      /\ ~Empty(rx) => ~Empty(rx') /\ Front(rx') = Front(rx)
  BY <1>1, <1>3, PutAppends
<1>6. Following(rx', rx'.tail) = Following(rx, rx.tail)
  BY <1>1, <1>5, RingFields DEF Following
<1>. QED BY <1>2, <1>3, <1>4, <1>5, <1>6

\* A step that leaves the rings alone keeps what is said of them.
LEMMA TypesKept ==
  ASSUME UartTypeOK, StoringInv, TakingInv, [Next]_vars
  PROVE  UartTypeOK' /\ StoringInv' /\ TakingInv'
<1>. USE DEF Storing, Starting, Reading
<1>1. CASE \E n \in 1..MaxWrite : Write(n)
  BY <1>1 DEF Write, UartTypeOK, StoringInv, TakingInv, line_vars, driver_vars
<1>2. CASE Read
  BY <1>2 DEF Read, UartTypeOK, StoringInv, TakingInv, line_vars, driver_vars
<1>3. CASE PutElement
  <2>1. tx' \in Rings(TxSize) /\ ~Full(tx') /\ tx'.buffer[tx'.head] = accepted + 1
    BY <1>3, RingsOfTask DEF PutElement
  <2>. QED BY <1>3, <2>1 DEF PutElement, UartTypeOK, StoringInv, TakingInv, line_vars
<1>4. CASE GiveUp
  BY <1>4 DEF GiveUp, UartTypeOK, StoringInv, TakingInv, line_vars, driver_vars
<1>5. CASE PublishElement
  <2>1. tx' \in Rings(TxSize)
    BY <1>5, RingsOfTask DEF PublishElement
  <2>. QED BY <1>5, <2>1 DEF PublishElement, UartTypeOK, StoringInv, TakingInv, line_vars
<1>6. CASE TestBusy
  BY <1>6 DEF TestBusy, UartTypeOK, StoringInv, TakingInv, line_vars, driver_vars
<1>7. CASE TakeElement
  <2>1. Front(tx) \in Nat /\ Following(tx, tx.tail) \in 0..TxSize - 1
    BY RingsOfTask
  <2>. QED
    BY <1>7, <2>1 DEF TakeElement, UartTypeOK, StoringInv, TakingInv, line_vars, driver_vars
<1>8. CASE StoreTail
  <2>1. tx' \in Rings(TxSize)
    BY <1>8, RingsOfTask DEF StoreTail
  <2>. QED BY <1>8, <2>1 DEF StoreTail, UartTypeOK, StoringInv, TakingInv, line_vars
<1>9. CASE SetBusy
  BY <1>9 DEF SetBusy, UartTypeOK, StoringInv, TakingInv, line_vars
<1>10. CASE TestReady
  BY <1>10 DEF TestReady, UartTypeOK, StoringInv, TakingInv, line_vars, driver_vars
<1>11. CASE LoadHolding
  BY <1>11 DEF LoadHolding, UartTypeOK, StoringInv, TakingInv, driver_vars
<1>12. CASE EnableTx
  BY <1>12 DEF EnableTx, UartTypeOK, StoringInv, TakingInv, line_vars
<1>13. CASE CopyElement
  <2>1. Front(rx) \in Nat /\ Following(rx, rx.tail) \in Nat
    BY RingsOfTask
  <2>. QED
    BY <1>13, <2>1 DEF CopyElement, UartTypeOK, StoringInv, TakingInv, line_vars, driver_vars
<1>14. CASE StoreRxTail
  <2>1. rx' \in Rings(RxSize)
    <3>1. rx' = Get(rx) /\ ~Empty(rx)
      BY <1>14, RingsOfTask DEF StoreRxTail, TakingInv
    <3>2. RxSize \in Nat /\ RxSize > 0 /\ rx \in Rings(RxSize)
      BY DEF UartTypeOK
    <3>. QED BY <3>1, <3>2, GetTakes
  <2>2. received' \in Seq(Nat)
    BY <1>14, AppendProperties DEF StoreRxTail, UartTypeOK
  <2>. QED BY <1>14, <2>1, <2>2 DEF StoreRxTail, UartTypeOK, StoringInv, TakingInv, line_vars
<1>15. CASE Interrupt
  <2>1. /\ tx' \in Rings(TxSize) /\ rx' \in Rings(RxSize)
        /\ tx'.head = tx.head /\ tx'.buffer = tx.buffer /\ (~Full(tx) => ~Full(tx'))
        /\ Following(rx', rx'.tail) = Following(rx, rx.tail)
        /\ ~Empty(rx) => ~Empty(rx') /\ Front(rx') = Front(rx)
    BY <1>15, RingsOfInterrupt
  <2>2. /\ tx_busy' \in BOOLEAN /\ tx_irq' \in BOOLEAN /\ line_error' \in BOOLEAN
        /\ clean' \in BOOLEAN
    BY <1>15 DEF Interrupt, RxCallback, TxCallback, UartTypeOK
  <2>3. thr' \in Nat /\ rhr' \in Nat /\ rx_overflow_count' \in Nat /\ flushed' \in Nat
    <3>1. Front(tx) \in Nat
      BY RingsOfTask
    <3>. QED BY <1>15, <3>1 DEF Interrupt, RxCallback, TxCallback, UartTypeOK, NoByte
  <2>4. UartTypeOK'
    BY <1>15, <2>1, <2>2, <2>3 DEF Interrupt, UartTypeOK, task_vars
  <2>. QED BY <1>15, <2>1, <2>4 DEF Interrupt, StoringInv, TakingInv, task_vars
<1>16. CASE Transmit
  <2>1. sent' \in Seq(Nat)
    BY <1>16, AppendProperties DEF Transmit, UartTypeOK
  <2>. QED
    BY <1>16, <2>1 DEF Transmit, UartTypeOK, StoringInv, TakingInv, NoByte, driver_vars, task_vars
<1>17. CASE \E bad \in BOOLEAN : Arrive(bad)
  BY <1>17 DEF Arrive, UartTypeOK, StoringInv, TakingInv, driver_vars, task_vars
<1>18. CASE UNCHANGED vars
  BY <1>18 DEF UartTypeOK, StoringInv, TakingInv, vars, line_vars, driver_vars, task_vars
<1>. QED
  BY <1>1, <1>2, <1>3, <1>4, <1>5, <1>6, <1>7, <1>8, <1>9, <1>10, <1>11, <1>12, <1>13,
     <1>14, <1>15, <1>16, <1>17, <1>18
     DEF Next, Continue, StartTx

-------------------------------------------------------------------------------
(* Who holds the transmitter.                                                *)

LEMMA ControlKept ==
  ASSUME UartTypeOK, StoringInv, TakingInv, StartedInv, NeverStranded, Owns, [Next]_vars
  PROVE  StartedInv' /\ NeverStranded' /\ Owns'
<1>. USE DEF Storing, Starting
<1>1. CASE \E n \in 1..MaxWrite : Write(n)
  BY <1>1 DEF Write, StartedInv, NeverStranded, Owns, line_vars, driver_vars
<1>2. CASE Read
  BY <1>2 DEF Read, StartedInv, NeverStranded, Owns, line_vars, driver_vars
<1>3. CASE PutElement
  <2>1. Empty(tx') <=> Empty(tx)
    BY <1>3, RingsOfTask DEF PutElement
  <2>. QED BY <1>3, <2>1 DEF PutElement, StartedInv, NeverStranded, Owns, line_vars
<1>4. CASE GiveUp
  <2>1. ~Empty(tx)
    <3>1. TxSize \in Nat /\ TxSize > 0 /\ tx \in Rings(TxSize) /\ Full(tx)
      BY <1>4 DEF GiveUp, UartTypeOK
    <3>2. Held(tx) = TxSize - 1 /\ (Empty(tx) <=> Held(tx) = 0)
      BY <3>1, RoomLeft
    <3>. QED BY <3>2
  <2>2. written \in Nat
    BY DEF UartTypeOK
  <2>. QED
    BY <1>4, <2>1, <2>2 DEF GiveUp, StartedInv, NeverStranded, Owns, line_vars, driver_vars
<1>5. CASE PublishElement
  <2>1. written \in Nat
    BY DEF UartTypeOK
  <2>. QED BY <1>5, <2>1 DEF PublishElement, StartedInv, NeverStranded, Owns, line_vars
<1>6. CASE TestBusy
  BY <1>6 DEF TestBusy, StartedInv, NeverStranded, Owns, line_vars, driver_vars
<1>7. CASE TakeElement
  BY <1>7 DEF TakeElement, StartedInv, NeverStranded, Owns, line_vars, driver_vars
<1>8. CASE StoreTail
  BY <1>8 DEF StoreTail, StartedInv, NeverStranded, Owns, line_vars
<1>9. CASE SetBusy
  BY <1>9 DEF SetBusy, StartedInv, NeverStranded, Owns, line_vars
<1>10. CASE TestReady
  BY <1>10 DEF TestReady, StartedInv, NeverStranded, Owns, line_vars, driver_vars
<1>11. CASE LoadHolding
  BY <1>11 DEF LoadHolding, StartedInv, NeverStranded, Owns, driver_vars
<1>12. CASE EnableTx
  BY <1>12 DEF EnableTx, StartedInv, NeverStranded, Owns, line_vars
<1>13. CASE CopyElement
  BY <1>13 DEF CopyElement, StartedInv, NeverStranded, Owns, line_vars, driver_vars
<1>14. CASE StoreRxTail
  BY <1>14 DEF StoreRxTail, StartedInv, NeverStranded, Owns, line_vars
<1>15. CASE Interrupt
  <2>1. /\ pc' = pc /\ written' = written /\ hand' = hand /\ new_tail' = new_tail
        /\ clean' = (clean /\ (tx_irq \/ thr # NoByte \/ pc \notin Storing \cup Starting))
    BY <1>15 DEF Interrupt, task_vars
  <2>2. CASE thr # NoByte
    <3>1. tx' = tx /\ tx_irq' = tx_irq /\ tx_busy' = tx_busy /\ thr' = thr
      BY <1>15, <2>2 DEF Interrupt, TxCallback
    <3>. QED BY <2>1, <2>2, <3>1 DEF StartedInv, NeverStranded, Owns
  <2>3. CASE thr = NoByte /\ Empty(tx)
    <3>1. tx' = tx /\ tx_irq' = FALSE /\ tx_busy' = FALSE /\ thr' = thr
      BY <1>15, <2>3 DEF Interrupt, TxCallback
    <3>. QED BY <2>1, <2>3, <3>1 DEF StartedInv, NeverStranded, Owns
  <2>4. CASE thr = NoByte /\ ~Empty(tx)
    <3>1. tx_irq' = tx_irq /\ tx_busy' = tx_busy
      BY <1>15, <2>4 DEF Interrupt, TxCallback
    <3>. QED BY <2>1, <2>4, <3>1 DEF StartedInv, NeverStranded, Owns
  <2>. QED BY <2>2, <2>3, <2>4
<1>16. CASE Transmit
  BY <1>16 DEF Transmit, StartedInv, NeverStranded, Owns, driver_vars, task_vars
<1>17. CASE \E bad \in BOOLEAN : Arrive(bad)
  BY <1>17 DEF Arrive, StartedInv, NeverStranded, Owns, driver_vars, task_vars
<1>18. CASE UNCHANGED vars
  BY <1>18 DEF StartedInv, NeverStranded, Owns, vars, line_vars, driver_vars, task_vars
<1>. QED
  BY <1>1, <1>2, <1>3, <1>4, <1>5, <1>6, <1>7, <1>8, <1>9, <1>10, <1>11, <1>12, <1>13,
     <1>14, <1>15, <1>16, <1>17, <1>18
     DEF Next, Continue, StartTx

-------------------------------------------------------------------------------
(* The way of the bytes: handing one on from one place to the next leaves    *)
(* the whole as it was.                                                      *)

LEMMA Handing ==
  ASSUME NEW s \in Seq(Nat), NEW t \in Seq(Nat), NEW x \in Nat
  PROVE  /\ ((s \o <<>>) \o <<>>) \o (<<x>> \o t) = ((s \o <<>>) \o <<x>>) \o t
         /\ ((s \o <<>>) \o <<>>) \o (<<x>> \o t) = ((s \o <<x>>) \o <<>>) \o t
         /\ ((s \o <<>>) \o <<x>>) \o t = ((s \o <<x>>) \o <<>>) \o t
<1>1. <<x>> \in Seq(Nat) /\ s \o <<x>> \in Seq(Nat)
  BY ConcatProperties
<1>2. s \o <<>> = s /\ (s \o <<x>>) \o <<>> = s \o <<x>>
  BY <1>1, ConcatEmptySeq
<1>3. (s \o <<x>>) \o t = s \o (<<x>> \o t)
  BY <1>1, ConcatAssociative
<1>. QED BY <1>2, <1>3

LEMMA Leaving ==
  ASSUME NEW s \in Seq(Nat), NEW x \in Nat
  PROVE  s \o <<x>> = Append(s, x) \o <<>>
<1>1. Append(s, x) \in Seq(Nat) /\ Append(s, x) = s \o <<x>>
  BY AppendProperties, AppendIsConcat
<1>. QED BY <1>1, ConcatEmptySeq

LEMMA Entering ==
  ASSUME NEW s \in Seq(Nat), NEW t \in Seq(Nat), NEW x \in Nat
  PROVE  s \o Append(t, x) = Append(s \o t, x)
<1>1. <<x>> \in Seq(Nat) /\ s \o t \in Seq(Nat)
  BY ConcatProperties
<1>2. Append(t, x) = t \o <<x>> /\ Append(s \o t, x) = (s \o t) \o <<x>>
  BY <1>1, AppendIsConcat
<1>. QED BY <1>1, <1>2, ConcatAssociative

\* A byte among all those accepted has a number.
LEMMA Numbered ==
  ASSUME NEW n \in Nat, NEW s \in Seq(Nat), NEW t \in Seq(Nat), NEW x \in Nat,
         (s \o <<x>>) \o t = [i \in 1..n |-> i]
  PROVE  x # NoByte
<1> DEFINE head == s \o <<x>>
           all == head \o t
<1>1. /\ head \in Seq(Nat) /\ Len(head) = Len(s) + 1 /\ head[Len(s) + 1] = x
  <2>1. <<x>> \in Seq(Nat) /\ Len(<<x>>) = 1 /\ <<x>>[1] = x
    OBVIOUS
  <2>2. Len(s) \in Nat
    OBVIOUS
  <2>. QED BY <2>1, <2>2, ConcatProperties
<1>2. /\ all \in Seq(Nat) /\ Len(all) = Len(head) + Len(t) /\ Len(t) \in Nat /\ Len(s) \in Nat
      /\ \A i \in 1..Len(head) + Len(t) : all[i] = IF i <= Len(head) THEN head[i] ELSE t[i - Len(head)]
  BY <1>1, ConcatProperties
<1>3. all[Len(s) + 1] = x
  BY <1>1, <1>2
<1>4. DOMAIN all = 1..n /\ \A i \in 1..n : all[i] = i
  OBVIOUS
<1>5. Len(s) + 1 \in 1..n
  BY <1>1, <1>2, <1>4
<1>. QED BY <1>3, <1>4, <1>5, <1>2 DEF NoByte

LEMMA SameBytes ==
  ASSUME BytesInOrder, clean' => clean, accepted' = accepted, sent' = sent, thr' = thr,
         InHand' = InHand, Contents(tx') = Contents(tx)
  PROVE  BytesInOrder'
<1>1. One(thr') = One(thr)
  OBVIOUS
<1>. QED BY <1>1 DEF BytesInOrder

LEMMA BytesKept ==
  ASSUME UartTypeOK, StoringInv, TakingInv, NeverStranded, Owns, BytesInOrder, [Next]_vars
  PROVE  BytesInOrder'
<1>. USE DEF Storing, Starting
<1>a. /\ TxSize \in Nat /\ TxSize > 0 /\ tx \in Rings(TxSize)
      /\ sent \in Seq(Nat) /\ thr \in Nat /\ hand \in Nat /\ accepted \in Nat
  BY DEF UartTypeOK
<1>b. Contents(tx) \in Seq(Nat)
  BY <1>a, RingContents
<1>c. One(thr) \in Seq(Nat) /\ InHand \in Seq(Nat)
  BY <1>a DEF One, InHand
<1>1. CASE \E n \in 1..MaxWrite : Write(n)
  BY <1>1, SameBytes DEF Write, InHand, line_vars, driver_vars
<1>2. CASE Read
  BY <1>2, SameBytes DEF Read, InHand, line_vars, driver_vars
<1>3. CASE PutElement
  <2>1. Contents(tx') = Contents(tx)
    BY <1>3, RingsOfTask DEF PutElement
  <2>. QED BY <1>3, <2>1, SameBytes DEF PutElement, InHand, line_vars
<1>4. CASE GiveUp
  BY <1>4, SameBytes DEF GiveUp, InHand, line_vars, driver_vars
<1>5. CASE PublishElement
  <2> DEFINE before == sent \o One(thr) \o InHand
  <2>1. Contents(tx') = Append(Contents(tx), accepted + 1) /\ accepted' = accepted + 1
    BY <1>5, RingsOfTask DEF PublishElement
  <2>2. clean' = clean /\ sent' = sent /\ thr' = thr /\ InHand' = InHand
    BY <1>5 DEF PublishElement, InHand, line_vars
  <2>3. before \in Seq(Nat)
    BY <1>a, <1>c, ConcatProperties
  <2>4. before \o Append(Contents(tx), accepted + 1)
          = Append(before \o Contents(tx), accepted + 1)
    <3>. HIDE DEF before
    <3>1. accepted + 1 \in Nat
      BY <1>a
    <3>. QED BY <1>b, <2>3, <3>1, Entering
  <2>5. Append([i \in 1..accepted |-> i], accepted + 1) = [i \in 1..accepted + 1 |-> i]
    BY <1>a
  <2>. QED BY <2>1, <2>2, <2>4, <2>5 DEF BytesInOrder
<1>6. CASE TestBusy
  BY <1>6, SameBytes DEF TestBusy, InHand, line_vars, driver_vars
<1>7. CASE TakeElement
  BY <1>7, SameBytes DEF TakeElement, InHand, line_vars, driver_vars
<1>8. CASE StoreTail
  <2>. SUFFICES ASSUME clean PROVE BytesInOrder'
    BY <1>8 DEF StoreTail, BytesInOrder
  <2>1. thr = NoByte /\ ~Empty(tx) /\ hand = Front(tx) /\ new_tail = Following(tx, tx.tail)
    BY <1>8 DEF StoreTail, Owns
  <2>2. tx' = Get(tx)
    BY <1>8, <2>1 DEF StoreTail, Get
  <2>3. Contents(tx) = <<hand>> \o Contents(tx') /\ tx' \in Rings(TxSize)
    BY <1>a, <2>1, <2>2, GetTakes
  <2>4. Contents(tx') \in Seq(Nat)
    BY <1>a, <2>3, RingContents
  <2>5. One(thr) = <<>> /\ InHand = <<>> /\ InHand' = <<hand>>
    BY <1>8, <2>1 DEF StoreTail, One, InHand
  <2>6. thr' = thr /\ sent' = sent /\ accepted' = accepted /\ One(thr') = One(thr)
    BY <1>8 DEF StoreTail, line_vars
  <2>7. ((sent \o <<>>) \o <<>>) \o (<<hand>> \o Contents(tx'))
          = ((sent \o <<>>) \o <<hand>>) \o Contents(tx')
    BY <1>a, <2>4, Handing
  <2>. QED BY <2>3, <2>5, <2>6, <2>7 DEF BytesInOrder
<1>9. CASE SetBusy
  BY <1>9, SameBytes DEF SetBusy, InHand, line_vars
<1>10. CASE TestReady
  <2>1. clean => pc' = "load"
    BY <1>10 DEF TestReady, Owns
  <2>2. clean => InHand' = InHand
    BY <1>10, <2>1 DEF TestReady, InHand
  <2>3. clean' = clean
    BY <1>10 DEF TestReady
  <2>4. CASE clean
    BY <1>10, <2>2, <2>4, SameBytes DEF TestReady, line_vars, driver_vars
  <2>5. CASE ~clean
    BY <2>3, <2>5 DEF BytesInOrder
  <2>. QED BY <2>4, <2>5
<1>11. CASE LoadHolding
  <2>. SUFFICES ASSUME clean PROVE BytesInOrder'
    BY <1>11 DEF LoadHolding, BytesInOrder
  <2>1. One(thr) = <<>> /\ InHand = <<hand>> /\ InHand' = <<>>
    BY <1>11 DEF LoadHolding, Owns, One, InHand
  <2>2. ((sent \o <<>>) \o <<hand>>) \o Contents(tx) = [i \in 1..accepted |-> i]
    BY <2>1 DEF BytesInOrder
  <2>3. sent \o <<>> = sent
    BY <1>a, ConcatEmptySeq
  <2>4. hand # NoByte
    BY <1>a, <1>b, <2>2, <2>3, Numbered
  <2>5. One(thr') = <<hand>> /\ tx' = tx /\ sent' = sent /\ accepted' = accepted
    BY <1>11, <2>4 DEF LoadHolding, One, driver_vars
  <2>6. ((sent \o <<>>) \o <<hand>>) \o Contents(tx)
          = ((sent \o <<hand>>) \o <<>>) \o Contents(tx)
    BY <1>a, <1>b, Handing
  <2>. QED BY <2>1, <2>2, <2>5, <2>6 DEF BytesInOrder
<1>12. CASE EnableTx
  BY <1>12, SameBytes DEF EnableTx, InHand, line_vars
<1>13. CASE CopyElement
  BY <1>13, SameBytes DEF CopyElement, InHand, line_vars, driver_vars
<1>14. CASE StoreRxTail
  BY <1>14, SameBytes DEF StoreRxTail, InHand, line_vars
<1>15. CASE Interrupt
  <2>. SUFFICES ASSUME clean' PROVE BytesInOrder'
    BY DEF BytesInOrder
  <2>1. /\ clean /\ (tx_irq \/ thr # NoByte \/ pc \notin Storing \cup Starting)
        /\ sent' = sent /\ accepted' = accepted /\ pc' = pc /\ hand' = hand
    BY <1>15 DEF Interrupt, task_vars
  <2>2. InHand' = InHand
    BY <2>1 DEF InHand
  <2>3. CASE thr # NoByte \/ Empty(tx)
    <3>1. thr' = thr /\ tx' = tx
      BY <1>15, <2>3 DEF Interrupt, TxCallback
    <3>. QED BY <2>1, <2>2, <3>1, SameBytes
  <2>4. CASE thr = NoByte /\ ~Empty(tx)
    <3>1. thr' = Front(tx) /\ tx' = Get(tx)
      BY <1>15, <2>4 DEF Interrupt, TxCallback
    <3>2. /\ Contents(tx) = <<thr'>> \o Contents(tx') /\ tx' \in Rings(TxSize)
          /\ thr' \in Nat
      BY <1>a, <2>4, <3>1, GetTakes
    <3>3. Contents(tx') \in Seq(Nat)
      BY <1>a, <3>2, RingContents
    <3>4. One(thr) = <<>> /\ InHand = <<>>
      BY <2>1, <2>4 DEF One, InHand, Owns
    <3>5. ((sent \o <<>>) \o <<>>) \o (<<thr'>> \o Contents(tx')) = [i \in 1..accepted |-> i]
      BY <2>1, <3>2, <3>4 DEF BytesInOrder
    <3>6. /\ ((sent \o <<>>) \o <<>>) \o (<<thr'>> \o Contents(tx'))
                = ((sent \o <<thr'>>) \o <<>>) \o Contents(tx')
          /\ ((sent \o <<>>) \o <<>>) \o (<<thr'>> \o Contents(tx'))
                = ((sent \o <<>>) \o <<thr'>>) \o Contents(tx')
      <4>1. sent \in Seq(Nat)
        BY <1>a
      <4>. QED BY <3>2, <3>3, <4>1, Handing
    <3>7. sent \o <<>> = sent
      BY <1>a, ConcatEmptySeq
    <3>8. thr' # NoByte
      <4>1. (sent \o <<thr'>>) \o Contents(tx') = [i \in 1..accepted |-> i]
        BY <3>5, <3>6, <3>7
      <4>2. sent \in Seq(Nat) /\ accepted \in Nat
        BY <1>a
      <4>. QED BY <3>2, <3>3, <4>1, <4>2, Numbered
    <3>9. One(thr') = <<thr'>>
      BY <3>8 DEF One
    <3>. QED BY <2>1, <2>2, <3>4, <3>5, <3>6, <3>9 DEF BytesInOrder
  <2>. QED BY <2>3, <2>4
<1>16. CASE Transmit
  <2>1. /\ One(thr) = <<thr>> /\ One(thr') = <<>> /\ sent' = Append(sent, thr)
        /\ tx' = tx /\ accepted' = accepted /\ clean' = clean /\ InHand' = InHand
    BY <1>16 DEF Transmit, One, InHand, driver_vars, task_vars
  <2>2. sent \o <<thr>> = Append(sent, thr) \o <<>>
    BY <1>a, Leaving
  <2>. QED BY <2>1, <2>2 DEF BytesInOrder
<1>17. CASE \E bad \in BOOLEAN : Arrive(bad)
  BY <1>17, SameBytes DEF Arrive, InHand, driver_vars, task_vars
<1>18. CASE UNCHANGED vars
  BY <1>18, SameBytes DEF InHand, vars, line_vars, driver_vars, task_vars
<1>. QED
  BY <1>1, <1>2, <1>3, <1>4, <1>5, <1>6, <1>7, <1>8, <1>9, <1>10, <1>11, <1>12, <1>13,
     <1>14, <1>15, <1>16, <1>17, <1>18
     DEF Next, Continue, StartTx

-------------------------------------------------------------------------------
(* The receiver.                                                             *)

LEMMA RisingPrefix ==
  ASSUME NEW n \in Nat, NEW s \in Seq(Nat), NEW t \in Seq(Nat), Rising(s \o t), Bounded(s \o t, n)
  PROVE  Rising(s) /\ Bounded(s, n)
<1>1. /\ s \o t \in Seq(Nat) /\ Len(s \o t) = Len(s) + Len(t) /\ Len(s) \in Nat /\ Len(t) \in Nat
      /\ \A i \in 1..Len(s) + Len(t) : (s \o t)[i] = IF i <= Len(s) THEN s[i] ELSE t[i - Len(s)]
  BY ConcatProperties
<1>2. \A i \in 1..Len(s) : i \in 1..Len(s \o t) /\ (s \o t)[i] = s[i]
  BY <1>1
<1>. QED BY <1>2 DEF Rising, Bounded

LEMMA RisingAppend ==
  ASSUME NEW n \in Nat, NEW s \in Seq(Nat), Rising(s), Bounded(s, n)
  PROVE  Rising(s \o <<n + 1>>) /\ Bounded(s \o <<n + 1>>, n + 1)
<1> DEFINE r == Append(s, n + 1)
<1>1. s \o <<n + 1>> = r
  BY AppendIsConcat
<1>2. /\ Len(r) = Len(s) + 1 /\ Len(s) \in Nat /\ r[Len(s) + 1] = n + 1
      /\ \A i \in 1..Len(s) : r[i] = s[i] /\ s[i] \in 1..n
  BY AppendProperties DEF Bounded
<1>. HIDE DEF r
<1>3. Rising(r)
  <2>. SUFFICES ASSUME NEW i \in 1..Len(r), NEW j \in 1..Len(r), i < j
                PROVE  r[i] < r[j]
    BY DEF Rising
  <2>1. i \in 1..Len(s) /\ r[i] = s[i] /\ s[i] \in 1..n
    BY <1>2
  <2>2. CASE j = Len(s) + 1
    BY <1>2, <2>1, <2>2
  <2>3. CASE j # Len(s) + 1
    <3>1. j \in 1..Len(s)
      BY <1>2, <2>3
    <3>. QED BY <1>2, <2>1, <3>1 DEF Rising
  <2>. QED BY <2>2, <2>3
<1>4. Bounded(r, n + 1)
  <2>. SUFFICES ASSUME NEW i \in 1..Len(r) PROVE r[i] \in 1..n + 1
    BY DEF Bounded
  <2>1. CASE i = Len(s) + 1
    BY <1>2, <2>1
  <2>2. CASE i # Len(s) + 1
    <3>1. i \in 1..Len(s)
      BY <1>2, <2>2
    <3>2. r[i] \in 1..n
      BY <1>2, <3>1
    <3>. QED BY <3>2
  <2>. QED BY <2>1, <2>2
<1>. QED BY <1>1, <1>3, <1>4

LEMMA SameReceiver ==
  ASSUME ReceivedInOrder, ReceivedBound,
         received' = received, rx' = rx, rhr' = rhr, rx_overflow_count' = rx_overflow_count,
         flushed' = flushed, arrived' = arrived
  PROVE  ReceivedInOrder' /\ ReceivedBound'
BY DEF ReceivedInOrder, ReceivedBound, Incoming

LEMMA ReceiverKept ==
  ASSUME UartTypeOK, TakingInv, StoringInv, ReceivedInOrder, ReceivedBound, [Next]_vars
  PROVE  ReceivedInOrder' /\ ReceivedBound'
<1> DEFINE inside == received \o Contents(rx)
<1>a. /\ RxSize \in Nat /\ RxSize > 0 /\ rx \in Rings(RxSize)
      /\ received \in Seq(Nat) /\ rhr \in Nat /\ hand \in Nat /\ arrived \in Nat
      /\ rx_overflow_count \in Nat /\ flushed \in Nat /\ Len(received) \in Nat
  BY DEF UartTypeOK
<1>b. Contents(rx) \in Seq(Nat) /\ Held(rx) \in Nat
  BY <1>a, RingContents
<1>c. One(rhr) \in Seq(Nat) /\ inside \in Seq(Nat)
  BY <1>a, <1>b, ConcatProperties DEF One
<1>d. Rising(inside) /\ Bounded(inside, arrived)
  BY <1>a, <1>c, RisingPrefix DEF ReceivedInOrder, ReceivedBound, Incoming
<1>e. inside \o <<>> = inside
  BY <1>c, ConcatEmptySeq
<1>1. CASE (\E n \in 1..MaxWrite : Write(n)) \/ Read \/ GiveUp \/ TestBusy \/ TakeElement
           \/ TestReady \/ CopyElement
  BY <1>1, SameReceiver DEF Write, Read, GiveUp, TestBusy, TakeElement, TestReady, CopyElement,
                            line_vars, driver_vars
<1>2. CASE PutElement \/ PublishElement \/ StoreTail \/ SetBusy \/ EnableTx \/ LoadHolding
           \/ Transmit \/ UNCHANGED vars
  BY <1>2, SameReceiver DEF PutElement, PublishElement, StoreTail, SetBusy, EnableTx, LoadHolding,
                            Transmit, vars, line_vars, driver_vars, task_vars
<1>3. CASE StoreRxTail
  <2>1. /\ rx' = Get(rx) /\ ~Empty(rx) /\ received' = Append(received, Front(rx))
    BY <1>3, RingsOfTask DEF StoreRxTail, TakingInv, Reading
  <2>2. /\ Contents(rx) = <<Front(rx)>> \o Contents(rx') /\ Held(rx') = Held(rx) - 1
        /\ rx' \in Rings(RxSize) /\ Front(rx) \in Nat
    BY <1>a, <2>1, GetTakes
  <2>3. Contents(rx') \in Seq(Nat) /\ <<Front(rx)>> \in Seq(Nat)
    <3>1. Contents(rx') \in Seq(Nat)
      BY <1>a, <2>2, RingContents
    <3>. QED BY <2>2, <3>1
  <2>4. received' \o Contents(rx') = inside
    <3>1. received' = received \o <<Front(rx)>>
      BY <1>a, <2>1, <2>2, AppendIsConcat
    <3>2. (received \o <<Front(rx)>>) \o Contents(rx')
            = received \o (<<Front(rx)>> \o Contents(rx'))
      BY <1>a, <2>3, ConcatAssociative
    <3>. QED BY <2>2, <3>1, <3>2
  <2>5. Len(received') = Len(received) + 1
    BY <1>a, <2>1, <2>2, AppendProperties
  <2>6. /\ rhr' = rhr /\ One(rhr') = One(rhr) /\ arrived' = arrived
        /\ rx_overflow_count' = rx_overflow_count /\ flushed' = flushed
    BY <1>3 DEF StoreRxTail, line_vars
  <2>7. Len(received') + Held(rx') = Len(received) + Held(rx)
    BY <1>a, <1>b, <2>2, <2>5
  <2>. QED BY <2>4, <2>6, <2>7 DEF ReceivedInOrder, ReceivedBound, Incoming
<1>4. CASE Interrupt
  <2>1. rhr' = NoByte /\ One(rhr') = <<>> /\ received' = received /\ arrived' = arrived
    BY <1>4 DEF Interrupt, RxCallback, One, task_vars
  <2>2. CASE rhr = NoByte
    <3>1. rx' = rx /\ flushed' = flushed /\ rx_overflow_count' = rx_overflow_count
      BY <1>4, <2>2 DEF Interrupt, RxCallback
    <3>. QED BY <2>1, <2>2, <3>1, SameReceiver
  <2>3. CASE rhr # NoByte /\ (line_error \/ Full(rx))
    <3>1. /\ rx' = rx
          /\ \/ rx_overflow_count' = rx_overflow_count + 1 /\ flushed' = flushed
             \/ rx_overflow_count' = rx_overflow_count /\ flushed' = flushed + 1
      BY <1>4, <2>3 DEF Interrupt, RxCallback
    <3>2. Len(One(rhr)) = 1 /\ Len(One(rhr')) = 0
      BY <2>1, <2>3 DEF One
    <3>3. Len(received) + Held(rx) + Len(One(rhr')) + rx_overflow_count' + flushed' = arrived
      <4>1. Len(received) + Held(rx) + 1 + rx_overflow_count + flushed = arrived
        BY <3>2 DEF ReceivedInOrder
      <4>2. Len(received) + Held(rx) + 0 + rx_overflow_count' + flushed' = arrived
        BY <1>a, <1>b, <3>1, <4>1
      <4>. QED BY <3>2, <4>2
    <3>. QED BY <1>d, <1>e, <2>1, <3>1, <3>3 DEF ReceivedInOrder, ReceivedBound, Incoming
  <2>4. CASE rhr # NoByte /\ ~line_error /\ ~Full(rx)
    <3>1. /\ rx' = Put(rx, rhr)
          /\ rx_overflow_count' = rx_overflow_count /\ flushed' = flushed
      BY <1>4, <2>4 DEF Interrupt, RxCallback
    <3>2. Contents(rx') = Append(Contents(rx), rhr) /\ Held(rx') = Held(rx) + 1
      BY <1>a, <2>4, <3>1, PutAppends
    <3>3. One(rhr) = <<rhr>> /\ Len(One(rhr)) = 1 /\ Len(One(rhr')) = 0
      BY <2>1, <2>4 DEF One
    <3>4. received \o Append(Contents(rx), rhr) = Append(inside, rhr)
      BY <1>a, <1>b, Entering
    <3>5. Append(inside, rhr) = inside \o <<rhr>> /\ Append(inside, rhr) = Append(inside, rhr) \o <<>>
      <4>. HIDE DEF inside
      <4>1. Append(inside, rhr) \in Seq(Nat) /\ Append(inside, rhr) = inside \o <<rhr>>
        BY <1>a, <1>c, AppendProperties, AppendIsConcat
      <4>. QED BY <4>1, ConcatEmptySeq
    <3>6. Incoming' = Incoming
      BY <2>1, <3>2, <3>3, <3>4, <3>5 DEF Incoming
    <3>7. Len(received) + Held(rx') + Len(One(rhr')) = Len(received) + Held(rx) + Len(One(rhr))
      BY <1>a, <1>b, <3>2, <3>3
    <3>. QED BY <2>1, <3>1, <3>6, <3>7 DEF ReceivedInOrder, ReceivedBound, Incoming
  <2>. QED BY <2>2, <2>3, <2>4
<1>5. CASE \E bad \in BOOLEAN : Arrive(bad)
  <2>1. /\ rhr' = arrived + 1 /\ arrived' = arrived + 1 /\ received' = received /\ rx' = rx
        /\ rx_overflow_count' = rx_overflow_count
        /\ flushed' = IF rhr = NoByte THEN flushed ELSE flushed + 1
    BY <1>5 DEF Arrive, driver_vars, task_vars
  <2>2. One(rhr') = <<arrived + 1>> /\ Len(One(rhr')) = 1
    BY <1>a, <2>1 DEF One, NoByte
  <2>3. Rising(inside \o <<arrived + 1>>) /\ Bounded(inside \o <<arrived + 1>>, arrived + 1)
    <3>. HIDE DEF inside
    <3>. QED BY <1>a, <1>c, <1>d, RisingAppend
  <2>4. flushed' = flushed + Len(One(rhr))
    BY <1>a, <2>1 DEF One
  <2>5. Len(received) + Held(rx) + 1 + rx_overflow_count + flushed' = arrived + 1
    <3> DEFINE n == Len(received)  h == Held(rx)  o == Len(One(rhr))
    <3>1. o \in Nat /\ n \in Nat /\ h \in Nat
      BY <1>a, <1>b, <1>c
    <3>2. rx_overflow_count \in Nat /\ flushed \in Nat /\ arrived \in Nat
      BY <1>a
    <3>3. n + h + o + rx_overflow_count + flushed = arrived
      BY DEF ReceivedInOrder
    <3>. HIDE DEF n, h, o
    <3>4. n + h + 1 + rx_overflow_count + (flushed + o) = arrived + 1
      BY <3>1, <3>2, <3>3
    <3>. QED BY <2>4, <3>4 DEF n, h, o
  <2>. QED BY <2>1, <2>2, <2>3, <2>5 DEF ReceivedInOrder, ReceivedBound, Incoming
<1>. QED
  BY <1>1, <1>2, <1>3, <1>4, <1>5 DEF Next, Continue, StartTx

-------------------------------------------------------------------------------
(* The theorems.                                                             *)

LEMMA InitIInv == Init => IInv
<1>. SUFFICES ASSUME Init PROVE IInv
  OBVIOUS
<1>1. UartTypeOK /\ StoringInv /\ TakingInv
  BY InitTypes
<1>2. /\ Contents(tx) = <<>> /\ Empty(tx) /\ Contents(rx) = <<>> /\ Held(rx) = 0
  BY NewRing DEF Init
<1>3. StartedInv /\ NeverStranded /\ Owns
  BY <1>2 DEF Init, StartedInv, NeverStranded, Owns
<1>4. One(thr) = <<>> /\ One(rhr) = <<>> /\ InHand = <<>>
  BY DEF Init, One, InHand
<1>5. <<>> \o <<>> = <<>> /\ Len(<<>>) = 0
  BY EmptySeq, ConcatEmptySeq
<1>6. BytesInOrder
  <2>1. <<>> = [i \in 1..0 |-> i]
    OBVIOUS
  <2>. QED BY <1>2, <1>4, <1>5, <2>1 DEF Init, BytesInOrder
<1>7. Incoming = <<>>
  BY <1>2, <1>4, <1>5 DEF Init, Incoming
<1>8. ReceivedInOrder /\ ReceivedBound
  BY <1>2, <1>4, <1>5, <1>7 DEF Init, ReceivedInOrder, ReceivedBound, Incoming, Rising, Bounded
<1>. QED BY <1>1, <1>3, <1>6, <1>8 DEF IInv

\* The inductive invariant holds in every state the driver, its task and the line reach.
THEOREM UartInvariance == Spec => []IInv
<1>1. Init => IInv
  BY InitIInv
<1>2. IInv /\ [Next]_vars => IInv'
  <2>. SUFFICES ASSUME IInv, [Next]_vars PROVE IInv'
    OBVIOUS
  <2>1. /\ UartTypeOK /\ StoringInv /\ TakingInv /\ StartedInv /\ NeverStranded /\ Owns
        /\ BytesInOrder /\ ReceivedInOrder /\ ReceivedBound
    BY DEF IInv
  <2>. QED BY <2>1, TypesKept, ControlKept, BytesKept, ReceiverKept DEF IInv
<1>. QED
  BY <1>1, <1>2, PTL DEF Spec

\* The variables keep their types, the rings in particular: head and tail stay inside
\* the buffer whatever the task and the interrupt handler do between each other's steps.
THEOREM UartTypeCorrect == Spec => []UartTypeOK
<1>1. IInv => UartTypeOK
  BY DEF IInv
<1>. QED BY <1>1, UartInvariance, PTL

\* Every byte UART_Driver_Write accepted is sent once and in its place, as long as
\* UART_TX_Callback has not run with its interrupt masked in the middle of a write.
THEOREM BytesInOrderHolds == Spec => []BytesInOrder
<1>1. IInv => BytesInOrder
  BY DEF IInv
<1>. QED BY <1>1, UartInvariance, PTL

\* A byte in the ring that no write is about to start, and a busy transmitter, always
\* have the transmit interrupt unmasked, clean or not.
THEOREM NeverStrandedHolds == Spec => []NeverStranded
<1>1. IInv => NeverStranded
  BY DEF IInv
<1>. QED BY <1>1, UartInvariance, PTL

\* The task reads bytes in the order the line brought them, and every byte it does not
\* read is accounted for.
THEOREM ReceivedInOrderHolds == Spec => []ReceivedInOrder
<1>1. IInv => ReceivedInOrder
  BY DEF IInv
<1>. QED BY <1>1, UartInvariance, PTL
==============================================================================
