------------------------------ MODULE RingBuffer ------------------------------
(***************************************************************************)
(* The byte ring of M5_Utils/RingBuffer/ring_buffer.c as operators on the  *)
(* record that s_RingBufferType is.  One slot always stays empty, so that  *)
(* head = tail means an empty ring.  RingBuffer_Put and RingBuffer_Get are *)
(* each given as the separate stores they make (Fill then Publish, Front   *)
(* then Advance), because a producer and a consumer interleave between     *)
(* them; an interrupt handler makes both at once (Put, Get).               *)
(***************************************************************************)
EXTENDS Integers, Sequences

\* RingBuffer_Create: the ring as it is before the first byte.
Create(size) ==
  [buffer |-> [i \in 0..size - 1 |-> 0], max_size |-> size, head |-> 0, tail |-> 0]

\* The index after i, wrapped at the end of the array.
Following(rb, i) == IF i + 1 = rb.max_size THEN 0 ELSE i + 1

Full(rb) == Following(rb, rb.head) = rb.tail

Empty(rb) == rb.head = rb.tail

\* RingBuffer_Put: the element is stored first, the head published after it.
Fill(rb, el) == [rb EXCEPT !.buffer[rb.head] = el]

Publish(rb) == [rb EXCEPT !.head = Following(rb, rb.head)]

Put(rb, el) == Publish(Fill(rb, el))

\* RingBuffer_Get: the element is copied first, the tail stored after it.
Front(rb) == rb.buffer[rb.tail]

Advance(rb, t) == [rb EXCEPT !.tail = t]

Get(rb) == Advance(rb, Following(rb, rb.tail))

\* RingBuffer_NumFreeSlots.
NumFreeSlots(rb) ==
  IF rb.head = rb.tail THEN rb.max_size - 1
  ELSE IF rb.head < rb.tail THEN rb.tail - rb.head - 1
  ELSE rb.max_size + rb.tail - rb.head - 1

(***************************************************************************)
(* What a ring holds, oldest element first: the slots from tail up to      *)
(* head, wrapped.                                                          *)
(***************************************************************************)
Held(rb) ==
  IF rb.head >= rb.tail THEN rb.head - rb.tail ELSE rb.max_size + rb.head - rb.tail

Slot(rb, k) ==
  IF rb.tail + k - 1 < rb.max_size THEN rb.tail + k - 1 ELSE rb.tail + k - 1 - rb.max_size

Contents(rb) == [k \in 1..Held(rb) |-> rb.buffer[Slot(rb, k)]]

Rings(size) ==
  [buffer : [0..size - 1 -> Nat], max_size : {size}, head : 0..size - 1, tail : 0..size - 1]
===============================================================================
