------------------------------ MODULE DmesgProofs ------------------------------
(***************************************************************************)
(* Proofs about the system log when its calls exclude each other, for any   *)
(* buffer, any lengths of messages and any writers: the entries lie one     *)
(* behind the other from read_offset to write_offset, so what the walk      *)
(* along their headers finds is the log of MessageLog, and every step of    *)
(* the code is a step of it.                                                *)
(*                                                                         *)
(* The walk is a recursion over the buffer.  What it computes is proved by  *)
(* induction in the form of a least counterexample, which exists because    *)
(* the natural numbers are well founded.                                    *)
(***************************************************************************)
EXTENDS Dmesg, WellFoundedInduction, TLAPS

-----------------------------------------------------------------------------
(* Induction *)

LEMMA LeastElement ==
  ASSUME NEW T, T \subseteq Nat, T # {}
  PROVE  \E m \in T : \A n \in T : m <= n
<1>1. PICK m \in T : \A n \in T : ~ (<<n, m>> \in OpToRel(<, Nat))
  BY WFMin, NatLessThanWellFounded, Zenon
<1>2. \A n \in T : ~(n < m)  BY <1>1, Zenon DEF OpToRel
<1>. QED  BY <1>2

\* Functions that begin alike and go on alike are the same.
LEMMA SameRecursion ==
  ASSUME NEW n \in Nat, NEW f, NEW g, f[0] = g[0],
         \A k \in 1 .. n : f[k - 1] = g[k - 1] => f[k] = g[k]
  PROVE  \A k \in 0 .. n : f[k] = g[k]
<1>. DEFINE T == {k \in 0 .. n : f[k] # g[k]}
<1>. SUFFICES ASSUME T # {} PROVE FALSE  OBVIOUS
<1>1. PICK m \in T : \A k \in T : m <= k
  <2>. T \subseteq Nat  OBVIOUS
  <2>. HIDE DEF T
  <2>. QED  BY LeastElement
<1>2. m \in 1 .. n  OBVIOUS
<1>3. m - 1 \in 0 .. n /\ ~(m <= m - 1)  BY <1>2
<1>4. f[m - 1] = g[m - 1]  BY <1>1, <1>3
<1>. QED  BY <1>2, <1>4

-----------------------------------------------------------------------------
(* Places in the buffer *)

LEMMA Sizes ==
  /\ DMESG_BUFFER_SIZE \in Nat /\ DMESG_MSG_MAX_LENGTH \in Nat
  /\ DMESG_MSG_MAX_LENGTH + 1 < DMESG_BUFFER_SIZE
  /\ DMESG_BUFFER_SIZE <= SizeModulus /\ SizeModulus \in Nat /\ Margin \in Nat
  /\ \A len \in Lengths : len \in Nat /\ 1 <= len /\ len <= DMESG_MSG_MAX_LENGTH
  /\ Text \in 1 .. DMESG_MSG_MAX_LENGTH
BY DmesgAssumption

LEMMA FollowingIs ==
  ASSUME NEW a \in Offsets, NEW n \in Offsets
  PROVE  /\ Following(a, n) \in Offsets
         /\ Following(a, n) = IF a + n < DMESG_BUFFER_SIZE THEN a + n
                              ELSE a + n - DMESG_BUFFER_SIZE
BY Sizes DEF Following, Offsets

LEMMA FollowingNone == ASSUME NEW a \in Offsets PROVE Following(a, 0) = a
BY Sizes, FollowingIs DEF Offsets

LEMMA FollowingTwice ==
  ASSUME NEW a \in Offsets, NEW m \in Nat, NEW n \in Nat, m + n < DMESG_BUFFER_SIZE
  PROVE  Following(Following(a, m), n) = Following(a, m + n)
<1>1. m \in Offsets /\ n \in Offsets /\ m + n \in Offsets  BY Sizes DEF Offsets
<1>2. /\ Following(a, m) \in Offsets
      /\ Following(a, m) = IF a + m < DMESG_BUFFER_SIZE THEN a + m ELSE a + m - DMESG_BUFFER_SIZE
  BY <1>1, FollowingIs
<1>. DEFINE b == Following(a, m)
<1>3. Following(b, n) = IF b + n < DMESG_BUFFER_SIZE THEN b + n ELSE b + n - DMESG_BUFFER_SIZE
  BY <1>1, <1>2, FollowingIs
<1>4. Following(a, m + n) =
        IF a + (m + n) < DMESG_BUFFER_SIZE THEN a + (m + n) ELSE a + (m + n) - DMESG_BUFFER_SIZE
  BY <1>1, FollowingIs
<1>5. DMESG_BUFFER_SIZE \in Nat /\ a \in Nat /\ a < DMESG_BUFFER_SIZE
  BY Sizes DEF Offsets
<1>. HIDE DEF b
<1>6. Following(b, n) = Following(a, m + n)
  <2>1. b = IF a + m < DMESG_BUFFER_SIZE THEN a + m ELSE a + m - DMESG_BUFFER_SIZE
    BY <1>2 DEF b
  <2>. QED  BY <1>3, <1>4, <1>5, <2>1
<1>. QED  BY <1>6 DEF b

LEMMA FollowingApart ==
  ASSUME NEW a \in Offsets, NEW m \in Offsets, NEW n \in Offsets,
         Following(a, m) = Following(a, n)
  PROVE  m = n
<1>. DEFINE N == DMESG_BUFFER_SIZE  x == Following(a, m)
<1>1. /\ x = IF a + m < N THEN a + m ELSE a + m - N
      /\ x = IF a + n < N THEN a + n ELSE a + n - N
  BY FollowingIs
<1>2. N \in Nat /\ a \in Nat /\ m \in Nat /\ n \in Nat /\ m < N /\ n < N
  BY Sizes DEF Offsets
<1>. HIDE DEF N, x
<1>. QED  BY <1>1, <1>2

\* How far on an offset is.
LEMMA Distance ==
  ASSUME NEW a \in Offsets, NEW n \in Offsets
  PROVE  (Following(a, n) - a) % DMESG_BUFFER_SIZE = n
<1>1. DMESG_BUFFER_SIZE \in Nat /\ DMESG_BUFFER_SIZE > 0  BY Sizes
<1>2. n % DMESG_BUFFER_SIZE = n /\ (n - DMESG_BUFFER_SIZE) % DMESG_BUFFER_SIZE = n
  BY <1>1 DEF Offsets
<1>3. Following(a, n) - a = n \/ Following(a, n) - a = n - DMESG_BUFFER_SIZE
  <2>1. Following(a, n) = IF a + n < DMESG_BUFFER_SIZE THEN a + n ELSE a + n - DMESG_BUFFER_SIZE
    BY FollowingIs
  <2>2. a \in Nat /\ n \in Nat  BY <1>1 DEF Offsets
  <2>. QED  BY <1>1, <2>1, <2>2
<1>. QED  BY <1>2, <1>3

LEMMA SpaceLeft ==
  ASSUME read_offset \in Offsets, NEW n \in Offsets, write_offset = Following(read_offset, n)
  PROVE  get_available_space = DMESG_BUFFER_SIZE - 1 - n
<1>1. write_offset = IF read_offset + n < DMESG_BUFFER_SIZE THEN read_offset + n
                     ELSE read_offset + n - DMESG_BUFFER_SIZE
  BY FollowingIs
<1>2. /\ DMESG_BUFFER_SIZE \in Nat /\ read_offset \in Nat /\ n \in Nat
      /\ n < DMESG_BUFFER_SIZE /\ read_offset < DMESG_BUFFER_SIZE
  BY Sizes DEF Offsets
<1>. QED  BY <1>1, <1>2 DEF get_available_space

-----------------------------------------------------------------------------
(* Where entries lie *)

\* p[k] cells hold the first k of the messages ids.
Placed(ids, p) ==
  /\ ids \in Seq(1 .. Len(written))
  /\ p \in [0 .. Len(ids) -> Nat] /\ p[0] = 0
  /\ \A k \in 1 .. Len(ids) : p[k] = p[k - 1] + 1 + written[ids[k]]
  /\ \A j, k \in 0 .. Len(ids) : j <= k => p[j] + 2 * (k - j) <= p[k]

\* The buffer holds what is left of them after the first e.
Stored(ids, p, e) ==
  /\ p[Len(ids)] - p[e] < DMESG_BUFFER_SIZE
  /\ write_offset = Following(read_offset, p[Len(ids)] - p[e])
  /\ \A k \in e + 1 .. Len(ids) : \A i \in 0 .. written[ids[k]] :
       dmesg_buffer[Following(read_offset, p[k - 1] - p[e] + i)] =
         Cell(ids[k], i, written[ids[k]])

LEMMA PlacedFacts ==
  ASSUME written \in Seq(Lengths), NEW ids, NEW p, Placed(ids, p)
  PROVE  /\ Len(ids) \in Nat /\ Len(written) \in Nat
         /\ \A k \in 0 .. Len(ids) : p[k] \in Nat
         /\ \A k \in 1 .. Len(ids) :
              /\ ids[k] \in 1 .. Len(written) /\ ids[k] \in Nat
              /\ written[ids[k]] \in Lengths /\ written[ids[k]] \in Nat
              /\ 1 <= written[ids[k]] /\ written[ids[k]] <= DMESG_MSG_MAX_LENGTH
              /\ p[k] = p[k - 1] + 1 + written[ids[k]]
         /\ \A j, k \in 0 .. Len(ids) : j <= k => p[j] + 2 * (k - j) <= p[k] /\ p[j] <= p[k]
<1>1. Len(ids) \in Nat /\ Len(written) \in Nat /\ ids \in Seq(1 .. Len(written))
  BY DEF Placed
<1>2. \A k \in 0 .. Len(ids) : p[k] \in Nat  BY DEF Placed
<1>3. \A k \in 1 .. Len(ids) : ids[k] \in 1 .. Len(written)  BY <1>1
<1>4. \A k \in 1 .. Len(ids) : written[ids[k]] \in Lengths  BY <1>3
<1>5. ASSUME NEW j \in 0 .. Len(ids), NEW k \in 0 .. Len(ids), j <= k
      PROVE  p[j] + 2 * (k - j) <= p[k] /\ p[j] <= p[k]
  <2>1. p[j] + 2 * (k - j) <= p[k]  BY <1>5 DEF Placed
  <2>2. p[j] \in Nat /\ p[k] \in Nat /\ j \in Nat /\ k \in Nat  BY <1>1, <1>2
  <2>3. 2 * (k - j) >= 0  BY <1>5, <2>2
  <2>. QED  BY <2>1, <2>2, <2>3
<1>6. \A k \in 1 .. Len(ids) : p[k] = p[k - 1] + 1 + written[ids[k]]  BY DEF Placed
<1>. QED  BY <1>1, <1>2, <1>3, <1>4, <1>5, <1>6, Sizes, SMTT(30)

\* A cell of an entry is inside the space that is taken.
LEMMA InsideLog ==
  ASSUME written \in Seq(Lengths), NEW ids, NEW p, Placed(ids, p),
         NEW e \in 0 .. Len(ids), p[Len(ids)] - p[e] < DMESG_BUFFER_SIZE,
         NEW k \in e + 1 .. Len(ids), NEW i \in 0 .. written[ids[k]]
  PROVE  /\ k \in 1 .. Len(ids) /\ k - 1 \in 0 .. Len(ids)
         /\ p[k - 1] - p[e] \in Nat
         /\ p[k - 1] - p[e] + i \in Offsets
         /\ p[k - 1] - p[e] + i < p[Len(ids)] - p[e]
         /\ p[k] - p[e] = p[k - 1] - p[e] + 1 + written[ids[k]]
         /\ p[k] - p[e] \in Offsets
<1>1. Len(ids) \in Nat  BY PlacedFacts
<1>2. k \in 1 .. Len(ids) /\ k - 1 \in 0 .. Len(ids) /\ k \in 0 .. Len(ids)
      /\ Len(ids) \in 0 .. Len(ids) /\ e <= k - 1 /\ k <= Len(ids)
  BY <1>1
<1>3. /\ p[e] \in Nat /\ p[k - 1] \in Nat /\ p[k] \in Nat /\ p[Len(ids)] \in Nat
      /\ written[ids[k]] \in Nat /\ p[k] = p[k - 1] + 1 + written[ids[k]]
      /\ p[e] <= p[k - 1] /\ p[k] <= p[Len(ids)]
  BY <1>2, PlacedFacts
<1>4. DMESG_BUFFER_SIZE \in Nat  BY Sizes
<1>5. i \in Nat /\ i <= written[ids[k]]  BY <1>3
<1>. DEFINE b == p[k - 1]  c == p[k]  z == p[e]  w == written[ids[k]]  l == p[Len(ids)]
<1>a. /\ z \in Nat /\ b \in Nat /\ c \in Nat /\ l \in Nat /\ w \in Nat
      /\ c = b + 1 + w /\ z <= b /\ c <= l /\ l - z < DMESG_BUFFER_SIZE
      /\ i \in Nat /\ i <= w
  BY <1>3, <1>5
<1>. HIDE DEF b, c, z, w, l
<1>b. /\ b - z \in Nat /\ b - z + i \in 0 .. DMESG_BUFFER_SIZE - 1 /\ b - z + i < l - z
      /\ c - z = b - z + 1 + w /\ c - z \in 0 .. DMESG_BUFFER_SIZE - 1
  BY <1>4, <1>a
<1>6. /\ p[k - 1] - p[e] \in Nat
      /\ p[k - 1] - p[e] + i \in 0 .. DMESG_BUFFER_SIZE - 1
      /\ p[k - 1] - p[e] + i < p[Len(ids)] - p[e]
      /\ p[k] - p[e] = p[k - 1] - p[e] + 1 + written[ids[k]]
      /\ p[k] - p[e] \in 0 .. DMESG_BUFFER_SIZE - 1
  BY <1>b DEF b, c, z, w, l
<1>. QED  BY <1>2, <1>6 DEF Offsets

\* An entry tells its length, is read whole, and is followed by the next.
LEMMA EntryAt ==
  ASSUME DmesgTypeOK, NEW ids, NEW p, Placed(ids, p), NEW e \in 0 .. Len(ids),
         Stored(ids, p, e), NEW k \in e + 1 .. Len(ids),
         NEW offset, offset = Following(read_offset, p[k - 1] - p[e])
  PROVE  /\ offset \in Offsets
         /\ dmesg_buffer[offset].byte = written[ids[k]]
         /\ ValidLength(dmesg_buffer[offset].byte)
         /\ Following(offset, 1 + dmesg_buffer[offset].byte) =
              Following(read_offset, p[k] - p[e])
         /\ Message(offset) = ids[k]
<1>. DEFINE b == p[k - 1] - p[e]  w == written[ids[k]]
<1>1. written \in Seq(Lengths) /\ read_offset \in Offsets /\ Len(ids) \in Nat
      /\ p[Len(ids)] - p[e] < DMESG_BUFFER_SIZE
  BY PlacedFacts DEF DmesgTypeOK, Stored
<1>2. k \in 1 .. Len(ids)  BY <1>1
<1>3. w \in Nat /\ 1 <= w /\ w <= DMESG_MSG_MAX_LENGTH /\ ids[k] \in Nat /\ ids[k] # 0
  <2>1. /\ ids[k] \in 1 .. Len(written) /\ written[ids[k]] \in Nat /\ 1 <= written[ids[k]]
        /\ written[ids[k]] <= DMESG_MSG_MAX_LENGTH /\ Len(written) \in Nat
    BY <1>1, <1>2, PlacedFacts
  <2>. QED  BY <2>1
<1>. HIDE DEF b, w
<1>4. ASSUME NEW i \in 0 .. w
      PROVE  /\ b \in Nat /\ b + i < DMESG_BUFFER_SIZE /\ i \in Nat
             /\ p[k] - p[e] = b + 1 + w /\ p[k] - p[e] < DMESG_BUFFER_SIZE
             /\ dmesg_buffer[Following(read_offset, b + i)] = Cell(ids[k], i, w)
  <2>1. /\ p[k - 1] - p[e] \in Nat /\ p[k - 1] - p[e] + i \in Offsets
        /\ p[k] - p[e] = p[k - 1] - p[e] + 1 + written[ids[k]] /\ p[k] - p[e] \in Offsets
    BY <1>1, InsideLog DEF w
  <2>2. dmesg_buffer[Following(read_offset, p[k - 1] - p[e] + i)] = Cell(ids[k], i, written[ids[k]])
    BY DEF Stored, w
  <2>3. b \in Nat /\ b + i \in Offsets /\ p[k] - p[e] = b + 1 + w /\ p[k] - p[e] \in Offsets
    BY <2>1 DEF b, w
  <2>4. b + i < DMESG_BUFFER_SIZE /\ p[k] - p[e] < DMESG_BUFFER_SIZE  BY <2>3, Sizes DEF Offsets
  <2>. QED  BY <1>3, <2>2, <2>3, <2>4 DEF b, w
<1>5. 0 \in 0 .. w  BY <1>3
<1>6. b \in Nat /\ b < DMESG_BUFFER_SIZE /\ b + (1 + w) < DMESG_BUFFER_SIZE
      /\ p[k] - p[e] = b + (1 + w)
  BY <1>3, <1>4, <1>5
<1>7. offset = Following(read_offset, b) /\ offset \in Offsets
  <2>1. b \in Offsets  BY <1>6, Sizes DEF Offsets
  <2>. QED  BY <1>1, <2>1, FollowingIs DEF b
<1>8. \A i \in 0 .. w : dmesg_buffer[Following(offset, i)] = Cell(ids[k], i, w)
  <2>. SUFFICES ASSUME NEW i \in 0 .. w
                PROVE  dmesg_buffer[Following(offset, i)] = Cell(ids[k], i, w)
    OBVIOUS
  <2>1. Following(offset, i) = Following(read_offset, b + i)
    BY <1>1, <1>4, <1>7, FollowingTwice
  <2>. QED  BY <1>4, <2>1
<1>9. dmesg_buffer[offset].byte = w /\ dmesg_buffer[offset].of = ids[k]
  <2>1. Following(offset, 0) = offset  BY <1>7, FollowingNone
  <2>2. dmesg_buffer[offset] = Cell(ids[k], 0, w)  BY <1>5, <1>8, <2>1
  <2>. QED  BY <2>2 DEF Cell
<1>10. Following(offset, 1 + w) = Following(read_offset, p[k] - p[e])
  <2>1. 1 + w \in Nat  BY <1>3
  <2>2. Following(offset, 1 + w) = Following(read_offset, b + (1 + w))
    BY <1>1, <1>6, <1>7, <2>1, FollowingTwice
  <2>. QED  BY <1>6, <2>2
<1>11. Message(offset) = ids[k]
  BY <1>3, <1>8, <1>9 DEF Message, w
<1>. QED  BY <1>3, <1>7, <1>9, <1>10, <1>11 DEF ValidLength, w

-----------------------------------------------------------------------------
(* What the recursions compute *)

\* The walk from header to header finds the messages that were placed.
LEMMA ContentsAre ==
  ASSUME DmesgTypeOK, NEW ids, NEW p, Placed(ids, p), Stored(ids, p, 0), log_count = Len(ids)
  PROVE  Contents = ids
<1>. DEFINE Walk(s) == s = [k \in 0 .. log_count |->
                              IF k = 0 THEN read_offset
                              ELSE LET last == s[k - 1]
                                   IN  Following(last, 1 + dmesg_buffer[last].byte)]
            start == CHOOSE s : Walk(s)
            at == [k \in 0 .. log_count |-> Following(read_offset, p[k])]
<1>. HIDE DEF Walk, start
<1>1. /\ written \in Seq(Lengths) /\ read_offset \in Offsets /\ log_count \in Nat
      /\ p[0] = 0 /\ 0 \in 0 .. Len(ids)
  BY PlacedFacts DEF DmesgTypeOK, Placed
<1>2. ASSUME NEW k \in 1 .. Len(ids)
      PROVE  /\ p[k - 1] - p[0] = p[k - 1] /\ p[k] - p[0] = p[k]
             /\ at[k - 1] = Following(read_offset, p[k - 1])
             /\ at[k] = Following(read_offset, p[k])
  <2>1. k - 1 \in 0 .. log_count /\ k \in 0 .. log_count  BY <1>1
  <2>2. \A i \in 0 .. Len(ids) : p[i] \in Nat  BY <1>1, PlacedFacts
  <2>3. p[k - 1] \in Nat /\ p[k] \in Nat  BY <2>1, <2>2
  <2>. QED  BY <1>1, <2>1, <2>3
<1>. HIDE DEF at
<1>4. ASSUME NEW k \in 1 .. Len(ids)
      PROVE  /\ at[k] = Following(at[k - 1], 1 + dmesg_buffer[at[k - 1]].byte)
             /\ Message(at[k - 1]) = ids[k]
  <2>1. k \in 0 + 1 .. Len(ids)  BY <1>1
  <2>2. at[k - 1] = Following(read_offset, p[k - 1] - p[0])
        /\ at[k] = Following(read_offset, p[k] - p[0])
    BY <1>2
  <2>3. /\ Following(at[k - 1], 1 + dmesg_buffer[at[k - 1]].byte) = Following(read_offset, p[k] - p[0])
        /\ Message(at[k - 1]) = ids[k]
    BY <1>1, <2>1, <2>2, EntryAt
  <2>. QED  BY <2>2, <2>3
<1>5. Walk(at)
  <2>. USE DEF at
  <2>1. ASSUME NEW k \in 0 .. log_count
        PROVE  at[k] = IF k = 0 THEN read_offset
                       ELSE LET last == at[k - 1]
                            IN  Following(last, 1 + dmesg_buffer[last].byte)
    <3>1. CASE k = 0
      <4>1. at[k] = Following(read_offset, 0)  BY <1>1, <3>1
      <4>. QED  BY <1>1, <3>1, <4>1, FollowingNone
    <3>2. CASE k # 0
      <4>1. k \in 1 .. Len(ids)  BY <1>1, <3>2
      <4>. QED  BY <1>4, <3>2, <4>1
    <3>. QED  BY <3>1, <3>2
  <2>. DEFINE body == [k \in 0 .. log_count |->
                         IF k = 0 THEN read_offset
                         ELSE LET last == at[k - 1]
                              IN  Following(last, 1 + dmesg_buffer[last].byte)]
  <2>2. \A k \in 0 .. log_count : at[k] = body[k]  BY <2>1
  <2>3. DOMAIN at = 0 .. log_count /\ at = [k \in 0 .. log_count |-> at[k]]  OBVIOUS
  <2>4. body = [k \in 0 .. log_count |-> body[k]]  OBVIOUS
  <2>. HIDE DEF at, body
  <2>5. at = body  BY <2>2, <2>3, <2>4
  <2>. QED  BY <2>5 DEF body, Walk
<1>6. Walk(start)  BY <1>5, Zenon DEF start
<1>7. Contents = [k \in 1 .. log_count |-> Message(start[k - 1])]
  BY Zenon DEF Contents, start, Walk
<1>. HIDE DEF at
<1>8. \A k \in 0 .. log_count : start[k] = at[k]
  <2>1. start[0] = at[0]
    <3>1. start[0] = read_offset /\ at[0] = read_offset
      BY <1>1, <1>5, <1>6 DEF Walk
    <3>. QED  BY <3>1
  <2>2. ASSUME NEW k \in 1 .. log_count, start[k - 1] = at[k - 1]
        PROVE  start[k] = at[k]
    <3>1. k \in 0 .. log_count /\ k # 0  BY <1>1
    <3>2. start[k] = Following(start[k - 1], 1 + dmesg_buffer[start[k - 1]].byte)
      BY <1>6, <3>1 DEF Walk
    <3>3. at[k] = Following(at[k - 1], 1 + dmesg_buffer[at[k - 1]].byte)
      BY <1>5, <3>1 DEF Walk
    <3>. QED  BY <2>2, <3>2, <3>3
  <2>3. \A k \in 1 .. log_count : start[k - 1] = at[k - 1] => start[k] = at[k]  BY <2>2
  <2>4. \A n \in Nat : (\A k \in 1 .. n : start[k - 1] = at[k - 1] => start[k] = at[k])
                        => \A k \in 0 .. n : start[k] = at[k]
    BY <2>1, SameRecursion, SMTT(30)
  <2>. QED  BY <1>1, <2>3, <2>4
<1>9. \A k \in 1 .. log_count : Message(start[k - 1]) = ids[k]
  <2>1. \A k \in 1 .. log_count : k - 1 \in 0 .. log_count  BY <1>1
  <2>. QED  BY <1>4, <1>8, <2>1
<1>10. Contents = [k \in 1 .. log_count |-> ids[k]]
  BY <1>7, <1>9
<1>11. ids = [k \in 1 .. Len(ids) |-> ids[k]]  BY DEF Placed
<1>. QED  BY <1>10, <1>11

\* A count of the cells of messages that starts from none and adds each entry's.
Counts(ms, q) ==
  /\ Len(ms) \in Nat /\ q \in [0 .. Len(ms) -> Nat] /\ q[0] = 0
  /\ \A k \in 1 .. Len(ms) : q[k] = q[k - 1] + 1 + ms[k].len

LEMMA CellsAre ==
  ASSUME NEW ms, NEW q, Counts(ms, q)
  PROVE  Log!Cells(ms) = q[Len(ms)]
<1>. DEFINE Sum(s) == s = [k \in 0 .. Len(ms) |->
                             IF k = 0 THEN 0 ELSE s[k - 1] + 1 + ms[k].len]
            upto == CHOOSE s : Sum(s)
<1>1. Sum(q)
  <2>. DEFINE body == [k \in 0 .. Len(ms) |-> IF k = 0 THEN 0 ELSE q[k - 1] + 1 + ms[k].len]
  <2>1. ASSUME NEW k \in 0 .. Len(ms) PROVE q[k] = body[k]
    <3>1. CASE k = 0  BY <3>1 DEF Counts
    <3>2. CASE k # 0
      <4>1. k \in 1 .. Len(ms)  BY <3>2 DEF Counts
      <4>. QED  BY <3>2, <4>1 DEF Counts
    <3>. QED  BY <3>1, <3>2
  <2>2. q = [k \in 0 .. Len(ms) |-> q[k]] /\ body = [k \in 0 .. Len(ms) |-> body[k]]
    BY DEF Counts
  <2>. HIDE DEF body
  <2>3. q = body  BY <2>1, <2>2
  <2>. QED  BY <2>3 DEF body
<1>2. Sum(upto)
  <2>. HIDE DEF Sum
  <2>. QED  BY <1>1, Zenon
<1>3. Log!Cells(ms) = upto[Len(ms)]
  BY Zenon DEF Log!Cells
<1>. HIDE DEF upto
<1>4. \A k \in 0 .. Len(ms) : upto[k] = q[k]
  <2>1. upto[0] = q[0]  BY <1>2 DEF Counts
  <2>2. ASSUME NEW k \in 1 .. Len(ms), upto[k - 1] = q[k - 1] PROVE upto[k] = q[k]
    <3>1. k \in 0 .. Len(ms) /\ k # 0  BY DEF Counts
    <3>2. upto[k] = upto[k - 1] + 1 + ms[k].len  BY <1>2, <3>1
    <3>. QED  BY <2>2, <3>2 DEF Counts
  <2>3. \A n \in Nat : (\A k \in 1 .. n : upto[k - 1] = q[k - 1] => upto[k] = q[k])
                        => \A k \in 0 .. n : upto[k] = q[k]
    BY <2>1, SameRecursion, SMTT(30)
  <2>. QED  BY <2>2, <2>3 DEF Counts
<1>. QED  BY <1>3, <1>4 DEF Counts

-----------------------------------------------------------------------------
(* The invariant of calls that exclude each other *)

Kept(ids, p) == Placed(ids, p) /\ Stored(ids, p, 0) /\ log_count = Len(ids)

Quiet == \A t \in Writers : call[t].pc = "idle"

\* Between writes the buffer holds as many whole messages as log_count says.
LogInv == Quiet => \E ids, p : Kept(ids, p)

\* The messages a write has pushed out, counted off or not.
Gone(c) == IF c.pc = "evicted" THEN c.evictions + 1 ELSE c.evictions

\* The cells taken when the new entry comes after all but the first gone.
Taken(p, gone, c) == p[Len(before)] - p[gone] + 1 + c.len

\* A write in progress has pushed out no more messages than it needs, and the
\* rest of the log is in place.
Evicting(c, p) ==
  /\ Placed(before, p) /\ p[Len(before)] < DMESG_BUFFER_SIZE
  /\ Gone(c) \in 0 .. Len(before) /\ Stored(before, p, Gone(c))
  /\ log_count = Len(before) - c.evictions
  /\ c.evictions <= log_count + Margin
  /\ Gone(c) > 0 => Taken(p, Gone(c) - 1, c) >= DMESG_BUFFER_SIZE
  /\ c.pc \in {"copy", "commit"} =>
       c.w_off = write_offset /\ Taken(p, Gone(c), c) < DMESG_BUFFER_SIZE
  /\ c.pc = "commit" =>
       \A i \in 0 .. c.len : dmesg_buffer[Following(write_offset, i)] = Cell(c.id, i, c.len)

\* The write in progress, of a task that alone is in a call, is of the last message.
Alone(t) ==
  /\ \A u \in Writers : call[u].pc # "idle" => u = t
  /\ listing.pc = "idle" /\ call[t].pc # "emptied"
  /\ Len(written) > 0 /\ call[t].id = Len(written) /\ call[t].len = written[Len(written)]

WriteInv == \A t \in Writers : call[t].pc # "idle" => Alone(t) /\ \E p : Evicting(call[t], p)

\* A listing stands at the entry it comes to next, and has listed those before.
Reached(ids, p) ==
  /\ listing.offset = Following(read_offset, p[log_count - listing.left - listing.skip])
  /\ \A k \in 1 .. Len(listing.listed) :
       listing.listed[k] = ids[log_count - listing.left - Len(listing.listed) + k]

ListInv == listing.pc = "entry" =>
  /\ Quiet
  /\ listing.skip + listing.left + Len(listing.listed) <= log_count
  /\ listing.skip > 0 => listing.listed = <<>>
  /\ \E ids, p : Kept(ids, p) /\ Reached(ids, p)

DmesgInv == DmesgTypeOK /\ LogInv /\ WriteInv /\ ListInv

LEMMA OffsetsAndCount ==
  ASSUME DmesgTypeOK
  PROVE  /\ read_offset \in Offsets /\ write_offset \in Offsets /\ log_count \in Nat
         /\ written \in Seq(Lengths) /\ Len(written) \in Nat
<1>1. /\ read_offset \in Offsets /\ write_offset \in Offsets
      /\ log_count \in 0 .. DMESG_BUFFER_SIZE \div 2 /\ written \in Seq(Lengths)
  BY Zenon DEF DmesgTypeOK
<1>2. log_count \in Nat
  <2>1. DMESG_BUFFER_SIZE \div 2 \in Int  BY Sizes
  <2>. QED  BY <1>1, <2>1
<1>3. Len(written) \in Nat  BY <1>1
<1>. QED  BY <1>1, <1>2, <1>3

LEMMA CallFields ==
  ASSUME DmesgTypeOK, NEW t \in Writers
  PROVE  /\ call[t].pc \in {"idle", "room", "evicted", "emptied", "copy", "commit"}
         /\ call[t].id \in Nat /\ call[t].len \in Nat /\ call[t].evictions \in Nat
         /\ call[t].w_off \in Offsets
         /\ DOMAIN call = Writers
BY DEF DmesgTypeOK

LEMMA ListingFields ==
  ASSUME DmesgTypeOK
  PROVE  /\ listing.pc \in {"idle", "entry"} /\ listing.offset \in Offsets
         /\ listing.skip \in Nat /\ listing.left \in Nat /\ listing.listed \in Seq(Nat)
BY DEF DmesgTypeOK

\* A write leaves the places of what was written before as they are.
LEMMA PlacedLater ==
  ASSUME written \in Seq(Lengths), NEW ids, NEW p, Placed(ids, p),
         NEW len \in Lengths, written' = Append(written, len)
  PROVE  /\ Placed(ids, p)'
         /\ \A k \in 1 .. Len(ids) : written'[ids[k]] = written[ids[k]]
<1>1. Len(written) \in Nat /\ Len(written') = Len(written) + 1
      /\ \A i \in 1 .. Len(written) : written'[i] = written[i]
  OBVIOUS
<1>2. ids \in Seq(1 .. Len(written)) /\ Len(ids) \in Nat
      /\ \A k \in 1 .. Len(ids) : ids[k] \in 1 .. Len(written)
  BY DEF Placed
<1>3. \A k \in 1 .. Len(ids) : written'[ids[k]] = written[ids[k]]  BY <1>1, <1>2
<1>4. ids \in Seq(1 .. Len(written'))
  <2>1. 1 .. Len(written) \subseteq 1 .. Len(written')  BY <1>1
  <2>. QED  BY <1>2, <2>1
<1>. QED  BY <1>3, <1>4 DEF Placed

\* The messages kept are no more than fit with their headers.
LEMMA CountBound ==
  ASSUME written \in Seq(Lengths), NEW ids, NEW p, Placed(ids, p), p[Len(ids)] < DMESG_BUFFER_SIZE
  PROVE  Len(ids) \in 0 .. DMESG_BUFFER_SIZE \div 2
<1>1. Len(ids) \in Nat /\ 0 \in 0 .. Len(ids) /\ Len(ids) \in 0 .. Len(ids) /\ 0 <= Len(ids)
  BY PlacedFacts
<1>2. p[0] + 2 * (Len(ids) - 0) <= p[Len(ids)] /\ p[Len(ids)] \in Nat /\ p[0] = 0
  BY <1>1, PlacedFacts DEF Placed
<1>. DEFINE n == Len(ids)  l == p[Len(ids)]
<1>3. n \in Nat /\ 2 * n <= l /\ l \in Nat /\ l < DMESG_BUFFER_SIZE /\ DMESG_BUFFER_SIZE \in Nat
  BY <1>1, <1>2, Sizes
<1>. HIDE DEF n, l
<1>4. n \in 0 .. DMESG_BUFFER_SIZE \div 2  BY <1>3
<1>. QED  BY <1>4 DEF n

EmptyLog == read_offset = 0 /\ write_offset = 0 /\ log_count = 0 => \E p : Kept(<<>>, p)

LEMMA EmptyLogKept == EmptyLog
<1>. SUFFICES ASSUME read_offset = 0, write_offset = 0, log_count = 0
              PROVE  \E p : Kept(<<>>, p)
  BY DEF EmptyLog
<1>. DEFINE p == [k \in 0 .. 0 |-> 0]
<1>1. Placed(<<>>, p)  BY DEF Placed
<1>2. Stored(<<>>, p, 0)
  <2>1. 0 \in Offsets  BY Sizes DEF Offsets
  <2>2. Following(0, 0) = 0  BY <2>1, FollowingNone
  <2>3. p[Len(<<>>)] - p[0] = 0 /\ 0 < DMESG_BUFFER_SIZE  BY Sizes
  <2>4. 0 + 1 .. Len(<<>>) = {}  OBVIOUS
  <2>. QED  BY <2>2, <2>3, <2>4 DEF Stored
<1>. HIDE DEF p
<1>. QED  BY <1>1, <1>2 DEF Kept

-----------------------------------------------------------------------------
(* The steps of a write *)

LEMMA InitInv == Init => DmesgInv
<1>. SUFFICES ASSUME Init PROVE DmesgInv  OBVIOUS
<1>1. DmesgTypeOK
  <2>1. 0 \in Offsets /\ 0 \in 0 .. DMESG_BUFFER_SIZE \div 2  BY Sizes DEF Offsets
  <2>2. dmesg_buffer \in [Offsets -> [byte : 0 .. DMESG_MSG_MAX_LENGTH, of : Nat, at : Nat]]
    <3>1. Blank \in [byte : 0 .. DMESG_MSG_MAX_LENGTH, of : Nat, at : Nat]  BY Sizes DEF Blank
    <3>. QED  BY <3>1 DEF Init, Offsets
  <2>3. call \in [Writers -> [pc : {"idle", "room", "evicted", "emptied", "copy", "commit"},
                             id : Nat, len : Nat, evictions : Nat, w_off : Offsets]]
    BY <2>1 DEF Init, Idle
  <2>4. listing \in [pc : {"idle", "entry"}, offset : Offsets, skip : Nat, left : Nat,
                    listed : Seq(Nat)]
    BY <2>1 DEF Init, NotListing
  <2>. QED  BY <2>1, <2>2, <2>3, <2>4 DEF Init, DmesgTypeOK
<1>2. Quiet /\ listing.pc # "entry"  BY DEF Init, Idle, NotListing, Quiet
<1>3. \E ids, p : Kept(ids, p)  BY EmptyLogKept DEF EmptyLog, Init
<1>. QED  BY <1>1, <1>2, <1>3 DEF DmesgInv, LogInv, WriteInv, ListInv, Quiet

LEMMA WriteStep ==
  ASSUME Exclusive, DmesgInv, NEW t \in Writers, Dmesg_Write(t)
  PROVE  DmesgInv' /\ before' = Contents
<1>1. DmesgTypeOK /\ written \in Seq(Lengths) /\ Len(written) \in Nat
  BY OffsetsAndCount DEF DmesgInv
<1>2. Quiet /\ listing.pc = "idle"
  <2>1. \A u \in Tasks : ~Busy(u)  BY DEF Dmesg_Write, Enters
  <2>2. listing.pc = "idle"  BY <2>1 DEF Busy, Tasks
  <2>3. \A u \in Writers : u \in Tasks /\ u # Reader  BY DmesgAssumption DEF Tasks
  <2>4. Quiet  BY <2>1, <2>3 DEF Busy, Quiet
  <2>. QED  BY <2>2, <2>4
<1>3. PICK ids, p : Kept(ids, p)  BY <1>2 DEF DmesgInv, LogInv
<1>4. Placed(ids, p) /\ Stored(ids, p, 0) /\ log_count = Len(ids)  BY <1>3 DEF Kept
<1>5. Contents = ids /\ before' = ids  BY <1>1, <1>4, ContentsAre DEF Dmesg_Write
<1>6. PICK len \in Lengths :
        /\ written' = Append(written, len)
        /\ call' = [call EXCEPT ![t] = [Idle EXCEPT !.pc = "room", !.id = Len(written) + 1,
                                                     !.len = len]]
  BY DEF Dmesg_Write
<1>7. UNCHANGED <<dmesg_buffer, write_offset, read_offset, log_count, listing>>
  BY DEF Dmesg_Write, offsets
<1>8. /\ written' \in Seq(Lengths) /\ Len(written') = Len(written) + 1
      /\ written'[Len(written) + 1] = len
  BY <1>1, <1>6
<1>b. PICK c : c = [Idle EXCEPT !.pc = "room", !.id = Len(written) + 1, !.len = len]
  OBVIOUS
<1>9. c.pc = "room" /\ c.id = Len(written) + 1 /\ c.len = len /\ c.evictions = 0
  BY <1>b DEF Idle
<1>10. call'[t] = c /\ \A u \in Writers : u # t => call'[u] = call[u]
  <2>1. DOMAIN call = Writers  BY <1>1, CallFields
  <2>. QED  BY <1>6, <1>b, <2>1
<1>11. Placed(ids, p)' /\ \A k \in 1 .. Len(ids) : written'[ids[k]] = written[ids[k]]
  BY <1>1, <1>4, <1>6, PlacedLater
<1>12. Stored(ids, p, 0)'
  <2>1. \A k \in 0 + 1 .. Len(ids) : k \in 1 .. Len(ids)  OBVIOUS
  <2>. QED  BY <1>4, <1>7, <1>11, <2>1 DEF Stored
<1>13. ids \in Seq(Nat)
  <2>1. ids \in Seq(1 .. Len(written))  BY <1>4 DEF Placed
  <2>2. 1 .. Len(written) \subseteq Nat  BY <1>1
  <2>. QED  BY <2>1, <2>2
<1>14. DmesgTypeOK'
  <2>1. c \in [pc : {"idle", "room", "evicted", "emptied", "copy", "commit"},
               id : Nat, len : Nat, evictions : Nat, w_off : Offsets]
    <3>1. len \in Nat /\ 0 \in Offsets  BY Sizes DEF Offsets
    <3>2. c = [pc |-> "room", id |-> Len(written) + 1, len |-> len, evictions |-> 0, w_off |-> 0]
      BY <1>b DEF Idle
    <3>3. Len(written) + 1 \in Nat  BY <1>1
    <3>. QED  BY <3>1, <3>2, <3>3
  <2>2. call' = [call EXCEPT ![t] = c]  BY <1>6, <1>b
  <2>. QED  BY <1>1, <1>5, <1>7, <1>8, <1>13, <2>1, <2>2 DEF DmesgTypeOK
<1>15. Evicting(c, p)'
  <2>1. Gone(c) = 0  BY <1>9 DEF Gone
  <2>2. Len(ids) \in Nat /\ Margin \in Nat /\ p[Len(ids)] < DMESG_BUFFER_SIZE
    <3>1. p[0] = 0 /\ \A k \in 0 .. Len(ids) : p[k] \in Nat  BY <1>4 DEF Placed
    <3>2. Len(ids) \in Nat  BY <1>4 DEF Placed
    <3>3. p[Len(ids)] \in Nat  BY <3>1, <3>2
    <3>. QED  BY <1>4, <3>1, <3>2, <3>3, Sizes DEF Stored
  <2>3. log_count' = Len(ids) - 0 /\ 0 <= log_count' + Margin /\ 0 \in 0 .. Len(ids)
    BY <1>4, <1>7, <2>2
  <2>. QED  BY <1>5, <1>9, <1>11, <1>12, <2>1, <2>2, <2>3 DEF Evicting
<1>16. WriteInv'
  <2>. SUFFICES ASSUME NEW u \in Writers, call'[u].pc # "idle"
                PROVE  Alone(u)' /\ \E q : Evicting(call[u], q)'
    BY DEF WriteInv
  <2>1. \A v \in Writers : call'[v].pc # "idle" => v = t  BY <1>2, <1>10 DEF Quiet
  <2>2. u = t  BY <2>1
  <2>3. Alone(t)'  BY <1>1, <1>2, <1>7, <1>8, <1>9, <1>10, <2>1 DEF Alone
  <2>4. Evicting(call[t], p)'  BY <1>10, <1>15
  <2>. QED  BY <2>2, <2>3, <2>4
<1>17. ~Quiet' /\ listing'.pc # "entry"  BY <1>2, <1>7, <1>9, <1>10 DEF Quiet
<1>. QED  BY <1>5, <1>14, <1>16, <1>17 DEF DmesgInv, LogInv, ListInv

LEMMA CallTypes ==
  ASSUME DmesgTypeOK, NEW t \in Writers,
         NEW c \in [pc : {"idle", "room", "evicted", "emptied", "copy", "commit"},
                   id : Nat, len : Nat, evictions : Nat, w_off : Offsets],
         call' = [call EXCEPT ![t] = c],
         read_offset' \in Offsets, write_offset' \in Offsets,
         log_count' \in 0 .. DMESG_BUFFER_SIZE \div 2,
         UNCHANGED <<dmesg_buffer, listing, written, before>>
  PROVE  DmesgTypeOK'
<1>1. call' \in [Writers -> [pc : {"idle", "room", "evicted", "emptied", "copy", "commit"},
                            id : Nat, len : Nat, evictions : Nat, w_off : Offsets]]
  <2>. DEFINE R == [pc : {"idle", "room", "evicted", "emptied", "copy", "commit"},
                    id : Nat, len : Nat, evictions : Nat, w_off : Offsets]
  <2>1. call \in [Writers -> R] /\ c \in R  BY Zenon DEF DmesgTypeOK
  <2>. HIDE DEF R
  <2>2. call' \in [Writers -> R]  BY <2>1
  <2>. QED  BY <2>2 DEF R
<1>. QED  BY <1>1, Zenon DEF DmesgTypeOK

LEMMA StillWriting ==
  ASSUME DmesgInv, NEW t \in Writers, call[t].pc # "idle", DmesgTypeOK',
         NEW c, call' = [call EXCEPT ![t] = c],
         c.pc \notin {"idle", "emptied"}, c.id = call[t].id, c.len = call[t].len,
         UNCHANGED <<written, listing>>, NEW p, Evicting(c, p)'
  PROVE  DmesgInv'
<1>1. Alone(t)  BY DEF DmesgInv, WriteInv
<1>2. DOMAIN call = Writers  BY CallFields DEF DmesgInv
<1>3. call'[t] = c /\ \A u \in Writers : u # t => call'[u] = call[u]  BY <1>2
<1>4. \A u \in Writers : call'[u].pc # "idle" => u = t  BY <1>1, <1>3 DEF Alone
<1>5. Alone(t)'  BY <1>1, <1>3, <1>4 DEF Alone
<1>6. Evicting(call[t], p)'  BY <1>3
<1>7. WriteInv'  BY <1>4, <1>5, <1>6 DEF WriteInv
<1>8. ~Quiet' /\ listing'.pc # "entry"  BY <1>1, <1>3 DEF Quiet, Alone
<1>. QED  BY <1>7, <1>8 DEF DmesgInv, LogInv, ListInv

LEMMA DoneWriting ==
  ASSUME DmesgInv, NEW t \in Writers, call[t].pc # "idle", DmesgTypeOK',
         call' = [call EXCEPT ![t] = Idle],
         UNCHANGED <<written, listing>>, NEW ids, NEW p, Kept(ids, p)'
  PROVE  DmesgInv' /\ Quiet'
<1>1. Alone(t)  BY DEF DmesgInv, WriteInv
<1>2. DOMAIN call = Writers  BY CallFields DEF DmesgInv
<1>3. call'[t].pc = "idle" /\ \A u \in Writers : u # t => call'[u] = call[u]
  BY <1>2 DEF Idle
<1>4. \A u \in Writers : call'[u].pc = "idle"  BY <1>1, <1>3 DEF Alone
<1>5. Quiet' /\ WriteInv'  BY <1>4 DEF Quiet, WriteInv
<1>6. listing'.pc # "entry"  BY <1>1 DEF Alone
<1>. QED  BY <1>5, <1>6 DEF DmesgInv, LogInv, ListInv

\* Behind the oldest entry the others are where they were.
LEMMA DropEntry ==
  ASSUME DmesgTypeOK, NEW ids, NEW p, Placed(ids, p), NEW e \in 0 .. Len(ids), e < Len(ids),
         Stored(ids, p, e), UNCHANGED <<dmesg_buffer, write_offset, written>>,
         read_offset' = Following(read_offset, p[e + 1] - p[e])
  PROVE  read_offset' \in Offsets /\ Stored(ids, p, e + 1)'
<1>1. /\ written \in Seq(Lengths) /\ read_offset \in Offsets /\ Len(ids) \in Nat
      /\ p[Len(ids)] - p[e] < DMESG_BUFFER_SIZE
  BY PlacedFacts DEF DmesgTypeOK, Stored
<1>2. /\ e \in Nat /\ e + 1 \in 0 .. Len(ids) /\ e + 1 \in 1 .. Len(ids)
      /\ Len(ids) \in 0 .. Len(ids) /\ e <= e + 1 /\ e + 1 <= Len(ids)
  BY <1>1
<1>3. /\ p[e] \in Nat /\ p[e + 1] \in Nat /\ p[Len(ids)] \in Nat
      /\ p[e] <= p[e + 1] /\ p[e + 1] <= p[Len(ids)]
  BY <1>1, <1>2, PlacedFacts
<1>. DEFINE d == p[e + 1] - p[e]  l == p[Len(ids)] - p[e]
<1>4. d \in Nat /\ l \in Nat /\ d <= l /\ l < DMESG_BUFFER_SIZE /\ l - d \in Nat
      /\ d + (l - d) = l /\ l - d < DMESG_BUFFER_SIZE
  <2>1. PICK a, b, c : a = p[e] /\ b = p[e + 1] /\ c = p[Len(ids)]  OBVIOUS
  <2>2. a \in Nat /\ b \in Nat /\ c \in Nat /\ a <= b /\ b <= c  BY <1>3, <2>1
  <2>3. d = b - a /\ l = c - a /\ l < DMESG_BUFFER_SIZE  BY <1>1, <2>1
  <2>4. DMESG_BUFFER_SIZE \in Nat  BY Sizes
  <2>. HIDE DEF d, l
  <2>. QED  BY <2>2, <2>3, <2>4
<1>5. p[Len(ids)] - p[e + 1] = l - d  BY <1>3
<1>6. read_offset' = Following(read_offset, d) /\ write_offset = Following(read_offset, l)
  BY DEF Stored
<1>. HIDE DEF d, l
<1>7. read_offset' \in Offsets
  <2>1. d \in Offsets  BY <1>4, Sizes DEF Offsets
  <2>. QED  BY <1>1, <1>6, <2>1, FollowingIs
<1>8. write_offset' = Following(read_offset', p[Len(ids)] - p[e + 1])
  <2>1. Following(Following(read_offset, d), l - d) = Following(read_offset, d + (l - d))
    BY <1>1, <1>4, FollowingTwice
  <2>. QED  BY <1>4, <1>5, <1>6, <2>1
<1>9. ASSUME NEW k \in e + 1 + 1 .. Len(ids), NEW i \in 0 .. written[ids[k]]
      PROVE  dmesg_buffer[Following(read_offset', p[k - 1] - p[e + 1] + i)] =
               Cell(ids[k], i, written[ids[k]])
  <2>1. k \in e + 1 .. Len(ids) /\ k \in 1 .. Len(ids) /\ k - 1 \in 0 .. Len(ids) /\ e + 1 <= k - 1
    BY <1>1, <1>2
  <2>2. /\ p[k - 1] \in Nat /\ p[e + 1] <= p[k - 1] /\ written[ids[k]] \in Nat
    BY <1>1, <1>2, <2>1, PlacedFacts
  <2>3. p[k - 1] - p[e] + i \in Offsets  BY <1>1, <2>1, InsideLog
  <2>4. dmesg_buffer[Following(read_offset, p[k - 1] - p[e] + i)] = Cell(ids[k], i, written[ids[k]])
    BY <2>1 DEF Stored
  <2>. DEFINE n == p[k - 1] - p[e + 1] + i
  <2>5. n \in Nat /\ d + n = p[k - 1] - p[e] + i
    <3>1. PICK a, b, c, w : a = p[k - 1] /\ b = p[e + 1] /\ c = p[e] /\ w = written[ids[k]]
      OBVIOUS
    <3>2. a \in Nat /\ b \in Nat /\ c \in Nat /\ b <= a /\ w \in Nat /\ i \in 0 .. w
      BY <1>3, <2>2, <3>1
    <3>3. a - b + i \in Nat /\ (b - c) + (a - b + i) = a - c + i  BY <3>2
    <3>. QED  BY <3>1, <3>3 DEF d
  <2>6. d + n < DMESG_BUFFER_SIZE  BY <2>3, <2>5, Sizes DEF Offsets
  <2>. HIDE DEF n
  <2>7. Following(Following(read_offset, d), n) = Following(read_offset, d + n)
    BY <1>1, <1>4, <2>5, <2>6, FollowingTwice
  <2>. QED  BY <1>6, <2>4, <2>5, <2>7 DEF n
<1>10. p[Len(ids)] - p[e + 1] < DMESG_BUFFER_SIZE  BY <1>4, <1>5
<1>. QED  BY <1>7, <1>8, <1>9, <1>10 DEF Stored

LEMMA EvictStep ==
  ASSUME DmesgInv, NEW t \in Writers, Evict(t)
  PROVE  DmesgInv'
<1>1. DmesgTypeOK /\ written \in Seq(Lengths)  BY OffsetsAndCount DEF DmesgInv
<1>2. /\ call[t].pc = "room" /\ get_available_space < 1 + call[t].len /\ log_count > 0
      /\ UNCHANGED <<dmesg_buffer, write_offset, listing, written, before>>
  BY DEF Evict, NeedsRoom
<1>3. PICK p : Evicting(call[t], p)  BY <1>2 DEF DmesgInv, WriteInv
<1>4. PICK e, ids : e = call[t].evictions /\ ids = before  OBVIOUS
<1>5. Gone(call[t]) = e  BY <1>2, <1>4 DEF Gone
<1>6. /\ Placed(ids, p) /\ p[Len(ids)] < DMESG_BUFFER_SIZE /\ e \in 0 .. Len(ids)
      /\ Stored(ids, p, e) /\ log_count = Len(ids) - e /\ e <= log_count + Margin
  BY <1>3, <1>4, <1>5 DEF Evicting
<1>7. Len(ids) \in Nat /\ e < Len(ids) /\ e + 1 \in 0 .. Len(ids) /\ e + 1 > 0
      /\ e + 1 \in e + 1 .. Len(ids) /\ e + 1 - 1 = e
  <2>1. Len(ids) \in Nat  BY <1>1, <1>6, PlacedFacts
  <2>. QED  BY <1>2, <1>6, <2>1
<1>8. ValidLength(dmesg_buffer[read_offset].byte)
      /\ Following(read_offset, 1 + dmesg_buffer[read_offset].byte) =
           Following(read_offset, p[e + 1] - p[e])
  <2>1. p[e] \in Nat  BY <1>1, <1>6, PlacedFacts
  <2>2. read_offset = Following(read_offset, p[e] - p[e])
    <3>1. p[e] - p[e] = 0  BY <2>1
    <3>2. read_offset \in Offsets  BY <1>1 DEF DmesgTypeOK
    <3>. QED  BY <3>1, <3>2, FollowingNone
  <2>3. read_offset = Following(read_offset, p[e + 1 - 1] - p[e])  BY <1>7, <2>2
  <2>. QED  BY <1>1, <1>6, <1>7, <2>3, EntryAt
<1>9. /\ read_offset' = Following(read_offset, p[e + 1] - p[e])
      /\ call' = [call EXCEPT ![t] = [@ EXCEPT !.pc = "evicted"]] /\ log_count' = log_count
  BY <1>8 DEF Evict
<1>10. PICK c : c = [call[t] EXCEPT !.pc = "evicted"]  OBVIOUS
<1>11. /\ c.pc = "evicted" /\ c.id = call[t].id /\ c.len = call[t].len /\ c.evictions = e
       /\ c \in [pc : {"idle", "room", "evicted", "emptied", "copy", "commit"},
                 id : Nat, len : Nat, evictions : Nat, w_off : Offsets]
  BY <1>1, <1>4, <1>10 DEF DmesgTypeOK
<1>12. call' = [call EXCEPT ![t] = c]  BY <1>9, <1>10, Zenon
<1>13. read_offset' \in Offsets /\ Stored(ids, p, e + 1)'
  BY <1>1, <1>2, <1>6, <1>7, <1>9, DropEntry
<1>14. DmesgTypeOK'
  <2>1. write_offset' \in Offsets /\ log_count' \in 0 .. DMESG_BUFFER_SIZE \div 2
    BY <1>1, <1>2, <1>9, Zenon DEF DmesgTypeOK
  <2>. QED  BY <1>1, <1>2, <1>11, <1>12, <1>13, <2>1, CallTypes
<1>15. Taken(p, e, c)' >= DMESG_BUFFER_SIZE
  <2>1. p[Len(ids)] - p[e] \in Offsets
    <3>1. Len(ids) \in 0 .. Len(ids)  BY <1>7
    <3>2. p[e] \in Nat /\ p[Len(ids)] \in Nat /\ p[e] <= p[Len(ids)]
      BY <1>1, <1>6, <1>7, <3>1, PlacedFacts
    <3>3. p[Len(ids)] - p[e] < DMESG_BUFFER_SIZE  BY <1>6 DEF Stored
    <3>. QED  BY <3>2, <3>3, Sizes DEF Offsets
  <2>. DEFINE l == p[Len(ids)] - p[e]
  <2>2. write_offset = Following(read_offset, l)  BY <1>6 DEF Stored
  <2>3. l \in Offsets /\ read_offset \in Offsets  BY <1>1, <2>1 DEF DmesgTypeOK
  <2>. HIDE DEF l
  <2>4. get_available_space = DMESG_BUFFER_SIZE - 1 - l  BY <2>2, <2>3, SpaceLeft
  <2>5. l + 1 + call[t].len >= DMESG_BUFFER_SIZE
    <3>1. l \in Nat /\ DMESG_BUFFER_SIZE \in Nat  BY <2>3, Sizes DEF Offsets
    <3>2. call[t].len \in Nat  BY <1>1, CallFields
    <3>. QED  BY <1>2, <2>4, <3>1, <3>2
  <2>. QED  BY <1>2, <1>4, <1>11, <2>5 DEF Taken, l
<1>16. Evicting(c, p)'
  <2>1. Gone(c) = e + 1 /\ Gone(c) - 1 = e  BY <1>7, <1>11 DEF Gone
  <2>2. before' = ids /\ Placed(ids, p)'  BY <1>2, <1>4, <1>6 DEF Placed
  <2>3. Gone(c) > 0 => Taken(p, Gone(c) - 1, c)' >= DMESG_BUFFER_SIZE  BY <1>15, <2>1
  <2>. QED  BY <1>6, <1>7, <1>9, <1>11, <1>13, <2>1, <2>2, <2>3 DEF Evicting
<1>. QED  BY <1>2, <1>11, <1>12, <1>14, <1>16, StillWriting

LEMMA CountEvictionStep ==
  ASSUME DmesgInv, NEW t \in Writers, CountEviction(t)
  PROVE  /\ DmesgInv'
         /\ \/ /\ Quiet' /\ write_offset' = 0 /\ read_offset' = 0 /\ log_count' = 0
               /\ call[t].evictions + 1 > Len(before) - (call[t].evictions + 1) + Margin
            \/ call'[t].pc # "idle"
<1>1. DmesgTypeOK /\ written \in Seq(Lengths)  BY OffsetsAndCount DEF DmesgInv
<1>2. call[t].pc = "evicted" /\ UNCHANGED <<dmesg_buffer, listing, written, before>>
  <2>1. call[t].pc \in {"evicted", "emptied"} /\ call[t].pc # "idle"
        /\ UNCHANGED <<dmesg_buffer, listing, written, before>>
    BY DEF CountEviction
  <2>. QED  BY <2>1 DEF DmesgInv, WriteInv, Alone
<1>3. PICK p : Evicting(call[t], p)  BY <1>2 DEF DmesgInv, WriteInv
<1>4. PICK e, ids : e = call[t].evictions /\ ids = before  OBVIOUS
<1>5. Gone(call[t]) = e + 1  BY <1>2, <1>4 DEF Gone
<1>6. /\ Placed(ids, p) /\ p[Len(ids)] < DMESG_BUFFER_SIZE /\ e + 1 \in 0 .. Len(ids)
      /\ Stored(ids, p, e + 1) /\ log_count = Len(ids) - e
  BY <1>3, <1>4, <1>5 DEF Evicting
<1>a. e \in Nat /\ e + 1 > 0 /\ e + 1 - 1 = e
  <2>1. e \in Nat  BY <1>1, <1>4, CallFields
  <2>. QED  BY <2>1
<1>b. Taken(p, e, call[t]) >= DMESG_BUFFER_SIZE
  <2>1. Gone(call[t]) > 0 /\ Gone(call[t]) - 1 = e  BY <1>5, <1>a
  <2>. QED  BY <1>3, <2>1 DEF Evicting
<1>7. (log_count - 1) % SizeModulus = Len(ids) - (e + 1) /\ Len(ids) - (e + 1) \in Nat
      /\ e \in Nat /\ Len(ids) - (e + 1) \in 0 .. DMESG_BUFFER_SIZE \div 2
  <2>1. Len(ids) \in 0 .. DMESG_BUFFER_SIZE \div 2  BY <1>1, <1>6, CountBound
  <2>2. e \in Nat  BY <1>1, <1>4, CallFields
  <2>. DEFINE n == Len(ids)
  <2>3. n \in Nat /\ log_count = n - e /\ e + 1 \in 0 .. n /\ n \in 0 .. DMESG_BUFFER_SIZE \div 2
    BY <1>6, <2>1
  <2>. HIDE DEF n
  <2>4. n - (e + 1) \in 0 .. n /\ log_count - 1 = n - (e + 1)  BY <2>2, <2>3
  <2>5. DMESG_BUFFER_SIZE \div 2 < DMESG_BUFFER_SIZE /\ DMESG_BUFFER_SIZE <= SizeModulus
        /\ SizeModulus \in Nat /\ DMESG_BUFFER_SIZE \in Nat
    BY Sizes
  <2>6. n - (e + 1) \in 0 .. DMESG_BUFFER_SIZE \div 2 /\ n - (e + 1) < SizeModulus
    BY <2>3, <2>4, <2>5
  <2>7. (n - (e + 1)) % SizeModulus = n - (e + 1)  BY <2>5, <2>6
  <2>. QED  BY <2>2, <2>4, <2>6, <2>7 DEF n
<1>8. CASE e + 1 > Len(ids) - (e + 1) + Margin
  <2>1. /\ write_offset' = 0 /\ read_offset' = 0 /\ log_count' = 0
        /\ call' = [call EXCEPT ![t] = Idle]
    BY <1>2, <1>4, <1>7, <1>8 DEF CountEviction
  <2>2. DmesgTypeOK'
    <3>1. 0 \in Offsets /\ 0 \in 0 .. DMESG_BUFFER_SIZE \div 2  BY Sizes DEF Offsets
    <3>2. Idle \in [pc : {"idle", "room", "evicted", "emptied", "copy", "commit"},
                    id : Nat, len : Nat, evictions : Nat, w_off : Offsets]
      BY <3>1 DEF Idle
    <3>. QED  BY <1>1, <1>2, <2>1, <3>1, <3>2 DEF DmesgTypeOK
  <2>3. EmptyLog'  BY EmptyLogKept, PTL
  <2>4. PICK q : Kept(<<>>, q)'  BY <2>1, <2>3 DEF EmptyLog
  <2>5. call[t].pc # "idle" /\ UNCHANGED <<written, listing>>  BY <1>2
  <2>6. DmesgInv' /\ Quiet'  BY <2>1, <2>2, <2>4, <2>5, DoneWriting
  <2>. QED  BY <1>4, <1>8, <2>1, <2>6
<1>9. CASE ~(e + 1 > Len(ids) - (e + 1) + Margin)
  <2>1. /\ log_count' = Len(ids) - (e + 1)
        /\ call' = [call EXCEPT ![t] = [@ EXCEPT !.pc = "room", !.evictions = e + 1]]
        /\ UNCHANGED <<write_offset, read_offset>>
    BY <1>2, <1>4, <1>7, <1>9 DEF CountEviction
  <2>2. PICK c : c = [call[t] EXCEPT !.pc = "room", !.evictions = e + 1]  OBVIOUS
  <2>3. /\ c.pc = "room" /\ c.id = call[t].id /\ c.len = call[t].len /\ c.evictions = e + 1
        /\ c \in [pc : {"idle", "room", "evicted", "emptied", "copy", "commit"},
                  id : Nat, len : Nat, evictions : Nat, w_off : Offsets]
    <3>1. call[t] \in [pc : {"idle", "room", "evicted", "emptied", "copy", "commit"},
                       id : Nat, len : Nat, evictions : Nat, w_off : Offsets]
      BY <1>1 DEF DmesgTypeOK
    <3>2. e + 1 \in Nat  BY <1>a
    <3>3. c = [pc |-> "room", id |-> call[t].id, len |-> call[t].len, evictions |-> e + 1,
               w_off |-> call[t].w_off]
      BY <2>2, <3>1
    <3>. QED  BY <3>1, <3>2, <3>3
  <2>4. call' = [call EXCEPT ![t] = c]
    BY <2>1, <2>2, Zenon
  <2>5. DmesgTypeOK'
    <3>1. /\ read_offset' \in Offsets /\ write_offset' \in Offsets
          /\ log_count' \in 0 .. DMESG_BUFFER_SIZE \div 2
      BY <1>1, <1>7, <2>1, OffsetsAndCount
    <3>. QED  BY <1>1, <1>2, <2>3, <2>4, <3>1, CallTypes
  <2>6. Evicting(c, p)'
    <3>1. Gone(c) = e + 1  BY <2>3 DEF Gone
    <3>2. before' = ids /\ Placed(ids, p)'  BY <1>2, <1>4, <1>6 DEF Placed
    <3>3. Stored(ids, p, e + 1)'  BY <1>2, <1>6, <2>1 DEF Stored
    <3>4. Gone(c) > 0 => Taken(p, Gone(c) - 1, c)' >= DMESG_BUFFER_SIZE
      <4>1. Taken(p, e, c)' >= DMESG_BUFFER_SIZE  BY <1>2, <1>b, <2>3 DEF Taken
      <4>. QED  BY <1>a, <3>1, <4>1
    <3>5. e + 1 <= log_count' + Margin
      <4>1. Margin \in Nat  BY Sizes
      <4>. QED  BY <1>7, <1>9, <2>1, <4>1
    <3>. QED  BY <1>6, <2>1, <2>3, <3>1, <3>2, <3>3, <3>4, <3>5 DEF Evicting
  <2>7. call[t].pc # "idle" /\ UNCHANGED <<written, listing>>  BY <1>2
  <2>8. call'[t].pc # "idle"
    <3>1. DOMAIN call = Writers  BY <1>1, CallFields
    <3>. QED  BY <2>3, <2>4, <3>1
  <2>9. DmesgInv'  BY <2>3, <2>4, <2>5, <2>6, <2>7, StillWriting
  <2>. QED  BY <2>8, <2>9
<1>. QED  BY <1>8, <1>9

LEMMA TakeRoomStep ==
  ASSUME DmesgInv, NEW t \in Writers, TakeRoom(t)
  PROVE  DmesgInv' /\ call'[t].pc # "idle"
<1>1. DmesgTypeOK /\ written \in Seq(Lengths)  BY OffsetsAndCount DEF DmesgInv
<1>2. call[t].pc = "room" /\ ~NeedsRoom(t)
      /\ UNCHANGED <<dmesg_buffer, write_offset, read_offset, log_count, listing, written, before>>
  BY DEF TakeRoom, offsets
<1>3. PICK p : Evicting(call[t], p)  BY <1>2 DEF DmesgInv, WriteInv
<1>4. PICK e, ids : e = call[t].evictions /\ ids = before  OBVIOUS
<1>5. Gone(call[t]) = e  BY <1>2, <1>4 DEF Gone
<1>6. /\ Placed(ids, p) /\ p[Len(ids)] < DMESG_BUFFER_SIZE /\ e \in 0 .. Len(ids)
      /\ Stored(ids, p, e) /\ log_count = Len(ids) - e /\ e <= log_count + Margin
      /\ e > 0 => Taken(p, e - 1, call[t]) >= DMESG_BUFFER_SIZE
  BY <1>3, <1>4, <1>5 DEF Evicting
<1>. DEFINE l == p[Len(ids)] - p[e]
<1>7. /\ l \in Offsets /\ get_available_space = DMESG_BUFFER_SIZE - 1 - l
      /\ Len(ids) \in Nat /\ (e = Len(ids) => l = 0)
  <2>1. Len(ids) \in Nat /\ Len(ids) \in 0 .. Len(ids)  BY <1>1, <1>6, PlacedFacts
  <2>2. p[e] \in Nat /\ p[Len(ids)] \in Nat /\ p[e] <= p[Len(ids)]
    BY <1>1, <1>6, <2>1, PlacedFacts
  <2>3. l < DMESG_BUFFER_SIZE /\ write_offset = Following(read_offset, l)  BY <1>6 DEF Stored
  <2>4. l \in Offsets /\ (e = Len(ids) => l = 0)  BY <2>2, <2>3, Sizes DEF Offsets
  <2>5. read_offset \in Offsets  BY <1>1 DEF DmesgTypeOK
  <2>. HIDE DEF l
  <2>. QED  BY <2>1, <2>3, <2>4, <2>5, SpaceLeft
<1>8. call[t].len \in Nat /\ 1 + call[t].len < DMESG_BUFFER_SIZE
  <2>1. call[t].len \in Lengths  BY <1>1, <1>2 DEF DmesgInv, WriteInv, Alone
  <2>. QED  BY <2>1, Sizes
<1>9. ~(get_available_space < 1 + call[t].len) /\ l + 1 + call[t].len < DMESG_BUFFER_SIZE
  <2>1. l \in Nat /\ DMESG_BUFFER_SIZE \in Nat  BY <1>7, Sizes DEF Offsets
  <2>2. get_available_space >= 1 + call[t].len
    <3>1. CASE log_count = 0
      <4>1. l = 0  BY <1>6, <1>7, <3>1
      <4>. HIDE DEF l
      <4>. QED  BY <1>7, <1>8, <2>1, <4>1
    <3>2. CASE log_count # 0
      <4>1. log_count > 0  BY <1>1, <3>2 DEF DmesgTypeOK
      <4>. HIDE DEF l
      <4>. QED  BY <1>2, <1>7, <1>8, <2>1, <4>1 DEF NeedsRoom
    <3>. QED  BY <3>1, <3>2
  <2>. HIDE DEF l
  <2>. QED  BY <1>7, <1>8, <2>1, <2>2
<1>10. PICK c : c = [call[t] EXCEPT !.pc = "copy", !.w_off = write_offset]  OBVIOUS
<1>11. /\ c.pc = "copy" /\ c.id = call[t].id /\ c.len = call[t].len /\ c.evictions = e
       /\ c.w_off = write_offset
       /\ c \in [pc : {"idle", "room", "evicted", "emptied", "copy", "commit"},
                 id : Nat, len : Nat, evictions : Nat, w_off : Offsets]
  BY <1>1, <1>4, <1>10 DEF DmesgTypeOK
<1>12. call' = [call EXCEPT ![t] = c] /\ call'[t].pc # "idle"
  <2>1. DOMAIN call = Writers  BY <1>1, CallFields
  <2>2. call' = [call EXCEPT ![t] = c]  BY <1>9, <1>10 DEF TakeRoom
  <2>. QED  BY <1>11, <2>1, <2>2
<1>13. DmesgTypeOK'
  <2>1. /\ read_offset' \in Offsets /\ write_offset' \in Offsets
        /\ log_count' \in 0 .. DMESG_BUFFER_SIZE \div 2
    BY <1>1, <1>2, Zenon DEF DmesgTypeOK
  <2>. QED  BY <1>1, <1>2, <1>11, <1>12, <2>1, CallTypes
<1>14. Evicting(c, p)'
  <2>1. Gone(c) = e  BY <1>11 DEF Gone
  <2>2. before' = ids /\ Placed(ids, p)'  BY <1>2, <1>4, <1>6 DEF Placed
  <2>3. Stored(ids, p, e)'  BY <1>2, <1>6 DEF Stored
  <2>4. e > 0 => Taken(p, e - 1, c)' >= DMESG_BUFFER_SIZE  BY <1>2, <1>6, <1>11 DEF Taken
  <2>5. Taken(p, e, c)' < DMESG_BUFFER_SIZE  BY <1>2, <1>4, <1>9, <1>11 DEF Taken
  <2>. QED  BY <1>2, <1>6, <1>11, <2>1, <2>2, <2>3, <2>4, <2>5 DEF Evicting
<1>. QED  BY <1>2, <1>11, <1>12, <1>13, <1>14, StillWriting

LEMMA CopyEntryStep ==
  ASSUME DmesgInv, NEW t \in Writers, CopyEntry(t)
  PROVE  DmesgInv' /\ call'[t].pc # "idle"
<1>1. DmesgTypeOK /\ written \in Seq(Lengths) /\ read_offset \in Offsets /\ write_offset \in Offsets
      /\ DOMAIN dmesg_buffer = Offsets
  BY DEF DmesgInv, DmesgTypeOK
<1>2. call[t].pc = "copy"
      /\ UNCHANGED <<write_offset, read_offset, log_count, listing, written, before>>
  BY DEF CopyEntry, offsets
<1>3. PICK p : Evicting(call[t], p)  BY <1>2 DEF DmesgInv, WriteInv
<1>4. PICK e, ids, id, len : e = call[t].evictions /\ ids = before
                             /\ id = call[t].id /\ len = call[t].len
  OBVIOUS
<1>5. Gone(call[t]) = e  BY <1>2, <1>4 DEF Gone
<1>6. /\ Placed(ids, p) /\ p[Len(ids)] < DMESG_BUFFER_SIZE /\ e \in 0 .. Len(ids)
      /\ Stored(ids, p, e) /\ log_count = Len(ids) - e /\ e <= log_count + Margin
      /\ e > 0 => Taken(p, e - 1, call[t]) >= DMESG_BUFFER_SIZE
      /\ call[t].w_off = write_offset /\ Taken(p, e, call[t]) < DMESG_BUFFER_SIZE
  BY <1>2, <1>3, <1>4, <1>5 DEF Evicting
<1>7. /\ len \in Nat /\ id \in Nat /\ len <= DMESG_MSG_MAX_LENGTH
  <2>1. len \in Lengths  BY <1>1, <1>2, <1>4 DEF DmesgInv, WriteInv, Alone
  <2>2. id \in Nat  BY <1>1, <1>4, CallFields
  <2>. QED  BY <2>1, <2>2, Sizes
<1>8. dmesg_buffer' =
        [i \in Offsets |-> IF \E k \in 0 .. len : i = Following(write_offset, k)
                           THEN Cell(id, (i - write_offset) % DMESG_BUFFER_SIZE, len)
                           ELSE dmesg_buffer[i]]
  BY <1>1, <1>4, <1>6 DEF CopyEntry
<1>. DEFINE l == p[Len(ids)] - p[e]
<1>9. /\ l \in Nat /\ write_offset = Following(read_offset, l) /\ l + 1 + len < DMESG_BUFFER_SIZE
  <2>1. Len(ids) \in Nat /\ Len(ids) \in 0 .. Len(ids)  BY <1>1, <1>6, PlacedFacts
  <2>2. p[e] \in Nat /\ p[Len(ids)] \in Nat /\ p[e] <= p[Len(ids)]
    BY <1>1, <1>6, <2>1, PlacedFacts
  <2>3. write_offset = Following(read_offset, l)  BY <1>6 DEF Stored
  <2>4. l + 1 + len < DMESG_BUFFER_SIZE  BY <1>4, <1>6 DEF Taken
  <2>5. l \in Nat  BY <2>2
  <2>. QED  BY <2>3, <2>4, <2>5
<1>. HIDE DEF l
<1>10. ASSUME NEW j \in 0 .. len
       PROVE  /\ j \in Offsets /\ l + j \in Offsets /\ l <= l + j
              /\ Following(write_offset, j) \in Offsets
              /\ Following(write_offset, j) = Following(read_offset, l + j)
  <2>1. j \in Nat /\ j \in Offsets /\ l + j \in Offsets /\ l + j < DMESG_BUFFER_SIZE /\ l <= l + j
    BY <1>7, <1>9, Sizes DEF Offsets
  <2>. QED  BY <1>1, <1>9, <2>1, FollowingIs, FollowingTwice
<1>11. \A j \in 0 .. len : dmesg_buffer'[Following(write_offset, j)] = Cell(id, j, len)
  <2>. SUFFICES ASSUME NEW j \in 0 .. len
                PROVE  dmesg_buffer'[Following(write_offset, j)] = Cell(id, j, len)
    OBVIOUS
  <2>1. (Following(write_offset, j) - write_offset) % DMESG_BUFFER_SIZE = j
    BY <1>1, <1>10, Distance
  <2>2. PICK o : o = Following(write_offset, j)  OBVIOUS
  <2>3. o \in Offsets /\ \E k \in 0 .. len : o = Following(write_offset, k)  BY <1>10, <2>2
  <2>4. dmesg_buffer'[o] = Cell(id, (o - write_offset) % DMESG_BUFFER_SIZE, len)
    BY <1>8, <2>3
  <2>. QED  BY <2>1, <2>2, <2>4
<1>12. Stored(ids, p, e)'
  <2>1. ASSUME NEW k \in e + 1 .. Len(ids), NEW i \in 0 .. written[ids[k]]
        PROVE  dmesg_buffer'[Following(read_offset, p[k - 1] - p[e] + i)] =
                 Cell(ids[k], i, written[ids[k]])
    <3>. DEFINE x == p[k - 1] - p[e] + i
    <3>1. x \in Offsets /\ x < l
      <4>1. p[Len(ids)] - p[e] < DMESG_BUFFER_SIZE  BY <1>6 DEF Stored
      <4>. QED  BY <1>1, <1>6, <4>1, InsideLog DEF l
    <3>2. dmesg_buffer[Following(read_offset, x)] = Cell(ids[k], i, written[ids[k]])
      BY <1>6 DEF Stored
    <3>. HIDE DEF x
    <3>3. PICK o : o = Following(read_offset, x)  OBVIOUS
    <3>4. o \in Offsets  BY <1>1, <3>1, <3>3, FollowingIs
    <3>5. \A j \in 0 .. len : o # Following(write_offset, j)
      <4>. SUFFICES ASSUME NEW j \in 0 .. len, o = Following(write_offset, j) PROVE FALSE
        OBVIOUS
      <4>1. Following(read_offset, x) = Following(read_offset, l + j)  BY <1>10, <3>3
      <4>2. l + j \in Offsets /\ l <= l + j  BY <1>10
      <4>3. x = l + j  BY <1>1, <3>1, <4>1, <4>2, FollowingApart
      <4>4. x \in Nat /\ l + j \in Nat  BY <3>1, <4>2, Sizes DEF Offsets
      <4>. QED  BY <1>9, <3>1, <4>2, <4>3, <4>4
    <3>6. dmesg_buffer'[o] = dmesg_buffer[o]  BY <1>8, <3>4, <3>5
    <3>. QED  BY <3>2, <3>3, <3>6 DEF x
  <2>. QED  BY <1>2, <1>6, <2>1 DEF Stored
<1>13. PICK c : c = [call[t] EXCEPT !.pc = "commit"]  OBVIOUS
<1>14. /\ c.pc = "commit" /\ c.id = id /\ c.len = len /\ c.evictions = e
       /\ c.w_off = write_offset
       /\ c \in [pc : {"idle", "room", "evicted", "emptied", "copy", "commit"},
                 id : Nat, len : Nat, evictions : Nat, w_off : Offsets]
  BY <1>1, <1>4, <1>6, <1>13 DEF DmesgTypeOK
<1>15. call' = [call EXCEPT ![t] = c] /\ call'[t].pc # "idle"
  <2>1. DOMAIN call = Writers  BY <1>1, CallFields
  <2>2. call' = [call EXCEPT ![t] = c]  BY <1>13 DEF CopyEntry
  <2>. QED  BY <1>14, <2>1, <2>2
<1>16. DmesgTypeOK'
  <2>1. ASSUME NEW i \in Offsets
        PROVE  Cell(id, (i - write_offset) % DMESG_BUFFER_SIZE, len) \in
                 [byte : 0 .. DMESG_MSG_MAX_LENGTH, of : Nat, at : Nat]
    <3>1. (i - write_offset) % DMESG_BUFFER_SIZE \in Nat
      BY <1>1, Sizes DEF Offsets
    <3>2. PICK n \in Nat : n = (i - write_offset) % DMESG_BUFFER_SIZE  BY <3>1
    <3>3. len \in 0 .. DMESG_MSG_MAX_LENGTH /\ Text \in 0 .. DMESG_MSG_MAX_LENGTH
      BY <1>7, Sizes
    <3>4. Cell(id, n, len) \in [byte : 0 .. DMESG_MSG_MAX_LENGTH, of : Nat, at : Nat]
      BY <1>7, <3>3 DEF Cell
    <3>. QED  BY <3>2, <3>4
  <2>2. dmesg_buffer' \in [Offsets -> [byte : 0 .. DMESG_MSG_MAX_LENGTH, of : Nat, at : Nat]]
    <3>1. \A i \in Offsets : dmesg_buffer[i] \in [byte : 0 .. DMESG_MSG_MAX_LENGTH, of : Nat, at : Nat]
      BY <1>1 DEF DmesgTypeOK
    <3>. QED  BY <1>8, <2>1, <3>1
  <2>. QED  BY <1>1, <1>2, <1>14, <1>15, <2>2 DEF DmesgTypeOK
<1>17. Evicting(c, p)'
  <2>1. Gone(c) = e  BY <1>14 DEF Gone
  <2>2. before' = ids /\ Placed(ids, p)'  BY <1>2, <1>4, <1>6 DEF Placed
  <2>3. /\ e > 0 => Taken(p, e - 1, c)' >= DMESG_BUFFER_SIZE
        /\ Taken(p, e, c)' < DMESG_BUFFER_SIZE
    BY <1>2, <1>4, <1>6, <1>14 DEF Taken
  <2>4. \A i \in 0 .. c.len : dmesg_buffer'[Following(write_offset', i)] = Cell(c.id, i, c.len)
    BY <1>2, <1>11, <1>14
  <2>. QED  BY <1>2, <1>6, <1>12, <1>14, <2>1, <2>2, <2>3, <2>4 DEF Evicting
<1>. QED  BY <1>2, <1>4, <1>14, <1>15, <1>16, <1>17, StillWriting

\* The messages after the first e, and a new one; and where they lie.
Newer(ids, e, id) == Append(SubSeq(ids, e + 1, Len(ids)), id)
Shifted(ids, p, e, len) ==
  [k \in 0 .. Len(ids) - e + 1 |->
     IF k <= Len(ids) - e THEN p[e + k] - p[e] ELSE p[Len(ids)] - p[e] + 1 + len]

LEMMA RestIs ==
  ASSUME NEW S, NEW ids \in Seq(S), NEW e \in 0 .. Len(ids)
  PROVE  /\ SubSeq(ids, e + 1, Len(ids)) \in Seq(S)
         /\ Len(SubSeq(ids, e + 1, Len(ids))) = Len(ids) - e /\ Len(ids) - e \in Nat
         /\ \A k \in 1 .. Len(ids) - e : SubSeq(ids, e + 1, Len(ids))[k] = ids[e + k]
<1>1. e \in Nat /\ Len(ids) \in Nat /\ Len(ids) - e \in Nat  OBVIOUS
<1>2. \A k \in 1 .. Len(ids) - e : k + (e + 1) - 1 = e + k  BY <1>1
<1>. QED  BY <1>1, <1>2

LEMMA NewerIs ==
  ASSUME NEW S, NEW ids \in Seq(S), NEW e \in 0 .. Len(ids), NEW id \in S
  PROVE  /\ Len(ids) - e \in Nat
         /\ Newer(ids, e, id) \in Seq(S) /\ Len(Newer(ids, e, id)) = Len(ids) - e + 1
         /\ \A k \in 1 .. Len(ids) - e : Newer(ids, e, id)[k] = ids[e + k]
         /\ Newer(ids, e, id)[Len(ids) - e + 1] = id
<1>. DEFINE rest == SubSeq(ids, e + 1, Len(ids))  n == Len(ids) - e
<1>1. e \in Nat /\ Len(ids) \in Nat /\ n \in Nat  OBVIOUS
<1>2. rest \in Seq(S) /\ Len(rest) = n /\ \A k \in 1 .. n : rest[k] = ids[e + k]
  BY RestIs
<1>. HIDE DEF rest
<1>3. /\ Append(rest, id) \in Seq(S) /\ Len(Append(rest, id)) = n + 1
      /\ \A k \in 1 .. n : Append(rest, id)[k] = rest[k]
      /\ Append(rest, id)[n + 1] = id
  BY <1>1, <1>2
<1>4. Newer(ids, e, id) = Append(rest, id)  BY DEF Newer, rest
<1>. HIDE DEF n
<1>5. /\ n \in Nat /\ Newer(ids, e, id) \in Seq(S) /\ Len(Newer(ids, e, id)) = n + 1
      /\ \A k \in 1 .. n : Newer(ids, e, id)[k] = ids[e + k]
      /\ Newer(ids, e, id)[n + 1] = id
  BY <1>1, <1>2, <1>3, <1>4
<1>. QED  BY <1>5 DEF n

LEMMA NewerPlaced ==
  ASSUME written \in Seq(Lengths), NEW ids, NEW p, Placed(ids, p), NEW e \in 0 .. Len(ids),
         NEW id \in 1 .. Len(written)
  PROVE  Placed(Newer(ids, e, id), Shifted(ids, p, e, written[id]))
<1>. DEFINE L == Len(ids)  n == L - e  new == Newer(ids, e, id)  w == written[id]
            q == Shifted(ids, p, e, w)
<1>1. /\ ids \in Seq(1 .. Len(written)) /\ L \in Nat /\ e \in Nat /\ n \in Nat /\ e + n = L
      /\ L \in 0 .. L /\ e <= L
  <2>1. ids \in Seq(1 .. Len(written)) /\ Len(ids) \in Nat  BY DEF Placed
  <2>. QED  BY <2>1
<1>2. /\ new \in Seq(1 .. Len(written)) /\ Len(new) = n + 1
      /\ \A k \in 1 .. n : new[k] = ids[e + k]
      /\ new[n + 1] = id
  <2>1. PICK S : S = 1 .. Len(written)  OBVIOUS
  <2>2. ids \in Seq(S) /\ id \in S  BY <1>1, <2>1
  <2>3. /\ Newer(ids, e, id) \in Seq(S) /\ Len(Newer(ids, e, id)) = Len(ids) - e + 1
        /\ \A k \in 1 .. Len(ids) - e : Newer(ids, e, id)[k] = ids[e + k]
        /\ Newer(ids, e, id)[Len(ids) - e + 1] = id
    BY <2>2, NewerIs
  <2>. QED  BY <2>1, <2>3
<1>3. w \in Nat /\ 1 <= w
  <2>1. w \in Lengths  OBVIOUS
  <2>. QED  BY <2>1, Sizes
<1>4. \A k \in 0 .. L : p[k] \in Nat  BY PlacedFacts
<1>5. \A j, k \in 0 .. L : j <= k => p[j] + 2 * (k - j) <= p[k] /\ p[j] <= p[k]  BY PlacedFacts
<1>6. \A k \in 1 .. L : p[k] = p[k - 1] + 1 + written[ids[k]]  BY PlacedFacts
<1>7. q = [k \in 0 .. n + 1 |-> IF k <= n THEN p[e + k] - p[e] ELSE p[L] - p[e] + 1 + w]
  BY DEF Shifted
<1>. HIDE DEF L, n, new, w, q
<1>8. \A k \in 0 .. n : e + k \in 0 .. L /\ e <= e + k /\ k \in 0 .. n + 1 /\ k <= n  BY <1>1
<1>9. \A k \in 0 .. n : q[k] = p[e + k] - p[e] /\ q[k] \in Nat
  <2>. SUFFICES ASSUME NEW k \in 0 .. n PROVE q[k] = p[e + k] - p[e] /\ q[k] \in Nat
    OBVIOUS
  <2>1. e + k \in 0 .. L /\ e \in 0 .. L /\ e <= e + k /\ k \in 0 .. n + 1 /\ k <= n
    BY <1>1, <1>8
  <2>2. p[e] \in Nat /\ p[e + k] \in Nat /\ p[e] <= p[e + k]  BY <1>4, <1>5, <2>1
  <2>3. q[k] = p[e + k] - p[e]  BY <1>7, <2>1
  <2>. QED  BY <2>2, <2>3
<1>10. /\ n + 1 \in 0 .. n + 1 /\ ~(n + 1 <= n) /\ n \in 0 .. n /\ 0 \in 0 .. n
  BY <1>1
<1>11. q[n + 1] = q[n] + 1 + w /\ q[n + 1] \in Nat /\ q[n] \in Nat
  <2>1. q[n + 1] = p[L] - p[e] + 1 + w  BY <1>7, <1>10
  <2>2. q[n] = p[L] - p[e] /\ q[n] \in Nat  BY <1>1, <1>9, <1>10
  <2>. QED  BY <1>3, <2>1, <2>2
<1>12. q \in [0 .. n + 1 -> Nat]
  <2>1. \A k \in 0 .. n + 1 : q[k] \in Nat
    <3>1. \A k \in 0 .. n + 1 : k \in 0 .. n \/ k = n + 1  BY <1>1
    <3>. QED  BY <1>9, <1>11, <3>1
  <2>. QED  BY <1>7, <2>1
<1>13. q[0] = 0
  <2>1. q[0] = p[e + 0] - p[e] /\ e + 0 = e /\ p[e] \in Nat  BY <1>1, <1>4, <1>9, <1>10
  <2>. QED  BY <2>1
<1>14. \A k \in 1 .. n + 1 : q[k] = q[k - 1] + 1 + written[new[k]]
  <2>. SUFFICES ASSUME NEW k \in 1 .. n + 1 PROVE q[k] = q[k - 1] + 1 + written[new[k]]
    OBVIOUS
  <2>1. CASE k = n + 1
    <3>1. k - 1 = n /\ written[new[k]] = w  BY <1>1, <1>2, <2>1 DEF w
    <3>. QED  BY <1>11, <2>1, <3>1
  <2>2. CASE k # n + 1
    <3>1. k \in 1 .. n /\ k \in 0 .. n /\ k - 1 \in 0 .. n /\ e + k \in 1 .. L
          /\ e + (k - 1) = e + k - 1 /\ e + k - 1 \in 0 .. L /\ e + k \in 0 .. L /\ e \in 0 .. L
      BY <1>1, <2>2
    <3>2. new[k] = ids[e + k]  BY <1>2, <3>1
    <3>3. q[k] = p[e + k] - p[e] /\ q[k - 1] = p[e + (k - 1)] - p[e]  BY <1>9, <3>1
    <3>4. p[e + k] = p[e + k - 1] + 1 + written[ids[e + k]]  BY <1>6, <3>1
    <3>5. written[ids[e + k]] \in Nat
      <4>1. ids[e + k] \in 1 .. Len(written) /\ written[ids[e + k]] \in Nat
        BY <3>1, PlacedFacts DEF L
      <4>. QED  BY <4>1
    <3>6. p[e] \in Nat /\ p[e + k] \in Nat /\ p[e + k - 1] \in Nat  BY <1>4, <3>1
    <3>7. PICK a, b, d, x : a = p[e + k] /\ b = p[e + k - 1] /\ d = p[e] /\ x = written[ids[e + k]]
      OBVIOUS
    <3>8. a = b + 1 + x /\ a \in Nat /\ b \in Nat /\ d \in Nat /\ x \in Nat
      BY <3>4, <3>5, <3>6, <3>7
    <3>9. a - d = (b - d) + 1 + x  BY <3>8
    <3>10. q[k] = a - d /\ q[k - 1] = b - d /\ written[new[k]] = x
      BY <3>1, <3>2, <3>3, <3>7
    <3>. QED  BY <3>9, <3>10
  <2>. QED  BY <2>1, <2>2
<1>15. \A j, k \in 0 .. n + 1 : j <= k => q[j] + 2 * (k - j) <= q[k]
  <2>. SUFFICES ASSUME NEW j \in 0 .. n + 1, NEW k \in 0 .. n + 1, j <= k
                PROVE  q[j] + 2 * (k - j) <= q[k]
    OBVIOUS
  <2>1. ASSUME NEW i \in 0 .. n, NEW m \in 0 .. n, i <= m PROVE q[i] + 2 * (m - i) <= q[m]
    <3>1. e + i \in 0 .. L /\ e + m \in 0 .. L /\ e + i <= e + m /\ (e + m) - (e + i) = m - i
          /\ i \in Nat /\ m \in Nat /\ e \in 0 .. L
      BY <1>1, <2>1
    <3>2. p[e + i] + 2 * ((e + m) - (e + i)) <= p[e + m]  BY <1>5, <3>1
    <3>3. PICK a, b, d : a = p[e + i] /\ b = p[e + m] /\ d = p[e]  OBVIOUS
    <3>4. a \in Nat /\ b \in Nat /\ d \in Nat  BY <1>4, <3>1, <3>3
    <3>5. a + 2 * (m - i) <= b  BY <3>1, <3>2, <3>3
    <3>6. (a - d) + 2 * (m - i) <= b - d  BY <3>1, <3>4, <3>5
    <3>. QED  BY <1>9, <3>3, <3>6
  <2>2. CASE k # n + 1
    <3>1. j \in 0 .. n /\ k \in 0 .. n  BY <1>1, <2>2
    <3>. QED  BY <2>1, <3>1
  <2>3. CASE k = n + 1 /\ j = n + 1
    BY <1>1, <1>11, <2>3
  <2>4. CASE k = n + 1 /\ j # n + 1
    <3>1. j \in 0 .. n /\ j <= n /\ j \in Nat  BY <1>1, <2>4
    <3>2. q[j] + 2 * (n - j) <= q[n]  BY <1>10, <2>1, <3>1
    <3>3. PICK a, b, d : a = q[j] /\ b = q[n] /\ d = q[n + 1]  OBVIOUS
    <3>4. a \in Nat /\ b \in Nat /\ d = b + 1 + w /\ a + 2 * (n - j) <= b
      BY <1>9, <1>11, <3>1, <3>2, <3>3
    <3>5. a + 2 * ((n + 1) - j) <= d  BY <1>1, <1>3, <3>1, <3>4
    <3>. QED  BY <2>4, <3>3, <3>5
  <2>. QED  BY <2>2, <2>3, <2>4
<1>16. Placed(new, q)  BY <1>2, <1>12, <1>13, <1>14, <1>15 DEF Placed
<1>. QED  BY <1>16 DEF new, q, w

LEMMA CommitStep ==
  ASSUME DmesgInv, NEW t \in Writers, Commit(t)
  PROVE  /\ DmesgInv' /\ Quiet'
         /\ \E ids, e, id, p, q :
              /\ ids = before /\ e = call[t].evictions /\ id = Len(written)
              /\ Evicting(call[t], p) /\ Kept(Newer(ids, e, id), q)'
<1>1. DmesgTypeOK /\ written \in Seq(Lengths) /\ read_offset \in Offsets /\ write_offset \in Offsets
  BY OffsetsAndCount DEF DmesgInv
<1>2. call[t].pc = "commit" /\ UNCHANGED <<dmesg_buffer, read_offset, listing, written, before>>
      /\ call' = [call EXCEPT ![t] = Idle]
  BY DEF Commit
<1>3. PICK p : Evicting(call[t], p)  BY <1>2 DEF DmesgInv, WriteInv
<1>4. PICK e, ids, id, len : e = call[t].evictions /\ ids = before
                             /\ id = call[t].id /\ len = call[t].len
  OBVIOUS
<1>5. Gone(call[t]) = e  BY <1>2, <1>4 DEF Gone
<1>6. /\ Placed(ids, p) /\ p[Len(ids)] < DMESG_BUFFER_SIZE /\ e \in 0 .. Len(ids)
      /\ Stored(ids, p, e) /\ log_count = Len(ids) - e
      /\ call[t].w_off = write_offset /\ Taken(p, e, call[t]) < DMESG_BUFFER_SIZE
      /\ \A i \in 0 .. len : dmesg_buffer[Following(write_offset, i)] = Cell(id, i, len)
  BY <1>2, <1>3, <1>4, <1>5 DEF Evicting
<1>7. /\ id = Len(written) /\ id \in 1 .. Len(written) /\ len = written[id]
      /\ len \in Nat /\ 1 <= len
  <2>1. id = Len(written) /\ len = written[Len(written)] /\ Len(written) > 0
    BY <1>2, <1>4 DEF DmesgInv, WriteInv, Alone
  <2>2. id \in 1 .. Len(written) /\ written[id] \in Lengths  BY <1>1, <2>1
  <2>. QED  BY <2>1, <2>2, Sizes
<1>8. PICK n, l, new, q : n = Len(ids) - e /\ l = p[Len(ids)] - p[e]
                          /\ new = Newer(ids, e, id) /\ q = Shifted(ids, p, e, len)
  OBVIOUS
<1>9. /\ n \in Nat /\ new \in Seq(1 .. Len(written)) /\ Len(new) = n + 1
      /\ \A k \in 1 .. n : new[k] = ids[e + k]
      /\ new[n + 1] = id /\ e \in Nat /\ e + n = Len(ids) /\ Len(ids) \in Nat
  <2>1. PICK S : S = 1 .. Len(written)  OBVIOUS
  <2>2. ids \in Seq(S) /\ id \in S  BY <1>6, <1>7, <2>1 DEF Placed
  <2>3. /\ Len(ids) - e \in Nat
        /\ Newer(ids, e, id) \in Seq(S) /\ Len(Newer(ids, e, id)) = Len(ids) - e + 1
        /\ \A k \in 1 .. Len(ids) - e : Newer(ids, e, id)[k] = ids[e + k]
        /\ Newer(ids, e, id)[Len(ids) - e + 1] = id
    <3>1. e \in 0 .. Len(ids)  BY <1>6
    <3>. QED  BY <2>2, <3>1, NewerIs
  <2>4. Len(ids) \in Nat  BY <2>2
  <2>. QED  BY <1>6, <1>8, <2>1, <2>3, <2>4
<1>10. Placed(new, q)  BY <1>1, <1>6, <1>7, <1>8, NewerPlaced
<1>11. /\ l \in Nat /\ l < DMESG_BUFFER_SIZE /\ write_offset = Following(read_offset, l)
       /\ l + (1 + len) < DMESG_BUFFER_SIZE
  <2>1. Len(ids) \in 0 .. Len(ids)  BY <1>9
  <2>2. p[e] \in Nat /\ p[Len(ids)] \in Nat /\ p[e] <= p[Len(ids)]
    BY <1>1, <1>6, <2>1, PlacedFacts
  <2>3. l \in Nat  BY <1>8, <2>2
  <2>4. write_offset = Following(read_offset, l)  BY <1>6, <1>8 DEF Stored
  <2>5. l + 1 + len < DMESG_BUFFER_SIZE  BY <1>4, <1>6, <1>8 DEF Taken
  <2>. QED  BY <1>7, <2>3, <2>4, <2>5, Sizes
<1>12. /\ \A k \in 0 .. n : q[k] = p[e + k] - p[e]
       /\ q[0] = 0 /\ q[n] = l /\ q[n + 1] = l + 1 + len
       /\ \A k \in 0 .. n : q[k] \in Nat
  <2>1. q = [k \in 0 .. n + 1 |-> IF k <= n THEN p[e + k] - p[e] ELSE l + 1 + len]
    BY <1>8 DEF Shifted
  <2>2. \A k \in 0 .. n : k \in 0 .. n + 1 /\ k <= n  BY <1>9
  <2>3. n + 1 \in 0 .. n + 1 /\ ~(n + 1 <= n) /\ n \in 0 .. n  BY <1>9
  <2>4. \A k \in 0 .. n : q[k] = p[e + k] - p[e]  BY <2>1, <2>2
  <2>5. q[n] = l  BY <1>8, <1>9, <2>3, <2>4
  <2>6. q[n + 1] = l + 1 + len  BY <2>1, <2>3
  <2>7. q[0] = 0 /\ \A k \in 0 .. n + 1 : q[k] \in Nat  BY <1>9, <1>10 DEF Placed
  <2>. QED  BY <2>2, <2>4, <2>5, <2>6, <2>7
<1>13. q[Len(new)] - q[0] = l + (1 + len)  BY <1>7, <1>9, <1>11, <1>12
<1>14. /\ write_offset' = Following(write_offset, 1 + len)
       /\ write_offset' = Following(read_offset, l + (1 + len)) /\ write_offset' \in Offsets
  <2>1. write_offset' = Following(write_offset, 1 + len)  BY <1>4, <1>6 DEF Commit
  <2>2. 1 + len \in Nat /\ 1 + len \in Offsets  BY <1>7, <1>11, Sizes DEF Offsets
  <2>. QED  BY <1>1, <1>11, <2>1, <2>2, FollowingTwice, FollowingIs
<1>15. ASSUME NEW k \in 0 + 1 .. Len(new), NEW i \in 0 .. written[new[k]]
       PROVE  dmesg_buffer[Following(read_offset, q[k - 1] - q[0] + i)] =
                Cell(new[k], i, written[new[k]])
  <2>1. CASE k = n + 1
    <3>1. k - 1 = n /\ new[k] = id /\ written[new[k]] = len /\ i \in Nat /\ i <= len
      BY <1>7, <1>9, <2>1
    <3>2. q[k - 1] - q[0] + i = l + i  BY <1>11, <1>12, <3>1
    <3>3. l + i < DMESG_BUFFER_SIZE  BY <1>7, <1>11, <3>1, Sizes
    <3>4. Following(read_offset, l + i) = Following(write_offset, i)
      BY <1>1, <1>11, <3>1, <3>3, FollowingTwice
    <3>. QED  BY <1>6, <3>1, <3>2, <3>4
  <2>2. CASE k # n + 1
    <3>1. k \in 1 .. n /\ k - 1 \in 0 .. n /\ e + k \in e + 1 .. Len(ids)
          /\ e + (k - 1) = e + k - 1
      BY <1>9, <2>2
    <3>2. new[k] = ids[e + k] /\ i \in 0 .. written[ids[e + k]]  BY <1>9, <3>1
    <3>3. q[k - 1] = p[e + k - 1] - p[e] /\ q[k - 1] \in Nat  BY <1>12, <3>1
    <3>4. written[ids[e + k]] \in Nat
      <4>1. e + k \in 1 .. Len(ids)  BY <1>9, <3>1
      <4>. QED  BY <1>1, <1>6, <4>1, PlacedFacts
    <3>5. q[k - 1] - q[0] + i = p[e + k - 1] - p[e] + i  BY <1>12, <3>2, <3>3, <3>4
    <3>6. dmesg_buffer[Following(read_offset, p[e + k - 1] - p[e] + i)] =
            Cell(ids[e + k], i, written[ids[e + k]])
      BY <1>6, <3>1, <3>2 DEF Stored
    <3>. QED  BY <3>2, <3>5, <3>6
  <2>. QED  BY <2>1, <2>2
<1>16. Placed(new, q)'  BY <1>2, <1>10 DEF Placed
<1>17. Stored(new, q, 0)'
  BY <1>2, <1>11, <1>13, <1>14, <1>15 DEF Stored
<1>18. log_count' = Len(new) /\ Len(new) \in 0 .. DMESG_BUFFER_SIZE \div 2
  <2>1. q[Len(new)] < DMESG_BUFFER_SIZE
    BY <1>9, <1>11, <1>12, <1>13, <1>7
  <2>2. Len(new) \in 0 .. DMESG_BUFFER_SIZE \div 2  BY <1>1, <1>10, <2>1, CountBound
  <2>3. n + 1 \in 0 .. DMESG_BUFFER_SIZE \div 2 /\ log_count = n  BY <1>6, <1>8, <1>9, <2>2
  <2>4. DMESG_BUFFER_SIZE \div 2 < DMESG_BUFFER_SIZE /\ DMESG_BUFFER_SIZE <= SizeModulus
        /\ SizeModulus \in Nat /\ DMESG_BUFFER_SIZE \in Nat
    BY Sizes
  <2>5. (n + 1) % SizeModulus = n + 1
    <3>1. PICK m \in Nat : m = n + 1  BY <1>9
    <3>2. m < SizeModulus  BY <2>3, <2>4, <3>1
    <3>3. m % SizeModulus = m  BY <2>4, <3>2
    <3>. QED  BY <3>1, <3>3
  <2>6. log_count' = (log_count + 1) % SizeModulus  BY DEF Commit
  <2>. QED  BY <1>9, <2>2, <2>3, <2>5, <2>6
<1>19. Kept(new, q)'  BY <1>16, <1>17, <1>18 DEF Kept
<1>20. DmesgTypeOK'
  <2>1. 0 \in Offsets  BY Sizes DEF Offsets
  <2>2. Idle \in [pc : {"idle", "room", "evicted", "emptied", "copy", "commit"},
                  id : Nat, len : Nat, evictions : Nat, w_off : Offsets]
    BY <2>1 DEF Idle
  <2>. QED  BY <1>1, <1>2, <1>14, <1>18, <2>2 DEF DmesgTypeOK
<1>21. call[t].pc # "idle" /\ UNCHANGED <<written, listing>>  BY <1>2
<1>22. DmesgInv' /\ Quiet'  BY <1>2, <1>19, <1>20, <1>21, DoneWriting
<1>23. Kept(Newer(ids, e, id), q)'  BY <1>8, <1>19
<1>. QED  BY <1>3, <1>4, <1>7, <1>22, <1>23

-----------------------------------------------------------------------------
(* The steps of a listing *)

LEMMA KeptStill ==
  ASSUME NEW ids, NEW p, Kept(ids, p),
         UNCHANGED <<dmesg_buffer, write_offset, read_offset, log_count, written>>
  PROVE  Kept(ids, p)'
<1>1. Placed(ids, p)'  BY DEF Kept, Placed
<1>2. Stored(ids, p, 0)'  BY DEF Kept, Stored
<1>. QED  BY <1>1, <1>2 DEF Kept

\* A step of the reader leaves the log and the writers alone.
LEMMA ReaderStep ==
  ASSUME DmesgInv, Quiet, DmesgTypeOK', ListInv',
         UNCHANGED <<dmesg_buffer, write_offset, read_offset, log_count, call, written>>
  PROVE  DmesgInv'
<1>1. Quiet'  BY DEF Quiet
<1>2. PICK ids, p : Kept(ids, p)  BY DEF DmesgInv, LogInv
<1>3. Kept(ids, p)'  BY <1>2, KeptStill
<1>4. LogInv'  BY <1>3 DEF LogInv
<1>5. WriteInv'  BY <1>1 DEF WriteInv, Quiet
<1>. QED  BY <1>4, <1>5 DEF DmesgInv

LEMMA ListStep ==
  ASSUME Exclusive, DmesgInv, NEW skip \in Nat, NEW left \in Nat, skip + left = log_count,
         List(skip, left)
  PROVE  DmesgInv'
<1>1. DmesgTypeOK /\ read_offset \in Offsets /\ log_count \in Nat
  <2>1. DmesgTypeOK  BY DEF DmesgInv
  <2>. QED  BY <2>1, OffsetsAndCount
<1>2. Quiet
  <2>1. \A u \in Tasks : ~Busy(u)  BY DEF List, Enters
  <2>2. \A u \in Writers : u \in Tasks /\ u # Reader  BY DmesgAssumption DEF Tasks
  <2>. QED  BY <2>1, <2>2 DEF Busy, Quiet
<1>3. UNCHANGED <<dmesg_buffer, write_offset, read_offset, log_count, call, written, before>>
      /\ listing' = [pc |-> "entry", offset |-> read_offset, skip |-> skip, left |-> left,
                     listed |-> <<>>]
  BY DEF List, offsets
<1>4. DmesgTypeOK'
  <2>1. listing' \in [pc : {"idle", "entry"}, offset : Offsets, skip : Nat, left : Nat,
                      listed : Seq(Nat)]
    BY <1>1, <1>3
  <2>. QED  BY <1>1, <1>3, <2>1 DEF DmesgTypeOK
<1>5. PICK ids, p : Kept(ids, p)  BY <1>2 DEF DmesgInv, LogInv
<1>6. Kept(ids, p)'  BY <1>3, <1>5, KeptStill
<1>7. Reached(ids, p)'
  <2>1. log_count - left - skip = 0 /\ p[0] = 0  BY <1>1, <1>5 DEF Kept, Placed
  <2>2. read_offset = Following(read_offset, 0)  BY <1>1, FollowingNone
  <2>. QED  BY <1>3, <2>1, <2>2 DEF Reached
<1>8. ListInv'
  <2>1. Quiet'  BY <1>2, <1>3 DEF Quiet
  <2>2. skip + left + Len(<<>>) <= log_count  BY <1>1
  <2>. QED  BY <1>3, <1>6, <1>7, <2>1, <2>2 DEF ListInv
<1>. QED  BY <1>2, <1>3, <1>4, <1>8, ReaderStep

LEMMA ListEntryStep ==
  ASSUME DmesgInv, ListEntry
  PROVE  DmesgInv'
<1>1. /\ DmesgTypeOK /\ read_offset \in Offsets /\ log_count \in Nat
      /\ listing.offset \in Offsets /\ listing.skip \in Nat /\ listing.left \in Nat
      /\ listing.listed \in Seq(Nat) /\ Len(listing.listed) \in Nat /\ written \in Seq(Lengths)
  <2>1. DmesgTypeOK  BY DEF DmesgInv
  <2>2. listing.listed \in Seq(Nat)  BY <2>1, ListingFields
  <2>3. Len(listing.listed) \in Nat  BY <2>2
  <2>. QED  BY <2>1, <2>2, <2>3, ListingFields, OffsetsAndCount
<1>2. /\ listing.pc = "entry" /\ listing.skip + listing.left > 0
      /\ UNCHANGED <<dmesg_buffer, write_offset, read_offset, log_count, call, written, before>>
  BY DEF ListEntry, offsets
<1>3. /\ Quiet /\ listing.skip + listing.left + Len(listing.listed) <= log_count
      /\ listing.skip > 0 => listing.listed = <<>>
  BY <1>2 DEF DmesgInv, ListInv
<1>4. PICK ids, p : Kept(ids, p) /\ Reached(ids, p)  BY <1>2 DEF DmesgInv, ListInv
<1>5. Placed(ids, p) /\ Stored(ids, p, 0) /\ log_count = Len(ids)  BY <1>4 DEF Kept
<1>6. PICK n, m, k, off, old : /\ n = listing.skip /\ m = listing.left
                               /\ k = log_count - m - n + 1
                               /\ off = listing.offset /\ old = listing.listed
  OBVIOUS
<1>7. /\ n \in Nat /\ m \in Nat /\ n + m > 0 /\ k \in 0 + 1 .. Len(ids) /\ k \in 1 .. Len(ids)
      /\ k - 1 = log_count - m - n /\ Len(old) \in Nat
      /\ n + m + Len(old) <= log_count /\ 0 \in 0 .. Len(ids)
  <2>1. n \in Nat /\ m \in Nat /\ Len(old) \in Nat /\ log_count \in Nat  BY <1>1, <1>6
  <2>2. n + m > 0 /\ n + m + Len(old) <= log_count /\ k = log_count - m - n + 1
    BY <1>2, <1>3, <1>6
  <2>3. k \in 1 .. log_count /\ k - 1 = log_count - m - n /\ k \in 0 + 1 .. log_count
        /\ 0 \in 0 .. log_count
    BY <2>1, <2>2
  <2>. QED  BY <1>5, <2>1, <2>2, <2>3
<1>8. off = Following(read_offset, p[k - 1] - p[0])
  <2>1. off = Following(read_offset, p[k - 1])  BY <1>4, <1>6, <1>7 DEF Reached
  <2>2. p[0] = 0 /\ p[k - 1] \in Nat
    <3>1. k - 1 \in 0 .. Len(ids)  BY <1>7
    <3>. QED  BY <1>5, <3>1 DEF Placed
  <2>. QED  BY <2>1, <2>2
<1>9. /\ ValidLength(dmesg_buffer[off].byte) /\ Message(off) = ids[k]
      /\ Following(off, 1 + dmesg_buffer[off].byte) = Following(read_offset, p[k] - p[0])
  BY <1>1, <1>5, <1>7, <1>8, EntryAt
<1>10. PICK next : next = Following(off, 1 + dmesg_buffer[off].byte)  OBVIOUS
<1>11. next = Following(read_offset, p[k]) /\ next \in Offsets
  <2>1. p[0] = 0 /\ p[k] \in Nat /\ p[k] < DMESG_BUFFER_SIZE
    <3>1. k \in 0 .. Len(ids) /\ Len(ids) \in 0 .. Len(ids) /\ k <= Len(ids)  BY <1>7
    <3>2. p[0] = 0 /\ p[k] \in Nat /\ p[Len(ids)] \in Nat /\ p[k] <= p[Len(ids)]
      BY <1>1, <1>5, <3>1, PlacedFacts DEF Placed
    <3>3. p[Len(ids)] - p[0] < DMESG_BUFFER_SIZE  BY <1>5 DEF Stored
    <3>. QED  BY <3>2, <3>3, Sizes
  <2>2. p[k] \in Offsets  BY <2>1, Sizes DEF Offsets
  <2>. QED  BY <1>1, <1>9, <1>10, <2>1, <2>2, FollowingIs
<1>12. ids[k] \in Nat  BY <1>1, <1>5, <1>7, PlacedFacts
<1>13. Kept(ids, p)' /\ Quiet'  BY <1>2, <1>3, <1>4, KeptStill DEF Quiet
<1>a. log_count \in Nat /\ k = log_count - m - n + 1  BY <1>1, <1>6
<1>b. n \in Nat /\ m \in Nat /\ n + m > 0 /\ Len(old) \in Nat /\ n + m + Len(old) <= log_count
  BY <1>7
<1>14. CASE n > 0
  <2>1. /\ listing' = [listing EXCEPT !.offset = next, !.skip = n - 1] /\ old = <<>>
    BY <1>3, <1>6, <1>9, <1>10, <1>14 DEF ListEntry
  <2>2. listing' = [pc |-> "entry", offset |-> next, skip |-> n - 1, left |-> m, listed |-> <<>>]
    <3>1. listing \in [pc : {"idle", "entry"}, offset : Offsets, skip : Nat, left : Nat,
                       listed : Seq(Nat)]
      BY <1>1 DEF DmesgTypeOK
    <3>. QED  BY <1>2, <1>6, <2>1, <3>1
  <2>3. n - 1 \in Nat /\ log_count - m - (n - 1) = k /\ (n - 1) + m + Len(<<>>) <= log_count
    <3>1. Len(old) = 0 /\ Len(<<>>) = 0  BY <2>1
    <3>2. n - 1 \in Nat /\ log_count - m - (n - 1) = k  BY <1>a, <1>b, <1>14
    <3>3. (n - 1) + m + 0 <= log_count  BY <1>a, <1>b
    <3>. QED  BY <3>1, <3>2, <3>3
  <2>4. DmesgTypeOK'
    <3>1. listing' \in [pc : {"idle", "entry"}, offset : Offsets, skip : Nat, left : Nat,
                        listed : Seq(Nat)]
      BY <1>7, <1>11, <2>2, <2>3
    <3>. QED  BY <1>1, <1>2, <3>1 DEF DmesgTypeOK
  <2>5. Reached(ids, p)'  BY <1>2, <1>11, <2>2, <2>3 DEF Reached
  <2>6. ListInv'  BY <1>2, <1>13, <2>2, <2>3, <2>5 DEF ListInv
  <2>. QED  BY <1>2, <1>3, <2>4, <2>6, ReaderStep
<1>15. CASE ~(n > 0)
  <2>1. n = 0 /\ m > 0  BY <1>7, <1>15
  <2>2. listing' = [listing EXCEPT !.offset = next, !.left = m - 1,
                                   !.listed = Append(old, ids[k])]
    BY <1>6, <1>9, <1>10, <1>15 DEF ListEntry
  <2>3. listing' = [pc |-> "entry", offset |-> next, skip |-> 0, left |-> m - 1,
                    listed |-> Append(old, ids[k])]
    <3>1. listing \in [pc : {"idle", "entry"}, offset : Offsets, skip : Nat, left : Nat,
                       listed : Seq(Nat)]
      BY <1>1 DEF DmesgTypeOK
    <3>. QED  BY <1>2, <1>6, <2>1, <2>2, <3>1
  <2>4. /\ Append(old, ids[k]) \in Seq(Nat) /\ Len(Append(old, ids[k])) = Len(old) + 1
        /\ \A i \in 1 .. Len(old) : Append(old, ids[k])[i] = old[i]
        /\ Append(old, ids[k])[Len(old) + 1] = ids[k]
    BY <1>1, <1>6, <1>12
  <2>5. m - 1 \in Nat /\ log_count - (m - 1) - 0 = k
        /\ 0 + (m - 1) + (Len(old) + 1) <= log_count
    <3>1. m - 1 \in Nat /\ log_count - (m - 1) - 0 = k  BY <1>a, <1>b, <2>1
    <3>2. 0 + (m - 1) + (Len(old) + 1) <= log_count  BY <1>a, <1>b, <2>1
    <3>. QED  BY <3>1, <3>2
  <2>6. DmesgTypeOK'
    <3>1. listing' \in [pc : {"idle", "entry"}, offset : Offsets, skip : Nat, left : Nat,
                        listed : Seq(Nat)]
      BY <1>11, <2>3, <2>4, <2>5
    <3>. QED  BY <1>1, <1>2, <3>1 DEF DmesgTypeOK
  <2>7. \A i \in 1 .. Len(old) + 1 :
          Append(old, ids[k])[i] = ids[log_count - (m - 1) - (Len(old) + 1) + i]
    <3>. SUFFICES ASSUME NEW i \in 1 .. Len(old) + 1
                  PROVE  Append(old, ids[k])[i] = ids[log_count - (m - 1) - (Len(old) + 1) + i]
      OBVIOUS
    <3>1. CASE i = Len(old) + 1
      <4>1. log_count - (m - 1) - (Len(old) + 1) + i = k
        <5>1. PICK z \in Nat : z = Len(old)  BY <1>b
        <5>2. i = z + 1 /\ m \in Nat /\ log_count \in Nat  BY <1>a, <1>b, <3>1, <5>1
        <5>3. log_count - (m - 1) - (z + 1) + i = log_count - (m - 1) - 0  BY <5>2
        <5>. QED  BY <2>5, <5>1, <5>3
      <4>. QED  BY <2>4, <3>1, <4>1
    <3>2. CASE i # Len(old) + 1
      <4>1. i \in 1 .. Len(old)  BY <1>7, <3>2
      <4>2. old[i] = ids[log_count - m - Len(old) + i]  BY <1>4, <1>6, <4>1 DEF Reached
      <4>3. log_count - (m - 1) - (Len(old) + 1) + i = log_count - m - Len(old) + i
        BY <1>1, <1>7, <4>1
      <4>. QED  BY <2>4, <4>1, <4>2, <4>3
    <3>. QED  BY <3>1, <3>2
  <2>8. Reached(ids, p)'
    <3>1. listing'.offset = Following(read_offset', p[log_count' - listing'.left - listing'.skip])
      BY <1>2, <1>11, <2>3, <2>5
    <3>2. \A i \in 1 .. Len(listing'.listed) :
            listing'.listed[i] = ids[log_count' - listing'.left - Len(listing'.listed) + i]
      BY <1>2, <2>3, <2>4, <2>7
    <3>. QED  BY <3>1, <3>2 DEF Reached
  <2>9. ListInv'  BY <1>2, <1>13, <2>3, <2>4, <2>5, <2>8 DEF ListInv
  <2>. QED  BY <1>2, <1>3, <2>6, <2>9, ReaderStep
<1>. QED  BY <1>14, <1>15

LEMMA ListEndStep ==
  ASSUME DmesgInv, ListEnd
  PROVE  DmesgInv'
<1>1. Quiet  BY DEF DmesgInv, ListInv, ListEnd
<1>2. listing' = NotListing /\ listing'.pc = "idle"
      /\ UNCHANGED <<dmesg_buffer, write_offset, read_offset, log_count, call, written, before>>
  BY DEF ListEnd, offsets, NotListing
<1>3. DmesgTypeOK'
  <2>1. NotListing \in [pc : {"idle", "entry"}, offset : Offsets, skip : Nat, left : Nat,
                        listed : Seq(Nat)]
    BY Sizes DEF NotListing, Offsets
  <2>. QED  BY <1>2, <2>1 DEF DmesgInv, DmesgTypeOK
<1>4. ListInv'  BY <1>2 DEF ListInv
<1>. QED  BY <1>1, <1>2, <1>3, <1>4, ReaderStep

LEMMA ClearStep ==
  ASSUME Exclusive, DmesgInv, Dmesg_Clear
  PROVE  DmesgInv' /\ Quiet /\ Quiet'
<1>1. Quiet /\ listing.pc # "entry"
  <2>1. \A u \in Tasks : ~Busy(u)  BY DEF Dmesg_Clear, Enters
  <2>2. Reader \in Tasks /\ \A u \in Writers : u \in Tasks /\ u # Reader
    BY DmesgAssumption DEF Tasks
  <2>. QED  BY <2>1, <2>2 DEF Busy, Quiet
<1>2. write_offset' = 0 /\ read_offset' = 0 /\ log_count' = 0
      /\ UNCHANGED <<dmesg_buffer, call, listing, written, before>>
  BY DEF Dmesg_Clear
<1>3. DmesgTypeOK'
  <2>1. 0 \in Offsets /\ 0 \in 0 .. DMESG_BUFFER_SIZE \div 2  BY Sizes DEF Offsets
  <2>. QED  BY <1>2, <2>1 DEF DmesgInv, DmesgTypeOK
<1>4. EmptyLog'  BY EmptyLogKept, PTL
<1>5. LogInv'  BY <1>2, <1>4 DEF LogInv, EmptyLog
<1>6. Quiet'  BY <1>1, <1>2 DEF Quiet
<1>7. WriteInv' /\ ListInv'  BY <1>1, <1>2, <1>6 DEF WriteInv, ListInv, Quiet
<1>. QED  BY <1>1, <1>3, <1>5, <1>6, <1>7 DEF DmesgInv

-----------------------------------------------------------------------------
(* Every step *)

LEMMA StepInv ==
  ASSUME Exclusive, DmesgInv, [Next]_vars
  PROVE  DmesgInv'
<1>1. ASSUME NEW t \in Writers, Writing(t) PROVE DmesgInv'
  BY <1>1, WriteStep, EvictStep, CountEvictionStep, TakeRoomStep, CopyEntryStep, CommitStep
     DEF Writing
<1>2. CASE Dmesg_GetLogs
  <2>1. log_count \in Nat  BY OffsetsAndCount DEF DmesgInv
  <2>2. 0 + log_count = log_count /\ List(0, log_count)  BY <1>2, <2>1 DEF Dmesg_GetLogs
  <2>. QED  BY <2>1, <2>2, ListStep
<1>3. CASE Dmesg_GetLatestN
  <2>1. PICK n \in 1 .. log_count : List(log_count - n, n)  BY <1>3 DEF Dmesg_GetLatestN
  <2>2. log_count \in Nat  BY OffsetsAndCount DEF DmesgInv
  <2>3. n \in Nat /\ log_count - n \in Nat /\ (log_count - n) + n = log_count  BY <2>2
  <2>. QED  BY <2>1, <2>3, ListStep
<1>4. CASE ListEntry  BY <1>4, ListEntryStep
<1>5. CASE ListEnd  BY <1>5, ListEndStep
<1>6. CASE Dmesg_Clear  BY <1>6, ClearStep
<1>7. CASE UNCHANGED vars
  <2>1. UNCHANGED <<dmesg_buffer, write_offset, read_offset, log_count, call, listing, written,
                    before>>
    BY <1>7 DEF vars, offsets
  <2>2. DmesgTypeOK'  BY <2>1 DEF DmesgInv, DmesgTypeOK
  <2>3. LogInv' /\ (Quiet' <=> Quiet)
    <3>1. Quiet' <=> Quiet  BY <2>1 DEF Quiet
    <3>2. CASE Quiet
      <4>1. PICK ids, p : Kept(ids, p)  BY <3>2 DEF DmesgInv, LogInv
      <4>2. Kept(ids, p)'  BY <2>1, <4>1, KeptStill
      <4>. QED  BY <3>1, <4>2 DEF LogInv
    <3>. QED  BY <3>1, <3>2 DEF LogInv
  <2>4. WriteInv'
    <3>. SUFFICES ASSUME NEW t \in Writers, call[t].pc # "idle"
                  PROVE  Alone(t)' /\ \E p : Evicting(call[t], p)'
      BY <2>1 DEF WriteInv
    <3>1. PICK p : Evicting(call[t], p)  BY DEF DmesgInv, WriteInv
    <3>2. PICK c : c = call[t]  OBVIOUS
    <3>3. Evicting(c, p)'
      BY <2>1, <3>1, <3>2 DEF Evicting, Placed, Stored, Taken, Gone
    <3>4. Evicting(call[t], p)'  BY <2>1, <3>2, <3>3
    <3>5. Alone(t)'  BY <2>1 DEF DmesgInv, WriteInv, Alone
    <3>. QED  BY <3>4, <3>5
  <2>5. ListInv'
    <3>. SUFFICES ASSUME listing.pc = "entry"
                  PROVE  /\ Quiet' /\ listing.skip + listing.left + Len(listing.listed) <= log_count
                         /\ listing.skip > 0 => listing.listed = <<>>
                         /\ \E ids, p : Kept(ids, p)' /\ Reached(ids, p)'
      BY <2>1 DEF ListInv
    <3>1. PICK ids, p : Kept(ids, p) /\ Reached(ids, p)  BY DEF DmesgInv, ListInv
    <3>2. Kept(ids, p)'  BY <2>1, <3>1, KeptStill
    <3>3. Reached(ids, p)'  BY <2>1, <3>1 DEF Reached
    <3>. QED  BY <2>3, <3>2, <3>3 DEF DmesgInv, ListInv
  <2>. QED  BY <2>2, <2>3, <2>4, <2>5 DEF DmesgInv
<1>. QED  BY <1>1, <1>2, <1>3, <1>4, <1>5, <1>6, <1>7 DEF Next, Listing

LEMMA Invariance == Exclusive => (Spec => []DmesgInv)
<1>1. CASE Exclusive
  <2>1. DmesgInv /\ [Next]_vars => DmesgInv'  BY <1>1, StepInv
  <2>. QED  BY <2>1, InitInv, PTL DEF Spec
<1>. QED  BY <1>1

\* Offsets stay in the buffer and the count of entries never wraps.
THEOREM LogTypes == Exclusive => (Spec => []DmesgTypeOK)
<1>1. DmesgInv => DmesgTypeOK  BY DEF DmesgInv
<1>. QED  BY <1>1, Invariance, PTL

\* A listing shows the log from the first entry asked for, in order, without a
\* gap, as long as calls exclude each other: whatever was evicted and wherever
\* the end of the buffer cuts the entries.
THEOREM ListingShowsLog == Exclusive => (Spec => []ListsTheLog)
<1>1. DmesgInv => ListsTheLog
  <2>. SUFFICES ASSUME DmesgInv, listing.pc = "entry", NEW k \in 1 .. Len(listing.listed)
                PROVE  listing.listed[k] =
                         Contents[log_count - listing.left - Len(listing.listed) + k]
    BY DEF ListsTheLog
  <2>1. PICK ids, p : Kept(ids, p) /\ Reached(ids, p)  BY DEF DmesgInv, ListInv
  <2>2. Contents = ids  BY <2>1, ContentsAre DEF Kept, DmesgInv
  <2>. QED  BY <2>1, <2>2 DEF Reached
<1>. QED  BY <1>1, Invariance, PTL

-----------------------------------------------------------------------------
(* The code keeps the log of MessageLog *)

ContentsFound == \A ids, p : DmesgTypeOK /\ Kept(ids, p) => Contents = ids

LEMMA ContentsAreFound == ContentsFound
<1>. SUFFICES ASSUME NEW ids, NEW p, DmesgTypeOK, Kept(ids, p) PROVE Contents = ids
  BY DEF ContentsFound
<1>. QED  BY ContentsAre DEF Kept

HeldIs == /\ Quiet => Held = Contents /\ Finished = Len(written)
          /\ ~Quiet => Held = before /\ Finished = Len(written) - 1

LEMMA HeldIsSo == HeldIs
<1>1. \A t \in Writers : Busy(t) <=> call[t].pc # "idle"
  BY DmesgAssumption DEF Busy
<1>. QED  BY <1>1 DEF HeldIs, Held, Finished, Quiet

LEMMA LogOfIs ==
  ASSUME written \in Seq(Lengths), NEW ids \in Seq(1 .. Len(written))
  PROVE  /\ LogOf(ids) \in Seq([id : 1 .. Len(written), len : Lengths])
         /\ Len(LogOf(ids)) = Len(ids) /\ Len(ids) \in Nat
         /\ \A k \in 1 .. Len(ids) : LogOf(ids)[k] = [id |-> ids[k], len |-> written[ids[k]]]
<1>1. \A k \in 1 .. Len(ids) : /\ ids[k] \in 1 .. Len(written) /\ written[ids[k]] \in Lengths
                              /\ LenOf(ids[k]) = written[ids[k]]
  <2>. SUFFICES ASSUME NEW k \in 1 .. Len(ids)
                PROVE  /\ ids[k] \in 1 .. Len(written) /\ written[ids[k]] \in Lengths
                       /\ LenOf(ids[k]) = written[ids[k]]
    OBVIOUS
  <2>1. ids[k] \in 1 .. Len(written) /\ Len(written) \in Nat  OBVIOUS
  <2>2. ids[k] # 0  BY <2>1
  <2>. QED  BY <2>1, <2>2 DEF LenOf
<1>2. Len(ids) \in Nat  OBVIOUS
<1>3. LogOf(ids) = [k \in 1 .. Len(ids) |-> [id |-> ids[k], len |-> written[ids[k]]]]
  BY <1>1 DEF LogOf
<1>. QED  BY <1>1, <1>2, <1>3

\* The log after a message takes the place of the oldest ones.
LEMMA LogOfNewer ==
  ASSUME written \in Seq(Lengths), NEW ids \in Seq(1 .. Len(written)),
         NEW e \in 0 .. Len(ids), NEW id \in 1 .. Len(written)
  PROVE  LogOf(Newer(ids, e, id)) =
           Append(SubSeq(LogOf(ids), e + 1, Len(LogOf(ids))), [id |-> id, len |-> written[id]])
<1>. DEFINE n == Len(ids) - e  m == [id |-> id, len |-> written[id]]
            rest == SubSeq(LogOf(ids), e + 1, Len(LogOf(ids)))
            M == [id : 1 .. Len(written), len : Lengths]
<1>1. PICK new : new = Newer(ids, e, id)  OBVIOUS
<1>2. /\ new \in Seq(1 .. Len(written)) /\ Len(new) = n + 1 /\ n \in Nat
      /\ \A k \in 1 .. n : new[k] = ids[e + k]
      /\ new[n + 1] = id
  <2>1. PICK S : S = 1 .. Len(written)  OBVIOUS
  <2>2. ids \in Seq(S) /\ id \in S  BY <2>1
  <2>3. /\ Len(ids) - e \in Nat
        /\ Newer(ids, e, id) \in Seq(S) /\ Len(Newer(ids, e, id)) = Len(ids) - e + 1
        /\ \A k \in 1 .. Len(ids) - e : Newer(ids, e, id)[k] = ids[e + k]
        /\ Newer(ids, e, id)[Len(ids) - e + 1] = id
    BY <2>2, NewerIs
  <2>. QED  BY <1>1, <2>1, <2>3
<1>3. m \in M  OBVIOUS
<1>4. /\ LogOf(ids) \in Seq(M) /\ Len(LogOf(ids)) = Len(ids) /\ Len(ids) \in Nat
      /\ \A k \in 1 .. Len(ids) : LogOf(ids)[k] = [id |-> ids[k], len |-> written[ids[k]]]
  BY LogOfIs
<1>5. /\ LogOf(new) \in Seq(M) /\ Len(LogOf(new)) = Len(new)
      /\ \A k \in 1 .. Len(new) : LogOf(new)[k] = [id |-> new[k], len |-> written[new[k]]]
  BY <1>2, LogOfIs
<1>6. e \in Nat /\ e + n = Len(ids)  BY <1>2, <1>4
<1>. HIDE DEF M, m, n
<1>7. /\ rest \in Seq(M) /\ Len(rest) = n /\ \A k \in 1 .. n : rest[k] = LogOf(ids)[e + k]
  <2>1. PICK f : f = LogOf(ids)  OBVIOUS
  <2>2. f \in Seq(M) /\ Len(f) = e + n  BY <1>4, <1>6, <2>1
  <2>3. e \in 0 .. Len(f) /\ Len(f) - e = n  BY <1>2, <1>6, <2>2
  <2>4. /\ SubSeq(f, e + 1, Len(f)) \in Seq(M) /\ Len(SubSeq(f, e + 1, Len(f))) = Len(f) - e
        /\ \A k \in 1 .. Len(f) - e : SubSeq(f, e + 1, Len(f))[k] = f[e + k]
    BY <2>2, <2>3, RestIs
  <2>. QED  BY <2>1, <2>3, <2>4
<1>. HIDE DEF rest
<1>8. /\ Append(rest, m) \in Seq(M) /\ Len(Append(rest, m)) = n + 1
      /\ \A k \in 1 .. n : Append(rest, m)[k] = rest[k]
      /\ Append(rest, m)[n + 1] = m
  BY <1>2, <1>3, <1>7
<1>9. ASSUME NEW k \in 1 .. n + 1 PROVE LogOf(new)[k] = Append(rest, m)[k]
  <2>1. LogOf(new)[k] = [id |-> new[k], len |-> written[new[k]]]  BY <1>2, <1>5
  <2>2. CASE k = n + 1  BY <1>2, <1>8, <2>1, <2>2 DEF m
  <2>3. CASE k # n + 1
    <3>1. k \in 1 .. n /\ e + k \in 1 .. Len(ids)
      <4>1. PICK l \in Nat : l = Len(ids)  BY <1>4
      <4>2. n \in Nat /\ e \in Nat /\ e + n = l  BY <1>2, <1>6, <4>1
      <4>3. k \in 1 .. n /\ e + k \in 1 .. l  BY <2>3, <4>2
      <4>. QED  BY <4>1, <4>3
    <3>. QED  BY <1>2, <1>4, <1>7, <1>8, <2>1, <3>1
  <2>. QED  BY <2>2, <2>3
<1>10. LogOf(new) = Append(rest, m)
  <2>1. Len(LogOf(new)) = n + 1  BY <1>2, <1>5
  <2>2. PICK f, g : f = LogOf(new) /\ g = Append(rest, m)  OBVIOUS
  <2>3. f \in Seq(M) /\ g \in Seq(M) /\ Len(f) = n + 1 /\ Len(g) = n + 1
        /\ \A k \in 1 .. n + 1 : f[k] = g[k]
    BY <1>5, <1>8, <1>9, <2>1, <2>2
  <2>4. f = g  BY <2>3
  <2>. QED  BY <2>2, <2>4
<1>. QED  BY <1>1, <1>10 DEF rest, m

LEMMA CellsOf ==
  ASSUME written \in Seq(Lengths), NEW ids, NEW p, Placed(ids, p)
  PROVE  Log!Cells(LogOf(ids)) = p[Len(ids)]
<1>1. /\ Len(LogOf(ids)) = Len(ids) /\ Len(ids) \in Nat
      /\ \A k \in 1 .. Len(ids) : LogOf(ids)[k] = [id |-> ids[k], len |-> written[ids[k]]]
  BY LogOfIs DEF Placed
<1>2. PICK ms : ms = LogOf(ids)  OBVIOUS
<1>3. \A k \in 1 .. Len(ids) : p[k] = p[k - 1] + 1 + ms[k].len
  <2>. SUFFICES ASSUME NEW k \in 1 .. Len(ids) PROVE p[k] = p[k - 1] + 1 + ms[k].len
    OBVIOUS
  <2>1. ms[k] = [id |-> ids[k], len |-> written[ids[k]]]  BY <1>1, <1>2
  <2>2. ms[k].len = written[ids[k]]  BY <2>1
  <2>. QED  BY <2>2 DEF Placed
<1>4. Counts(ms, p)  BY <1>1, <1>2, <1>3 DEF Counts, Placed
<1>. QED  BY <1>1, <1>2, <1>4, CellsAre

\* What a write in progress makes of the log when it pushes out the first d.
LEMMA AfterIs ==
  ASSUME DmesgInv, NEW t \in Writers, call[t].pc # "idle", NEW p, Placed(before, p),
         NEW d \in 0 .. Len(before)
  PROVE  /\ Log!After(d, call[t].len) = LogOf(Newer(before, d, Len(written)))
         /\ Log!Cells(Log!After(d, call[t].len)) = Taken(p, d, call[t])
         /\ Len(LogOf(Held)) = Len(before) /\ call[t].len \in Lengths
<1>1. written \in Seq(Lengths) /\ Len(written) \in Nat
  BY OffsetsAndCount DEF DmesgInv
<1>2. PICK id, ids : id = Len(written) /\ ids = before  OBVIOUS
<1>3. id \in 1 .. Len(written) /\ call[t].len = written[id] /\ written[id] \in Lengths
  <2>1. Len(written) > 0 /\ call[t].len = written[Len(written)]
    BY DEF DmesgInv, WriteInv, Alone
  <2>. QED  BY <1>1, <1>2, <2>1
<1>4. Held = ids /\ Finished + 1 = id
  <2>1. ~Quiet  BY DEF Quiet
  <2>. QED  BY <1>1, <1>2, <2>1, HeldIsSo DEF HeldIs
<1>5. ids \in Seq(1 .. Len(written)) /\ d \in 0 .. Len(ids) /\ Placed(ids, p)
  BY <1>2 DEF Placed
<1>6. Log!After(d, call[t].len) =
        Append(SubSeq(LogOf(ids), d + 1, Len(LogOf(ids))), [id |-> id, len |-> written[id]])
  BY <1>3, <1>4 DEF Log!After
<1>7. Log!After(d, call[t].len) = LogOf(Newer(ids, d, id))
  BY <1>1, <1>3, <1>5, <1>6, LogOfNewer
<1>8. PICK q : q = Shifted(ids, p, d, written[id])  OBVIOUS
<1>9. Placed(Newer(ids, d, id), q)  BY <1>1, <1>3, <1>5, <1>8, NewerPlaced
<1>10. Log!Cells(LogOf(Newer(ids, d, id))) = q[Len(Newer(ids, d, id))]
  BY <1>1, <1>9, CellsOf
<1>11. Len(Newer(ids, d, id)) = Len(ids) - d + 1 /\ Len(ids) - d \in Nat
  <2>1. PICK S : S = 1 .. Len(written)  OBVIOUS
  <2>2. ids \in Seq(S) /\ id \in S  BY <1>3, <1>5, <2>1
  <2>3. d \in 0 .. Len(ids)  BY <1>5
  <2>. QED  BY <2>2, <2>3, NewerIs
<1>12. q[Len(ids) - d + 1] = p[Len(ids)] - p[d] + 1 + written[id]
  <2>1. PICK n : n = Len(ids) - d  OBVIOUS
  <2>2. q = [k \in 0 .. n + 1 |-> IF k <= n THEN p[d + k] - p[d]
                                  ELSE p[Len(ids)] - p[d] + 1 + written[id]]
    BY <1>8, <2>1 DEF Shifted
  <2>3. n \in Nat /\ n + 1 \in 0 .. n + 1 /\ ~(n + 1 <= n)  BY <1>11, <2>1
  <2>4. q[n + 1] = p[Len(ids)] - p[d] + 1 + written[id]  BY <2>2, <2>3
  <2>. QED  BY <2>1, <2>4
<1>13. Len(LogOf(ids)) = Len(ids)  BY <1>1, <1>5, LogOfIs
<1>. QED  BY <1>2, <1>3, <1>4, <1>7, <1>10, <1>11, <1>12, <1>13 DEF Taken

LEMMA HeldQuiet ==
  ASSUME DmesgTypeOK, Quiet, NEW ids, NEW p, Kept(ids, p)
  PROVE  Held = ids /\ Finished = Len(written)
BY HeldIsSo, ContentsAreFound DEF HeldIs, ContentsFound

\* In the next state, too.
LEMMA HeldQuietNext ==
  ASSUME DmesgInv', Quiet', NEW ids, NEW p, Kept(ids, p)'
  PROVE  Held' = ids /\ Finished' = Len(written')
<1>1. HeldIs' /\ ContentsFound'
  <2>1. HeldIs'  BY HeldIsSo, PTL
  <2>2. ContentsFound'  BY ContentsAreFound, PTL
  <2>. QED  BY <2>1, <2>2
<1>2. DmesgTypeOK'  BY DEF DmesgInv
<1>. QED  BY <1>1, <1>2 DEF HeldIs, ContentsFound

LEMMA HeldWritingNext ==
  ASSUME NEW t \in Writers, call'[t].pc # "idle"
  PROVE  Held' = before' /\ Finished' = Len(written') - 1
<1>1. HeldIs'  BY HeldIsSo, PTL
<1>2. ~Quiet'  BY DEF Quiet
<1>. QED  BY <1>1, <1>2 DEF HeldIs

LEMMA LogInit == Init => Log!Init
<1>. SUFFICES ASSUME Init PROVE Log!Init  OBVIOUS
<1>1. PICK p : Kept(<<>>, p)  BY EmptyLogKept DEF EmptyLog, Init
<1>2. DmesgTypeOK /\ Quiet  BY InitInv DEF DmesgInv, Quiet, Init, Idle
<1>3. Held = <<>> /\ Finished = Len(written) /\ written = <<>>
  BY <1>1, <1>2, HeldQuiet DEF Init
<1>4. LogOf(<<>>) = <<>>  BY DEF LogOf
<1>. QED  BY <1>3, <1>4 DEF Log!Init

\* A write that has not come to an end leaves the log what it was.
LEMMA WritingStutters ==
  ASSUME NEW t \in Writers, call[t].pc # "idle", call'[t].pc # "idle",
         UNCHANGED <<written, before>>
  PROVE  UNCHANGED <<LogOf(Held), Finished>>
<1>1. Held' = before' /\ Finished' = Len(written') - 1  BY HeldWritingNext
<1>2. Held = before /\ Finished = Len(written) - 1
  <2>1. ~Quiet  BY DEF Quiet
  <2>. QED  BY <2>1, HeldIsSo DEF HeldIs
<1>. QED  BY <1>1, <1>2 DEF LogOf, LenOf

LEMMA WriteStutters ==
  ASSUME Exclusive, DmesgInv, NEW t \in Writers, Dmesg_Write(t)
  PROVE  UNCHANGED <<LogOf(Held), Finished>>
<1>1. written \in Seq(Lengths) /\ Len(written) \in Nat /\ DmesgTypeOK
  BY OffsetsAndCount DEF DmesgInv
<1>2. Quiet
  <2>1. \A u \in Tasks : ~Busy(u)  BY DEF Dmesg_Write, Enters
  <2>2. \A u \in Writers : u \in Tasks /\ u # Reader  BY DmesgAssumption DEF Tasks
  <2>. QED  BY <2>1, <2>2 DEF Busy, Quiet
<1>3. PICK ids, p : Kept(ids, p)  BY <1>2 DEF DmesgInv, LogInv
<1>4. Held = ids /\ Finished = Len(written) /\ Contents = ids
  BY <1>1, <1>2, <1>3, HeldQuiet, ContentsAreFound DEF ContentsFound
<1>5. PICK len \in Lengths :
        /\ written' = Append(written, len)
        /\ call' = [call EXCEPT ![t] = [Idle EXCEPT !.pc = "room", !.id = Len(written) + 1,
                                                     !.len = len]]
  BY DEF Dmesg_Write
<1>6. call'[t].pc # "idle"
  <2>1. DOMAIN call = Writers  BY <1>1, CallFields
  <2>. QED  BY <1>5, <2>1 DEF Idle
<1>7. Held' = ids /\ Finished' = Len(written') - 1
  BY <1>4, <1>6, HeldWritingNext, WriteStep
<1>8. Finished' = Finished  BY <1>1, <1>4, <1>5, <1>7
<1>9. LogOf(ids)' = LogOf(ids)
  <2>1. \A k \in 1 .. Len(ids) : written'[ids[k]] = written[ids[k]]
    BY <1>1, <1>3, <1>5, PlacedLater DEF Kept
  <2>. QED  BY <2>1 DEF LogOf, LenOf
<1>10. LogOf(Held)' = LogOf(ids)'
  <2>1. Held' = ids  BY <1>7
  <2>. QED  BY <2>1 DEF LogOf, LenOf
<1>. QED  BY <1>4, <1>8, <1>9, <1>10

LEMMA ReaderStutters ==
  ASSUME DmesgInv, DmesgInv', Quiet,
         UNCHANGED <<dmesg_buffer, write_offset, read_offset, log_count, call, written>>
  PROVE  UNCHANGED <<LogOf(Held), Finished>>
<1>1. PICK ids, p : Kept(ids, p)  BY DEF DmesgInv, LogInv
<1>2. Kept(ids, p)' /\ Quiet'  BY <1>1, KeptStill DEF Quiet
<1>3. Held = ids /\ Finished = Len(written)  BY <1>1, HeldQuiet DEF DmesgInv
<1>4. Held' = ids /\ Finished' = Len(written')  BY <1>2, HeldQuietNext
<1>. QED  BY <1>3, <1>4 DEF LogOf, LenOf

LEMMA ClearClears ==
  ASSUME Exclusive, DmesgInv, Dmesg_Clear
  PROVE  Log!Clear
<1>1. DmesgInv' /\ Quiet /\ Quiet'  BY ClearStep
<1>2. write_offset' = 0 /\ read_offset' = 0 /\ log_count' = 0 /\ written' = written
  BY DEF Dmesg_Clear
<1>3. EmptyLog'  BY EmptyLogKept, PTL
<1>4. PICK q : Kept(<<>>, q)'  BY <1>2, <1>3 DEF EmptyLog
<1>5. Held' = <<>> /\ Finished' = Len(written')  BY <1>1, <1>4, HeldQuietNext
<1>6. Finished = Len(written)  BY <1>1, HeldIsSo DEF HeldIs
<1>7. LogOf(Held)' = <<>>  BY <1>5 DEF LogOf
<1>. QED  BY <1>2, <1>5, <1>6, <1>7 DEF Log!Clear

\* A message that pushes out too many is lost with the others.
LEMMA GiveUpLosesAll ==
  ASSUME DmesgInv, NEW t \in Writers, CountEviction(t), call'[t].pc = "idle"
  PROVE  Log!LoseAll
<1>1. call[t].pc \in {"evicted", "emptied"} /\ call[t].pc # "idle" /\ UNCHANGED <<written, before>>
  BY DEF CountEviction
<1>2. call[t].pc = "evicted" /\ Alone(t)  BY <1>1 DEF DmesgInv, WriteInv, Alone
<1>3. /\ DmesgInv' /\ Quiet' /\ write_offset' = 0 /\ read_offset' = 0 /\ log_count' = 0
      /\ call[t].evictions + 1 > Len(before) - (call[t].evictions + 1) + Margin
  BY CountEvictionStep
<1>4. PICK p : Evicting(call[t], p)  BY <1>1 DEF DmesgInv, WriteInv
<1>5. PICK d, len : d = call[t].evictions + 1 /\ len = call[t].len  OBVIOUS
<1>6. Gone(call[t]) = d  BY <1>2, <1>5 DEF Gone
<1>7. /\ Placed(before, p) /\ d \in 0 .. Len(before)
      /\ d > 0 => Taken(p, d - 1, call[t]) >= DMESG_BUFFER_SIZE
  BY <1>4, <1>6 DEF Evicting
<1>8. Len(before) \in Nat /\ d \in 1 .. Len(before) /\ d - 1 \in 0 .. Len(before)
  <2>1. call[t].evictions \in Nat  BY CallFields DEF DmesgInv
  <2>2. Len(before) \in Nat  BY <1>7 DEF Placed
  <2>. QED  BY <1>5, <1>7, <2>1, <2>2
<1>9. /\ Log!Cells(Log!After(d - 1, len)) = Taken(p, d - 1, call[t])
      /\ Len(LogOf(Held)) = Len(before) /\ len \in Lengths
  BY <1>1, <1>5, <1>7, <1>8, AfterIs
<1>10. Log!Needed(d, len)
  <2>1. Taken(p, d - 1, call[t]) >= DMESG_BUFFER_SIZE  BY <1>7, <1>8
  <2>2. ~(Taken(p, d - 1, call[t]) <= DMESG_BUFFER_SIZE - 1)
    <3>1. Taken(p, d - 1, call[t]) \in Int
      <4>1. Len(before) \in 0 .. Len(before)  BY <1>8
      <4>2. p[Len(before)] \in Nat /\ p[d - 1] \in Nat  BY <1>7, <1>8, <4>1 DEF Placed
      <4>3. call[t].len \in Nat  BY CallFields DEF DmesgInv
      <4>. QED  BY <4>2, <4>3 DEF Taken
    <3>. QED  BY <2>1, <3>1, Sizes
  <2>. QED  BY <1>9, <2>2 DEF Log!Needed, Log!Fits
<1>11. Log!TooMany(d)
  BY <1>3, <1>5, <1>9 DEF Log!TooMany
<1>12. EmptyLog'  BY EmptyLogKept, PTL
<1>13. PICK q : Kept(<<>>, q)'  BY <1>3, <1>12 DEF EmptyLog
<1>14. Held' = <<>> /\ Finished' = Len(written')  BY <1>3, <1>13, HeldQuietNext
<1>15. LogOf(Held)' = <<>>  BY <1>14 DEF LogOf
<1>16. Finished' = Finished + 1
  <2>1. ~Quiet  BY <1>1 DEF Quiet
  <2>2. Finished = Len(written) - 1  BY <2>1, HeldIsSo DEF HeldIs
  <2>4. Len(written) \in Nat  BY OffsetsAndCount DEF DmesgInv
  <2>. QED  BY <1>1, <1>14, <2>2, <2>4
<1>17. len \in Lengths /\ d \in 1 .. Len(LogOf(Held))  BY <1>8, <1>9
<1>. QED  BY <1>10, <1>11, <1>15, <1>16, <1>17 DEF Log!LoseAll

\* The end of a write makes its message the latest, in place of no more of the
\* oldest than it needs.
LEMMA CommitWrites ==
  ASSUME DmesgInv, NEW t \in Writers, Commit(t)
  PROVE  Log!Write
<1>1. call[t].pc = "commit" /\ call[t].pc # "idle" /\ UNCHANGED <<written, before>>
  BY DEF Commit
<1>2. DmesgInv' /\ Quiet'  BY CommitStep
<1>3. PICK ids, e, id, p, q : /\ ids = before /\ e = call[t].evictions /\ id = Len(written)
                              /\ Evicting(call[t], p) /\ Kept(Newer(ids, e, id), q)'
  BY CommitStep
<1>4. Gone(call[t]) = e  BY <1>1, <1>3 DEF Gone
<1>5. /\ Placed(ids, p) /\ e \in 0 .. Len(ids)
      /\ log_count = Len(ids) - e /\ e <= log_count + Margin
      /\ e > 0 => Taken(p, e - 1, call[t]) >= DMESG_BUFFER_SIZE
      /\ Taken(p, e, call[t]) < DMESG_BUFFER_SIZE
  BY <1>1, <1>3, <1>4 DEF Evicting
<1>6. PICK len : len = call[t].len  OBVIOUS
<1>7. /\ Log!After(e, len) = LogOf(Newer(ids, e, id))
      /\ Log!Cells(Log!After(e, len)) = Taken(p, e, call[t])
      /\ Len(LogOf(Held)) = Len(ids) /\ len \in Lengths
  BY <1>1, <1>3, <1>5, <1>6, AfterIs
<1>8. Len(ids) \in Nat /\ e \in Nat /\ DMESG_BUFFER_SIZE \in Nat /\ Margin \in Nat
  <2>1. Len(ids) \in Nat  BY <1>5 DEF Placed
  <2>. QED  BY <1>5, <2>1, Sizes
<1>9. \A d \in 0 .. Len(ids) : Taken(p, d, call[t]) \in Int
  <2>1. Len(ids) \in 0 .. Len(ids)  BY <1>8
  <2>2. \A d \in 0 .. Len(ids) : p[d] \in Nat  BY <1>5 DEF Placed
  <2>3. call[t].len \in Nat  BY CallFields DEF DmesgInv
  <2>. QED  BY <1>3, <2>1, <2>2, <2>3 DEF Taken
<1>10. Log!Fits(Log!After(e, len))
  <2>1. Taken(p, e, call[t]) <= DMESG_BUFFER_SIZE - 1  BY <1>5, <1>8, <1>9
  <2>. QED  BY <1>7, <2>1 DEF Log!Fits
<1>11. Log!Needed(e, len)
  <2>. SUFFICES ASSUME e > 0 PROVE ~Log!Fits(Log!After(e - 1, len))
    BY DEF Log!Needed
  <2>1. e - 1 \in 0 .. Len(ids)  BY <1>5, <1>8
  <2>2. Log!Cells(Log!After(e - 1, len)) = Taken(p, e - 1, call[t])
    BY <1>1, <1>3, <1>5, <1>6, <2>1, AfterIs
  <2>3. ~(Taken(p, e - 1, call[t]) <= DMESG_BUFFER_SIZE - 1)
    <3>1. Taken(p, e - 1, call[t]) >= DMESG_BUFFER_SIZE  BY <1>5
    <3>2. Taken(p, e - 1, call[t]) \in Int  BY <1>9, <2>1
    <3>. QED  BY <1>8, <3>1, <3>2
  <2>. QED  BY <2>2, <2>3 DEF Log!Fits
<1>12. ~Log!TooMany(e)
  <2>1. ~(e > Len(ids) - e + Margin)  BY <1>5, <1>8
  <2>. QED  BY <1>7, <2>1 DEF Log!TooMany
<1>13. Held' = Newer(ids, e, id) /\ Finished' = Len(written')  BY <1>2, <1>3, HeldQuietNext
<1>14. LogOf(Held)' = Log!After(e, len)
  <2>1. PICK new : new = Newer(ids, e, id)  OBVIOUS
  <2>2. Held' = new  BY <1>13, <2>1
  <2>3. LogOf(Held)' = LogOf(new)  BY <1>1, <2>2 DEF LogOf, LenOf
  <2>. QED  BY <1>7, <2>1, <2>3
<1>15. Finished' = Finished + 1
  <2>1. ~Quiet  BY <1>1 DEF Quiet
  <2>2. Finished = Len(written) - 1  BY <2>1, HeldIsSo DEF HeldIs
  <2>4. Len(written) \in Nat  BY OffsetsAndCount DEF DmesgInv
  <2>. QED  BY <1>1, <1>13, <2>2, <2>4
<1>16. e \in 0 .. Len(LogOf(Held))  BY <1>5, <1>7
<1>. QED  BY <1>7, <1>10, <1>11, <1>12, <1>14, <1>15, <1>16 DEF Log!Write

LEMMA StepOfLog ==
  ASSUME Exclusive, DmesgInv, [Next]_vars
  PROVE  [Log!Next]_Log!vars
<1>1. DmesgInv'  BY StepInv
<1>. USE DEF Log!vars
<1>2. ASSUME NEW t \in Writers, Writing(t) PROVE [Log!Next]_Log!vars
  <2>1. CASE Dmesg_Write(t)  BY <2>1, WriteStutters
  <2>2. CASE Evict(t)
    <3>1. call[t].pc = "room" /\ UNCHANGED <<written, before>>  BY <2>2 DEF Evict
    <3>2. call'[t].pc # "idle"
      <4>1. DOMAIN call = Writers  BY CallFields DEF DmesgInv
      <4>2. \/ call' = [call EXCEPT ![t] = [@ EXCEPT !.pc = "evicted"]]
            \/ call' = [call EXCEPT ![t] = [@ EXCEPT !.pc = "emptied"]]
        BY <2>2 DEF Evict
      <4>3. DOMAIN call[t] = {"pc", "id", "len", "evictions", "w_off"}
        BY DEF DmesgInv, DmesgTypeOK
      <4>. QED  BY <4>1, <4>2, <4>3
    <3>. QED  BY <3>1, <3>2, WritingStutters
  <2>3. CASE CountEviction(t)
    <3>1. call[t].pc # "idle" /\ UNCHANGED <<written, before>>  BY <2>3 DEF CountEviction
    <3>2. CASE call'[t].pc = "idle"  BY <2>3, <3>2, GiveUpLosesAll DEF Log!Next
    <3>3. CASE call'[t].pc # "idle"  BY <3>1, <3>3, WritingStutters
    <3>. QED  BY <3>2, <3>3
  <2>4. CASE TakeRoom(t)
    <3>1. call[t].pc = "room" /\ UNCHANGED <<written, before>>  BY <2>4 DEF TakeRoom
    <3>. QED  BY <2>4, <3>1, TakeRoomStep, WritingStutters
  <2>5. CASE CopyEntry(t)
    <3>1. call[t].pc = "copy" /\ UNCHANGED <<written, before>>  BY <2>5 DEF CopyEntry
    <3>. QED  BY <2>5, <3>1, CopyEntryStep, WritingStutters
  <2>6. CASE Commit(t)  BY <2>6, CommitWrites DEF Log!Next
  <2>. QED  BY <1>2, <2>1, <2>2, <2>3, <2>4, <2>5, <2>6 DEF Writing
<1>3. CASE Listing
  <2>1. UNCHANGED <<dmesg_buffer, write_offset, read_offset, log_count, call, written>>
    BY <1>3 DEF Listing, Dmesg_GetLogs, Dmesg_GetLatestN, List, ListEntry, ListEnd, offsets
  <2>2. Quiet
    <3>1. CASE Dmesg_GetLogs \/ Dmesg_GetLatestN
      <4>1. \A u \in Tasks : ~Busy(u)
        BY <3>1 DEF Dmesg_GetLogs, Dmesg_GetLatestN, List, Enters
      <4>2. \A u \in Writers : u \in Tasks /\ u # Reader  BY DmesgAssumption DEF Tasks
      <4>. QED  BY <4>1, <4>2 DEF Busy, Quiet
    <3>2. CASE ListEntry \/ ListEnd
      BY <3>2 DEF ListEntry, ListEnd, DmesgInv, ListInv
    <3>. QED  BY <1>3, <3>1, <3>2 DEF Listing
  <2>. QED  BY <1>1, <2>1, <2>2, ReaderStutters
<1>4. CASE Dmesg_Clear  BY <1>4, ClearClears DEF Log!Next
<1>5. CASE UNCHANGED vars
  <2>1. UNCHANGED <<dmesg_buffer, write_offset, read_offset, log_count, call, listing, written,
                    before>>
    BY <1>5 DEF vars, offsets
  <2>2. CASE Quiet  BY <1>1, <2>1, <2>2, ReaderStutters
  <2>3. CASE ~Quiet
    <3>1. PICK t \in Writers : call[t].pc # "idle"  BY <2>3 DEF Quiet
    <3>2. call'[t].pc # "idle"  BY <2>1, <3>1
    <3>. QED  BY <2>1, <3>1, <3>2, WritingStutters
  <2>. QED  BY <2>2, <2>3
<1>. QED  BY <1>2, <1>3, <1>4, <1>5 DEF Next

\* Calls that exclude each other implement MessageLog: the log holds the latest
\* messages, whole and in order, pushes out the oldest and no more of them than
\* a new one needs, and is lost only when those are more by Margin than what
\* they leave.
THEOREM LogImplemented == Exclusive => (Spec => ImplementsMessageLog)
<1>1. CASE Exclusive
  <2>1. DmesgInv /\ [Next]_vars => [Log!Next]_Log!vars  BY <1>1, StepOfLog
  <2>2. Spec => []DmesgInv  BY <1>1, Invariance
  <2>. QED  BY <2>1, <2>2, LogInit, PTL DEF Spec, ImplementsMessageLog, Log!Spec
<1>. QED  BY <1>1

=============================================================================
