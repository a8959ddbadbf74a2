--------------------------- MODULE XtpCodesProofs ---------------------------
(***************************************************************************)
(* Theorems about the check bytes of an xTP frame, for any payload up to   *)
(* 255 bytes: one wrong byte is found and put right, a wrong check byte    *)
(* and a missing first byte are not got over, and one wrong byte changes   *)
(* the CRC.  They rest on what the tables are (LfsrPeriod, CrcTableApart), *)
(* which TLC computes in full; the rest is algebra: ^ and the LFSR are     *)
(* linear, so the syndromes of a payload depend on its error alone.        *)
(***************************************************************************)
EXTENDS XtpCodes, WellFoundedInduction, TLAPS

----------------------------------------------------------------------------
(* Exclusive or, bit by bit *)

\* A set of numbers has a least element.
LEMMA LeastElement ==
  ASSUME NEW T, T \subseteq Nat, T # {}
  PROVE  \E m \in T : \A n \in T : m <= n
<1>1. PICK m \in T : \A n \in T : ~ (<<n, m>> \in OpToRel(<, Nat))
  BY WFMin, NatLessThanWellFounded, Zenon
<1>2. \A n \in T : ~(n < m)  BY <1>1, Zenon DEF OpToRel
<1>. QED  BY <1>2

\* Induction, by least counterexample.
LEMMA Induction ==
  ASSUME NEW T, 0 \in T, \A k \in Nat : k \in T => k + 1 \in T
  PROVE  Nat \subseteq T
<1>. SUFFICES ASSUME Nat \ T # {} PROVE FALSE  OBVIOUS
<1>1. PICK m \in Nat \ T : \A k \in Nat \ T : m <= k
  BY LeastElement
<1>2. m - 1 \in Nat  OBVIOUS
<1>3. m - 1 \in T  BY <1>1, <1>2
<1>. QED  BY <1>2, <1>3

\* exclusive or
Bit == 0 .. 1
Half == 0 .. 15

\* Half a byte is its four bits.
LEMMA BitsOfHalf ==
  /\ \A x \in Half : Bits(x) \in [1 .. 4 -> Bit] /\ Number(Bits(x)) = x
  /\ \A v \in [1 .. 4 -> Bit] : Number(v) \in Half /\ Bits(Number(v)) = v
<1>1. ASSUME NEW x \in Half PROVE Bits(x) \in [1 .. 4 -> Bit] /\ Number(Bits(x)) = x
  <2>1. /\ Bits(x)[1] = x % 2 /\ Bits(x)[2] = (x \div 2) % 2
        /\ Bits(x)[3] = (x \div 4) % 2 /\ Bits(x)[4] = (x \div 8) % 2
    BY DEF Bits, Weight, Half
  <2>2. Bits(x) = [i \in 1..4 |-> Bits(x)[i]]
    BY DEF Bits
  <2>3. \A i \in 1..4 : Bits(x)[i] \in Bit
    BY <2>1 DEF Bit, Half
  <2>4. Bits(x) \in [1..4 -> Bit]
    BY <2>2, <2>3
  <2>5. Number(Bits(x)) = x
    BY <2>1 DEF Number, Half
  <2> QED BY <2>4, <2>5
<1>2. ASSUME NEW v \in [1 .. 4 -> Bit] PROVE Number(v) \in Half /\ Bits(Number(v)) = v
  <2>1. v[1] \in Bit /\ v[2] \in Bit /\ v[3] \in Bit /\ v[4] \in Bit
    OBVIOUS
  <2>2. Number(v) \in Half
    BY <2>1 DEF Number, Bit, Half
  <2> DEFINE x == Number(v)
  <2>3. x % 2 = v[1] /\ (x \div 2) % 2 = v[2] /\ (x \div 4) % 2 = v[3] /\ (x \div 8) % 2 = v[4]
    BY <2>1 DEF Number, Bit
  <2>4. /\ Bits(x)[1] = x % 2 /\ Bits(x)[2] = (x \div 2) % 2
        /\ Bits(x)[3] = (x \div 4) % 2 /\ Bits(x)[4] = (x \div 8) % 2
    BY <2>2 DEF Bits, Weight, Half
  <2> HIDE DEF x
  <2>5. \A i \in 1..4 : Bits(x)[i] = v[i]
    BY <2>3, <2>4
  <2>6. Bits(x) = [i \in 1..4 |-> Bits(x)[i]]
    BY DEF Bits
  <2> QED BY <2>2, <2>5, <2>6 DEF x
<1> QED BY <1>1, <1>2

\* The operator ^ of two halves, bit by bit.
LEMMA BitsOfXor4 ==
  ASSUME NEW x \in Half, NEW y \in Half
  PROVE  /\ Xor4[x][y] \in Half
         /\ \A i \in 1 .. 4 : Bits(Xor4[x][y])[i] = (Bits(x)[i] + Bits(y)[i]) % 2
<1> DEFINE v == [i \in 1 .. 4 |-> (Bits(x)[i] + Bits(y)[i]) % 2]
<1>1. Bits(x) \in [1 .. 4 -> Bit] /\ Bits(y) \in [1 .. 4 -> Bit]
  BY BitsOfHalf
<1>2. v \in [1 .. 4 -> Bit]
  BY <1>1 DEF Bit
<1>3. Xor4[x][y] = Number(v)
  BY DEF Xor4, Half
<1> QED BY <1>2, <1>3, BitsOfHalf

\* A half is known by its bits.
LEMMA SameBits ==
  ASSUME NEW x \in Half, NEW y \in Half, \A i \in 1 .. 4 : Bits(x)[i] = Bits(y)[i]
  PROVE  x = y
<1>1. Bits(x) = Bits(y) BY BitsOfHalf
<1> QED BY <1>1, BitsOfHalf

\* The laws of ^ on halves.
LEMMA Xor4Group ==
  /\ \A x, y \in Half : Xor4[x][y] \in Half /\ Xor4[x][y] = Xor4[y][x]
  /\ \A x \in Half : Xor4[x][x] = 0 /\ Xor4[x][0] = x
  /\ \A x, y, z \in Half : Xor4[Xor4[x][y]][z] = Xor4[x][Xor4[y][z]]
<1>0. \A x \in Half : \A i \in 1..4 : Bits(x)[i] \in Bit
  BY BitsOfHalf
<1>z. 0 \in Half /\ \A i \in 1..4 : Bits(0)[i] = 0
  BY DEF Half, Bits, Weight
<1>1. ASSUME NEW x \in Half, NEW y \in Half PROVE Xor4[x][y] \in Half /\ Xor4[x][y] = Xor4[y][x]
  <2>1. ASSUME NEW i \in 1..4 PROVE Bits(Xor4[x][y])[i] = Bits(Xor4[y][x])[i]
    <3>1. /\ Bits(Xor4[x][y])[i] = (Bits(x)[i] + Bits(y)[i]) % 2
          /\ Bits(Xor4[y][x])[i] = (Bits(y)[i] + Bits(x)[i]) % 2
      BY BitsOfXor4
    <3>2. Bits(x)[i] \in Int /\ Bits(y)[i] \in Int
      BY <1>0 DEF Bit
    <3> QED BY <3>1, <3>2
  <2> QED BY <2>1, SameBits, BitsOfXor4
<1>2. ASSUME NEW x \in Half PROVE Xor4[x][x] = 0 /\ Xor4[x][0] = x
  <2>1. ASSUME NEW i \in 1..4
        PROVE  Bits(Xor4[x][x])[i] = Bits(0)[i] /\ Bits(Xor4[x][0])[i] = Bits(x)[i]
    <3>1. /\ Bits(Xor4[x][x])[i] = (Bits(x)[i] + Bits(x)[i]) % 2
          /\ Bits(Xor4[x][0])[i] = (Bits(x)[i] + Bits(0)[i]) % 2
      BY <1>z, BitsOfXor4
    <3>2. Bits(x)[i] \in 0..1 /\ Bits(0)[i] = 0
      BY <1>0, <1>z DEF Bit
    <3> QED BY <3>1, <3>2
  <2>2. Xor4[x][x] \in Half /\ Xor4[x][0] \in Half
    BY <1>z, BitsOfXor4
  <2> QED BY <2>1, <2>2, <1>z, SameBits
<1>3. ASSUME NEW x \in Half, NEW y \in Half, NEW z \in Half
      PROVE Xor4[Xor4[x][y]][z] = Xor4[x][Xor4[y][z]]
  <2>0. Xor4[x][y] \in Half /\ Xor4[y][z] \in Half
    BY BitsOfXor4
  <2>1. ASSUME NEW i \in 1..4 PROVE Bits(Xor4[Xor4[x][y]][z])[i] = Bits(Xor4[x][Xor4[y][z]])[i]
    <3>1. Bits(x)[i] \in Bit /\ Bits(y)[i] \in Bit /\ Bits(z)[i] \in Bit
      BY <1>0
    <3>2. Bits(Xor4[Xor4[x][y]][z])[i] = (((Bits(x)[i] + Bits(y)[i]) % 2) + Bits(z)[i]) % 2
      BY <2>0, BitsOfXor4
    <3>3. Bits(Xor4[x][Xor4[y][z]])[i] = (Bits(x)[i] + ((Bits(y)[i] + Bits(z)[i]) % 2)) % 2
      BY <2>0, BitsOfXor4
    <3> QED BY <3>1, <3>2, <3>3 DEF Bit
  <2>2. Xor4[Xor4[x][y]][z] \in Half /\ Xor4[x][Xor4[y][z]] \in Half
    BY <2>0, BitsOfXor4
  <2> QED BY <2>1, <2>2, SameBits
<1> QED BY <1>1, <1>2, <1>3

\* A byte and its halves.
Joined(a, b) == 16 * a + b

\* Every byte has two halves,
LEMMA Halves == \A x \in Byte : \E a, b \in Half : x = Joined(a, b)
<1>1. ASSUME NEW x \in Byte PROVE \E a, b \in Half : x = Joined(a, b)
  <2>1. x \div 16 \in Half /\ x % 16 \in Half /\ x = 16 * (x \div 16) + (x % 16)
    BY DEF Byte, Half
  <2> QED BY <2>1 DEF Joined
<1> QED BY <1>1

\* two halves make a byte,
LEMMA JoinedByte == \A a, b \in Half : Joined(a, b) \in Byte
BY DEF Joined, Byte, Half

\* and ^ works on each half by itself.
LEMMA JoinedXor ==
  ASSUME NEW a \in Half, NEW b \in Half, NEW c \in Half, NEW d \in Half
  PROVE  Xor(Joined(a, b), Joined(c, d)) = Joined(Xor4[a][c], Xor4[b][d])
<1>1. ASSUME NEW u \in Half, NEW v \in Half
      PROVE  Joined(u, v) \div 16 = u /\ Joined(u, v) % 16 = v
  BY DEF Joined, Half
<1>2. Xor(Joined(a, b), Joined(c, d)) = 16 * Xor4[a][c] + Xor4[b][d]
  BY <1>1 DEF Xor
<1> QED BY <1>2 DEF Joined

\* The laws of ^ on bytes.
LEMMA XorGroup ==
  /\ \A x, y \in Byte : Xor(x, y) \in Byte /\ Xor(x, y) = Xor(y, x)
  /\ \A x \in Byte : Xor(x, x) = 0 /\ Xor(x, 0) = x
  /\ \A x, y, z \in Byte : Xor(Xor(x, y), z) = Xor(x, Xor(y, z))
<1>z. 0 \in Half /\ 0 = Joined(0, 0)
  BY DEF Half, Joined
<1>1. ASSUME NEW x \in Byte, NEW y \in Byte
      PROVE  Xor(x, y) \in Byte /\ Xor(x, y) = Xor(y, x)
  <2>1. PICK a \in Half, b \in Half : x = Joined(a, b)  BY Halves
  <2>2. PICK c \in Half, d \in Half : y = Joined(c, d)  BY Halves
  <2>3. Xor(x, y) = Joined(Xor4[a][c], Xor4[b][d])  BY <2>1, <2>2, JoinedXor
  <2>4. Xor(y, x) = Joined(Xor4[c][a], Xor4[d][b])  BY <2>1, <2>2, JoinedXor
  <2>5. /\ Xor4[a][c] = Xor4[c][a] /\ Xor4[b][d] = Xor4[d][b]
        /\ Xor4[a][c] \in Half /\ Xor4[b][d] \in Half
    BY Xor4Group
  <2> QED BY <2>3, <2>4, <2>5, JoinedByte
<1>2. ASSUME NEW x \in Byte PROVE Xor(x, x) = 0 /\ Xor(x, 0) = x
  <2>1. PICK a \in Half, b \in Half : x = Joined(a, b)  BY Halves
  <2>2. Xor(x, x) = Joined(Xor4[a][a], Xor4[b][b])  BY <2>1, JoinedXor
  <2>3. Xor(x, 0) = Joined(Xor4[a][0], Xor4[b][0])  BY <2>1, <1>z, JoinedXor
  <2>4. Xor4[a][a] = 0 /\ Xor4[b][b] = 0 /\ Xor4[a][0] = a /\ Xor4[b][0] = b  BY Xor4Group
  <2> QED BY <2>1, <2>2, <2>3, <2>4, <1>z
<1>3. ASSUME NEW x \in Byte, NEW y \in Byte, NEW z \in Byte
      PROVE  Xor(Xor(x, y), z) = Xor(x, Xor(y, z))
  <2>1. PICK a \in Half, b \in Half : x = Joined(a, b)  BY Halves
  <2>2. PICK c \in Half, d \in Half : y = Joined(c, d)  BY Halves
  <2>3. PICK e \in Half, f \in Half : z = Joined(e, f)  BY Halves
  <2>4. Xor(x, y) = Joined(Xor4[a][c], Xor4[b][d])  BY <2>1, <2>2, JoinedXor
  <2>5. Xor(y, z) = Joined(Xor4[c][e], Xor4[d][f])  BY <2>2, <2>3, JoinedXor
  <2>6. /\ Xor4[a][c] \in Half /\ Xor4[b][d] \in Half
        /\ Xor4[c][e] \in Half /\ Xor4[d][f] \in Half
    BY Xor4Group
  <2>7. Xor(Xor(x, y), z) = Joined(Xor4[Xor4[a][c]][e], Xor4[Xor4[b][d]][f])
    <3>1. \A p, q \in Half : Xor(Joined(p, q), Joined(e, f)) = Joined(Xor4[p][e], Xor4[q][f])
      BY JoinedXor
    <3>2. Xor(Joined(Xor4[a][c], Xor4[b][d]), Joined(e, f))
            = Joined(Xor4[Xor4[a][c]][e], Xor4[Xor4[b][d]][f])
      BY <2>6, <3>1
    <3> QED BY <2>3, <2>4, <3>2
  <2>8. Xor(x, Xor(y, z)) = Joined(Xor4[a][Xor4[c][e]], Xor4[b][Xor4[d][f]])
    <3>1. \A p, q \in Half : Xor(Joined(a, b), Joined(p, q)) = Joined(Xor4[a][p], Xor4[b][q])
      BY JoinedXor
    <3>2. Xor(Joined(a, b), Joined(Xor4[c][e], Xor4[d][f]))
            = Joined(Xor4[a][Xor4[c][e]], Xor4[b][Xor4[d][f]])
      BY <2>6, <3>1
    <3> QED BY <2>1, <2>5, <3>2
  <2>9. Xor4[Xor4[a][c]][e] = Xor4[a][Xor4[c][e]] /\ Xor4[Xor4[b][d]][f] = Xor4[b][Xor4[d][f]]
    BY Xor4Group
  <2> QED BY <2>7, <2>8, <2>9
<1> QED BY <1>1, <1>2, <1>3

\* What was xored twice is gone.
LEMMA XorCancels ==
  ASSUME NEW x \in Byte, NEW y \in Byte
  PROVE  /\ Xor(Xor(x, y), y) = x /\ Xor(Xor(x, y), x) = y
         /\ Xor(x, y) = 0 <=> x = y
         /\ 0 \in Byte /\ Xor(0, x) = x
<1>1. Xor(Xor(x, y), y) = Xor(x, Xor(y, y)) /\ Xor(y, y) = 0
  BY XorGroup
<1>2. Xor(x, y) = Xor(y, x) /\ Xor(Xor(y, x), x) = Xor(y, Xor(x, x)) /\ Xor(x, x) = 0
  BY XorGroup
<1>3. 0 \in Byte  BY DEF Byte
<1>4. Xor(x, 0) = x /\ Xor(y, 0) = y /\ Xor(0, y) = Xor(y, 0) /\ Xor(0, x) = Xor(x, 0)
  BY <1>3, XorGroup
<1> QED BY <1>1, <1>2, <1>3, <1>4

\* The order does not matter.
LEMMA XorSwap ==
  ASSUME NEW x \in Byte, NEW y \in Byte, NEW u \in Byte, NEW v \in Byte
  PROVE  Xor(Xor(x, y), Xor(u, v)) = Xor(Xor(x, u), Xor(y, v))
<1>1. Xor(x, y) \in Byte /\ Xor(u, v) \in Byte /\ Xor(x, u) \in Byte /\ Xor(y, v) \in Byte
      /\ Xor(y, u) \in Byte
  BY XorGroup
<1>2. Xor(Xor(x, y), Xor(u, v)) = Xor(Xor(Xor(x, y), u), v)
  BY <1>1, XorGroup
<1>3. Xor(Xor(x, y), u) = Xor(x, Xor(y, u)) /\ Xor(y, u) = Xor(u, y) /\ Xor(x, Xor(u, y)) = Xor(Xor(x, u), y)
  BY <1>1, XorGroup
<1>4. Xor(Xor(Xor(x, u), y), v) = Xor(Xor(x, u), Xor(y, v))
  BY <1>1, XorGroup
<1> QED BY <1>2, <1>3, <1>4

\* A byte shifted to the right: the lowest bit of one half moves to the other.
Moved(a, b) == 8 * (a % 2) + (b \div 2)

\* Shifting goes through ^, seen on halves
LEMMA MovedXor ==
  ASSUME NEW a \in Half, NEW b \in Half, NEW c \in Half, NEW e \in Half
  PROVE  /\ Moved(a, b) \in Half
         /\ Moved(Xor4[a][c], Xor4[b][e]) = Xor4[Moved(a, b)][Moved(c, e)]
<1>1. ASSUME NEW x \in Half, NEW y \in Half
      PROVE  /\ Moved(x, y) \in Half
             /\ Bits(Moved(x, y))[1] = Bits(y)[2] /\ Bits(Moved(x, y))[2] = Bits(y)[3]
             /\ Bits(Moved(x, y))[3] = Bits(y)[4] /\ Bits(Moved(x, y))[4] = Bits(x)[1]
  <2>1. \A z \in Half : /\ Bits(z)[1] = z % 2 /\ Bits(z)[2] = (z \div 2) % 2
                        /\ Bits(z)[3] = (z \div 4) % 2 /\ Bits(z)[4] = (z \div 8) % 2
    BY DEF Bits, Weight, Half
  <2>2. Moved(x, y) \in Half
    BY DEF Moved, Half
  <2> DEFINE z == Moved(x, y)
  <2>3. /\ z % 2 = (y \div 2) % 2 /\ (z \div 2) % 2 = (y \div 4) % 2
        /\ (z \div 4) % 2 = (y \div 8) % 2 /\ (z \div 8) % 2 = x % 2
    BY DEF Moved, Half
  <2> HIDE DEF z
  <2>4. z \in Half BY <2>2 DEF z
  <2>5. /\ Bits(z)[1] = Bits(y)[2] /\ Bits(z)[2] = Bits(y)[3]
        /\ Bits(z)[3] = Bits(y)[4] /\ Bits(z)[4] = Bits(x)[1]
    BY <2>1, <2>3, <2>4
  <2> QED BY <2>4, <2>5 DEF z
<1>2. Xor4[a][c] \in Half /\ Xor4[b][e] \in Half
  BY BitsOfXor4
<1> DEFINE l == Moved(Xor4[a][c], Xor4[b][e])
           r == Xor4[Moved(a, b)][Moved(c, e)]
<1>3. l \in Half /\ r \in Half
  BY <1>1, <1>2, BitsOfXor4
<1>4. /\ Bits(l)[1] = Bits(Xor4[b][e])[2] /\ Bits(l)[2] = Bits(Xor4[b][e])[3]
      /\ Bits(l)[3] = Bits(Xor4[b][e])[4] /\ Bits(l)[4] = Bits(Xor4[a][c])[1]
  BY <1>1, <1>2
<1>5. \A i \in 1 .. 4 : Bits(r)[i] = (Bits(Moved(a, b))[i] + Bits(Moved(c, e))[i]) % 2
  BY <1>1, BitsOfXor4
<1> HIDE DEF l, r
<1>6. /\ Bits(l)[1] = Bits(r)[1] /\ Bits(l)[2] = Bits(r)[2]
      /\ Bits(l)[3] = Bits(r)[3] /\ Bits(l)[4] = Bits(r)[4]
  <2>1. \A i \in 1 .. 4 : /\ Bits(Xor4[b][e])[i] = (Bits(b)[i] + Bits(e)[i]) % 2
                          /\ Bits(Xor4[a][c])[i] = (Bits(a)[i] + Bits(c)[i]) % 2
    BY BitsOfXor4
  <2>2. /\ Bits(r)[1] = (Bits(b)[2] + Bits(e)[2]) % 2 /\ Bits(r)[2] = (Bits(b)[3] + Bits(e)[3]) % 2
        /\ Bits(r)[3] = (Bits(b)[4] + Bits(e)[4]) % 2 /\ Bits(r)[4] = (Bits(a)[1] + Bits(c)[1]) % 2
    BY <1>5, <1>1
  <2> QED BY <1>4, <2>1, <2>2
<1>7. \A i \in 1 .. 4 : Bits(l)[i] = Bits(r)[i]
  BY <1>6
<1>8. l = r
  BY <1>3, <1>7, SameBits
<1> QED BY <1>1, <1>8 DEF l, r

\* and on bytes.
LEMMA HalvingXor ==
  ASSUME NEW x \in Byte, NEW y \in Byte
  PROVE  /\ x \div 2 \in 0 .. 127 /\ x % 2 \in 0 .. 1
         /\ Xor(x, y) \div 2 = Xor(x \div 2, y \div 2)
         /\ Xor(x, y) % 2 = ((x % 2) + (y % 2)) % 2
<1>1. PICK a \in Half, b \in Half : x = Joined(a, b)  BY Halves
<1>2. PICK c \in Half, e \in Half : y = Joined(c, e)  BY Halves
<1>3. ASSUME NEW u \in Half, NEW v \in Half
      PROVE  /\ (Joined(u, v)) \div 2 = Joined(Moved(0, u), Moved(u, v))
             /\ (Joined(u, v)) % 2 = v % 2
  BY DEF Moved, Half, Joined
<1>4. 0 \in Half /\ Xor4[0][0] = 0
  <2>1. 0 \in Half BY DEF Half
  <2> QED BY <2>1, Xor4Group
<1>5. Xor4[a][c] \in Half /\ Xor4[b][e] \in Half
  BY Xor4Group
<1>6. Xor(x, y) = Joined(Xor4[a][c], Xor4[b][e])
  BY <1>1, <1>2, JoinedXor
<1>7. Xor(x, y) \div 2 = Joined(Moved(0, Xor4[a][c]), Moved(Xor4[a][c], Xor4[b][e]))
  BY <1>3, <1>5, <1>6
<1>8. /\ Moved(0, Xor4[a][c]) = Xor4[Moved(0, a)][Moved(0, c)]
      /\ Moved(Xor4[a][c], Xor4[b][e]) = Xor4[Moved(a, b)][Moved(c, e)]
      /\ Moved(0, a) \in Half /\ Moved(0, c) \in Half /\ Moved(a, b) \in Half /\ Moved(c, e) \in Half
  <2>1. /\ Moved(Xor4[0][0], Xor4[a][c]) = Xor4[Moved(0, a)][Moved(0, c)]
        /\ Moved(0, a) \in Half /\ Moved(0, c) \in Half
    BY <1>4, MovedXor
  <2>2. /\ Moved(Xor4[a][c], Xor4[b][e]) = Xor4[Moved(a, b)][Moved(c, e)]
        /\ Moved(a, b) \in Half /\ Moved(c, e) \in Half
    BY MovedXor
  <2> QED BY <1>4, <2>1, <2>2
<1>9. Xor(x \div 2, y \div 2) = Joined(Xor4[Moved(0, a)][Moved(0, c)], Xor4[Moved(a, b)][Moved(c, e)])
  BY <1>1, <1>2, <1>3, <1>8, JoinedXor
<1>10. Xor(x, y) % 2 = ((x % 2) + (y % 2)) % 2
  <2>1. Xor(x, y) % 2 = Xor4[b][e] % 2
    BY <1>3, <1>5, <1>6
  <2>2. \A z \in Half : Bits(z)[1] = z % 2
    BY DEF Bits, Weight, Half
  <2>3. Bits(Xor4[b][e])[1] = (Bits(b)[1] + Bits(e)[1]) % 2
    BY BitsOfXor4
  <2>4. x % 2 = b % 2 /\ y % 2 = e % 2
    BY <1>1, <1>2, <1>3
  <2>5. Xor4[b][e] % 2 = ((b % 2) + (e % 2)) % 2
    BY <2>2, <2>3, <1>5
  <2> QED BY <2>1, <2>4, <2>5
<1>11. x \div 2 \in 0 .. 127 /\ x % 2 \in 0 .. 1
  BY DEF Byte
<1> QED BY <1>7, <1>8, <1>9, <1>10, <1>11

\* The LFSR is linear, and no byte but 0 becomes 0.
LEMMA Lfsr ==
  /\ \A x \in Byte : lf_sr[x] \in Byte /\ (lf_sr[x] = 0 <=> x = 0)
  /\ \A x, y \in Byte : lf_sr[Xor(x, y)] = Xor(lf_sr[x], lf_sr[y])
<1> DEFINE tap(x) == IF x % 2 = 1 THEN 142 ELSE 0
<1>1. ASSUME NEW x \in Byte
      PROVE  /\ lf_sr[x] = Xor(x \div 2, tap(x))
             /\ x \div 2 \in Byte /\ x \div 2 \in 0 .. 127 /\ tap(x) \in Byte
  <2>1. x \div 2 \in 0 .. 127 /\ 142 \in Byte /\ 0 \in Byte
    BY DEF Byte
  <2> QED BY <2>1 DEF lf_sr, Byte
<1>2. ASSUME NEW x \in Byte PROVE lf_sr[x] \in Byte /\ (lf_sr[x] = 0 <=> x = 0)
  <2>1. lf_sr[x] \in Byte /\ (lf_sr[x] = 0 <=> x \div 2 = tap(x))
    BY <1>1, XorGroup, XorCancels
  <2>2. x \div 2 = tap(x) <=> x = 0
    BY <1>1 DEF Byte
  <2> QED BY <2>1, <2>2
<1>3. ASSUME NEW x \in Byte, NEW y \in Byte PROVE lf_sr[Xor(x, y)] = Xor(lf_sr[x], lf_sr[y])
  <2>1. Xor(lf_sr[x], lf_sr[y]) = Xor(Xor(x \div 2, y \div 2), Xor(tap(x), tap(y)))
    BY <1>1, XorSwap
  <2>2. lf_sr[Xor(x, y)] = Xor(Xor(x \div 2, y \div 2), tap(Xor(x, y)))
    BY <1>1, XorGroup, HalvingXor
  <2>3. Xor(tap(x), tap(y)) = tap(Xor(x, y))
    <3>1. Xor(x, y) % 2 = ((x % 2) + (y % 2)) % 2 /\ x % 2 \in 0 .. 1 /\ y % 2 \in 0 .. 1
      BY HalvingXor
    <3>2. /\ 0 \in Byte /\ 142 \in Byte
      BY DEF Byte
    <3>3. /\ Xor(0, 0) = 0 /\ Xor(142, 0) = 142 /\ Xor(0, 142) = 142 /\ Xor(142, 142) = 0
      BY <3>2, XorGroup, XorCancels
    <3> QED BY <3>1, <3>3
  <2> QED BY <2>1, <2>2, <2>3
<1> QED BY <1>2, <1>3

----------------------------------------------------------------------------
(* Recursive functions, step by step *)

\* The period is a number.
LEMMA PeriodNat == Period \in Nat /\ Period > 1
BY DEF Period

\* A function on 0 .. n can be made step by step.
StepFunctions(S) == [Nat -> [S -> S]]
Steps(f, S, base, g, n) ==
  f \in [0 .. n -> S] /\ f[0] = base /\ \A i \in 1 .. n : f[i] = g[i][f[i - 1]]

\* Such a function exists (the recursive ones of XtpCodes are made of steps).
LEMMA StepByStep ==
  ASSUME NEW S, NEW base \in S, NEW g \in StepFunctions(S), NEW n \in Nat
  PROVE  \E f : Steps(f, S, base, g, n)
<1> DEFINE T == {k \in Nat : \E f : Steps(f, S, base, g, k)}
<1>1. 0 \in T
  <2> DEFINE f == [i \in 0 .. 0 |-> base]
  <2>1. Steps(f, S, base, g, 0)  BY DEF Steps
  <2> QED BY <2>1
<1>2. ASSUME NEW k \in Nat, k \in T PROVE k + 1 \in T
  <2>1. PICK f : Steps(f, S, base, g, k)
    BY <1>2
  <2> DEFINE h == [i \in 0 .. k + 1 |-> IF i = k + 1 THEN g[k + 1][f[k]] ELSE f[i]]
  <2>2. f[k] \in S /\ \A i \in 0 .. k : f[i] \in S
    BY <2>1 DEF Steps
  <2>3. g[k + 1][f[k]] \in S
    BY <2>2 DEF StepFunctions
  <2>4. h \in [0 .. k + 1 -> S] /\ h[0] = base
    BY <2>1, <2>2, <2>3 DEF Steps
  <2>5. ASSUME NEW i \in 1 .. k + 1 PROVE h[i] = g[i][h[i - 1]]
    <3>1. CASE i = k + 1  BY <3>1
    <3>2. CASE i \in 1 .. k
      <4>1. h[i] = f[i] /\ h[i - 1] = f[i - 1]  BY <3>2
      <4> QED BY <4>1, <2>1, <3>2 DEF Steps
    <3> QED BY <3>1, <3>2
  <2>6. Steps(h, S, base, g, k + 1)
    <3> HIDE DEF h
    <3> QED BY <2>4, <2>5 DEF Steps
  <2> QED BY <2>6
<1> HIDE DEF T
<1>3. n \in T
  BY <1>1, <1>2, Induction
<1> QED BY <1>3 DEF T

\* Induction over the places of a sequence.
LEMMA Upwards ==
  ASSUME NEW T, NEW a \in Nat, NEW n \in Nat, a \in T,
         \A i \in a .. n - 1 : i \in T => i + 1 \in T
  PROVE  a .. n \subseteq T
<1> DEFINE R == {k \in Nat : a + k <= n => a + k \in T}
<1>1. 0 \in R  OBVIOUS
<1>2. ASSUME NEW k \in Nat, k \in R PROVE k + 1 \in R
  <2> SUFFICES ASSUME a + (k + 1) <= n PROVE a + (k + 1) \in T  OBVIOUS
  <2>1. a + k \in a .. n - 1 /\ a + k \in T  BY <1>2
  <2> QED BY <2>1
<1> HIDE DEF R
<1>3. Nat \subseteq R  BY <1>1, <1>2, Induction
<1>4. ASSUME NEW i \in a .. n PROVE i \in T
  <2>1. i - a \in Nat /\ a + (i - a) = i  OBVIOUS
  <2>2. i - a \in R  BY <2>1, <1>3
  <2> QED BY <2>1, <2>2 DEF R
<1> QED BY <1>4

\* The turns of a byte in the LFSR.
Turning(o, x, n) ==
  /\ o \in [0 .. n -> Byte] /\ o[0] = x
  /\ \A i \in 1 .. n : o[i] = lf_sr[o[i - 1]]

\* Any byte can be turned any number of times.
LEMMA TurningExists ==
  ASSUME NEW x \in Byte, NEW n \in Nat
  PROVE  \E o : Turning(o, x, n)
<1> DEFINE g == [i \in Nat |-> lf_sr]
<1>1. lf_sr \in [Byte -> Byte]
  <2>1. lf_sr = [y \in Byte |-> lf_sr[y]]  BY DEF lf_sr
  <2> QED BY <2>1, Lfsr
<1>2. g \in StepFunctions(Byte)
  BY <1>1 DEF StepFunctions
<1>3. \A i \in 1 .. n : g[i] = lf_sr
  OBVIOUS
<1> HIDE DEF g
<1>4. PICK o : Steps(o, Byte, x, g, n)
  BY <1>2, StepByStep
<1> QED BY <1>3, <1>4 DEF Turning, Steps

\* The search of xTP_ECC_Decode, from the turn n on.
SearchStep(s, h, n) ==
  [x \in Byte |-> IF n = Period \/ x = s THEN n ELSE h[n + 1][lf_sr[x]]]
Search(s) == CHOOSE h : h = [n \in 0 .. Period |-> SearchStep(s, h, n)]

\* The search is made of steps.
LEMMA SearchExists ==
  ASSUME NEW s \in Byte
  PROVE  \E h : h = [n \in 0 .. Period |-> SearchStep(s, h, n)]
<1> USE PeriodNat
<1> DEFINE S == [Byte -> 0 .. Period]
           base == [x \in Byte |-> Period]
           next(m, p) == [x \in Byte |-> IF x = s /\ m <= Period THEN Period - m ELSE p[lf_sr[x]]]
           g == [m \in Nat |-> [p \in S |-> next(m, p)]]
<1>1. base \in S /\ g \in StepFunctions(S)
  <2>1. \A x \in Byte : lf_sr[x] \in Byte  BY Lfsr
  <2>2. base \in S  OBVIOUS
  <2>3. ASSUME NEW m \in Nat, NEW p \in S PROVE next(m, p) \in S
    BY <2>1
  <2> HIDE DEF S, next
  <2> QED BY <2>2, <2>3 DEF StepFunctions
<1>2. PICK r : Steps(r, S, base, g, Period)
  <2> HIDE DEF S, base, g
  <2> QED BY <1>1, StepByStep
<1>3. r[0] = base /\ \A m \in 0 .. Period : r[m] \in S
  <2> HIDE DEF S, g, base
  <2> QED BY <1>2 DEF Steps
<1>4. ASSUME NEW m \in 1 .. Period PROVE r[m] = next(m, r[m - 1])
  <2>1. m \in Nat /\ m - 1 \in 0 .. Period /\ r[m] = g[m][r[m - 1]]
    <3> HIDE DEF S, g, base
    <3> QED BY <1>2 DEF Steps
  <2> HIDE DEF S, next
  <2>2. g[m] = [p \in S |-> next(m, p)]
    BY <2>1
  <2> HIDE DEF g
  <2> QED BY <2>1, <2>2, <1>3
<1> DEFINE f == [n \in 0 .. Period |-> r[Period - n]]
<1>5. ASSUME NEW n \in 0 .. Period PROVE f[n] = SearchStep(s, f, n)
  <2>1. CASE n = Period
    <3>1. f[n] = base
      <4>1. n \in 0 .. Period /\ Period - n = 0  BY <2>1
      <4>2. f[n] = r[0]  BY <4>1
      <4> HIDE DEF base, f
      <4> QED BY <4>2, <1>3
    <3>2. SearchStep(s, f, n) = base
      BY <2>1 DEF SearchStep
    <3> QED BY <3>1, <3>2
  <2>2. CASE n \in 0 .. Period - 1
    <3>1. Period - n \in 1 .. Period /\ f[n] = r[Period - n] /\ f[n + 1] = r[(Period - n) - 1]
      BY <2>2
    <3>2. f[n] = next(Period - n, f[n + 1])
      <4> HIDE DEF f, next
      <4> QED BY <3>1, <1>4
    <3> HIDE DEF f
    <3>3. next(Period - n, f[n + 1]) = SearchStep(s, f, n)
      BY <2>2 DEF SearchStep
    <3> QED BY <3>2, <3>3
  <2> QED BY <2>1, <2>2
<1>6. f = [n \in 0 .. Period |-> SearchStep(s, f, n)]
  <2>1. f = [n \in 0 .. Period |-> f[n]]  OBVIOUS
  <2> HIDE DEF f
  <2> QED BY <2>1, <1>5
<1> HIDE DEF f
<1> QED BY <1>6

\* It is the one XtpCodes defines.
LEMMA Searched ==
  ASSUME NEW s \in Byte
  PROVE  /\ \A n \in 0 .. Period : Search(s)[n] = SearchStep(s, Search(s), n)
         /\ \A x \in Byte : Turns(s, x) = Search(s)[0][x]
<1> USE PeriodNat
<1> DEFINE D(h) == h = [n \in 0 .. Period |-> SearchStep(s, h, n)]
<1>1. Search(s) = CHOOSE h : D(h)  BY DEF Search
<1>2. \E h : D(h)  BY SearchExists
<1>3. D(Search(s))
  <2> HIDE DEF D
  <2> QED BY <1>1, <1>2, Zenon
<1>4. \A n \in 0 .. Period : Search(s)[n] = SearchStep(s, Search(s), n)
  BY <1>3
<1>5. \A x \in Byte : Turns(s, x) = Search(s)[0][x]
  BY DEF Turns, Search, SearchStep
<1> QED BY <1>4, <1>5

\* The search stops at the first turn that leads to the other syndrome.
LEMMA TurnsFirst ==
  ASSUME NEW s \in Byte, NEW x \in Byte, NEW o, Turning(o, x, Period - 1)
  PROVE  /\ Turns(s, x) \in 0 .. Period
         /\ Turns(s, x) < Period => o[Turns(s, x)] = s
         /\ \A i \in 0 .. Period - 1 : i < Turns(s, x) => o[i] # s
<1> USE PeriodNat
<1> DEFINE h == Search(s)
           AtLast(n, t) == n <= Period - 1 => h[n][o[n]] = t
           First(n, t) == \A i \in n .. Period - 1 : i < t => o[i] # s
           Found(n) == \E t \in n .. Period : (t = Period \/ o[t] = s) /\ First(n, t) /\ AtLast(n, t)
           T == {k \in 0 .. Period : Found(Period - k)}
<1>0. /\ o \in [0 .. Period - 1 -> Byte] /\ o[0] = x
      /\ \A i \in 1 .. Period - 1 : o[i] = lf_sr[o[i - 1]]
  BY DEF Turning
<1>1. ASSUME NEW n \in 0 .. Period, NEW y \in Byte
      PROVE  /\ n = Period \/ y = s => h[n][y] = n
             /\ n # Period /\ y # s => h[n][y] = h[n + 1][lf_sr[y]]
             /\ lf_sr[y] \in Byte
  <2>1. h[n] = SearchStep(s, h, n)  BY Searched
  <2> HIDE DEF h
  <2>2. h[n][y] = IF n = Period \/ y = s THEN n ELSE h[n + 1][lf_sr[y]]
    BY <2>1 DEF SearchStep
  <2> QED BY <2>2, Lfsr
<1> HIDE DEF h
<1>2. 0 \in T
  <2>1. Found(Period)  OBVIOUS
  <2> HIDE DEF Found
  <2> QED BY <2>1
<1>3. ASSUME NEW n \in 0 .. Period - 1, Found(n + 1) PROVE Found(n)
  <2>1. o[n] \in Byte  BY <1>0
  <2>2. CASE o[n] = s
    <3>1. h[n][o[n]] = n  BY <2>1, <2>2, <1>1
    <3>2. First(n, n) /\ AtLast(n, n)  BY <3>1
    <3> HIDE DEF First, AtLast
    <3> QED BY <2>2, <3>2
  <2>3. CASE o[n] # s
    <3>1. h[n][o[n]] = h[n + 1][lf_sr[o[n]]] /\ lf_sr[o[n]] \in Byte
      <4>1. n \in 0 .. Period /\ n # Period  OBVIOUS
      <4> QED BY <2>1, <2>3, <4>1, <1>1
    <3>2. PICK t \in n + 1 .. Period : (t = Period \/ o[t] = s) /\ First(n + 1, t) /\ AtLast(n + 1, t)
      BY <1>3
    <3>3. AtLast(n, t)
      <4>1. CASE n = Period - 1
        <5>1. h[n + 1][lf_sr[o[n]]] = Period  BY <3>1, <4>1, <1>1
        <5> QED BY <4>1, <5>1, <3>1
      <4>2. CASE n < Period - 1
        <5>1. n + 1 \in 1 .. Period - 1 /\ (n + 1) - 1 = n /\ n + 1 <= Period - 1  BY <4>2
        <5>2. o[n + 1] = lf_sr[o[n]]  BY <5>1, <1>0
        <5>3. h[n + 1][o[n + 1]] = t  BY <5>1, <3>2
        <5> QED BY <5>2, <5>3, <3>1
      <4> QED BY <4>1, <4>2
    <3>4. First(n, t)
      <4>1. ASSUME NEW i \in n .. Period - 1, i < t PROVE o[i] # s
        <5>1. CASE i = n  BY <5>1, <2>3
        <5>2. CASE i \in n + 1 .. Period - 1  BY <5>2, <4>1, <3>2
        <5> QED BY <5>1, <5>2
      <4> QED BY <4>1
    <3>5. t \in n .. Period  OBVIOUS
    <3> HIDE DEF First, AtLast
    <3> QED BY <3>2, <3>3, <3>4, <3>5
  <2> QED BY <2>2, <2>3
<1>4. ASSUME NEW k \in 0 .. Period - 1, k \in T PROVE k + 1 \in T
  <2> HIDE DEF Found
  <2>1. /\ Period - 1 - k \in 0 .. Period - 1 /\ (Period - 1 - k) + 1 = Period - k
        /\ Period - 1 - k = Period - (k + 1) /\ k + 1 \in 0 .. Period
    OBVIOUS
  <2>2. Found((Period - 1 - k) + 1)  BY <1>4, <2>1
  <2>3. Found(Period - 1 - k)  BY <2>1, <2>2, <1>3
  <2> QED BY <2>1, <2>3
<1>5. Found(0)
  <2>1. 0 .. Period \subseteq T
    <3> HIDE DEF T
    <3> QED BY <1>2, <1>4, Upwards
  <2>2. Period \in T /\ Period - Period = 0
    <3> HIDE DEF T
    <3> QED BY <2>1
  <2> HIDE DEF Found
  <2> QED BY <2>2
<1>6. Turns(s, x) = h[0][o[0]]
  BY <1>0, Searched DEF h
<1> QED BY <1>5, <1>6

----------------------------------------------------------------------------
(* The period of the LFSR, and the encoder *)

\* Any byte but 0 comes back after Period turns and no sooner.
LEMMA TurningPeriod ==
  ASSUME NEW x \in Byte \ {0}, NEW o, Turning(o, x, Period)
  PROVE  o[Period] = x /\ \A i \in 1 .. Period - 1 : o[i] # x
<1> USE PeriodNat
<1>1. /\ o \in [0 .. Period -> Byte] /\ o[0] = x
      /\ \A i \in 1 .. Period : o[i] = lf_sr[o[i - 1]]
  BY DEF Turning
<1>2. x \in Byte /\ lf_sr[x] \in Byte /\ Turns(x, lf_sr[x]) = Period - 1
  <2>1. x \in Byte  BY DEF Byte
  <2>2. lf_sr[x] \in Byte  BY <2>1, Lfsr
  <2> QED BY <2>1, <2>2, LfsrPeriod
<1> DEFINE q == [i \in 0 .. Period - 1 |-> o[i + 1]]
<1>3. Turning(q, lf_sr[x], Period - 1)
  <2>1. q \in [0 .. Period - 1 -> Byte]  BY <1>1
  <2>2. q[0] = lf_sr[x]  BY <1>1
  <2>3. ASSUME NEW i \in 1 .. Period - 1 PROVE q[i] = lf_sr[q[i - 1]]
    <3>1. i + 1 \in 1 .. Period /\ q[i] = o[i + 1] /\ q[i - 1] = o[i] /\ (i + 1) - 1 = i
      OBVIOUS
    <3> HIDE DEF q
    <3>2. o[i + 1] = lf_sr[o[i]]  BY <3>1, <1>1
    <3> QED BY <3>1, <3>2
  <2> HIDE DEF q
  <2> QED BY <2>1, <2>2, <2>3 DEF Turning
<1>4. q[Period - 1] = x /\ \A i \in 0 .. Period - 1 : i < Period - 1 => q[i] # x
  <2> HIDE DEF q
  <2>1. \A p : Turning(p, lf_sr[x], Period - 1) =>
              /\ Turns(x, lf_sr[x]) < Period => p[Turns(x, lf_sr[x])] = x
              /\ \A i \in 0 .. Period - 1 : i < Turns(x, lf_sr[x]) => p[i] # x
    <3>1. x \in Byte /\ lf_sr[x] \in Byte  BY <1>2
    <3>2. ASSUME NEW y \in Byte, NEW p, Turning(p, y, Period - 1)
          PROVE  /\ Turns(x, y) < Period => p[Turns(x, y)] = x
                 /\ \A i \in 0 .. Period - 1 : i < Turns(x, y) => p[i] # x
      BY <3>1, <3>2, TurnsFirst
    <3> QED BY <3>1, <3>2
  <2> QED BY <1>2, <1>3, <2>1
<1>5. o[Period] = x
  BY <1>4
<1>6. ASSUME NEW i \in 1 .. Period - 1 PROVE o[i] # x
  <2>1. i - 1 \in 0 .. Period - 1 /\ i - 1 < Period - 1 /\ q[i - 1] = o[i]  OBVIOUS
  <2> HIDE DEF q
  <2> QED BY <2>1, <1>4
<1> QED BY <1>5, <1>6

\* From the m-th turn of a byte it takes Period - m turns to come back.
LEMMA TurnsBack ==
  \A x \in Byte \ {0} : \A o : Turning(o, x, Period) =>
      \A m \in 1 .. Period : Turns(x, o[m]) = Period - m
<1> USE PeriodNat
<1>a. SUFFICES ASSUME NEW x \in Byte \ {0}, NEW o, Turning(o, x, Period), NEW m \in 1 .. Period
               PROVE  Turns(x, o[m]) = Period - m
  OBVIOUS
<1>1. /\ o \in [0 .. Period -> Byte] /\ o[0] = x
      /\ \A i \in 1 .. Period : o[i] = lf_sr[o[i - 1]]
  BY <1>a DEF Turning
<1>2. x \in Byte /\ o[m] \in Byte
  <2>1. x \in Byte  BY DEF Byte
  <2>2. o[m] \in Byte  BY <1>1
  <2> QED BY <2>1, <2>2
<1>3. PICK q : Turning(q, o[m], Period - 1)
  BY <1>2, TurningExists
<1>4. \A i \in 0 .. Period - m : q[i] = o[m + i]
  <2> DEFINE T == {i \in 0 .. Period - m : i <= Period - 1 /\ q[i] = o[m + i]}
  <2>0. q[0] = o[m] /\ \A i \in 1 .. Period - 1 : q[i] = lf_sr[q[i - 1]]
    BY <1>3 DEF Turning
  <2>1. 0 \in T  BY <2>0
  <2>2. ASSUME NEW i \in 0 .. (Period - m) - 1, i \in T PROVE i + 1 \in T
    <3>1. i + 1 \in 1 .. Period - 1 /\ (i + 1) - 1 = i /\ m + (i + 1) \in 1 .. Period
          /\ (m + (i + 1)) - 1 = m + i /\ i + 1 \in 0 .. Period - m
      OBVIOUS
    <3>2. q[i + 1] = lf_sr[q[i]]  BY <2>0, <3>1
    <3>3. o[m + (i + 1)] = lf_sr[o[m + i]]  BY <1>1, <3>1
    <3> QED BY <2>2, <3>1, <3>2, <3>3
  <2> HIDE DEF T
  <2>3. Period - m \in Nat  OBVIOUS
  <2>4. 0 .. Period - m \subseteq T  BY <2>1, <2>2, <2>3, Upwards
  <2> QED BY <2>4 DEF T
<1>5. q[Period - m] = x /\ \A i \in 0 .. Period - m : i < Period - m => q[i] # x
  <2>1. o[Period] = x /\ \A i \in 1 .. Period - 1 : o[i] # x
    BY <1>a, TurningPeriod
  <2>2. Period - m \in 0 .. Period - m /\ m + (Period - m) = Period  OBVIOUS
  <2>3. ASSUME NEW i \in 0 .. Period - m, i < Period - m PROVE q[i] # x
    <3>1. m + i \in 1 .. Period - 1  BY <2>3
    <3> QED BY <3>1, <2>1, <1>4
  <2> QED BY <2>1, <2>2, <2>3, <1>4
<1>6. /\ Turns(x, o[m]) \in 0 .. Period
      /\ Turns(x, o[m]) < Period => q[Turns(x, o[m])] = x
      /\ \A i \in 0 .. Period - 1 : i < Turns(x, o[m]) => q[i] # x
  BY <1>2, <1>3, TurnsFirst
<1> DEFINE t == Turns(x, o[m])
           b == Period - m
<1>7. b \in 0 .. Period - 1 /\ b \in 0 .. b /\ q[b] = x
      /\ \A i \in 0 .. b : i < b => q[i] # x
  BY <1>5
<1>8. /\ t \in 0 .. Period /\ (t < Period => q[t] = x)
      /\ \A i \in 0 .. Period - 1 : i < t => q[i] # x
  BY <1>6
<1> HIDE DEF t, b
<1>9. t <= b
  BY <1>7, <1>8
<1>10. t = b
  <2>1. t < Period /\ t \in 0 .. b  BY <1>7, <1>8, <1>9
  <2> QED BY <2>1, <1>7, <1>8, <1>9
<1> QED BY <1>2, <1>10 DEF t, b

\* The check bytes after each byte of the payload.
EncodeStep(data, h, i) ==
  IF i = 0
  THEN <<0, 0>>
  ELSE LET before == h[i - 1]
       IN  <<Xor(before[1], data[i]), lf_sr[Xor(before[2], data[i])]>>
EncodeRun(data) == CHOOSE h : h = [i \in 0 .. Len(data) |-> EncodeStep(data, h, i)]

Run(h, v, n) ==
  /\ \A i \in 0 .. n : h[i][1] \in Byte /\ h[i][2] \in Byte
  /\ h[0][1] = 0 /\ h[0][2] = 0
  /\ \A i \in 1 .. n : /\ h[i][1] = Xor(h[i - 1][1], v[i])
                        /\ h[i][2] = lf_sr[Xor(h[i - 1][2], v[i])]

Checked(h, data) ==
  /\ Run(h, data, Len(data)) /\ Encode(data) = h[Len(data)]
  /\ Encode(data) = <<Encode(data)[1], Encode(data)[2]>>

\* The encoder is made of steps.
LEMMA Checking ==
  ASSUME NEW data \in Seq(Byte)
  PROVE  \E h : Checked(h, data)
<1> DEFINE n == Len(data)
           S == Byte \X Byte
           next(i, p) == <<Xor(p[1], data[i]), lf_sr[Xor(p[2], data[i])]>>
           g == [i \in Nat |-> [p \in S |-> IF i \in 1 .. n THEN next(i, p) ELSE p]]
<1>0. n \in Nat /\ \A i \in 1 .. n : data[i] \in Byte
  OBVIOUS
<1>1. <<0, 0>> \in S /\ g \in StepFunctions(S)
  <2>1. <<0, 0>> \in S  BY DEF Byte
  <2>2. ASSUME NEW i \in 1 .. n, NEW p \in S PROVE next(i, p) \in S
    <3>1. p[1] \in Byte /\ p[2] \in Byte /\ data[i] \in Byte  BY <1>0
    <3>2. Xor(p[1], data[i]) \in Byte /\ Xor(p[2], data[i]) \in Byte  BY <3>1, XorGroup
    <3> QED BY <3>2, Lfsr
  <2> HIDE DEF S, next, n
  <2> QED BY <2>1, <2>2 DEF StepFunctions
<1>2. PICK r : Steps(r, S, <<0, 0>>, g, n)
  <2> HIDE DEF S, g, n
  <2> QED BY <1>0, <1>1, StepByStep
<1>3. /\ r \in [0 .. n -> S] /\ r[0] = <<0, 0>>
      /\ \A i \in 1 .. n : r[i] = g[i][r[i - 1]]
  <2> HIDE DEF S, g, n
  <2> QED BY <1>2 DEF Steps
<1>4. ASSUME NEW i \in 1 .. n PROVE r[i] = next(i, r[i - 1])
  <2>1. i \in Nat /\ i - 1 \in 0 .. n /\ r[i - 1] \in S /\ r[i] = g[i][r[i - 1]]
    <3> HIDE DEF S, g
    <3> QED BY <1>0, <1>3
  <2> HIDE DEF S, next, n
  <2>2. g[i] = [p \in S |-> IF i \in 1 .. n THEN next(i, p) ELSE p]
    BY <2>1
  <2> HIDE DEF g
  <2> QED BY <2>1, <2>2
<1> HIDE DEF g
<1>5. ASSUME NEW i \in 0 .. n PROVE r[i] = EncodeStep(data, r, i)
  <2>1. CASE i = 0  BY <2>1, <1>3 DEF EncodeStep
  <2>2. CASE i \in 1 .. n
    <3>1. i # 0  BY <2>2
    <3> QED BY <2>2, <3>1, <1>4 DEF EncodeStep
  <2> QED BY <2>1, <2>2
<1> DEFINE D(h) == h = [i \in 0 .. Len(data) |-> EncodeStep(data, h, i)]
<1>6. D(r)
  <2> HIDE DEF S, next
  <2>1. r = [i \in 0 .. n |-> r[i]]  BY <1>3
  <2> QED BY <2>1, <1>5
<1>7. D(EncodeRun(data))
  <2>1. EncodeRun(data) = CHOOSE h : D(h)  BY DEF EncodeRun
  <2> HIDE DEF D
  <2> QED BY <1>6, <2>1, Zenon
<1> DEFINE h == EncodeRun(data)
<1>8. \A i \in 0 .. n : h[i] = EncodeStep(data, h, i)
  <2> HIDE DEF h
  <2> QED BY <1>7 DEF h
<1>9. Encode(data) = h[n]
  BY DEF Encode, EncodeRun, EncodeStep
<1> HIDE DEF h, D
<1>10. /\ h[0][1] = 0 /\ h[0][2] = 0
       /\ \A i \in 1 .. n : /\ h[i][1] = Xor(h[i - 1][1], data[i])
                            /\ h[i][2] = lf_sr[Xor(h[i - 1][2], data[i])]
  <2>1. h[0] = <<0, 0>>
    <3>1. 0 \in 0 .. n  BY <1>0
    <3>2. h[0] = EncodeStep(data, h, 0)  BY <3>1, <1>8
    <3> QED BY <3>2 DEF EncodeStep
  <2>2. ASSUME NEW i \in 1 .. n
        PROVE  /\ h[i][1] = Xor(h[i - 1][1], data[i])
               /\ h[i][2] = lf_sr[Xor(h[i - 1][2], data[i])]
    <3>1. i \in 0 .. n /\ i # 0  BY <1>0
    <3>2. h[i] = EncodeStep(data, h, i)  BY <3>1, <1>8
    <3> QED BY <3>1, <3>2 DEF EncodeStep
  <2> QED BY <2>1, <2>2
<1>11. \A i \in 0 .. n : h[i][1] \in Byte /\ h[i][2] \in Byte
  <2> DEFINE T == {i \in 0 .. n : h[i][1] \in Byte /\ h[i][2] \in Byte}
  <2>1. 0 \in T  BY <1>0, <1>10 DEF Byte
  <2>2. ASSUME NEW i \in 0 .. n - 1, i \in T PROVE i + 1 \in T
    <3>1. i + 1 \in 1 .. n /\ (i + 1) - 1 = i /\ i + 1 \in 0 .. n  BY <1>0
    <3>2. h[i][1] \in Byte /\ h[i][2] \in Byte /\ data[i + 1] \in Byte
      BY <1>0, <2>2, <3>1
    <3>3. Xor(h[i][1], data[i + 1]) \in Byte /\ lf_sr[Xor(h[i][2], data[i + 1])] \in Byte
      BY <3>2, XorGroup, Lfsr
    <3> QED BY <3>1, <3>3, <1>10
  <2> HIDE DEF T
  <2>3. 0 .. n \subseteq T  BY <1>0, <2>1, <2>2, Upwards
  <2> QED BY <2>3 DEF T
<1>12. h[n] = <<h[n][1], h[n][2]>>
  <2>1. n \in 0 .. n  BY <1>0
  <2>2. h[n] = EncodeStep(data, h, n)  BY <2>1, <1>8
  <2>3. CASE n = 0
    <3>1. h[n] = <<0, 0>>  BY <2>2, <2>3 DEF EncodeStep
    <3> QED BY <3>1
  <2>4. CASE n # 0
    <3> DEFINE a == Xor(h[n - 1][1], data[n])
               b == lf_sr[Xor(h[n - 1][2], data[n])]
    <3>1. h[n] = <<a, b>>  BY <2>2, <2>4 DEF EncodeStep
    <3> HIDE DEF a, b
    <3> QED BY <3>1
  <2> QED BY <2>3, <2>4
<1> QED BY <1>9, <1>10, <1>11, <1>12 DEF Checked, Run

----------------------------------------------------------------------------
(* One wrong byte *)

\* The difference of two payloads goes through the LFSR once with each byte
\* that they have in common.
LEMMA CommonByte ==
  ASSUME NEW x \in Byte, NEW y \in Byte, NEW b \in Byte
  PROVE  /\ Xor(Xor(x, b), Xor(y, b)) = Xor(x, y)
         /\ Xor(lf_sr[Xor(x, b)], lf_sr[Xor(y, b)]) = lf_sr[Xor(x, y)]
<1>1. Xor(x, b) \in Byte /\ Xor(y, b) \in Byte /\ Xor(x, y) \in Byte
  BY XorGroup
<1>2. Xor(Xor(x, b), Xor(y, b)) = Xor(x, y)
  <2>1. Xor(Xor(x, b), Xor(y, b)) = Xor(Xor(x, y), Xor(b, b))  BY XorSwap
  <2>2. Xor(b, b) = 0 /\ Xor(Xor(x, y), 0) = Xor(x, y)  BY <1>1, XorGroup
  <2> QED BY <2>1, <2>2
<1>3. lf_sr[Xor(Xor(x, b), Xor(y, b))] = Xor(lf_sr[Xor(x, b)], lf_sr[Xor(y, b)])
  BY <1>1, Lfsr
<1> QED BY <1>2, <1>3

\* A run of the encoder from the place k on.
Reading(h, v, k, n) ==
  /\ \A i \in k .. n : h[i][1] \in Byte /\ h[i][2] \in Byte
  /\ \A i \in k + 1 .. n : /\ v[i] \in Byte
                          /\ h[i][1] = Xor(h[i - 1][1], v[i])
                          /\ h[i][2] = lf_sr[Xor(h[i - 1][2], v[i])]

\* Two runs of the encoder that differ by e and lf_sr[e] at the place k, and
\* read the same bytes from there on, differ by e and the (n - k + 1)-th turn
\* of e at n.
LEMMA Apart ==
  ASSUME NEW e \in Byte, NEW o, NEW n \in 1 .. Period, NEW k \in 1 .. n,
         NEW h, NEW g, NEW v, NEW m, m = n - k + 1, Turning(o, e, Period),
         Reading(h, v, k, n), Reading(g, v, k, n),
         Xor(h[k][1], g[k][1]) = e, Xor(h[k][2], g[k][2]) = lf_sr[e]
  PROVE  Xor(h[n][1], g[n][1]) = e /\ Xor(h[n][2], g[n][2]) = o[m]
<1> USE PeriodNat
<1>a. /\ \A i \in k .. n : /\ h[i][1] \in Byte /\ h[i][2] \in Byte
                          /\ g[i][1] \in Byte /\ g[i][2] \in Byte
      /\ \A i \in k + 1 .. n : /\ v[i] \in Byte
                              /\ h[i][1] = Xor(h[i - 1][1], v[i])
                              /\ h[i][2] = lf_sr[Xor(h[i - 1][2], v[i])]
                              /\ g[i][1] = Xor(g[i - 1][1], v[i])
                              /\ g[i][2] = lf_sr[Xor(g[i - 1][2], v[i])]
  BY DEF Reading
<1> DEFINE T == {i \in k .. n : /\ Xor(h[i][1], g[i][1]) = e
                                /\ Xor(h[i][2], g[i][2]) = o[i - k + 1]}
<1>1. k \in T
  <2>1. k - k + 1 = 1 /\ o[1] = lf_sr[e] /\ k \in k .. n
    BY <1>a DEF Turning
  <2> QED BY <1>a, <2>1
<1>2. ASSUME NEW i \in k .. n - 1, i \in T PROVE i + 1 \in T
  <2> HIDE DEF T
  <2>0. PICK j : j = i + 1  OBVIOUS
  <2>1. /\ j \in k + 1 .. n /\ j \in k .. n /\ i \in k .. n /\ j - 1 = i
        /\ i - k + 1 \in 1 .. Period - 1 /\ j - k + 1 \in 1 .. Period /\ (j - k + 1) - 1 = i - k + 1
    BY <2>0
  <2>2. o[j - k + 1] = lf_sr[o[i - k + 1]]
    BY <1>a, <2>1 DEF Turning
  <2>3. /\ Xor(h[i][1], g[i][1]) = e
        /\ Xor(h[i][2], g[i][2]) = o[i - k + 1]
    BY <1>2 DEF T
  <2> DEFINE a1 == h[i][1]
             a2 == h[i][2]
             b1 == g[i][1]
             b2 == g[i][2]
             w == v[j]
  <2>4. a1 \in Byte /\ a2 \in Byte /\ b1 \in Byte /\ b2 \in Byte /\ w \in Byte
    BY <1>a, <2>1
  <2>5. h[j][1] = Xor(a1, w) /\ h[j][2] = lf_sr[Xor(a2, w)]
        /\ g[j][1] = Xor(b1, w) /\ g[j][2] = lf_sr[Xor(b2, w)]
    BY <1>a, <2>1
  <2>6. Xor(a1, b1) = e /\ Xor(a2, b2) = o[i - k + 1]
    BY <2>3
  <2> HIDE DEF a1, a2, b1, b2, w
  <2>7. Xor(Xor(a1, w), Xor(b1, w)) = e
    BY <2>4, <2>6, CommonByte
  <2>8. Xor(lf_sr[Xor(a2, w)], lf_sr[Xor(b2, w)]) = o[j - k + 1]
    BY <2>2, <2>4, <2>6, CommonByte
  <2>9. j \in T
    BY <2>1, <2>5, <2>7, <2>8 DEF T
  <2> QED BY <2>0, <2>9
<1> HIDE DEF T
<1>3. k \in Nat /\ n \in Nat /\ n \in k .. n  OBVIOUS
<1>4. k .. n \subseteq T  BY <1>1, <1>2, <1>3, Upwards
<1> QED BY <1>3, <1>4 DEF T

\* The check bytes are bytes, and they are right for the payload they were made
\* of.
LEMMA EncodeBytes ==
  ASSUME NEW data \in Seq(Byte)
  PROVE  Encode(data)[1] \in Byte /\ Encode(data)[2] \in Byte
<1>1. PICK h : Checked(h, data)  BY Checking
<1>2. Len(data) \in 0 .. Len(data)  OBVIOUS
<1> QED BY <1>1, <1>2 DEF Checked, Run

\* The place that the two syndromes of a wrong byte lead to.
LEMMA Located ==
  ASSUME NEW e \in Byte \ {0}, NEW o, Turning(o, e, Period), NEW m \in 1 .. Period
  PROVE  /\ o[m] # 0
         /\ \A len \in Nat : Place(len, e, o[m]) = len + 1 - m
<1> USE PeriodNat
<1>2. Turns(e, o[m]) = Period - m
  BY TurnsBack
<1>3. o[m] # 0
  <2>1. \A i \in 0 .. Period : o[i] \in Byte  BY DEF Turning
  <2>2. o[0] = e /\ e # 0  BY DEF Turning
  <2>3. \A i \in 1 .. Period : o[i] = lf_sr[o[i - 1]]  BY DEF Turning
  <2> DEFINE T == {i \in 0 .. Period : o[i] # 0}
  <2>4. 0 \in T  BY <2>2
  <2>5. ASSUME NEW i \in 0 .. Period - 1, i \in T PROVE i + 1 \in T
    <3>1. i + 1 \in 1 .. Period /\ (i + 1) - 1 = i /\ i + 1 \in 0 .. Period /\ i \in 0 .. Period  OBVIOUS
    <3>2. o[i + 1] = lf_sr[o[i]] /\ o[i] \in Byte /\ o[i] # 0  BY <3>1, <2>1, <2>3, <2>5
    <3> QED BY <3>1, <3>2, Lfsr
  <2> HIDE DEF T
  <2>6. 0 .. Period \subseteq T  BY <2>4, <2>5, Upwards
  <2>7. m \in 0 .. Period  OBVIOUS
  <2> QED BY <2>6, <2>7 DEF T
<1> QED BY <1>2, <1>3 DEF Place

\* A payload with one wrong byte, and the check bytes of a payload.
Wrong(data, k, e) == [data EXCEPT ![k] = Xor(@, e)]
EccOf(data, ecc)  == ecc[1] = Encode(data)[1] /\ ecc[2] = Encode(data)[2]

\* xTP_ECC_Decode leaves a payload that arrived as it was sent as it is.
THEOREM IntactStays ==
  ASSUME NEW data \in Seq(Byte), data # <<>>,
         NEW ecc, EccOf(data, ecc)
  PROVE  Repairs(data, ecc) = {data}
<1>1. Xor(Encode(data)[1], ecc[1]) = 0 /\ Xor(Encode(data)[2], ecc[2]) = 0
  BY EncodeBytes, XorGroup DEF EccOf
<1> QED BY <1>1 DEF Repairs

\* One wrong check byte makes xTP_ECC_Decode fail although the payload is right.
THEOREM WrongCheckFails ==
  ASSUME NEW data \in Seq(Byte), NEW ecc, ecc[1] \in Byte, ecc[2] \in Byte,
         (ecc[1] = Encode(data)[1]) # (ecc[2] = Encode(data)[2])
  PROVE  Repairs(data, ecc) = {}
<1>1. /\ Xor(Encode(data)[1], ecc[1]) = 0 <=> ecc[1] = Encode(data)[1]
      /\ Xor(Encode(data)[2], ecc[2]) = 0 <=> ecc[2] = Encode(data)[2]
  BY EncodeBytes, XorCancels
<1>2. (Xor(Encode(data)[1], ecc[1]) = 0) # (Xor(Encode(data)[2], ecc[2]) = 0)
  BY <1>1
<1> QED BY <1>2 DEF Repairs

\* What the syndromes say of one wrong byte.
LEMMA Syndromes ==
  ASSUME NEW n \in 1 .. Period, NEW k \in 1 .. n, NEW e \in Byte \ {0}, NEW o, Turning(o, e, Period),
         NEW u, NEW v, NEW h, NEW g, Run(h, u, n), Run(g, v, n),
         \A i \in 1 .. n : v[i] \in Byte,
         u[k] = Xor(v[k], e), \A i \in 1 .. n : i # k => u[i] = v[i],
         NEW m, m = n - k + 1
  PROVE  Xor(h[n][1], g[n][1]) = e /\ Xor(h[n][2], g[n][2]) = o[m]
<1> USE PeriodNat
<1>0. e \in Byte /\ v[k] \in Byte /\ 0 \in Byte
  BY DEF Byte
<1>1. /\ u[k] = Xor(v[k], e) /\ \A i \in 1 .. n : i # k => u[i] = v[i]
  OBVIOUS
<1>h. /\ \A i \in 0 .. n : h[i][1] \in Byte /\ h[i][2] \in Byte
      /\ h[0][1] = 0 /\ h[0][2] = 0
      /\ \A i \in 1 .. n : /\ h[i][1] = Xor(h[i - 1][1], u[i])
                           /\ h[i][2] = lf_sr[Xor(h[i - 1][2], u[i])]
  BY DEF Run
<1>g. /\ \A i \in 0 .. n : g[i][1] \in Byte /\ g[i][2] \in Byte
      /\ g[0][1] = 0 /\ g[0][2] = 0
      /\ \A i \in 1 .. n : /\ g[i][1] = Xor(g[i - 1][1], v[i])
                           /\ g[i][2] = lf_sr[Xor(g[i - 1][2], v[i])]
  BY DEF Run
<1>5. h[k - 1][1] = g[k - 1][1] /\ h[k - 1][2] = g[k - 1][2]
  <2> DEFINE T == {i \in 0 .. k - 1 : h[i][1] = g[i][1] /\ h[i][2] = g[i][2]}
  <2>1. 0 \in T  BY <1>0, <1>h, <1>g
  <2>2. ASSUME NEW i \in 0 .. (k - 1) - 1, i \in T PROVE i + 1 \in T
    <3>1. i + 1 \in 1 .. n /\ i + 1 # k /\ (i + 1) - 1 = i /\ i + 1 \in 0 .. k - 1
      BY <1>0
    <3>2. u[i + 1] = v[i + 1]  BY <1>1, <3>1
    <3> QED BY <2>2, <3>1, <3>2, <1>h, <1>g
  <2> HIDE DEF T
  <2>3. k - 1 \in Nat /\ 0 \in Nat /\ k - 1 \in 0 .. k - 1  BY <1>0
  <2>4. 0 .. k - 1 \subseteq T  BY <2>1, <2>2, <2>3, Upwards
  <2> QED BY <2>3, <2>4 DEF T
<1>6. Xor(h[k][1], g[k][1]) = e /\ Xor(h[k][2], g[k][2]) = lf_sr[e]
  <2> DEFINE a == g[k - 1][1]
             b == g[k - 1][2]
             w == v[k]
  <2>1. /\ h[k][1] = Xor(a, Xor(w, e)) /\ h[k][2] = lf_sr[Xor(b, Xor(w, e))]
        /\ g[k][1] = Xor(a, w) /\ g[k][2] = lf_sr[Xor(b, w)]
    BY <1>0, <1>1, <1>5, <1>h, <1>g
  <2>2. a \in Byte /\ b \in Byte /\ w \in Byte
    <3>1. k - 1 \in 0 .. n  BY <1>0
    <3> QED BY <3>1, <1>0, <1>g
  <2> HIDE DEF a, b, w
  <2>3. \A x \in Byte : /\ Xor(x, w) \in Byte /\ Xor(x, Xor(w, e)) = Xor(Xor(x, w), e)
                        /\ Xor(Xor(Xor(x, w), e), Xor(x, w)) = e
    <3> TAKE x \in Byte
    <3>1. Xor(x, w) \in Byte /\ Xor(Xor(x, w), e) = Xor(x, Xor(w, e))
      BY <1>0, <2>2, XorGroup
    <3>2. Xor(Xor(Xor(x, w), e), Xor(x, w)) = e
      BY <3>1, <1>0, XorCancels
    <3> QED BY <3>1, <3>2
  <2>4. Xor(h[k][1], g[k][1]) = e
    BY <2>1, <2>2, <2>3
  <2>5. Xor(h[k][2], g[k][2]) = lf_sr[e]
    <3>1. Xor(b, w) \in Byte /\ Xor(b, Xor(w, e)) = Xor(Xor(b, w), e)  BY <2>2, <2>3
    <3>2. lf_sr[Xor(Xor(b, w), e)] = Xor(lf_sr[Xor(b, w)], lf_sr[e])
          /\ lf_sr[Xor(b, w)] \in Byte /\ lf_sr[e] \in Byte
      BY <1>0, <3>1, Lfsr
    <3>3. Xor(Xor(lf_sr[Xor(b, w)], lf_sr[e]), lf_sr[Xor(b, w)]) = lf_sr[e]
      BY <3>2, XorCancels
    <3> QED BY <2>1, <3>1, <3>2, <3>3
  <2> QED BY <2>2, <2>4, <2>5
<1>7. Reading(h, v, k, n) /\ Reading(g, v, k, n)
  <2>1. ASSUME NEW i \in k .. n PROVE i \in 0 .. n
    OBVIOUS
  <2>2. ASSUME NEW i \in k + 1 .. n PROVE i \in 1 .. n /\ i # k
    OBVIOUS
  <2> QED BY <2>1, <2>2, <1>1, <1>h, <1>g DEF Reading
<1> QED BY <1>0, <1>6, <1>7, Apart

\* xTP_ECC_Decode finds one wrong byte of the payload and puts it right, whatever
\* the payload, up to 255 bytes, the place and the error.
THEOREM OneWrongByte ==
  \A data \in Seq(Byte) : \A ecc : \A k \in 1 .. Len(data), e \in Byte \ {0} :
      Len(data) <= Period /\ EccOf(data, ecc) => Repairs(Wrong(data, k, e), ecc) = {data}
<1> USE PeriodNat
<1>a. SUFFICES ASSUME NEW data \in Seq(Byte), NEW ecc, NEW k \in 1 .. Len(data),
                      NEW e \in Byte \ {0}, Len(data) <= Period, EccOf(data, ecc)
               PROVE  Repairs(Wrong(data, k, e), ecc) = {data}
  OBVIOUS
<1> DEFINE n == Len(data)
           bad == Wrong(data, k, e)
<1>0. n \in 1 .. Period /\ k \in 1 .. n /\ e \in Byte /\ e # 0 /\ data[k] \in Byte
  <2>1. n \in Nat /\ data[k] \in Byte /\ n <= Period /\ k \in 1 .. n  BY <1>a
  <2>2. e \in Byte  BY DEF Byte
  <2> HIDE DEF n
  <2> QED BY <2>1, <2>2
<1>1. /\ bad \in Seq(Byte) /\ Len(bad) = n /\ bad # <<>> /\ DOMAIN bad = 1 .. n
      /\ bad[k] = Xor(data[k], e) /\ \A i \in 1 .. n : i # k => bad[i] = data[i]
  <2>1. Xor(data[k], e) \in Byte  BY <1>0, XorGroup
  <2> QED BY <1>0, <2>1 DEF Wrong
<1> HIDE DEF bad
<1>2. PICK o : Turning(o, e, Period)  BY <1>0, TurningExists
<1>3. PICK h : Run(h, bad, n) /\ Encode(bad) = h[n]  BY <1>1, Checking DEF Checked
<1>4. PICK g : Run(g, data, n) /\ Encode(data) = g[n]  BY Checking DEF Checked
<1>5. \A i \in 1 .. n : data[i] \in Byte  OBVIOUS
<1> HIDE DEF n
<1>6. PICK m \in 1 .. Period : m = n - k + 1
  BY <1>0
<1>7. Xor(h[n][1], g[n][1]) = e /\ Xor(h[n][2], g[n][2]) = o[m]
  BY <1>6, <1>0, <1>1, <1>2, <1>3, <1>4, <1>5, Syndromes
<1> DEFINE scc0 == Xor(Encode(bad)[1], ecc[1])
           scc1 == Xor(Encode(bad)[2], ecc[2])
<1>8. scc0 = e /\ scc1 = o[m] /\ scc0 # 0
  <2>1. e # 0  BY <1>0
  <2> QED BY <1>a, <1>3, <1>4, <1>7, <2>1 DEF EccOf
<1>9. /\ o[m] # 0
      /\ \A len \in Nat : Place(len, e, o[m]) = len + 1 - m
  BY <1>0, <1>2, Located
<1>10. Place(Len(bad), scc0, scc1) = k
  <2>1. Place(n, e, o[m]) = n + 1 - m  BY <1>0, <1>9
  <2>2. n + 1 - m = k  BY <1>0, <1>6
  <2> QED BY <2>1, <2>2, <1>1, <1>8
<1>11. scc1 # 0
  BY <1>8, <1>9
<1>12. Repairs(bad, ecc)
         = {[bad EXCEPT ![i] = Xor(@, scc0)] :
              i \in DOMAIN bad \cap {Place(Len(bad), scc0, scc1)}}
  <2>1. ~(bad = <<>> \/ (scc0 = 0) # (scc1 = 0))  BY <1>1, <1>8, <1>11
  <2> QED BY <1>8, <2>1 DEF Repairs
<1> HIDE DEF scc0, scc1
<1>13. DOMAIN bad \cap {Place(Len(bad), scc0, scc1)} = {k}
  BY <1>0, <1>1, <1>10
<1>14. Repairs(bad, ecc) = {Wrong(bad, k, e)}
  BY <1>8, <1>12, <1>13 DEF Wrong
<1>15. Wrong(bad, k, e) = data
  <2>1. Xor(Xor(data[k], e), e) = data[k]  BY <1>0, XorCancels
  <2>2. Wrong(bad, k, e) = [i \in 1 .. n |-> IF i = k THEN data[k] ELSE data[i]]
    BY <1>1, <2>1 DEF Wrong
  <2>3. data = [i \in 1 .. n |-> data[i]]  BY DEF n
  <2> QED BY <2>2, <2>3
<1> QED BY <1>14, <1>15 DEF bad

----------------------------------------------------------------------------
(* A missing byte *)

\* What the syndromes say of a payload without its first byte.
LEMMA ShiftedSyndromes ==
  ASSUME NEW n \in 2 .. Period, NEW e \in Byte, NEW o, Turning(o, e, Period),
         NEW v, NEW w, NEW h, NEW g, Run(h, v, n), Run(g, w, n - 1),
         \A i \in 1 .. n : v[i] \in Byte, v[1] = e,
         \A i \in 1 .. n - 1 : w[i] = v[i + 1]
  PROVE  Xor(h[n][1], g[n - 1][1]) = e /\ Xor(h[n][2], g[n - 1][2]) = o[n]
<1> USE PeriodNat
<1> DEFINE f == [i \in 1 .. n |-> g[i - 1]]
<1>1. f[n] = g[n - 1] /\ f[1] = g[0]  OBVIOUS
<1>2. Reading(h, v, 1, n)
  <2>1. ASSUME NEW i \in 1 .. n PROVE i \in 0 .. n
    OBVIOUS
  <2>2. ASSUME NEW i \in 1 + 1 .. n PROVE i \in 1 .. n
    OBVIOUS
  <2>3. Run(h, v, n) /\ \A i \in 1 .. n : v[i] \in Byte
    OBVIOUS
  <2> QED BY <2>1, <2>2, <2>3 DEF Reading, Run
<1>3. Reading(f, v, 1, n)
  <2>1. \A i \in 0 .. n - 1 : g[i][1] \in Byte /\ g[i][2] \in Byte
    BY DEF Run
  <2>2. \A i \in 1 .. n - 1 : /\ g[i][1] = Xor(g[i - 1][1], w[i])
                              /\ g[i][2] = lf_sr[Xor(g[i - 1][2], w[i])]
    BY DEF Run
  <2>3. ASSUME NEW i \in 1 .. n PROVE f[i][1] \in Byte /\ f[i][2] \in Byte
    <3>1. i - 1 \in 0 .. n - 1 /\ f[i] = g[i - 1]  OBVIOUS
    <3> HIDE DEF f
    <3> QED BY <3>1, <2>1
  <2>4. ASSUME NEW i \in 1 + 1 .. n
        PROVE  /\ v[i] \in Byte
               /\ f[i][1] = Xor(f[i - 1][1], v[i])
               /\ f[i][2] = lf_sr[Xor(f[i - 1][2], v[i])]
    <3>1. i - 1 \in 1 .. n - 1 /\ f[i] = g[i - 1] /\ f[i - 1] = g[(i - 1) - 1]
          /\ i \in 1 .. n /\ (i - 1) + 1 = i
      OBVIOUS
    <3>2. w[i - 1] = v[i] /\ v[i] \in Byte  BY <3>1
    <3> HIDE DEF f
    <3> QED BY <3>1, <3>2, <2>2
  <2> HIDE DEF f
  <2> QED BY <2>3, <2>4 DEF Reading
<1>4. Xor(h[1][1], f[1][1]) = e /\ Xor(h[1][2], f[1][2]) = lf_sr[e]
  <2>1. g[0][1] = 0 /\ g[0][2] = 0
    BY DEF Run
  <2>2. h[1][1] = Xor(0, e) /\ h[1][2] = lf_sr[Xor(0, e)]
    <3>1. h[0][1] = 0 /\ h[0][2] = 0  BY DEF Run
    <3>2. \A i \in 1 .. n : /\ h[i][1] = Xor(h[i - 1][1], v[i])
                            /\ h[i][2] = lf_sr[Xor(h[i - 1][2], v[i])]
      BY DEF Run
    <3>3. 1 \in 1 .. n /\ 1 - 1 = 0 /\ v[1] = e  OBVIOUS
    <3> QED BY <3>1, <3>2, <3>3
  <2>3. Xor(0, e) = e /\ Xor(e, 0) = e /\ lf_sr[e] \in Byte
    BY XorCancels, XorGroup, Lfsr
  <2>4. Xor(lf_sr[e], 0) = lf_sr[e]
    BY <2>3, XorGroup
  <2> HIDE DEF f
  <2> QED BY <1>1, <2>1, <2>2, <2>3, <2>4
<1> HIDE DEF f
<1>5. 1 \in 1 .. n /\ n \in 1 .. Period /\ n = n - 1 + 1  OBVIOUS
<1>6. Xor(h[n][1], f[n][1]) = e /\ Xor(h[n][2], f[n][2]) = o[n]
  BY <1>2, <1>3, <1>4, <1>5, Apart
<1> QED BY <1>1, <1>6

\* A payload that lost its first byte is not taken by xTP_ECC_Decode for one with
\* at most one wrong byte, unless the lost byte was a 0 and others are left.
THEOREM TailFails ==
  \A data \in Seq(Byte) : \A ecc :
      /\ data # <<>> /\ Len(data) <= Period /\ EccOf(data, ecc)
      /\ Len(data) = 1 \/ data[1] # 0
      => Repairs(Tail(data), ecc) = {}
<1> USE PeriodNat
<1>a. SUFFICES ASSUME NEW data \in Seq(Byte), NEW ecc, data # <<>>, Len(data) <= Period,
                      EccOf(data, ecc), Len(data) = 1 \/ data[1] # 0
               PROVE  Repairs(Tail(data), ecc) = {}
  OBVIOUS
<1> DEFINE n == Len(data)
           rest == Tail(data)
           e == data[1]
<1>1. n \in 1 .. Period /\ rest \in Seq(Byte) /\ Len(rest) = n - 1 /\ e \in Byte
      /\ \A i \in 1 .. n - 1 : rest[i] = data[i + 1]
  BY <1>a
<1>2. CASE n = 1
  <2>1. rest = <<>>
    <3>1. rest \in Seq(Byte) /\ Len(rest) = 0
      <4> HIDE DEF rest
      <4> QED BY <1>1, <1>2
    <3> HIDE DEF rest
    <3> QED BY <3>1
  <2> QED BY <2>1 DEF Repairs
<1>3. CASE n # 1
  <2>1. n \in 2 .. Period /\ e # 0
    <3>1. e # 0  BY <1>a, <1>3
    <3> HIDE DEF n
    <3> QED BY <1>1, <1>3, <3>1
  <2>2. PICK o : Turning(o, e, Period)
    BY <1>1, TurningExists
  <2>3. PICK h : Run(h, data, n) /\ Encode(data) = h[n]  BY Checking DEF Checked
  <2>4. PICK g : Run(g, rest, n - 1) /\ Encode(rest) = g[n - 1]
    BY <1>1, Checking DEF Checked
  <2>5. \A i \in 1 .. n : data[i] \in Byte  OBVIOUS
  <2>d. DOMAIN rest = 1 .. n - 1  BY <1>1
  <2>e. data[1] = e  OBVIOUS
  <2> HIDE DEF n, rest, e
  <2>6. Xor(h[n][1], g[n - 1][1]) = e /\ Xor(h[n][2], g[n - 1][2]) = o[n]
    BY <1>1, <2>1, <2>2, <2>3, <2>4, <2>5, <2>e, ShiftedSyndromes
  <2>7. /\ g[n - 1][1] \in Byte /\ g[n - 1][2] \in Byte
        /\ h[n][1] \in Byte /\ h[n][2] \in Byte
    <3>1. n - 1 \in 0 .. n - 1 /\ n \in 0 .. n  BY <1>1
    <3> QED BY <3>1, <2>3, <2>4 DEF Run
  <2> DEFINE scc0 == Xor(Encode(rest)[1], ecc[1])
             scc1 == Xor(Encode(rest)[2], ecc[2])
  <2>8. scc0 = e /\ scc1 = o[n]
    <3>1. ecc[1] = h[n][1] /\ ecc[2] = h[n][2]  BY <1>a, <2>3 DEF EccOf
    <3> QED BY <3>1, <2>4, <2>6, <2>7, XorGroup
  <2> HIDE DEF scc0, scc1
  <2>9. Place(n - 1, e, o[n]) = 0
    <3>1. n \in 1 .. Period /\ n - 1 \in Nat /\ e \in Byte \ {0}  BY <1>1, <2>1
    <3>2. Place(n - 1, e, o[n]) = (n - 1) + 1 - n  BY <3>1, <2>2, Located
    <3> QED BY <3>1, <3>2
  <2>10. DOMAIN rest \cap {Place(Len(rest), scc0, scc1)} = {}
    BY <1>1, <2>1, <2>8, <2>9, <2>d
  <2> QED
    <3>1. scc0 # 0  BY <2>1, <2>8
    <3>2. Repairs(rest, ecc) \subseteq {[rest EXCEPT ![i] = Xor(@, scc0)] :
             i \in DOMAIN rest \cap {Place(Len(rest), scc0, scc1)}}
      BY <3>1 DEF Repairs, scc0, scc1
    <3> QED BY <3>2, <2>10 DEF rest
<1> QED BY <1>2, <1>3

----------------------------------------------------------------------------
(* Bytes and words *)

\* Bytes and words, as inequalities.
LEMMA Ranges ==
  /\ \A x : x \in Byte <=> x \in Int /\ 0 <= x /\ x < 256
  /\ \A x : x \in Word <=> x \in Int /\ 0 <= x /\ x < 65536
<1>1. \A x : x \in Byte <=> x \in Int /\ 0 <= x /\ x < 256  BY DEF Byte
<1>2. \A x : x \in Word <=> x \in Int /\ 0 <= x /\ x < 65536
  <2>1. PICK n \in Nat : n = 65535  OBVIOUS
  <2>2. Word = 0 .. n  BY <2>1 DEF Word
  <2>3. \A x : x \in 0 .. n <=> x \in Int /\ 0 <= x /\ x <= n  OBVIOUS
  <2>4. \A x \in Int : x <= n <=> x < 65536  BY <2>1
  <2>5. ASSUME NEW x PROVE x \in Word <=> x \in Int /\ 0 <= x /\ x < 65536
    <3>1. x \in Word <=> x \in Int /\ 0 <= x /\ x <= n  BY <2>2, <2>3
    <3>2. CASE x \in Int  BY <3>1, <3>2, <2>4
    <3>3. CASE x \notin Int  BY <3>1, <3>3
    <3> QED BY <3>2, <3>3
  <2> QED BY <2>5
<1> QED BY <1>1, <1>2

\* A word is made of its high and its low byte.
Paired(a, b) == 256 * a + b

\* Two bytes make a word,
LEMMA PairedWord ==
  ASSUME NEW a \in Byte, NEW b \in Byte
  PROVE  /\ Paired(a, b) \in Word
         /\ Paired(a, b) \div 256 = a /\ Paired(a, b) % 256 = b
         /\ (256 * Paired(a, b)) % 65536 = Paired(b, 0)
<1>1. /\ Paired(a, b) \in Word
      /\ Paired(a, b) \div 256 = a /\ Paired(a, b) % 256 = b
  BY Ranges DEF Paired
<1>2. 256 * Paired(a, b) = 65536 * a + 256 * b /\ 0 <= 256 * b /\ 256 * b < 65536
      /\ a \in Int /\ 256 * b \in Int
  BY Ranges DEF Paired
<1>3. \A x, y \in Int : 0 <= y /\ y < 65536 => (65536 * x + y) % 65536 = y
  OBVIOUS
<1>4. (256 * Paired(a, b)) % 65536 = 256 * b
  BY <1>2, <1>3
<1>5. Paired(b, 0) = 256 * b  BY Ranges DEF Paired
<1> QED BY <1>1, <1>4, <1>5

\* every word is made of two
LEMMA WordPaired ==
  ASSUME NEW w \in Word
  PROVE  /\ w \div 256 \in Byte /\ w % 256 \in Byte
         /\ w = Paired(w \div 256, w % 256)
BY Ranges DEF Paired

\* and is known by them.
LEMMA PairedSame ==
  ASSUME NEW a \in Byte, NEW b \in Byte, NEW c \in Byte, NEW d \in Byte,
         Paired(a, b) = Paired(c, d)
  PROVE  a = c /\ b = d
<1>1. Paired(a, b) \div 256 = a /\ Paired(a, b) % 256 = b  BY PairedWord
<1>2. Paired(c, d) \div 256 = c /\ Paired(c, d) % 256 = d  BY PairedWord
<1> QED BY <1>1, <1>2

\* One byte more, seen from the two bytes of the CRC.
LEMMA CrcUpdated ==
  ASSUME NEW hi \in Byte, NEW lo \in Byte, NEW b \in Byte
  PROVE  /\ CrcTable[Xor(hi, b)] \in Word
         /\ CrcUpdate(Paired(hi, lo), b) =
              Paired(Xor(lo, CrcTable[Xor(hi, b)] \div 256), CrcTable[Xor(hi, b)] % 256)
<1> DEFINE t == CrcTable[Xor(hi, b)]
<1>1. t \in Word
  BY XorGroup, CrcTableApart
<1>2. /\ (256 * Paired(hi, lo)) % 65536 = Paired(lo, 0) /\ Paired(hi, lo) \div 256 = hi
      /\ 0 \in Byte
  <2>1. 0 \in Byte  BY Ranges
  <2> QED BY <2>1, PairedWord
<1>3. CrcUpdate(Paired(hi, lo), b) = Xor16(Paired(lo, 0), t)
  BY <1>2 DEF CrcUpdate
<1> HIDE DEF t
<1>4. t \div 256 \in Byte /\ t % 256 \in Byte
  BY <1>1, WordPaired
<1>5. Paired(lo, 0) \div 256 = lo /\ Paired(lo, 0) % 256 = 0
  BY <1>2, PairedWord
<1>6. Xor(0, t % 256) = t % 256
  BY <1>4, XorCancels
<1>7. Xor16(Paired(lo, 0), t) = Paired(Xor(lo, t \div 256), t % 256)
  BY <1>5, <1>6 DEF Xor16, Paired
<1> QED BY <1>1, <1>3, <1>7 DEF t

\* The CRC after a byte is a word, and tells two CRCs before it apart, or two
\* bytes.
LEMMA CrcUpdateWord ==
  \A c \in Word, b \in Byte : CrcUpdate(c, b) \in Word
<1> TAKE c \in Word, b \in Byte
<1>1. PICK hi \in Byte, lo \in Byte : c = Paired(hi, lo)
  BY WordPaired
<1> DEFINE t == CrcTable[Xor(hi, b)]
<1>2. t \in Word /\ CrcUpdate(c, b) = Paired(Xor(lo, t \div 256), t % 256)
  BY <1>1, CrcUpdated
<1> HIDE DEF t
<1>3. t \div 256 \in Byte /\ t % 256 \in Byte  BY <1>2, WordPaired
<1>4. Xor(lo, t \div 256) \in Byte  BY <1>3, XorGroup
<1> QED BY <1>2, <1>3, <1>4, PairedWord

\* The CRC after a byte tells two CRCs before it apart, or two bytes.
LEMMA CrcTellsApart ==
  ASSUME NEW c \in Word, NEW d \in Word, NEW a \in Byte, NEW b \in Byte,
         CrcUpdate(c, a) = CrcUpdate(d, b), c = d \/ a = b
  PROVE  c = d /\ a = b
<1>1. PICK hi \in Byte, lo \in Byte : c = Paired(hi, lo)
  BY WordPaired
<1>2. PICK hj \in Byte, lp \in Byte : d = Paired(hj, lp)
  BY WordPaired
<1> DEFINE t == CrcTable[Xor(hi, a)]
           u == CrcTable[Xor(hj, b)]
<1>3. t \in Word /\ CrcUpdate(c, a) = Paired(Xor(lo, t \div 256), t % 256)
  BY <1>1, CrcUpdated
<1>4. u \in Word /\ CrcUpdate(d, b) = Paired(Xor(lp, u \div 256), u % 256)
  BY <1>2, CrcUpdated
<1>x. Xor(hi, a) \in Byte /\ Xor(hj, b) \in Byte
  BY XorGroup
<1>5. t % 256 = u % 256 /\ Xor(lo, t \div 256) = Xor(lp, u \div 256)
  <2> HIDE DEF t, u
  <2>1. /\ t \div 256 \in Byte /\ t % 256 \in Byte
        /\ u \div 256 \in Byte /\ u % 256 \in Byte
    BY <1>3, <1>4, WordPaired
  <2>2. Xor(lo, t \div 256) \in Byte /\ Xor(lp, u \div 256) \in Byte
    BY <2>1, XorGroup
  <2>3. Paired(Xor(lo, t \div 256), t % 256) = Paired(Xor(lp, u \div 256), u % 256)
    BY <1>3, <1>4
  <2> QED BY <2>1, <2>2, <2>3, PairedWord
<1>6. Xor(hi, a) = Xor(hj, b)
  BY <1>5, <1>x, CrcTableApart
<1>7. hi = hj /\ a = b
  <2>1. c = d => hi = hj  BY <1>1, <1>2, PairedSame
  <2>2. CASE hi = hj
    <3>1. Xor(Xor(hi, a), hi) = a /\ Xor(Xor(hj, b), hj) = b  BY XorCancels
    <3> QED BY <2>2, <3>1, <1>6
  <2>3. CASE a = b
    <3>1. Xor(Xor(hi, a), a) = hi /\ Xor(Xor(hj, b), b) = hj  BY XorCancels
    <3> QED BY <2>3, <3>1, <1>6
  <2> QED BY <2>1, <2>2, <2>3
<1>8. t = u  BY <1>6
<1> HIDE DEF t, u
<1>9. lo = lp
  <2>1. t \div 256 \in Byte  BY <1>3, WordPaired
  <2>2. Xor(lo, t \div 256) = Xor(lp, t \div 256)  BY <1>5, <1>8
  <2>3. Xor(Xor(lo, t \div 256), t \div 256) = lo /\ Xor(Xor(lp, t \div 256), t \div 256) = lp
    BY <2>1, XorCancels
  <2> QED BY <2>2, <2>3
<1> QED BY <1>1, <1>2, <1>7, <1>9

----------------------------------------------------------------------------
(* The CRC of some bytes *)

\* The CRC after each byte of R from the place a + 1 on.
CrcRun(h, R, a, n) ==
  /\ h[a] = 0 /\ \A i \in a .. n : h[i] \in Word
  /\ \A i \in a + 1 .. n : R[i] \in Byte /\ h[i] = CrcUpdate(h[i - 1], R[i])

CrcStep(bytes, h, i) == IF i = 0 THEN 0 ELSE CrcUpdate(h[i - 1], bytes[i])
CrcSteps(bytes) == CHOOSE h : h = [i \in 0 .. Len(bytes) |-> CrcStep(bytes, h, i)]

\* The CRC of XtpCodes is made of such steps.
LEMMA CrcRunning ==
  ASSUME NEW bytes \in Seq(Byte)
  PROVE  \E h : CrcRun(h, bytes, 0, Len(bytes)) /\ CrcOf(bytes) = h[Len(bytes)]
<1> DEFINE n == Len(bytes)
           next(i, c) == CrcUpdate(c, bytes[i])
           g == [i \in Nat |-> [c \in Word |-> IF i \in 1 .. n THEN next(i, c) ELSE c]]
<1>0. n \in Nat /\ \A i \in 1 .. n : bytes[i] \in Byte
  OBVIOUS
<1>1. 0 \in Word /\ g \in StepFunctions(Word)
  <2>1. 0 \in Word  BY Ranges
  <2>2. ASSUME NEW i \in 1 .. n, NEW c \in Word PROVE next(i, c) \in Word
    BY <1>0, CrcUpdateWord
  <2> HIDE DEF next, n
  <2> QED BY <2>1, <2>2 DEF StepFunctions
<1>2. PICK r : Steps(r, Word, 0, g, n)
  <2> HIDE DEF g, n
  <2> QED BY <1>0, <1>1, StepByStep
<1>3. /\ r \in [0 .. n -> Word] /\ r[0] = 0
      /\ \A i \in 1 .. n : r[i] = g[i][r[i - 1]]
  <2> HIDE DEF g, n
  <2> QED BY <1>2 DEF Steps
<1>4. ASSUME NEW i \in 1 .. n PROVE r[i] = next(i, r[i - 1])
  <2>1. i \in Nat /\ i - 1 \in 0 .. n /\ r[i - 1] \in Word /\ r[i] = g[i][r[i - 1]]
    <3> HIDE DEF g
    <3> QED BY <1>0, <1>3
  <2> HIDE DEF next, n
  <2>2. g[i] = [c \in Word |-> IF i \in 1 .. n THEN next(i, c) ELSE c]
    BY <2>1
  <2> HIDE DEF g
  <2> QED BY <2>1, <2>2
<1> HIDE DEF g
<1>5. ASSUME NEW i \in 0 .. n PROVE r[i] = CrcStep(bytes, r, i)
  <2>1. CASE i = 0  BY <2>1, <1>3 DEF CrcStep
  <2>2. CASE i \in 1 .. n
    <3>1. i # 0  BY <2>2
    <3> QED BY <2>2, <3>1, <1>4 DEF CrcStep
  <2> QED BY <2>1, <2>2
<1> DEFINE D(h) == h = [i \in 0 .. Len(bytes) |-> CrcStep(bytes, h, i)]
<1>6. D(r)
  <2> HIDE DEF next
  <2>1. r = [i \in 0 .. n |-> r[i]]  BY <1>3
  <2> QED BY <2>1, <1>5
<1>7. D(CrcSteps(bytes))
  <2>1. CrcSteps(bytes) = CHOOSE h : D(h)  BY DEF CrcSteps
  <2> HIDE DEF D
  <2> QED BY <1>6, <2>1, Zenon
<1> DEFINE h == CrcSteps(bytes)
<1>8. \A i \in 0 .. n : h[i] = CrcStep(bytes, h, i)
  <2> HIDE DEF h
  <2> QED BY <1>7 DEF h
<1>9. CrcOf(bytes) = h[n]
  BY DEF CrcOf, CrcSteps, CrcStep
<1> HIDE DEF h, D
<1>10. h[0] = 0 /\ \A i \in 1 .. n : h[i] = CrcUpdate(h[i - 1], bytes[i])
  <2>1. h[0] = 0
    <3>1. 0 \in 0 .. n  BY <1>0
    <3>2. h[0] = CrcStep(bytes, h, 0)  BY <3>1, <1>8
    <3> QED BY <3>2 DEF CrcStep
  <2>2. ASSUME NEW i \in 1 .. n PROVE h[i] = CrcUpdate(h[i - 1], bytes[i])
    <3>1. i \in 0 .. n /\ i # 0  BY <1>0
    <3>2. h[i] = CrcStep(bytes, h, i)  BY <3>1, <1>8
    <3> QED BY <3>1, <3>2 DEF CrcStep
  <2> QED BY <2>1, <2>2
<1>11. \A i \in 0 .. n : h[i] \in Word
  <2> DEFINE T == {i \in 0 .. n : h[i] \in Word}
  <2>1. 0 \in T  BY <1>0, <1>1, <1>10
  <2>2. ASSUME NEW i \in 0 .. n - 1, i \in T PROVE i + 1 \in T
    <3>1. i + 1 \in 1 .. n /\ (i + 1) - 1 = i /\ i + 1 \in 0 .. n  BY <1>0
    <3>2. h[i] \in Word /\ bytes[i + 1] \in Byte
      BY <1>0, <2>2, <3>1
    <3> QED BY <3>1, <3>2, <1>10, CrcUpdateWord
  <2> HIDE DEF T
  <2>3. 0 .. n \subseteq T  BY <1>0, <2>1, <2>2, Upwards
  <2> QED BY <2>3 DEF T
<1> HIDE DEF n
<1>12. CrcRun(h, bytes, 0, n)
  <2>1. 0 + 1 = 1  OBVIOUS
  <2> QED BY <2>1, <1>0, <1>10, <1>11 DEF CrcRun
<1> QED BY <1>9, <1>12 DEF n

\* The same bytes have the same CRC.
Alike(R, a, S, b, n) == \A i \in 1 .. n : R[a + i] = S[b + i]

\* The same bytes have the same CRC.
LEMMA SameCrc ==
  ASSUME NEW a \in Nat, NEW b \in Nat, NEW n \in Nat, NEW u, u = a + n, NEW v, v = b + n,
         NEW h, NEW g, NEW R, NEW S,
         CrcRun(h, R, a, u), CrcRun(g, S, b, v), Alike(R, a, S, b, n)
  PROVE  h[u] = g[v]
<1> DEFINE T == {i \in 0 .. n : h[a + i] = g[b + i]}
<1>1. 0 \in T
  <2>1. h[a] = 0 /\ g[b] = 0  BY DEF CrcRun
  <2> QED BY <2>1
<1>2. ASSUME NEW i \in 0 .. n - 1, i \in T PROVE i + 1 \in T
  <2>1. /\ a + (i + 1) \in a + 1 .. a + n /\ (a + (i + 1)) - 1 = a + i
        /\ b + (i + 1) \in b + 1 .. b + n /\ (b + (i + 1)) - 1 = b + i
        /\ i + 1 \in 1 .. n /\ i + 1 \in 0 .. n
    OBVIOUS
  <2>2. h[a + (i + 1)] = CrcUpdate(h[a + i], R[a + (i + 1)])
    BY <2>1 DEF CrcRun
  <2>3. g[b + (i + 1)] = CrcUpdate(g[b + i], S[b + (i + 1)])
    BY <2>1 DEF CrcRun
  <2>4. R[a + (i + 1)] = S[b + (i + 1)]  BY <2>1 DEF Alike
  <2> QED BY <1>2, <2>1, <2>2, <2>3, <2>4
<1> HIDE DEF T
<1>3. 0 .. n \subseteq T  BY <1>1, <1>2, Upwards
<1>4. n \in 0 .. n  OBVIOUS
<1> QED BY <1>3, <1>4 DEF T

\* One wrong byte changes the CRC of any number of bytes (xTP_CRC_Update).
THEOREM OtherCrc ==
  ASSUME NEW a \in Nat, NEW n \in Nat, NEW k \in a + 1 .. n, NEW h, NEW g, NEW R, NEW S,
         CrcRun(h, R, a, n), CrcRun(g, S, a, n), R[k] # S[k],
         \A i \in a + 1 .. n : i # k => R[i] = S[i]
  PROVE  h[n] # g[n]
<1>h. /\ h[a] = 0 /\ \A i \in a .. n : h[i] \in Word
      /\ \A i \in a + 1 .. n : R[i] \in Byte /\ h[i] = CrcUpdate(h[i - 1], R[i])
  BY DEF CrcRun
<1>g. /\ g[a] = 0 /\ \A i \in a .. n : g[i] \in Word
      /\ \A i \in a + 1 .. n : S[i] \in Byte /\ g[i] = CrcUpdate(g[i - 1], S[i])
  BY DEF CrcRun
<1>s. R[k] # S[k] /\ \A i \in a + 1 .. n : i # k => R[i] = S[i]
  OBVIOUS
<1>1. h[k - 1] = g[k - 1]
  <2> DEFINE T == {i \in a .. k - 1 : h[i] = g[i]}
  <2>1. a \in T  BY <1>h, <1>g
  <2>2. ASSUME NEW i \in a .. (k - 1) - 1, i \in T PROVE i + 1 \in T
    <3>1. i + 1 \in a + 1 .. n /\ i + 1 # k /\ (i + 1) - 1 = i /\ i + 1 \in a .. k - 1
      OBVIOUS
    <3> QED BY <2>2, <3>1, <1>h, <1>g, <1>s
  <2> HIDE DEF T
  <2>3. k - 1 \in Nat /\ k - 1 \in a .. k - 1  OBVIOUS
  <2>4. a .. k - 1 \subseteq T  BY <2>1, <2>2, <2>3, Upwards
  <2> QED BY <2>3, <2>4 DEF T
<1>2. h[k] # g[k]
  <2>1. k - 1 \in a .. n /\ k \in a + 1 .. n  OBVIOUS
  <2>2. /\ h[k] = CrcUpdate(h[k - 1], R[k]) /\ g[k] = CrcUpdate(g[k - 1], S[k])
        /\ h[k - 1] \in Word /\ R[k] \in Byte /\ S[k] \in Byte
    BY <2>1, <1>h, <1>g
  <2> QED BY <1>1, <1>s, <2>2, CrcTellsApart
<1> DEFINE T == {i \in k .. n : h[i] # g[i]}
<1>3. k \in T  BY <1>2
<1>4. ASSUME NEW i \in k .. n - 1, i \in T PROVE i + 1 \in T
  <2>1. i + 1 \in a + 1 .. n /\ i + 1 # k /\ (i + 1) - 1 = i /\ i + 1 \in k .. n /\ i \in a .. n
    OBVIOUS
  <2>2. /\ h[i + 1] = CrcUpdate(h[i], R[i + 1]) /\ g[i + 1] = CrcUpdate(g[i], S[i + 1])
        /\ h[i] \in Word /\ g[i] \in Word /\ R[i + 1] \in Byte /\ S[i + 1] \in Byte
        /\ R[i + 1] = S[i + 1] /\ h[i] # g[i]
    BY <1>4, <2>1, <1>h, <1>g, <1>s
  <2>3. h[i + 1] # g[i + 1]
    BY <2>2, CrcTellsApart
  <2> QED BY <2>1, <2>3
<1> HIDE DEF T
<1>5. k \in Nat /\ n \in k .. n  OBVIOUS
<1>6. k .. n \subseteq T  BY <1>3, <1>4, <1>5, Upwards
<1> QED BY <1>5, <1>6 DEF T

=============================================================================
