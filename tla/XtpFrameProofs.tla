--------------------------- MODULE XtpFrameProofs ---------------------------
(***************************************************************************)
(* Theorems about XtpFrame, for any messages, error patterns and number of *)
(* faults.  The invariant says what the decoder has been given: Reads      *)
(* relates each of its fields to the bytes it has read, Faithful these     *)
(* bytes to the frame that is on the line.  A byte is then taken, the      *)
(* frame dropped or handed over (ReadStep), and the theorems of            *)
(* XtpCodesProofs tell which.                                              *)
(***************************************************************************)
EXTENDS XtpFrame, XtpCodesProofs, FiniteSetTheorems

----------------------------------------------------------------------------
(* The bytes of a frame *)

\* One sequence and another behind it.
Joins(q, s, m, t, n) ==
  /\ Len(q) = m + n
  /\ \A i \in 1 .. m : q[i] = s[i]
  /\ \A i \in 1 .. n : q[m + i] = t[i]

\* Concatenation, as the frame is put together.
LEMMA Joining ==
  ASSUME NEW S, NEW s \in Seq(S), NEW t \in Seq(S)
  PROVE  s \o t \in Seq(S) /\ Joins(s \o t, s, Len(s), t, Len(t))
<1>1. s \o t \in Seq(S) OBVIOUS
<1>2. /\ Len(s \o t) = Len(s) + Len(t)
      /\ \A i \in 1 .. Len(s) : (s \o t)[i] = s[i]
      /\ \A i \in 1 .. Len(t) : (s \o t)[Len(s) + i] = t[i]
  OBVIOUS
<1> QED BY <1>1, <1>2 DEF Joins

\* A message that can be put on the line.
Sendable(m) ==
  /\ m.id \in Word /\ m.seq \in Byte /\ m.data \in Seq(Byte) /\ Len(m.data) \in Byte

CoveredIs(c, m, n) ==
  /\ c \in Seq(Byte) /\ Len(c) = n + 7 /\ n \in Byte
  /\ c[1] = TM /\ c[2] = m.id % 256 /\ c[3] = m.id \div 256 /\ c[4] = m.seq /\ c[5] = n
  /\ \A i \in 1 .. n : c[5 + i] = m.data[i] /\ m.data[i] \in Byte
  /\ c[6 + n] = Encode(m.data)[1] /\ c[7 + n] = Encode(m.data)[2]

\* The bytes the CRC is taken over, each at its place.
LEMMA CoveredBytes ==
  ASSUME NEW m, Sendable(m), NEW n, n = Len(m.data), NEW c, c = Covered(m)
  PROVE  CoveredIs(c, m, n)
<1> DEFINE p == <<TM, m.id % 256, m.id \div 256, m.seq, Len(m.data)>>
           e == Encode(m.data)
<1>1. p \in Seq(Byte) /\ Len(p) = 5 /\ p[1] = TM /\ p[2] = m.id % 256 /\ p[3] = m.id \div 256
      /\ p[4] = m.seq /\ p[5] = n
  <2>1. TM \in Byte  BY Ranges DEF TM
  <2>2. m.id % 256 \in Byte /\ m.id \div 256 \in Byte /\ m.seq \in Byte /\ Len(m.data) \in Byte
    BY WordPaired DEF Sendable
  <2> QED BY <2>1, <2>2
<1>2. e \in Seq(Byte) /\ Len(e) = 2 /\ e[1] = Encode(m.data)[1] /\ e[2] = Encode(m.data)[2]
  <2>1. m.data \in Seq(Byte)  BY DEF Sendable
  <2>2. e[1] \in Byte /\ e[2] \in Byte  BY <2>1, EncodeBytes
  <2>3. PICK h : Checked(h, m.data)  BY <2>1, Checking
  <2>4. e = <<e[1], e[2]>>  BY <2>3 DEF Checked
  <2> HIDE DEF e
  <2>5. PICK x \in Byte, y \in Byte : e = <<x, y>>  BY <2>2, <2>4
  <2> QED BY <2>5 DEF e
<1>3. m.data \in Seq(Byte) /\ n = Len(m.data) /\ n \in Byte /\ n \in Nat
  BY Ranges DEF Sendable
<1> DEFINE q == p \o m.data
<1>4. c = q \o e  BY DEF Covered
<1> HIDE DEF p, e
<1>5. /\ q \in Seq(Byte) /\ Len(q) = 5 + n
      /\ \A i \in 1 .. 5 : q[i] = p[i]
      /\ \A i \in 1 .. n : q[5 + i] = m.data[i]
  <2>1. q \in Seq(Byte) /\ Joins(q, p, Len(p), m.data, Len(m.data))
    BY <1>1, <1>3, Joining, Zenon
  <2> HIDE DEF q
  <2>2. Joins(q, p, 5, m.data, n)  BY <2>1, <1>1, <1>3
  <2> QED BY <2>1, <2>2 DEF Joins
<1> HIDE DEF q
<1>6. /\ c \in Seq(Byte) /\ Len(c) = 5 + n + 2
      /\ \A i \in 1 .. 5 + n : c[i] = q[i]
      /\ \A i \in 1 .. 2 : c[5 + n + i] = e[i]
  <2>1. c \in Seq(Byte) /\ Joins(c, q, Len(q), e, Len(e))
    BY <1>2, <1>4, <1>5, Joining, Zenon
  <2>2. Joins(c, q, 5 + n, e, 2)  BY <2>1, <1>2, <1>5
  <2> QED BY <2>1, <2>2 DEF Joins
<1>7. \A i \in 1 .. n : m.data[i] \in Byte  BY <1>3
<1>8. \A i \in 1 .. 5 : c[i] = p[i]
  <2> TAKE i \in 1 .. 5
  <2>1. i \in 1 .. 5 + n  BY <1>3
  <2> QED BY <2>1, <1>5, <1>6
<1>9. \A i \in 1 .. n : c[5 + i] = m.data[i]
  <2> TAKE i \in 1 .. n
  <2>1. 5 + i \in 1 .. 5 + n  BY <1>3
  <2> QED BY <2>1, <1>5, <1>6
<1>10. c[6 + n] = e[1] /\ c[7 + n] = e[2]
  <2>1. 5 + n + 1 = 6 + n /\ 5 + n + 2 = 7 + n /\ 1 \in 1 .. 2 /\ 2 \in 1 .. 2  BY <1>3
  <2> QED BY <2>1, <1>6
<1>11. Len(c) = n + 7  BY <1>3, <1>6
<1>12. c[1] = p[1] /\ c[2] = p[2] /\ c[3] = p[3] /\ c[4] = p[4] /\ c[5] = p[5]
  BY <1>8
<1> QED BY <1>1, <1>2, <1>3, <1>6, <1>7, <1>9, <1>10, <1>11, <1>12 DEF CoveredIs

\* The bytes of a frame, each at its place, F being FrameBytes(m) and n the
\* length of its payload.
Laid(F, m, n) ==
  /\ F[1] = START1 /\ F[2] = START2 /\ F[3] = TM
  /\ F[4] = m.id % 256 /\ F[5] = m.id \div 256 /\ F[6] = m.seq /\ F[7] = n
  /\ \A i \in 1 .. n : F[7 + i] = m.data[i]
  /\ F[8 + n] = Encode(m.data)[1] /\ F[9 + n] = Encode(m.data)[2]
  /\ F[12 + n] = STOP1 /\ F[13 + n] = STOP2

Summed(F, n, h) ==
  /\ CrcRun(h, F, 2, 9 + n)
  /\ F[10 + n] = h[9 + n] % 256 /\ F[11 + n] = h[9 + n] \div 256

Covers(F, m, n) == \A i \in 1 .. n + 7 : F[2 + i] = Covered(m)[i]

Framed(F, m, n) ==
  /\ F \in Seq(Byte) /\ Len(F) = 13 + n /\ n \in Byte
  /\ Laid(F, m, n) /\ Covers(F, m, n) /\ \E h : Summed(F, n, h)

\* The frame that xTP_SendEx puts on the line is laid out as the protocol says.
LEMMA Layout ==
  ASSUME NEW m, Sendable(m), NEW n, n = Len(m.data), NEW F, F = FrameBytes(m)
  PROVE  Framed(F, m, n)
<1> DEFINE c == Covered(m)
           crc == CrcOf(c)
           a == <<START1, START2>>
           t == <<crc % 256, crc \div 256, STOP1, STOP2>>
           q == a \o c
<1>1. /\ c \in Seq(Byte) /\ Len(c) = n + 7 /\ n \in Byte
      /\ c[1] = TM /\ c[2] = m.id % 256 /\ c[3] = m.id \div 256 /\ c[4] = m.seq /\ c[5] = n
      /\ \A i \in 1 .. n : c[5 + i] = m.data[i] /\ m.data[i] \in Byte
      /\ c[6 + n] = Encode(m.data)[1] /\ c[7 + n] = Encode(m.data)[2]
  <2>1. CoveredIs(c, m, n)  BY CoveredBytes
  <2> HIDE DEF c
  <2> QED BY <2>1 DEF CoveredIs
<1>2. F = q \o t  BY DEF FrameBytes
<1> HIDE DEF c
<1>n. n \in Nat  BY <1>1, Ranges
<1>3. PICK h : CrcRun(h, c, 0, n + 7) /\ crc = h[n + 7]
  BY <1>1, CrcRunning
<1>4. crc \in Word
  <2>1. n + 7 \in 0 .. n + 7  BY <1>n
  <2> HIDE DEF crc
  <2> QED BY <1>3, <2>1 DEF CrcRun
<1> HIDE DEF crc
<1>5. a \in Seq(Byte) /\ Len(a) = 2 /\ a[1] = START1 /\ a[2] = START2
  <2>1. START1 \in Byte /\ START2 \in Byte  BY Ranges DEF START1, START2
  <2> QED BY <2>1
<1>6. t \in Seq(Byte) /\ Len(t) = 4 /\ t[1] = crc % 256 /\ t[2] = crc \div 256
      /\ t[3] = STOP1 /\ t[4] = STOP2
  <2>1. STOP1 \in Byte /\ STOP2 \in Byte  BY Ranges DEF STOP1, STOP2
  <2>2. crc % 256 \in Byte /\ crc \div 256 \in Byte  BY <1>4, WordPaired
  <2> QED BY <2>1, <2>2
<1> HIDE DEF a, t
<1>7. /\ q \in Seq(Byte) /\ Len(q) = 2 + (n + 7)
      /\ \A i \in 1 .. 2 : q[i] = a[i]
      /\ \A i \in 1 .. n + 7 : q[2 + i] = c[i]
  <2>1. q \in Seq(Byte) /\ Joins(q, a, Len(a), c, Len(c))
    BY <1>1, <1>5, Joining, Zenon
  <2> HIDE DEF q
  <2>2. Joins(q, a, 2, c, n + 7)  BY <2>1, <1>1, <1>5
  <2> QED BY <2>1, <2>2 DEF Joins
<1> HIDE DEF q
<1>8. /\ F \in Seq(Byte) /\ Len(F) = 2 + (n + 7) + 4
      /\ \A i \in 1 .. 2 + (n + 7) : F[i] = q[i]
      /\ \A i \in 1 .. 4 : F[2 + (n + 7) + i] = t[i]
  <2>1. q \o t \in Seq(Byte) /\ Joins(q \o t, q, Len(q), t, Len(t))
    BY <1>6, <1>7, Joining, Zenon
  <2>2. F \in Seq(Byte) /\ Joins(F, q, 2 + (n + 7), t, 4)  BY <2>1, <1>2, <1>6, <1>7
  <2> QED BY <2>2 DEF Joins
<1>9. Len(F) = 13 + n  BY <1>8, <1>n
<1>10. F[1] = START1 /\ F[2] = START2
  <2>1. 1 \in 1 .. 2 + (n + 7) /\ 2 \in 1 .. 2 + (n + 7) /\ 1 \in 1 .. 2 /\ 2 \in 1 .. 2  BY <1>n
  <2> QED BY <2>1, <1>5, <1>7, <1>8
<1>11. \A i \in 1 .. n + 7 : F[2 + i] = c[i]
  <2> TAKE i \in 1 .. n + 7
  <2>1. 2 + i \in 1 .. 2 + (n + 7)  BY <1>n
  <2> QED BY <2>1, <1>7, <1>8
<1>12. F[10 + n] = crc % 256 /\ F[11 + n] = crc \div 256 /\ F[12 + n] = STOP1 /\ F[13 + n] = STOP2
  <2>1. /\ 10 + n = 2 + (n + 7) + 1 /\ 11 + n = 2 + (n + 7) + 2
        /\ 12 + n = 2 + (n + 7) + 3 /\ 13 + n = 2 + (n + 7) + 4
    BY <1>n
  <2>2. 1 \in 1 .. 4 /\ 2 \in 1 .. 4 /\ 3 \in 1 .. 4 /\ 4 \in 1 .. 4  OBVIOUS
  <2>3. /\ F[2 + (n + 7) + 1] = t[1] /\ F[2 + (n + 7) + 2] = t[2]
        /\ F[2 + (n + 7) + 3] = t[3] /\ F[2 + (n + 7) + 4] = t[4]
    BY <1>8, <2>2
  <2> QED BY <2>1, <2>3, <1>6
<1>13. Laid(F, m, n)
  <2>1. F[3] = c[1] /\ F[4] = c[2] /\ F[5] = c[3] /\ F[6] = c[4] /\ F[7] = c[5]
    <3>1. 2 + 1 = 3 /\ 2 + 2 = 4 /\ 2 + 3 = 5 /\ 2 + 4 = 6 /\ 2 + 5 = 7  OBVIOUS
    <3>2. 1 \in 1 .. n + 7 /\ 2 \in 1 .. n + 7 /\ 3 \in 1 .. n + 7 /\ 4 \in 1 .. n + 7 /\ 5 \in 1 .. n + 7
      BY <1>n
    <3>3. F[2 + 1] = c[1] /\ F[2 + 2] = c[2] /\ F[2 + 3] = c[3] /\ F[2 + 4] = c[4] /\ F[2 + 5] = c[5]
      BY <3>2, <1>11
    <3> QED BY <3>1, <3>3
  <2>2. ASSUME NEW i \in 1 .. n PROVE F[7 + i] = m.data[i]
    <3>1. 5 + i \in 1 .. n + 7 /\ 2 + (5 + i) = 7 + i  BY <1>n
    <3>2. F[2 + (5 + i)] = c[5 + i]  BY <3>1, <1>11
    <3> QED BY <3>1, <3>2, <1>1
  <2>3. F[8 + n] = c[6 + n] /\ F[9 + n] = c[7 + n]
    <3>1. 6 + n \in 1 .. n + 7 /\ 7 + n \in 1 .. n + 7 /\ 2 + (6 + n) = 8 + n /\ 2 + (7 + n) = 9 + n
      BY <1>n
    <3>2. F[2 + (6 + n)] = c[6 + n] /\ F[2 + (7 + n)] = c[7 + n]  BY <3>1, <1>11
    <3> QED BY <3>1, <3>2
  <2> QED BY <2>1, <2>2, <2>3, <1>1, <1>10, <1>12 DEF Laid
<1>14. \E g : Summed(F, n, g)
  <2> DEFINE g == [i \in 2 .. 9 + n |-> h[i - 2]]
  <2>1. CrcRun(g, F, 2, 9 + n) /\ g[9 + n] = crc
    <3>1. /\ h[0] = 0 /\ \A i \in 0 .. n + 7 : h[i] \in Word
          /\ \A i \in 1 .. n + 7 : c[i] \in Byte /\ h[i] = CrcUpdate(h[i - 1], c[i])
      <4>1. 0 + 1 = 1  OBVIOUS
      <4> QED BY <1>3, <4>1 DEF CrcRun
    <3>2. g[2] = 0
      <4>1. 2 \in 2 .. 9 + n /\ 2 - 2 = 0  BY <1>n
      <4> QED BY <4>1, <3>1
    <3>3. ASSUME NEW i \in 2 .. 9 + n PROVE g[i] \in Word
      <4>1. i - 2 \in 0 .. n + 7  BY <1>n
      <4> QED BY <4>1, <3>1
    <3>4. ASSUME NEW i \in 2 + 1 .. 9 + n PROVE F[i] \in Byte /\ g[i] = CrcUpdate(g[i - 1], F[i])
      <4>1. /\ i - 2 \in 1 .. n + 7 /\ 2 + (i - 2) = i /\ i - 1 \in 2 .. 9 + n
            /\ (i - 2) - 1 = (i - 1) - 2 /\ i \in 2 .. 9 + n
        BY <1>n
      <4>2. g[i] = h[i - 2] /\ g[i - 1] = h[(i - 1) - 2]  BY <4>1
      <4>3. F[i] = c[i - 2]  BY <4>1, <1>11
      <4> HIDE DEF g
      <4> QED BY <4>1, <4>2, <4>3, <3>1
    <3>5. g[9 + n] = crc
      <4>1. 9 + n \in 2 .. 9 + n /\ (9 + n) - 2 = n + 7  BY <1>n
      <4> QED BY <4>1, <1>3
    <3> HIDE DEF g
    <3> QED BY <3>2, <3>3, <3>4, <3>5 DEF CrcRun
  <2> HIDE DEF g
  <2> QED BY <2>1, <1>12 DEF Summed
<1>15. Covers(F, m, n)  BY <1>11 DEF c, Covers
<1> QED BY <1>1, <1>8, <1>9, <1>13, <1>14, <1>15 DEF Framed

----------------------------------------------------------------------------
(* The types of the decoder *)

\* What xTP_ECC_Decode leaves has the length of what it was given.
LEMMA RepairsKeepLength ==
  ASSUME NEW data \in Seq(Byte), NEW ecc, ecc[1] \in Byte, ecc[2] \in Byte,
         NEW r \in Repairs(data, ecc)
  PROVE  r \in Seq(Byte) /\ Len(r) = Len(data)
<1> DEFINE scc0 == Xor(Encode(data)[1], ecc[1])
           scc1 == Xor(Encode(data)[2], ecc[2])
<1>1. scc0 \in Byte  BY EncodeBytes, XorGroup
<1>2. CASE r = data  BY <1>2
<1>3. CASE r # data
  <2>1. PICK k \in DOMAIN data : r = [data EXCEPT ![k] = Xor(@, scc0)]
    BY <1>3 DEF Repairs
  <2>2. data[k] \in Byte /\ DOMAIN data = 1 .. Len(data)  BY <2>1
  <2>3. Xor(data[k], scc0) \in Byte  BY <1>1, <2>2, XorGroup
  <2> HIDE DEF scc0
  <2> QED BY <2>1, <2>3
<1> QED BY <1>2, <1>3

HalfRead ==
  /\ d.state \in {"START2", "TYPEMETHOD", "ID", "ID_HIGH", "SEQ", "LEN"} => d.data = <<>>
  /\ d.state = "ID_HIGH" => d.id \in Byte
  /\ d.state = "CRC2" => d.crc_received \in Byte

Fits == /\ d \in Decoder
        /\ Len(d.data) <= d.length
        /\ d.state = "DATA" => Len(d.data) < d.length

GotType == got \in [id : Word, seq : Byte, data : Seq(Byte), none : BOOLEAN]

\* The two ECC bytes.
LEMMA Pairs ==
  /\ <<0, 0>> \in Byte \X Byte
  /\ \A p \in Byte \X Byte : p[1] \in Byte /\ p[2] \in Byte
  /\ \A p \in Byte \X Byte, b \in Byte :
       /\ [p EXCEPT ![1] = b] \in Byte \X Byte /\ [p EXCEPT ![1] = b][1] = b /\ [p EXCEPT ![1] = b][2] = p[2]
       /\ [p EXCEPT ![2] = b] \in Byte \X Byte /\ [p EXCEPT ![2] = b][2] = b /\ [p EXCEPT ![2] = b][1] = p[1]
<1>1. 0 \in Byte  BY Ranges
<1> QED BY <1>1

\* What xTP_Reset leaves has the right type.
LEMMA ResetFits ==
  Reset \in Decoder /\ [Reset EXCEPT !.state = "START2"] \in Decoder
<1>1. 0 \in Byte /\ 0 \in Word /\ <<>> \in Seq(Byte)  BY Ranges
<1> QED BY <1>1, Pairs DEF Reset, Decoder

\* A reset decoder holds nothing.
LEMMA AfterReset ==
  ASSUME d' = Reset PROVE Fits' /\ HalfRead'
<1>1. 0 \in Byte /\ 0 \in Word /\ <<>> \in Seq(Byte) /\ Len(<<>>) = 0
  BY Ranges
<1> QED BY <1>1, ResetFits DEF Reset, Fits, HalfRead

\* Every byte leaves the decoder well-typed: it never holds more than LEN announced.
LEMMA ReadFits ==
  ASSUME NEW b \in Byte, xTP_Read(b), Fits, HalfRead, GotType
  PROVE  Fits' /\ HalfRead' /\ GotType'
<1>0. 0 \in Byte /\ 0 \in Word /\ <<>> \in Seq(Byte) /\ Len(<<>>) = 0 /\ b >= 0 /\ b \in Word
  BY Ranges
<1>w. \A x, y \in Byte : x + 256 * y \in Word
  BY Ranges
<1>1. d.crc \in Word  BY DEF Fits, Decoder
<1>2. PICK c \in Word : c = CrcUpdate(d.crc, b)  BY <1>1, CrcUpdateWord
<1>f. /\ d \in Decoder /\ Len(d.data) <= d.length
      /\ d.state = "DATA" => Len(d.data) < d.length
  BY DEF Fits
<1>3. CASE ReadStart(b) /\ UNCHANGED got
  <2>0. GotType'  BY <1>3 DEF GotType
  <2>1. CASE d.state = "START1" /\ d' = d
    BY <2>0, <2>1 DEF Fits, HalfRead
  <2>2. CASE d' = [Reset EXCEPT !.state = "START2"]
    <3>1. d' \in Decoder /\ d'.data = <<>> /\ d'.length = 0 /\ d'.state = "START2"
      BY <2>2, ResetFits DEF Reset
    <3> QED BY <1>0, <2>0, <3>1 DEF Fits, HalfRead
  <2>3. CASE d.state = "START2" /\ d' = [d EXCEPT !.state = "TYPEMETHOD"]
    <3>1. /\ d' \in Decoder /\ d'.data = d.data /\ d'.length = d.length
          /\ d'.state = "TYPEMETHOD"
      BY <1>f, <2>3 DEF Decoder
    <3> QED BY <1>f, <2>0, <2>3, <3>1 DEF Fits, HalfRead
  <2> QED BY <1>3, <2>0, <2>1, <2>2, <2>3, AfterReset DEF ReadStart, Expect, Go
<1>4. CASE ReadHeader(b) /\ UNCHANGED got
  <2>0. GotType'  BY <1>4 DEF GotType
  <2>1. CASE d.state = "TYPEMETHOD" /\ Expect(b, TM, Hashed(b, "ID"))
    <3>1. d' = Reset \/ d' = [d EXCEPT !.state = "ID", !.crc = c]
      BY <1>2, <2>1 DEF Expect, Hashed
    <3>2. CASE d' = [d EXCEPT !.state = "ID", !.crc = c]
      <4>1. /\ d' \in Decoder /\ d'.data = d.data /\ d'.length = d.length
            /\ d'.state = "ID"
        BY <1>f, <3>2 DEF Decoder
      <4> QED BY <1>f, <2>0, <2>1, <4>1 DEF Fits, HalfRead
    <3> QED BY <3>1, <3>2, <2>0, AfterReset
  <2>2. CASE d.state = "ID" /\ d' = [Hashed(b, "ID_HIGH") EXCEPT !.id = b]
    <3>1. d' = [d EXCEPT !.state = "ID_HIGH", !.crc = c, !.id = b]
      BY <1>2, <2>2 DEF Hashed
    <3>2. /\ d' \in Decoder /\ d'.data = d.data /\ d'.length = d.length
          /\ d'.state = "ID_HIGH" /\ d'.id = b
      BY <1>0, <1>f, <3>1 DEF Decoder
    <3> QED BY <1>f, <2>0, <2>2, <3>2 DEF Fits, HalfRead
  <2>3. CASE d.state = "ID_HIGH" /\ d' = [Hashed(b, "SEQ") EXCEPT !.id = @ + 256 * b]
    <3>1. PICK w \in Word : w = d.id + 256 * b  BY <1>w, <2>3 DEF HalfRead
    <3>2. d' = [d EXCEPT !.state = "SEQ", !.crc = c, !.id = w]
      <4>1. Hashed(b, "SEQ").id = d.id  BY <1>f DEF Hashed, Decoder
      <4> QED BY <1>2, <2>3, <3>1, <4>1 DEF Hashed
    <3>3. /\ d' \in Decoder /\ d'.data = d.data /\ d'.length = d.length
          /\ d'.state = "SEQ"
      BY <1>f, <3>2 DEF Decoder
    <3> QED BY <1>f, <2>0, <2>3, <3>3 DEF Fits, HalfRead
  <2>4. CASE d.state = "SEQ" /\ d' = [Hashed(b, "LEN") EXCEPT !.seq = b]
    <3>1. d' = [d EXCEPT !.state = "LEN", !.crc = c, !.seq = b]
      BY <1>2, <2>4 DEF Hashed
    <3>2. /\ d' \in Decoder /\ d'.data = d.data /\ d'.length = d.length
          /\ d'.state = "LEN"
      BY <1>f, <3>1 DEF Decoder
    <3> QED BY <1>f, <2>0, <2>4, <3>2 DEF Fits, HalfRead
  <2>5. CASE /\ d.state = "LEN"
             /\ d' = [Hashed(b, IF b > 0 THEN "DATA" ELSE "ECC0") EXCEPT !.length = b]
    <3>0. d.data = <<>>  BY <2>5 DEF HalfRead
    <3>1. PICK next \in {"DATA", "ECC0"} :
             /\ d' = [d EXCEPT !.state = next, !.crc = c, !.length = b]
             /\ next = "DATA" => b > 0
      BY <1>2, <2>5 DEF Hashed
    <3>2. /\ d' \in Decoder /\ d'.data = d.data /\ d'.length = b
          /\ d'.state = next
      BY <1>f, <3>1 DEF Decoder
    <3> QED BY <1>0, <2>0, <3>0, <3>1, <3>2 DEF Fits, HalfRead
  <2> QED BY <1>4, <2>1, <2>2, <2>3, <2>4, <2>5 DEF ReadHeader
<1>5. CASE ReadData(b) /\ UNCHANGED got
  <2>0. GotType'  BY <1>5 DEF GotType
  <2>1. PICK q \in Seq(Byte) : q = Append(d.data, b) /\ Len(q) = Len(d.data) + 1
    <3>1. d.data \in Seq(Byte)  BY <1>f DEF Decoder
    <3>2. /\ Append(d.data, b) \in Seq(Byte)
          /\ Len(Append(d.data, b)) = Len(d.data) + 1
      BY <3>1
    <3> QED BY <3>2
  <2>2. Len(d.data) \in Nat /\ d.length \in Int /\ Len(d.data) < d.length
    BY <1>5, <1>f, Ranges DEF ReadData, Decoder
  <2>3. PICK next \in {"DATA", "ECC0"} :
             /\ d' = [d EXCEPT !.state = next, !.crc = c, !.data = q]
             /\ next = "DATA" => Len(d.data) + 1 # d.length
    BY <1>2, <1>5, <1>f, <2>1 DEF ReadData, Hashed, Decoder
  <2>4. d' \in Decoder /\ d'.data = q /\ d'.length = d.length /\ d'.state = next
    BY <1>f, <2>3 DEF Decoder
  <2> QED BY <2>0, <2>1, <2>2, <2>3, <2>4 DEF Fits, HalfRead
<1>6. CASE ReadEcc(b) /\ UNCHANGED got
  <2>0. GotType'  BY <1>6 DEF GotType
  <2>1. d.ecc \in Byte \X Byte  BY <1>f DEF Decoder
  <2>2. PICK q \in Byte \X Byte, next \in {"ECC1", "CRC1"} :
           d' = [d EXCEPT !.state = next, !.crc = c, !.ecc = q]
    <3>1. CASE d.state = "ECC0"
      <4>1. d' = [d EXCEPT !.state = "ECC1", !.crc = c, !.ecc = [@ EXCEPT ![1] = b]]
        BY <1>2, <1>6, <1>f, <3>1 DEF ReadEcc, Hashed, Decoder
      <4> QED BY <2>1, <4>1, Pairs
    <3>2. CASE d.state = "ECC1"
      <4>1. d' = [d EXCEPT !.state = "CRC1", !.crc = c, !.ecc = [@ EXCEPT ![2] = b]]
        BY <1>2, <1>6, <1>f, <3>2 DEF ReadEcc, Hashed, Decoder
      <4> QED BY <2>1, <4>1, Pairs
    <3> QED BY <1>6, <3>1, <3>2 DEF ReadEcc
  <2>3. d' \in Decoder /\ d'.data = d.data /\ d'.length = d.length /\ d'.state = next
    BY <1>f, <2>2 DEF Decoder
  <2> QED BY <1>f, <2>0, <2>2, <2>3 DEF Fits, HalfRead
<1>7. CASE ReadCrc(b) /\ UNCHANGED got
  <2>0. GotType'  BY <1>7 DEF GotType
  <2>1. CASE d.state = "CRC1" /\ d' = [Go("CRC2") EXCEPT !.crc_received = b]
    <3>1. d' = [d EXCEPT !.state = "CRC2", !.crc_received = b]  BY <2>1 DEF Go
    <3>2. /\ d' \in Decoder /\ d'.data = d.data /\ d'.length = d.length
          /\ d'.state = "CRC2" /\ d'.crc_received = b
      BY <1>0, <1>f, <3>1 DEF Decoder
    <3> QED BY <1>f, <2>0, <3>2 DEF Fits, HalfRead
  <2>2. CASE d.state = "CRC2"
    <3>1. PICK w \in Word : w = d.crc_received + 256 * b  BY <1>w, <2>2 DEF HalfRead
    <3> DEFINE stop == [Go("STOP1") EXCEPT !.crc_received = @ + 256 * b]
    <3>2. stop \in Decoder /\ stop.data = d.data /\ stop.length = d.length /\ stop.state = "STOP1"
      <4>0. Go("STOP1").crc_received = d.crc_received  BY <1>f DEF Go, Decoder
      <4>1. stop = [d EXCEPT !.state = "STOP1", !.crc_received = w]
        BY <3>1, <4>0 DEF Go
      <4> HIDE DEF stop
      <4> QED BY <1>f, <4>1 DEF Decoder
    <3>3. ASSUME NEW r \in Repairs(d.data, d.ecc)
          PROVE  r \in Seq(Byte) /\ Len(r) = Len(d.data)
      <4>1. d.data \in Seq(Byte) /\ d.ecc \in Byte \X Byte  BY DEF Fits, Decoder
      <4> QED BY <4>1, Pairs, RepairsKeepLength
    <3>4. d' = Reset \/ d' = stop \/ \E r \in Repairs(d.data, d.ecc) : d' = [stop EXCEPT !.data = r]
      BY <1>7, <2>2 DEF ReadCrc
    <3> HIDE DEF stop
    <3>5. CASE d' = Reset
      BY <3>5, <2>0, AfterReset
    <3>6. CASE d' = stop
      BY <1>f, <3>2, <3>6, <2>0 DEF Fits, HalfRead
    <3>7. CASE \E r \in Repairs(d.data, d.ecc) : d' = [stop EXCEPT !.data = r]
      <4>1. PICK r \in Repairs(d.data, d.ecc) : d' = [stop EXCEPT !.data = r]  BY <3>7
      <4>2. r \in Seq(Byte) /\ Len(r) = Len(d.data)  BY <3>3
      <4>3. d' \in Decoder /\ d'.data = r /\ d'.length = d.length /\ d'.state = "STOP1"
        BY <3>2, <4>1, <4>2 DEF Decoder
      <4> QED BY <1>f, <4>2, <4>3, <2>0 DEF Fits, HalfRead
    <3> QED BY <3>4, <3>5, <3>6, <3>7
  <2> QED BY <1>7, <2>1, <2>2 DEF ReadCrc
<1>8. CASE ReadStop(b)
  <2>1. GotType'
    <3>1. d.id \in Word /\ d.seq \in Byte /\ d.data \in Seq(Byte)  BY <1>f DEF Decoder
    <3>2. got' = got \/ got' = [id |-> d.id, seq |-> d.seq, data |-> d.data, none |-> FALSE]
      BY <1>8 DEF ReadStop
    <3>3. FALSE \in BOOLEAN  OBVIOUS
    <3>4. [id |-> d.id, seq |-> d.seq, data |-> d.data, none |-> FALSE]
             \in [id : Word, seq : Byte, data : Seq(Byte), none : BOOLEAN]
      BY <3>1, <3>3, Zenon
    <3> QED BY <3>2, <3>4 DEF GotType
  <2>2. PICK next \in {"STOP2", "START1"} : d' = Reset \/ d' = [d EXCEPT !.state = next]
    BY <1>8 DEF ReadStop, Expect, Go
  <2>3. CASE d' = [d EXCEPT !.state = next]
    <3>1. d' \in Decoder /\ d'.data = d.data /\ d'.length = d.length /\ d'.state = next
      BY <1>f, <2>3 DEF Decoder
    <3> QED BY <1>f, <2>1, <3>1 DEF Fits, HalfRead
  <2> QED BY <2>1, <2>2, <2>3, AfterReset
<1> QED BY <1>3, <1>4, <1>5, <1>6, <1>7, <1>8 DEF xTP_Read

----------------------------------------------------------------------------
(* What one byte does *)

\* The state of the decoder after n bytes of a frame whose LEN is l.
InState(state, n, l) ==
  /\ state = "START1" <=> n = 0
  /\ state = "START2" <=> n = 1
  /\ state = "TYPEMETHOD" <=> n = 2
  /\ state = "ID" <=> n = 3
  /\ state = "ID_HIGH" <=> n = 4
  /\ state = "SEQ" <=> n = 5
  /\ state = "LEN" <=> n = 6
  /\ state = "DATA" <=> 7 <= n /\ n < 7 + l
  /\ state = "ECC0" <=> n = 7 + l
  /\ state = "ECC1" <=> n = 8 + l
  /\ state = "CRC1" <=> n = 9 + l
  /\ state = "CRC2" <=> n = 10 + l
  /\ state = "STOP1" <=> n = 11 + l
  /\ state = "STOP2" <=> n = 12 + l

TakesHeader(s, t, b, n) ==
  /\ n = 0 => b \div 16 = 12
  /\ n = 1 => b = START2
  /\ n = 2 => b = TM
  /\ n = 3 => t.id = b
  /\ n = 4 => t.id = s.id + 256 * b
  /\ n >= 5 => t.id = s.id
  /\ n = 5 => t.seq = b
  /\ n >= 6 => t.seq = s.seq
  /\ n = 6 => t.length = b
  /\ n >= 7 => t.length = s.length

TakesBody(s, t, b, n, l) ==
  /\ n = 0 => t.data = <<>>
  /\ 1 <= n /\ n <= 6 => t.data = s.data
  /\ 7 <= n /\ n < 7 + l => t.data = Append(s.data, b)
  /\ 7 + l <= n /\ n <= 9 + l => t.data = s.data
  /\ n = 7 + l => t.ecc[1] = b
  /\ n = 8 + l => t.ecc[1] = s.ecc[1] /\ t.ecc[2] = b
  /\ n >= 9 + l => t.ecc[1] = s.ecc[1] /\ t.ecc[2] = s.ecc[2]

TakesCrc(s, t, b, n, l) ==
  /\ n = 0 => t.crc = 0
  /\ n = 1 => t.crc = s.crc
  /\ 2 <= n /\ n <= 8 + l => t.crc = CrcUpdate(s.crc, b)
  /\ n >= 9 + l => t.crc = s.crc
  /\ n = 9 + l => t.crc_received = b

TakesEnd(s, t, b, n, l) ==
  /\ n = 10 + l => t.data \in IF s.crc_received + 256 * b = s.crc THEN {s.data}
                              ELSE Repairs(s.data, s.ecc)
  /\ n = 11 + l => b = STOP1 /\ t.data = s.data

Takes(s, t, b, n, l) ==
  /\ n < 12 + l
  /\ InState(t.state, n + 1, l)
  /\ TakesHeader(s, t, b, n) /\ TakesBody(s, t, b, n, l)
  /\ TakesCrc(s, t, b, n, l) /\ TakesEnd(s, t, b, n, l)

Drops(s, b, n, l) ==
  \/ n = 0 /\ b \div 16 # 12
  \/ n = 1 /\ b # START2
  \/ n = 2 /\ b # TM
  \/ n = 10 + l /\ s.crc_received + 256 * b # s.crc /\ Repairs(s.data, s.ecc) = {}
  \/ n = 11 + l /\ b # STOP1
  \/ n = 12 + l /\ b # STOP2

Outcome(b, n, l) ==
  \/ Takes(d, d', b, n, l) /\ got' = got
  \/ Drops(d, b, n, l) /\ got' = got /\ d'.state = "START1"
  \/ /\ n = 12 + l /\ b = STOP2 /\ d'.state = "START1"
     /\ got' = [id |-> d.id, seq |-> d.seq, data |-> d.data, none |-> FALSE]

\* What a byte does to a decoder that has read n bytes: taken, dropped or the last.
LEMMA ReadOutcome ==
  ASSUME NEW b \in Byte, xTP_Read(b), d \in Decoder,
         NEW n \in Nat, NEW l \in Byte, InState(d.state, n, l),
         n = 6 => l = b, n >= 7 => d.length = l,
         7 <= n /\ n < 7 + l => Len(d.data) = n - 7
  PROVE  Outcome(b, n, l)
<1>0. l \in Int /\ 0 <= l /\ b \in Int /\ 0 <= b
  BY Ranges
<1>1. CASE ReadStart(b) /\ UNCHANGED got
  <2>1. CASE n = 0 /\ d' = [Reset EXCEPT !.state = "START2"] /\ b \div 16 = 12
    <3>1. d'.state = "START2" /\ d'.data = <<>> /\ d'.crc = 0
      BY <2>1 DEF Reset
    <3>2. InState(d'.state, 1, l)  BY <1>0, <3>1 DEF InState
    <3>3. Takes(d, d', b, n, l)
      <4>1. TakesHeader(d, d', b, n)  BY <1>0, <2>1, <3>1, <3>2 DEF TakesHeader
      <4>2. TakesBody(d, d', b, n, l)  BY <1>0, <2>1, <3>1, <3>2 DEF TakesBody
      <4>3. TakesCrc(d, d', b, n, l)  BY <1>0, <2>1, <3>1, <3>2 DEF TakesCrc
      <4>4. TakesEnd(d, d', b, n, l)  BY <1>0, <2>1, <3>1, <3>2 DEF TakesEnd
      <4> QED BY <1>0, <2>1, <3>1, <3>2, <4>1, <4>2, <4>3, <4>4 DEF Takes
    <3> QED BY <1>1, <3>3 DEF Outcome
  <2>2. CASE n = 0 /\ d' = d /\ b \div 16 # 12
    <3>1. d'.state = "START1"  BY <2>2 DEF InState
    <3> QED BY <1>1, <2>2, <3>1 DEF Outcome, Drops
  <2>3. CASE n = 1 /\ d' = [d EXCEPT !.state = "TYPEMETHOD"] /\ b = START2
    <3>1. d'.state = "TYPEMETHOD" /\ d'.data = d.data /\ d'.crc = d.crc
      BY <2>3 DEF Decoder
    <3>2. InState(d'.state, 2, l)  BY <1>0, <3>1 DEF InState
    <3>3. Takes(d, d', b, n, l)
      <4>1. TakesHeader(d, d', b, n)  BY <1>0, <2>3, <3>1, <3>2 DEF TakesHeader
      <4>2. TakesBody(d, d', b, n, l)  BY <1>0, <2>3, <3>1, <3>2 DEF TakesBody
      <4>3. TakesCrc(d, d', b, n, l)  BY <1>0, <2>3, <3>1, <3>2 DEF TakesCrc
      <4>4. TakesEnd(d, d', b, n, l)  BY <1>0, <2>3, <3>1, <3>2 DEF TakesEnd
      <4> QED BY <1>0, <2>3, <3>1, <3>2, <4>1, <4>2, <4>3, <4>4 DEF Takes
    <3> QED BY <1>1, <3>3 DEF Outcome
  <2>4. CASE n = 1 /\ d' = Reset /\ b # START2
    <3>1. d'.state = "START1"  BY <2>4 DEF Reset
    <3> QED BY <1>1, <2>4, <3>1 DEF Outcome, Drops
  <2> QED BY <1>1, <2>1, <2>2, <2>3, <2>4 DEF ReadStart, Expect, Go, InState
<1>2. CASE ReadHeader(b) /\ UNCHANGED got
  <2>1. CASE n = 2 /\ d' = [d EXCEPT !.state = "ID", !.crc = CrcUpdate(d.crc, b)] /\ b = TM
    <3>1. d'.state = "ID" /\ d'.data = d.data /\ d'.crc = CrcUpdate(d.crc, b)
      BY <2>1 DEF Decoder
    <3>2. InState(d'.state, 3, l)  BY <1>0, <3>1 DEF InState
    <3>3. Takes(d, d', b, n, l)
      <4>1. TakesHeader(d, d', b, n)  BY <1>0, <2>1, <3>1, <3>2 DEF TakesHeader
      <4>2. TakesBody(d, d', b, n, l)  BY <1>0, <2>1, <3>1, <3>2 DEF TakesBody
      <4>3. TakesCrc(d, d', b, n, l)  BY <1>0, <2>1, <3>1, <3>2 DEF TakesCrc
      <4>4. TakesEnd(d, d', b, n, l)  BY <1>0, <2>1, <3>1, <3>2 DEF TakesEnd
      <4> QED BY <1>0, <2>1, <3>1, <3>2, <4>1, <4>2, <4>3, <4>4 DEF Takes
    <3> QED BY <1>2, <3>3 DEF Outcome
  <2>2. CASE n = 2 /\ d' = Reset /\ b # TM
    <3>1. d'.state = "START1"  BY <2>2 DEF Reset
    <3> QED BY <1>2, <2>2, <3>1 DEF Outcome, Drops
  <2>3. CASE n = 3 /\ d' = [d EXCEPT !.state = "ID_HIGH", !.crc = CrcUpdate(d.crc, b), !.id = b]
    <3>1. d'.state = "ID_HIGH" /\ d'.data = d.data /\ d'.crc = CrcUpdate(d.crc, b) /\ d'.id = b
      BY <2>3 DEF Decoder
    <3>2. InState(d'.state, 4, l)  BY <1>0, <3>1 DEF InState
    <3>3. Takes(d, d', b, n, l)
      <4>1. TakesHeader(d, d', b, n)  BY <1>0, <2>3, <3>1, <3>2 DEF TakesHeader
      <4>2. TakesBody(d, d', b, n, l)  BY <1>0, <2>3, <3>1, <3>2 DEF TakesBody
      <4>3. TakesCrc(d, d', b, n, l)  BY <1>0, <2>3, <3>1, <3>2 DEF TakesCrc
      <4>4. TakesEnd(d, d', b, n, l)  BY <1>0, <2>3, <3>1, <3>2 DEF TakesEnd
      <4> QED BY <1>0, <2>3, <3>1, <3>2, <4>1, <4>2, <4>3, <4>4 DEF Takes
    <3> QED BY <1>2, <3>3 DEF Outcome
  <2>4. CASE /\ n = 4
             /\ d' = [d EXCEPT !.state = "SEQ", !.crc = CrcUpdate(d.crc, b), !.id = d.id + 256 * b]
    <3>1. /\ d'.state = "SEQ" /\ d'.data = d.data /\ d'.crc = CrcUpdate(d.crc, b)
          /\ d'.id = d.id + 256 * b
      BY <2>4 DEF Decoder
    <3>2. InState(d'.state, 5, l)  BY <1>0, <3>1 DEF InState
    <3>3. Takes(d, d', b, n, l)
      <4>1. TakesHeader(d, d', b, n)  BY <1>0, <2>4, <3>1, <3>2 DEF TakesHeader
      <4>2. TakesBody(d, d', b, n, l)  BY <1>0, <2>4, <3>1, <3>2 DEF TakesBody
      <4>3. TakesCrc(d, d', b, n, l)  BY <1>0, <2>4, <3>1, <3>2 DEF TakesCrc
      <4>4. TakesEnd(d, d', b, n, l)  BY <1>0, <2>4, <3>1, <3>2 DEF TakesEnd
      <4> QED BY <1>0, <2>4, <3>1, <3>2, <4>1, <4>2, <4>3, <4>4 DEF Takes
    <3> QED BY <1>2, <3>3 DEF Outcome
  <2>5. CASE n = 5 /\ d' = [d EXCEPT !.state = "LEN", !.crc = CrcUpdate(d.crc, b), !.seq = b]
    <3>1. /\ d'.state = "LEN" /\ d'.data = d.data /\ d'.crc = CrcUpdate(d.crc, b)
          /\ d'.id = d.id /\ d'.seq = b
      BY <2>5 DEF Decoder
    <3>2. InState(d'.state, 6, l)  BY <1>0, <3>1 DEF InState
    <3>3. Takes(d, d', b, n, l)
      <4>1. TakesHeader(d, d', b, n)  BY <1>0, <2>5, <3>1, <3>2 DEF TakesHeader
      <4>2. TakesBody(d, d', b, n, l)  BY <1>0, <2>5, <3>1, <3>2 DEF TakesBody
      <4>3. TakesCrc(d, d', b, n, l)  BY <1>0, <2>5, <3>1, <3>2 DEF TakesCrc
      <4>4. TakesEnd(d, d', b, n, l)  BY <1>0, <2>5, <3>1, <3>2 DEF TakesEnd
      <4> QED BY <1>0, <2>5, <3>1, <3>2, <4>1, <4>2, <4>3, <4>4 DEF Takes
    <3> QED BY <1>2, <3>3 DEF Outcome
  <2>6. CASE /\ n = 6
             /\ d' = [d EXCEPT !.state = IF b > 0 THEN "DATA" ELSE "ECC0",
                               !.crc = CrcUpdate(d.crc, b), !.length = b]
    <3>1. /\ d'.state = IF b > 0 THEN "DATA" ELSE "ECC0"
          /\ d'.data = d.data /\ d'.crc = CrcUpdate(d.crc, b)
          /\ d'.id = d.id /\ d'.seq = d.seq /\ d'.length = b
      BY <2>6 DEF Decoder
    <3>2. InState(d'.state, 7, l)  BY <1>0, <2>6, <3>1 DEF InState
    <3>3. Takes(d, d', b, n, l)
      <4>1. TakesHeader(d, d', b, n)  BY <1>0, <2>6, <3>1, <3>2 DEF TakesHeader
      <4>2. TakesBody(d, d', b, n, l)  BY <1>0, <2>6, <3>1, <3>2 DEF TakesBody
      <4>3. TakesCrc(d, d', b, n, l)  BY <1>0, <2>6, <3>1, <3>2 DEF TakesCrc
      <4>4. TakesEnd(d, d', b, n, l)  BY <1>0, <2>6, <3>1, <3>2 DEF TakesEnd
      <4> QED BY <1>0, <2>6, <3>1, <3>2, <4>1, <4>2, <4>3, <4>4 DEF Takes
    <3> QED BY <1>2, <3>3 DEF Outcome
  <2>7. CASE d.state = "ID_HIGH"
    <3>1. Hashed(b, "SEQ").id = d.id  BY DEF Hashed, Decoder
    <3> QED BY <1>2, <2>4, <2>7, <3>1 DEF ReadHeader, Hashed, InState
  <2>8. CASE d.state # "ID_HIGH"
    BY <1>2, <2>1, <2>2, <2>3, <2>5, <2>6, <2>8 DEF ReadHeader, Expect, Hashed, InState
  <2> QED BY <2>7, <2>8
<1>3. CASE ReadData(b) /\ UNCHANGED got
  <2>1. 7 <= n /\ n < 7 + l /\ Len(d.data) = n - 7 /\ d.length = l
    BY <1>0, <1>3 DEF ReadData, InState
  <2>2. PICK next : /\ d' = [d EXCEPT !.state = next, !.crc = CrcUpdate(d.crc, b),
                                      !.data = Append(@, b)]
                    /\ next = IF Len(d.data) + 1 = d.length THEN "ECC0" ELSE "DATA"
    <3>1. Hashed(b, IF Len(d.data) + 1 = d.length THEN "ECC0" ELSE "DATA").data = d.data
      BY DEF Hashed, Decoder
    <3> QED BY <1>3, <3>1 DEF ReadData, Hashed, Decoder
  <2>3. /\ d'.state = next /\ d'.data = Append(d.data, b) /\ d'.crc = CrcUpdate(d.crc, b)
        /\ d'.id = d.id /\ d'.seq = d.seq /\ d'.length = d.length
    BY <2>2 DEF Decoder
  <2>4. d'.state = IF n + 1 = 7 + l THEN "ECC0" ELSE "DATA"
    BY <1>0, <2>1, <2>2, <2>3
  <2>5. InState(d'.state, n + 1, l)  BY <1>0, <2>1, <2>4 DEF InState
  <2>6. Takes(d, d', b, n, l)
    <3>1. TakesHeader(d, d', b, n)  BY <1>0, <2>1, <2>3, <2>5 DEF TakesHeader
    <3>2. TakesBody(d, d', b, n, l)  BY <1>0, <2>1, <2>3, <2>5 DEF TakesBody
    <3>3. TakesCrc(d, d', b, n, l)  BY <1>0, <2>1, <2>3, <2>5 DEF TakesCrc
    <3>4. TakesEnd(d, d', b, n, l)  BY <1>0, <2>1, <2>3, <2>5 DEF TakesEnd
    <3> QED BY <1>0, <2>1, <2>3, <2>5, <3>1, <3>2, <3>3, <3>4 DEF Takes
  <2> QED BY <1>3, <2>6 DEF Outcome
<1>4. CASE ReadEcc(b) /\ UNCHANGED got
  <2>0. d.ecc \in Byte \X Byte  BY DEF Decoder
  <2>1. CASE d.state = "ECC0"
    <3>1. n = 7 + l  BY <2>1 DEF InState
    <3>2. d' = [d EXCEPT !.state = "ECC1", !.crc = CrcUpdate(d.crc, b), !.ecc = [@ EXCEPT ![1] = b]]
      BY <1>4, <2>1 DEF ReadEcc, Hashed, Decoder
    <3>3. /\ d'.state = "ECC1" /\ d'.data = d.data /\ d'.crc = CrcUpdate(d.crc, b)
          /\ d'.id = d.id /\ d'.seq = d.seq /\ d'.length = d.length
          /\ d'.ecc = [d.ecc EXCEPT ![1] = b]
      BY <3>2 DEF Decoder
    <3>4. d'.ecc[1] = b  BY <2>0, <3>3, Pairs
    <3>5. InState(d'.state, n + 1, l)  BY <1>0, <3>1, <3>3 DEF InState
    <3>6. Takes(d, d', b, n, l)
      <4>1. TakesHeader(d, d', b, n)  BY <1>0, <3>1, <3>3, <3>4, <3>5 DEF TakesHeader
      <4>2. TakesBody(d, d', b, n, l)  BY <1>0, <3>1, <3>3, <3>4, <3>5 DEF TakesBody
      <4>3. TakesCrc(d, d', b, n, l)  BY <1>0, <3>1, <3>3, <3>4, <3>5 DEF TakesCrc
      <4>4. TakesEnd(d, d', b, n, l)  BY <1>0, <3>1, <3>3, <3>4, <3>5 DEF TakesEnd
      <4> QED BY <1>0, <3>1, <3>3, <3>4, <3>5, <4>1, <4>2, <4>3, <4>4 DEF Takes
    <3> QED BY <1>4, <3>6 DEF Outcome
  <2>2. CASE d.state = "ECC1"
    <3>1. n = 8 + l  BY <2>2 DEF InState
    <3>2. d' = [d EXCEPT !.state = "CRC1", !.crc = CrcUpdate(d.crc, b), !.ecc = [@ EXCEPT ![2] = b]]
      BY <1>4, <2>2 DEF ReadEcc, Hashed, Decoder
    <3>3. /\ d'.state = "CRC1" /\ d'.data = d.data /\ d'.crc = CrcUpdate(d.crc, b)
          /\ d'.id = d.id /\ d'.seq = d.seq /\ d'.length = d.length
          /\ d'.ecc = [d.ecc EXCEPT ![2] = b]
      BY <3>2 DEF Decoder
    <3>4. d'.ecc[1] = d.ecc[1] /\ d'.ecc[2] = b  BY <2>0, <3>3, Pairs
    <3>5. InState(d'.state, n + 1, l)  BY <1>0, <3>1, <3>3 DEF InState
    <3>6. Takes(d, d', b, n, l)
      <4>1. TakesHeader(d, d', b, n)  BY <1>0, <3>1, <3>3, <3>4, <3>5 DEF TakesHeader
      <4>2. TakesBody(d, d', b, n, l)  BY <1>0, <3>1, <3>3, <3>4, <3>5 DEF TakesBody
      <4>3. TakesCrc(d, d', b, n, l)  BY <1>0, <3>1, <3>3, <3>4, <3>5 DEF TakesCrc
      <4>4. TakesEnd(d, d', b, n, l)  BY <1>0, <3>1, <3>3, <3>4, <3>5 DEF TakesEnd
      <4> QED BY <1>0, <3>1, <3>3, <3>4, <3>5, <4>1, <4>2, <4>3, <4>4 DEF Takes
    <3> QED BY <1>4, <3>6 DEF Outcome
  <2> QED BY <1>4, <2>1, <2>2 DEF ReadEcc
<1>5. CASE ReadCrc(b) /\ UNCHANGED got
  <2>1. CASE d.state = "CRC1"
    <3>1. n = 9 + l  BY <2>1 DEF InState
    <3>2. d' = [d EXCEPT !.state = "CRC2", !.crc_received = b]
      BY <1>5, <2>1 DEF ReadCrc, Go
    <3>3. /\ d'.state = "CRC2" /\ d'.data = d.data /\ d'.crc = d.crc
          /\ d'.id = d.id /\ d'.seq = d.seq /\ d'.length = d.length
          /\ d'.ecc = d.ecc /\ d'.crc_received = b
      BY <3>2 DEF Decoder
    <3>5. InState(d'.state, n + 1, l)
      <4>1. n + 1 = 10 + l /\ l >= 0  BY <1>0, <3>1
      <4>2. InState("CRC2", 10 + l, l)  BY <1>0 DEF InState
      <4> QED BY <3>3, <4>1, <4>2
    <3>6. Takes(d, d', b, n, l)
      <4>1. TakesHeader(d, d', b, n)  BY <1>0, <3>1, <3>3, <3>5 DEF TakesHeader
      <4>2. TakesBody(d, d', b, n, l)  BY <1>0, <3>1, <3>3, <3>5 DEF TakesBody
      <4>3. TakesCrc(d, d', b, n, l)  BY <1>0, <3>1, <3>3, <3>5 DEF TakesCrc
      <4>4. TakesEnd(d, d', b, n, l)  BY <1>0, <3>1, <3>3, <3>5 DEF TakesEnd
      <4> QED BY <1>0, <3>1, <3>3, <3>5, <4>1, <4>2, <4>3, <4>4 DEF Takes
    <3> QED BY <1>5, <3>6 DEF Outcome
  <2>2. CASE d.state = "CRC2"
    <3>1. n = 10 + l  BY <2>2 DEF InState
    <3> DEFINE w == d.crc_received + 256 * b
               stop == [d EXCEPT !.state = "STOP1", !.crc_received = w]
    <3>2. [Go("STOP1") EXCEPT !.crc_received = @ + 256 * b] = stop
      <4>1. Go("STOP1").crc_received = d.crc_received  BY DEF Go, Decoder
      <4> QED BY <4>1 DEF Go
    <3>3. /\ stop.state = "STOP1" /\ stop.data = d.data /\ stop.crc = d.crc
          /\ stop.id = d.id /\ stop.seq = d.seq /\ stop.length = d.length
          /\ stop.ecc = d.ecc /\ stop.crc_received = w
          /\ DOMAIN stop = DOMAIN d
      <4> HIDE DEF w
      <4> QED BY DEF Decoder
    <3>4. \/ w = d.crc /\ d' = stop
          \/ w # d.crc /\ Repairs(d.data, d.ecc) = {} /\ d' = Reset
          \/ w # d.crc /\ \E r \in Repairs(d.data, d.ecc) : d' = [stop EXCEPT !.data = r]
      <4> HIDE DEF w
      <4>1. [Go("STOP1") EXCEPT !.crc_received = @ + 256 * b].crc_received = w
        BY <3>2, <3>3
      <4> HIDE DEF stop
      <4> QED BY <1>5, <2>2, <3>2, <4>1 DEF ReadCrc
    <3>5. CASE w # d.crc /\ Repairs(d.data, d.ecc) = {} /\ d' = Reset
      <4>1. d'.state = "START1"  BY <3>5 DEF Reset
      <4> QED BY <1>5, <3>1, <3>5, <4>1 DEF Outcome, Drops
    <3>6. ASSUME NEW r, r \in IF w = d.crc THEN {d.data} ELSE Repairs(d.data, d.ecc),
                 d' = [stop EXCEPT !.data = r]
          PROVE  Outcome(b, n, l)
      <4>1. /\ d'.state = "STOP1" /\ d'.data = r /\ d'.crc = d.crc
            /\ d'.id = d.id /\ d'.seq = d.seq /\ d'.length = d.length
            /\ d'.ecc = d.ecc
        <5>1. DOMAIN d = {"state", "id", "seq", "length", "data", "ecc", "crc", "crc_received"}
          BY DEF Decoder
        <5> HIDE DEF stop, w
        <5> QED BY <3>3, <3>6, <5>1
      <4>2. InState(d'.state, n + 1, l)
        <5>1. n + 1 = 11 + l /\ l >= 0  BY <1>0, <3>1
        <5>2. InState("STOP1", 11 + l, l)  BY <1>0 DEF InState
        <5> QED BY <4>1, <5>1, <5>2
      <4>3. Takes(d, d', b, n, l)
        <5>1. TakesHeader(d, d', b, n)  BY <1>0, <3>1, <3>6, <4>1, <4>2 DEF TakesHeader
        <5>2. TakesBody(d, d', b, n, l)  BY <1>0, <3>1, <3>6, <4>1, <4>2 DEF TakesBody
        <5>3. TakesCrc(d, d', b, n, l)  BY <1>0, <3>1, <3>6, <4>1, <4>2 DEF TakesCrc
        <5>4. TakesEnd(d, d', b, n, l)  BY <1>0, <3>1, <3>6, <4>1, <4>2 DEF TakesEnd
        <5> QED BY <1>0, <3>1, <3>6, <4>1, <4>2, <5>1, <5>2, <5>3, <5>4 DEF Takes
      <4> QED BY <1>5, <4>3 DEF Outcome
    <3>7. stop = [stop EXCEPT !.data = d.data]
      <4> HIDE DEF w
      <4> QED BY DEF Decoder
    <3> HIDE DEF stop, w
    <3> QED BY <3>4, <3>5, <3>6, <3>7
  <2> QED BY <1>5, <2>1, <2>2 DEF ReadCrc
<1>6. CASE ReadStop(b)
  <2>1. CASE n = 11 + l /\ d' = [d EXCEPT !.state = "STOP2"] /\ b = STOP1 /\ UNCHANGED got
    <3>1. /\ d'.state = "STOP2" /\ d'.data = d.data /\ d'.crc = d.crc
          /\ d'.id = d.id /\ d'.seq = d.seq /\ d'.length = d.length /\ d'.ecc = d.ecc
      BY <2>1 DEF Decoder
    <3>2. InState(d'.state, n + 1, l)
      <4>1. n + 1 = 12 + l /\ l >= 0  BY <1>0, <2>1
      <4>2. InState("STOP2", 12 + l, l)  BY <1>0 DEF InState
      <4> QED BY <3>1, <4>1, <4>2
    <3>3. Takes(d, d', b, n, l)
      <4>1. TakesHeader(d, d', b, n)  BY <1>0, <2>1, <3>1, <3>2 DEF TakesHeader
      <4>2. TakesBody(d, d', b, n, l)  BY <1>0, <2>1, <3>1, <3>2 DEF TakesBody
      <4>3. TakesCrc(d, d', b, n, l)  BY <1>0, <2>1, <3>1, <3>2 DEF TakesCrc
      <4>4. TakesEnd(d, d', b, n, l)  BY <1>0, <2>1, <3>1, <3>2 DEF TakesEnd
      <4> QED BY <1>0, <2>1, <3>1, <3>2, <4>1, <4>2, <4>3, <4>4 DEF Takes
    <3> QED BY <2>1, <3>3 DEF Outcome
  <2>2. CASE n = 11 + l /\ d' = Reset /\ b # STOP1 /\ UNCHANGED got
    <3>1. d'.state = "START1"  BY <2>2 DEF Reset
    <3> QED BY <2>2, <3>1 DEF Outcome, Drops
  <2>3. CASE d.state = "STOP2"
    <3>1. n = 12 + l  BY <2>3 DEF InState
    <3>2. d'.state = "START1"  BY <1>6, <2>3 DEF ReadStop, Expect, Go, Reset, Decoder
    <3> QED BY <1>6, <2>3, <3>1, <3>2 DEF ReadStop, Outcome, Drops
  <2> QED BY <1>6, <2>1, <2>2, <2>3 DEF ReadStop, Expect, Go, InState
<1> QED BY <1>1, <1>2, <1>3, <1>4, <1>5, <1>6 DEF xTP_Read

----------------------------------------------------------------------------
(* What the decoder has read *)

\* The first k bytes of the payload.
Prefix(data, R, k) ==
  /\ data \in Seq(Byte) /\ Len(data) = k
  /\ \A i \in 1 .. k : data[i] = R[7 + i]

ReadHeaderOf(s, R, n) ==
  /\ n >= 1 => R[1] \div 16 = 12
  /\ n >= 2 => R[2] = START2
  /\ n >= 3 => R[3] = TM
  /\ n = 4 => s.id = R[4]
  /\ n >= 5 => s.id = R[4] + 256 * R[5]
  /\ n >= 6 => s.seq = R[6]
  /\ n >= 7 => s.length = R[7]

ReadBodyOf(s, R, n, l) ==
  /\ 1 <= n /\ n <= 6 => s.data = <<>>
  /\ 7 <= n /\ n <= 7 + l => Prefix(s.data, R, n - 7)
  /\ 7 + l <= n /\ n <= 10 + l => Prefix(s.data, R, l)
  /\ n >= 8 + l => s.ecc[1] = R[8 + l]
  /\ n >= 9 + l => s.ecc[2] = R[9 + l]

ReadCrcOf(s, R, h, n, l) ==
  /\ h[2] = 0
  /\ \A i \in 3 .. n : i <= 9 + l => h[i] = CrcUpdate(h[i - 1], R[i])
  /\ n = 1 => s.crc = 0
  /\ 2 <= n /\ n <= 9 + l => s.crc = h[n]
  /\ n >= 9 + l => s.crc = h[9 + l]
  /\ n = 10 + l => s.crc_received = R[10 + l]

\* What the check bytes make of the payload: S holds it as it was read when the
\* CRC matches, and else what the ECC makes of it.
Judged(R, l, S) ==
  \E h, data, ecc :
    /\ CrcRun(h, R, 2, 9 + l)
    /\ Prefix(data, R, l)
    /\ ecc \in Byte \X Byte /\ ecc[1] = R[8 + l] /\ ecc[2] = R[9 + l]
    /\ S = IF R[10 + l] + 256 * R[11 + l] = h[9 + l] THEN {data} ELSE Repairs(data, ecc)

ReadEndOf(s, R, n, l) ==
  /\ n >= 11 + l => \E S : Judged(R, l, S) /\ s.data \in S
  /\ n >= 12 + l => R[12 + l] = STOP1

\* The decoder has read the first n bytes of R as a frame.
Reads(s, R, h, n) ==
  /\ s \in Decoder
  /\ n \in Nat /\ R \in [Nat -> Byte] /\ h \in [Nat -> Word]
  /\ InState(s.state, n, R[7])
  /\ n <= 12 + R[7]
  /\ ReadHeaderOf(s, R, n) /\ ReadBodyOf(s, R, n, R[7])
  /\ ReadCrcOf(s, R, h, n, R[7]) /\ ReadEndOf(s, R, n, R[7])

\* Before LEN the state does not depend on it.
LEMMA EarlyState ==
  ASSUME NEW state, NEW n \in Nat, n <= 6, NEW l \in Byte, NEW k \in Byte,
         InState(state, n, l)
  PROVE  InState(state, n, k)
<1>1. k \in Int /\ 0 <= k /\ l \in Int /\ 0 <= l  BY Ranges
<1> QED BY <1>1 DEF InState

\* One byte more than R.
LEMMA Heard ==
  ASSUME NEW R \in [Nat -> Byte], NEW n \in Nat, NEW b \in Byte, NEW Q,
         Q = [R EXCEPT ![n + 1] = b]
  PROVE  /\ Q \in [Nat -> Byte] /\ Q[n + 1] = b
         /\ \A i \in Nat : i <= n => Q[i] = R[i]
         /\ n # 6 => Q[7] = R[7]
         /\ Q[7] \in Byte /\ (n = 6 => Q[7] = b)
OBVIOUS

\* Bytes already read stay,
LEMMA PrefixStays ==
  \A data, R, Q : \A k \in Nat :
     Prefix(data, R, k) /\ (\A i \in 1 .. k : Q[7 + i] = R[7 + i]) => Prefix(data, Q, k)
BY DEF Prefix

Extends(Q, R, k, b) ==
  /\ \A i \in 1 .. k : Q[7 + i] = R[7 + i]
  /\ Q[8 + k] = b

\* and another one comes behind them.
LEMMA PrefixGrows ==
  \A data, R, Q : \A b \in Byte, k \in Nat :
     Prefix(data, R, k) /\ Extends(Q, R, k, b) => Prefix(Append(data, b), Q, k + 1)
<1>a. SUFFICES ASSUME NEW data, NEW R, NEW Q, NEW b \in Byte, NEW k \in Nat,
                      Prefix(data, R, k), Extends(Q, R, k, b)
               PROVE  Prefix(Append(data, b), Q, k + 1)
  OBVIOUS
<1>0. (\A i \in 1 .. k : Q[7 + i] = R[7 + i]) /\ Q[8 + k] = b
  BY <1>a DEF Extends
<1>1. data \in Seq(Byte) /\ Len(data) = k /\ \A i \in 1 .. k : data[i] = R[7 + i]
  BY <1>a DEF Prefix
<1>2. /\ Append(data, b) \in Seq(Byte) /\ Len(Append(data, b)) = k + 1
      /\ \A i \in 1 .. k : Append(data, b)[i] = data[i]
      /\ Append(data, b)[k + 1] = b
  BY <1>a, <1>1
<1>3. k + 1 \in Nat /\ 7 + (k + 1) = 8 + k /\ \A i \in 1 .. k + 1 : i \in 1 .. k \/ i = k + 1
  BY <1>a
<1>4. ASSUME NEW i \in 1 .. k + 1 PROVE Append(data, b)[i] = Q[7 + i]
  <2>1. CASE i \in 1 .. k  BY <1>0, <1>1, <1>2, <2>1
  <2>2. CASE i = k + 1  BY <1>0, <1>2, <1>3, <2>2
  <2> QED BY <1>3, <1>4, <2>1, <2>2
<1> QED BY <1>2, <1>4 DEF Prefix

\* The header fields after a byte,
LEMMA HeaderStep ==
  ASSUME NEW s, NEW t, NEW R \in [Nat -> Byte], NEW n \in Nat, NEW b \in Byte,
         NEW Q, Q = [R EXCEPT ![n + 1] = b],
         ReadHeaderOf(s, R, n), TakesHeader(s, t, b, n)
  PROVE  ReadHeaderOf(t, Q, n + 1)
<1>1. /\ Q \in [Nat -> Byte] /\ Q[n + 1] = b
      /\ \A i \in Nat : i <= n => Q[i] = R[i]
  BY Heard
<1> QED BY <1>1 DEF ReadHeaderOf, TakesHeader

\* the payload and ECC bytes after a byte,
LEMMA BodyStep ==
  ASSUME NEW s, NEW t, NEW R \in [Nat -> Byte], NEW n \in Nat, NEW b \in Byte,
         NEW Q, Q = [R EXCEPT ![n + 1] = b], NEW l \in Byte,
         n <= 6 \/ l = R[7], n = 6 => l = b,
         ReadBodyOf(s, R, n, l), TakesBody(s, t, b, n, l)
  PROVE  ReadBodyOf(t, Q, n + 1, l)
<1>0. l \in Nat  BY Ranges
<1>1. /\ Q[n + 1] = b /\ \A i \in Nat : i <= n => Q[i] = R[i]
  BY Heard
<1>2. ASSUME 1 <= n + 1, n + 1 <= 6 PROVE t.data = <<>>
  BY <1>2 DEF ReadBodyOf, TakesBody
<1>3. ASSUME n = 6 PROVE Prefix(t.data, Q, 0)
  <2>1. t.data = <<>>  BY <1>3 DEF ReadBodyOf, TakesBody
  <2>2. <<>> \in Seq(Byte) /\ Len(<<>>) = 0 /\ 1 .. 0 = {}  OBVIOUS
  <2> QED BY <2>1, <2>2 DEF Prefix
<1>4. ASSUME 7 <= n, n + 1 <= 7 + l PROVE Prefix(t.data, Q, (n + 1) - 7)
  <2>0. PICK k \in Nat : k = n - 7  BY <1>4
  <2>1. Prefix(s.data, R, k)  BY <1>0, <1>4, <2>0 DEF ReadBodyOf
  <2>2. t.data = Append(s.data, b)  BY <1>0, <1>4 DEF TakesBody
  <2>3. Extends(Q, R, k, b)
    <3>1. 8 + k = n + 1 /\ \A i \in 1 .. k : 7 + i \in Nat /\ 7 + i <= n  BY <2>0
    <3> QED BY <1>1, <3>1 DEF Extends
  <2>4. Prefix(t.data, Q, k + 1)  BY <2>1, <2>2, <2>3, PrefixGrows, Zenon
  <2>5. (n + 1) - 7 = k + 1  BY <2>0
  <2> QED BY <2>4, <2>5
<1>5. ASSUME 7 + l <= n, n + 1 <= 10 + l PROVE Prefix(t.data, Q, l)
  <2>1. Prefix(s.data, R, l)  BY <1>0, <1>5 DEF ReadBodyOf
  <2>2. t.data = s.data  BY <1>0, <1>5 DEF TakesBody
  <2>3. \A i \in 1 .. l : Q[7 + i] = R[7 + i]
    <3>1. \A i \in 1 .. l : 7 + i \in Nat /\ 7 + i <= n  BY <1>0, <1>5
    <3> QED BY <1>1, <3>1
  <2> QED BY <1>0, <2>1, <2>2, <2>3, PrefixStays
<1>6. ASSUME n + 1 >= 8 + l PROVE t.ecc[1] = Q[8 + l]
  BY <1>0, <1>1, <1>6 DEF ReadBodyOf, TakesBody
<1>7. ASSUME n + 1 >= 9 + l PROVE t.ecc[2] = Q[9 + l]
  BY <1>0, <1>1, <1>7 DEF ReadBodyOf, TakesBody
<1>8. ASSUME 7 <= n + 1, n + 1 <= 7 + l PROVE Prefix(t.data, Q, (n + 1) - 7)
  <2>1. CASE n = 6  BY <1>3, <2>1
  <2>2. CASE 7 <= n  BY <1>4, <1>8, <2>2
  <2> QED BY <1>8, <2>1, <2>2
<1>9. ASSUME 7 + l <= n + 1, n + 1 <= 10 + l PROVE Prefix(t.data, Q, l)
  <2>1. CASE 7 + l <= n  BY <1>5, <1>9, <2>1
  <2>2. CASE n + 1 = 7 + l
    <3>1. (n + 1) - 7 = l /\ 7 <= n + 1 /\ n + 1 <= 7 + l  BY <1>0, <2>2
    <3>2. Prefix(t.data, Q, (n + 1) - 7)  BY <3>1, <1>8
    <3> QED BY <3>1, <3>2
  <2> QED BY <1>0, <1>9, <2>1, <2>2
<1> QED BY <1>2, <1>6, <1>7, <1>8, <1>9 DEF ReadBodyOf

\* The CRC after one byte more, up to the last byte it is taken over.
CrcNext(h, n, l, b) ==
  IF 2 <= n /\ n <= 8 + l THEN [h EXCEPT ![n + 1] = CrcUpdate(h[n], b)] ELSE h

Summing(t, Q, g, n, l) == g \in [Nat -> Word] /\ ReadCrcOf(t, Q, g, n, l)

\* and the CRC after a byte.
LEMMA CrcStepOf ==
  ASSUME NEW s, NEW t, NEW R \in [Nat -> Byte], NEW n \in Nat, NEW b \in Byte,
         NEW Q, Q = [R EXCEPT ![n + 1] = b], NEW l \in Byte, NEW h \in [Nat -> Word],
         NEW g, g = CrcNext(h, n, l, b),
         ReadCrcOf(s, R, h, n, l), TakesCrc(s, t, b, n, l)
  PROVE  Summing(t, Q, g, n + 1, l)
<1>0. l \in Nat  BY Ranges
<1>1. /\ Q[n + 1] = b /\ \A i \in Nat : i <= n => Q[i] = R[i]
  BY Heard
<1>2. CrcUpdate(h[n], b) \in Word  BY CrcUpdateWord
<1>3. /\ g \in [Nat -> Word] /\ \A i \in Nat : i <= n => g[i] = h[i]
      /\ 2 <= n /\ n <= 8 + l => g[n + 1] = CrcUpdate(h[n], b)
      /\ ~(2 <= n /\ n <= 8 + l) => g = h
  BY <1>2 DEF CrcNext
<1>4. ASSUME NEW i \in 3 .. n + 1, i <= 9 + l PROVE g[i] = CrcUpdate(g[i - 1], Q[i])
  <2>1. CASE i <= n
    <3>1. i \in Nat /\ i - 1 \in Nat /\ i - 1 <= n /\ i \in 3 .. n  BY <2>1
    <3> QED BY <1>1, <1>3, <1>4, <2>1, <3>1 DEF ReadCrcOf
  <2>2. CASE i = n + 1
    <3>1. i - 1 = n /\ 2 <= n /\ n <= 8 + l  BY <1>0, <1>4, <2>2
    <3> QED BY <1>1, <1>3, <2>2, <3>1
  <2> QED BY <2>1, <2>2
<1>5. g[2] = 0
  <2>1. CASE n >= 2  BY <1>3, <2>1 DEF ReadCrcOf
  <2>2. CASE ~(n >= 2)  BY <1>3, <2>2 DEF ReadCrcOf
  <2> QED BY <2>1, <2>2
<1>6. ASSUME n + 1 = 1 PROVE t.crc = 0  BY <1>6 DEF TakesCrc
<1>7. ASSUME 2 <= n + 1, n + 1 <= 9 + l PROVE t.crc = g[n + 1]
  <2>1. CASE n = 1
    <3>1. t.crc = 0  BY <2>1 DEF TakesCrc, ReadCrcOf
    <3> QED BY <1>5, <2>1, <3>1
  <2>2. CASE 2 <= n
    <3>1. s.crc = h[n] /\ t.crc = CrcUpdate(s.crc, b)
      BY <1>0, <1>7, <2>2 DEF TakesCrc, ReadCrcOf
    <3> QED BY <1>3, <1>7, <1>0, <2>2, <3>1
  <2> QED BY <1>7, <2>1, <2>2
<1>8. ASSUME n + 1 >= 9 + l PROVE t.crc = g[9 + l]
  <2>1. CASE n + 1 = 9 + l  BY <1>0, <1>7, <2>1
  <2>2. CASE n >= 9 + l
    <3>1. s.crc = h[9 + l] /\ t.crc = s.crc  BY <1>0, <2>2 DEF TakesCrc, ReadCrcOf
    <3> QED BY <1>0, <1>3, <2>2, <3>1
  <2> QED BY <1>0, <1>8, <2>1, <2>2
<1>9. ASSUME n + 1 = 10 + l PROVE t.crc_received = Q[10 + l]
  BY <1>0, <1>1, <1>9 DEF TakesCrc
<1> QED BY <1>3, <1>4, <1>5, <1>6, <1>7, <1>8, <1>9 DEF Summing, ReadCrcOf

----------------------------------------------------------------------------
(* The decoder as a reader of a sequence of bytes *)

\* The same bytes are judged alike.
LEMMA JudgedStays ==
  ASSUME NEW R, NEW Q, NEW l \in Byte, NEW S, Judged(R, l, S),
         \A i \in Nat : i <= 11 + l => Q[i] = R[i]
  PROVE  Judged(Q, l, S)
<1>0. l \in Nat  BY Ranges
<1>1. PICK h, data, ecc :
        /\ CrcRun(h, R, 2, 9 + l)
        /\ Prefix(data, R, l)
        /\ ecc \in Byte \X Byte /\ ecc[1] = R[8 + l] /\ ecc[2] = R[9 + l]
        /\ S = IF R[10 + l] + 256 * R[11 + l] = h[9 + l] THEN {data} ELSE Repairs(data, ecc)
  BY Zenon DEF Judged
<1>2. CrcRun(h, Q, 2, 9 + l)
  <2>1. \A i \in 2 + 1 .. 9 + l : Q[i] = R[i]
    <3>1. \A i \in 2 + 1 .. 9 + l : i \in Nat /\ i <= 11 + l  BY <1>0
    <3> QED BY <3>1
  <2> QED BY <1>1, <2>1 DEF CrcRun
<1>3. Prefix(data, Q, l)
  <2>1. \A i \in 1 .. l : 7 + i \in Nat /\ 7 + i <= 11 + l  BY <1>0
  <2>2. \A i \in 1 .. l : Q[7 + i] = R[7 + i]  BY <2>1
  <2> QED BY <1>0, <1>1, <2>2, PrefixStays
<1>4. Q[8 + l] = R[8 + l] /\ Q[9 + l] = R[9 + l] /\ Q[10 + l] = R[10 + l] /\ Q[11 + l] = R[11 + l]
  BY <1>0
<1>5. /\ ecc \in Byte \X Byte /\ ecc[1] = Q[8 + l] /\ ecc[2] = Q[9 + l]
      /\ S = IF Q[10 + l] + 256 * Q[11 + l] = h[9 + l] THEN {data} ELSE Repairs(data, ecc)
  BY <1>1, <1>4
<1> QED BY <1>2, <1>3, <1>5, Zenon DEF Judged

\* The last CRC byte and the verdict.
LEMMA Verdict ==
  ASSUME NEW s, NEW R, NEW h, NEW n, Reads(s, R, h, n), NEW l, l = R[7], n = 10 + l,
         NEW b \in Byte, NEW Q, Q = [R EXCEPT ![n + 1] = b]
  PROVE  Judged(Q, l, IF s.crc_received + 256 * b = s.crc THEN {s.data} ELSE Repairs(s.data, s.ecc))
<1>0. /\ n \in Nat /\ R \in [Nat -> Byte] /\ h \in [Nat -> Word] /\ l \in Byte
      /\ s \in Decoder
      /\ ReadBodyOf(s, R, n, l) /\ ReadCrcOf(s, R, h, n, l)
  BY DEF Reads
<1>n. l \in Nat  BY <1>0, Ranges
<1>1. /\ Q \in [Nat -> Byte] /\ Q[n + 1] = b /\ \A i \in Nat : i <= n => Q[i] = R[i]
  BY <1>0, Heard
<1>2. CrcRun(h, Q, 2, 9 + l)
  <2>1. h[2] = 0 /\ \A i \in 2 .. 9 + l : h[i] \in Word
    BY <1>0, <1>n DEF ReadCrcOf
  <2>2. ASSUME NEW i \in 2 + 1 .. 9 + l PROVE Q[i] \in Byte /\ h[i] = CrcUpdate(h[i - 1], Q[i])
    <3>1. i \in 3 .. n /\ i <= 9 + l /\ i <= n /\ i \in Nat  BY <1>n
    <3> QED BY <1>0, <1>1, <3>1 DEF ReadCrcOf
  <2> QED BY <2>1, <2>2 DEF CrcRun
<1>3. Prefix(s.data, Q, l)
  <2>1. \A i \in 1 .. l : 7 + i \in Nat /\ 7 + i <= n  BY <1>n
  <2>2. \A i \in 1 .. l : Q[7 + i] = R[7 + i]  BY <1>1, <2>1
  <2>3. Prefix(s.data, R, l)  BY <1>0, <1>n DEF ReadBodyOf
  <2> QED BY <1>n, <2>2, <2>3, PrefixStays
<1>4. /\ s.ecc \in Byte \X Byte /\ s.ecc[1] = Q[8 + l] /\ s.ecc[2] = Q[9 + l]
  <2>1. s.ecc \in Byte \X Byte  BY <1>0 DEF Decoder
  <2> QED BY <1>0, <1>1, <1>n, <2>1 DEF ReadBodyOf
<1>5. s.crc_received + 256 * b = Q[10 + l] + 256 * Q[11 + l] /\ s.crc = h[9 + l]
  BY <1>0, <1>1, <1>n DEF ReadCrcOf
<1>6. (IF s.crc_received + 256 * b = s.crc THEN {s.data} ELSE Repairs(s.data, s.ecc))
        = IF Q[10 + l] + 256 * Q[11 + l] = h[9 + l] THEN {s.data} ELSE Repairs(s.data, s.ecc)
  BY <1>5
<1> QED BY <1>2, <1>3, <1>4, <1>6, Zenon DEF Judged

\* A step that takes the byte.
LEMMA TakesStep ==
  ASSUME NEW s, NEW t, t \in Decoder, NEW R, NEW h, NEW n, Reads(s, R, h, n), NEW b \in Byte,
         NEW Q, Q = [R EXCEPT ![n + 1] = b], Takes(s, t, b, n, Q[7])
  PROVE  \E g : Reads(t, Q, g, n + 1)
<1> DEFINE l == Q[7]
<1>0. /\ n \in Nat /\ R \in [Nat -> Byte] /\ h \in [Nat -> Word] /\ s \in Decoder
  BY DEF Reads
<1>1. /\ Q \in [Nat -> Byte] /\ Q[n + 1] = b /\ \A i \in Nat : i <= n => Q[i] = R[i]
      /\ n # 6 => Q[7] = R[7]
      /\ n = 6 => Q[7] = b
  BY <1>0, Heard
<1>2. l \in Byte /\ R[7] \in Byte /\ l \in Nat  BY <1>0, <1>1, Ranges
<1>t. /\ n < 12 + l /\ InState(t.state, n + 1, l)
      /\ TakesHeader(s, t, b, n) /\ TakesBody(s, t, b, n, l)
      /\ TakesCrc(s, t, b, n, l) /\ TakesEnd(s, t, b, n, l)
  BY DEF Takes
<1>b. /\ ReadBodyOf(s, R, n, l) /\ ReadCrcOf(s, R, h, n, l) /\ ReadEndOf(s, R, n, l)
  <2>1. CASE n # 6  BY <1>1, <2>1 DEF Reads
  <2>2. CASE n = 6
    <3>1. R[7] \in Nat  BY <1>2, Ranges
    <3>2. ReadBodyOf(s, R, n, R[7]) /\ ReadCrcOf(s, R, h, n, R[7])  BY DEF Reads
    <3> HIDE DEF l
    <3>3. ReadBodyOf(s, R, n, l)  BY <1>2, <2>2, <3>1, <3>2 DEF ReadBodyOf
    <3>4. ReadCrcOf(s, R, h, n, l)  BY <1>2, <2>2, <3>1, <3>2 DEF ReadCrcOf
    <3>5. ReadEndOf(s, R, n, l)  BY <1>2, <2>2 DEF ReadEndOf
    <3> QED BY <3>3, <3>4, <3>5
  <2> QED BY <2>1, <2>2
<1> HIDE DEF l
<1>3. ReadHeaderOf(t, Q, n + 1)
  <2>1. ReadHeaderOf(s, R, n)  BY DEF Reads
  <2> QED BY <1>0, <1>t, <2>1, HeaderStep
<1>4. ReadBodyOf(t, Q, n + 1, l)
  <2>1. n <= 6 \/ l = R[7]  BY <1>0, <1>1 DEF l
  <2>2. n = 6 => l = b  BY <1>1 DEF l
  <2> QED BY <1>0, <1>2, <1>t, <1>b, <2>1, <2>2, BodyStep
<1>g. PICK g : g = CrcNext(h, n, l, b)
  OBVIOUS
<1>5. g \in [Nat -> Word] /\ ReadCrcOf(t, Q, g, n + 1, l)
  <2>1. TakesCrc(s, t, b, n, l) /\ ReadCrcOf(s, R, h, n, l)  BY <1>t, <1>b
  <2>2. Summing(t, Q, g, n + 1, l)  BY <1>0, <1>2, <1>g, <2>1, CrcStepOf
  <2> QED BY <2>2 DEF Summing
<1>6. ReadEndOf(t, Q, n + 1, l)
  <2>1. ASSUME n = 10 + l PROVE \E S : Judged(Q, l, S) /\ t.data \in S
    <3>1. l = R[7]  BY <1>1, <1>2, <2>1 DEF l
    <3>2. Judged(Q, l, IF s.crc_received + 256 * b = s.crc THEN {s.data} ELSE Repairs(s.data, s.ecc))
      BY <2>1, <3>1, Verdict
    <3>3. t.data \in IF s.crc_received + 256 * b = s.crc THEN {s.data} ELSE Repairs(s.data, s.ecc)
      BY <1>t, <2>1 DEF TakesEnd
    <3> QED BY <3>2, <3>3
  <2>2. ASSUME n = 11 + l
        PROVE  Q[12 + l] = STOP1 /\ \E S : Judged(Q, l, S) /\ t.data \in S
    <3>1. l = R[7]  BY <1>1, <1>2, <2>2 DEF l
    <3>2. b = STOP1 /\ t.data = s.data  BY <1>t, <2>2 DEF TakesEnd
    <3>3. PICK S : Judged(R, l, S) /\ s.data \in S
      <4>1. n >= 11 + l  BY <1>0, <1>2, <2>2
      <4> QED BY <1>b, <4>1 DEF ReadEndOf
    <3>4. \A i \in Nat : i <= 11 + l => Q[i] = R[i]  BY <1>1, <2>2
    <3>5. Judged(Q, l, S)  BY <1>2, <3>3, <3>4, JudgedStays
    <3>6. 12 + l = n + 1  BY <1>2, <2>2
    <3> QED BY <1>1, <3>2, <3>3, <3>5, <3>6
  <2>3. ~(n >= 12 + l)  BY <1>0, <1>2, <1>t
  <2>4. n + 1 >= 11 + l => n = 10 + l \/ n = 11 + l  BY <1>0, <1>2, <2>3
  <2>5. n + 1 >= 12 + l => n = 11 + l  BY <1>0, <1>2, <2>3
  <2> QED BY <2>1, <2>2, <2>4, <2>5 DEF ReadEndOf
<1>7. n + 1 \in Nat /\ n + 1 <= 12 + l  BY <1>0, <1>2, <1>t
<1> QED BY <1>1, <1>t, <1>3, <1>4, <1>5, <1>6, <1>7 DEF Reads, l

Refused(R, n) ==
  \/ n = 1 /\ R[1] \div 16 # 12
  \/ n = 2 /\ R[2] # START2
  \/ n = 3 /\ R[3] # TM
  \/ n = 11 + R[7] /\ Judged(R, R[7], {})
  \/ n = 12 + R[7] /\ R[12 + R[7]] # STOP1
  \/ n = 13 + R[7] /\ R[13 + R[7]] # STOP2

Completed(g, R, n) ==
  /\ n = 13 + R[7]
  /\ R[1] \div 16 = 12 /\ R[2] = START2 /\ R[3] = TM
  /\ g.id = R[4] + 256 * R[5] /\ g.seq = R[6] /\ g.none = FALSE
  /\ \E S : Judged(R, R[7], S) /\ g.data \in S
  /\ R[12 + R[7]] = STOP1 /\ R[13 + R[7]] = STOP2

\* The decoder reads on, drops the frame or hands it over, and why.
LEMMA ReadStep ==
  ASSUME NEW R, NEW h, NEW n, Reads(d, R, h, n), NEW b \in Byte, xTP_Read(b),
         d' \in Decoder, NEW Q, Q = [R EXCEPT ![n + 1] = b]
  PROVE  \/ got' = got /\ \E g : Reads(d', Q, g, n + 1)
         \/ got' = got /\ d'.state = "START1" /\ Refused(Q, n + 1)
         \/ d'.state = "START1" /\ Completed(got', Q, n + 1)
<1> DEFINE l == Q[7]
<1>0. /\ n \in Nat /\ R \in [Nat -> Byte] /\ h \in [Nat -> Word] /\ d \in Decoder
      /\ InState(d.state, n, R[7]) /\ n <= 12 + R[7]
      /\ ReadHeaderOf(d, R, n) /\ ReadBodyOf(d, R, n, R[7]) /\ ReadEndOf(d, R, n, R[7])
  BY DEF Reads
<1>1. /\ Q \in [Nat -> Byte] /\ Q[n + 1] = b /\ \A i \in Nat : i <= n => Q[i] = R[i]
      /\ n # 6 => Q[7] = R[7]
      /\ n = 6 => Q[7] = b
  BY <1>0, Heard
<1>2. l \in Byte /\ R[7] \in Byte /\ l \in Nat  BY <1>0, <1>1, Ranges
<1>3. InState(d.state, n, l)
  <2>1. CASE n = 6  BY <1>0, <1>2, <2>1, EarlyState
  <2>2. CASE n # 6  BY <1>0, <1>1, <2>2
  <2> QED BY <2>1, <2>2
<1>4. Outcome(b, n, l)
  <2>1. n = 6 => l = b  BY <1>1
  <2>2. n >= 7 => d.length = l
    BY <1>0, <1>1 DEF ReadHeaderOf
  <2>3. ASSUME 7 <= n, n < 7 + l PROVE Len(d.data) = n - 7
    <3>1. 7 <= n /\ n <= 7 + R[7]  BY <1>0, <1>1, <1>2, <2>3
    <3>2. Prefix(d.data, R, n - 7)  BY <1>0, <3>1 DEF ReadBodyOf
    <3> QED BY <3>2 DEF Prefix
  <2> HIDE DEF l
  <2> QED BY <1>0, <1>2, <1>3, <2>1, <2>2, <2>3, ReadOutcome
<1>5. CASE Takes(d, d', b, n, l) /\ got' = got
  BY <1>5, TakesStep
<1>6. CASE Drops(d, b, n, l) /\ got' = got /\ d'.state = "START1"
  <2> HIDE DEF l
  <2>1. CASE n <= 2
    BY <1>0, <1>1, <1>2, <1>6, <2>1 DEF Drops, Refused
  <2>2. CASE n = 10 + l /\ d.crc_received + 256 * b # d.crc /\ Repairs(d.data, d.ecc) = {}
    <3>1. l = R[7]  BY <1>1, <1>2, <2>2 DEF l
    <3>2. Judged(Q, l, IF d.crc_received + 256 * b = d.crc THEN {d.data} ELSE Repairs(d.data, d.ecc))
      BY <2>2, <3>1, Verdict
    <3>3. Judged(Q, l, {})  BY <2>2, <3>2
    <3>4. n + 1 = 11 + l  BY <1>2, <2>2
    <3> QED BY <1>6, <3>3, <3>4 DEF Refused, l
  <2>3. CASE n = 11 + l /\ b # STOP1
    <3>1. n + 1 = 12 + l  BY <1>2, <2>3
    <3> QED BY <1>1, <1>6, <2>3, <3>1 DEF Refused, l
  <2>4. CASE n = 12 + l /\ b # STOP2
    <3>1. n + 1 = 13 + l  BY <1>2, <2>4
    <3> QED BY <1>1, <1>6, <2>4, <3>1 DEF Refused, l
  <2>5. n = 0 \/ n = 1 \/ n = 2 => n <= 2  OBVIOUS
  <2> QED BY <1>6, <2>1, <2>2, <2>3, <2>4, <2>5, Zenon DEF Drops
<1>7. CASE /\ n = 12 + l /\ b = STOP2 /\ d'.state = "START1"
           /\ got' = [id |-> d.id, seq |-> d.seq, data |-> d.data, none |-> FALSE]
  <2> HIDE DEF l
  <2>1. l = R[7] /\ n >= 11 + l /\ n >= 12 + l /\ n >= 7 BY <1>1, <1>2, <1>7 DEF l
  <2>2. PICK S : Judged(R, l, S) /\ d.data \in S
    BY <1>0, <2>1 DEF ReadEndOf
  <2>3. Judged(Q, l, S)
    <3>1. \A i \in Nat : i <= 11 + l => Q[i] = R[i]  BY <1>1, <1>2, <1>7
    <3> QED BY <1>2, <2>2, <3>1, JudgedStays
  <2>4. /\ R[1] \div 16 = 12 /\ R[2] = START2 /\ R[3] = TM
        /\ d.id = R[4] + 256 * R[5] /\ d.seq = R[6] /\ R[12 + l] = STOP1
    BY <1>0, <2>1 DEF ReadHeaderOf, ReadEndOf
  <2>5. /\ Q[1] = R[1] /\ Q[2] = R[2] /\ Q[3] = R[3] /\ Q[4] = R[4] /\ Q[5] = R[5] /\ Q[6] = R[6]
        /\ Q[12 + l] = R[12 + l] /\ n + 1 = 13 + l
    BY <1>1, <1>2, <1>7
  <2>6. /\ got'.id = d.id /\ got'.seq = d.seq /\ got'.data = d.data /\ got'.none = FALSE
    BY <1>7
  <2>7. \E T : Judged(Q, l, T) /\ got'.data \in T  BY <2>2, <2>3, <2>6
  <2>8. Completed(got', Q, n + 1)
    BY <1>1, <1>7, <2>4, <2>5, <2>6, <2>7 DEF Completed, l
  <2> QED BY <1>7, <2>8
<1> QED BY <1>4, <1>5, <1>6, <1>7 DEF Outcome

----------------------------------------------------------------------------
(* How the check bytes judge a damaged frame *)

\* F are the bytes of the frame of m, whose payload has n bytes.
Carries(F, m, n) == Sendable(m) /\ n = Len(m.data) /\ F = FrameBytes(m)

\* A byte is at most the period of the LFSR: the longest payload can be repaired.
LEMMA ByteFits ==
  \A n \in Byte : n \in Nat /\ n <= Period
BY Ranges DEF Period

Carried(F, m, n) ==
  /\ n \in Byte /\ n \in Nat /\ n <= Period
  /\ Laid(F, m, n) /\ m.data \in Seq(Byte) /\ n = Len(m.data)
  /\ Covers(F, m, n) /\ \E g : Summed(F, n, g)
  /\ F \in Seq(Byte) /\ Len(F) = 13 + n

\* What is known of the bytes of a frame.
LEMMA Carrying ==
  ASSUME NEW m, NEW n, NEW F, Carries(F, m, n)
  PROVE  Carried(F, m, n)
<1>1. Sendable(m) /\ n = Len(m.data) /\ F = FrameBytes(m)  BY DEF Carries
<1>2. /\ n \in Byte /\ Laid(F, m, n) /\ Covers(F, m, n) /\ \E g : Summed(F, n, g)
      /\ F \in Seq(Byte) /\ Len(F) = 13 + n
  <2>1. Framed(F, m, n)  BY <1>1, Layout
  <2> QED BY <2>1 DEF Framed
<1>3. m.data \in Seq(Byte)  BY <1>1 DEF Sendable
<1>4. n \in Nat /\ n <= Period  BY <1>2, ByteFits
<1> QED BY <1>1, <1>2, <1>3, <1>4 DEF Carried

\* Sequences are equal when their elements are.
LEMMA SameSequence ==
  \A s, t \in Seq(Byte) : Len(s) = Len(t) /\ (\A i \in 1 .. Len(s) : s[i] = t[i]) => s = t
OBVIOUS

\* The payload as it was read when its bytes are those of the frame.
LEMMA SamePayload ==
  ASSUME NEW m, NEW n \in Nat, NEW F, Laid(F, m, n), m.data \in Seq(Byte), n = Len(m.data),
         NEW R, NEW data, Prefix(data, R, n), \A i \in 1 .. n : R[7 + i] = F[7 + i]
  PROVE  data = m.data
<1>1. data \in Seq(Byte) /\ Len(data) = n /\ \A i \in 1 .. n : data[i] = R[7 + i]
  BY DEF Prefix
<1>2. \A i \in 1 .. n : F[7 + i] = m.data[i]  BY DEF Laid
<1>3. \A i \in 1 .. Len(data) : data[i] = m.data[i]
  BY <1>1, <1>2
<1> QED BY <1>1, <1>3, SameSequence

\* The CRC of a frame is that of its bytes.
LEMMA SentCrc ==
  ASSUME NEW F, NEW n \in Nat, NEW g, Summed(F, n, g)
  PROVE  F[10 + n] + 256 * F[11 + n] = g[9 + n]
<1>1. 9 + n \in 2 .. 9 + n  OBVIOUS
<1>2. g[9 + n] \in Word  BY <1>1 DEF Summed, CrcRun
<1>3. g[9 + n] = Paired(g[9 + n] \div 256, g[9 + n] % 256)  BY <1>2, WordPaired
<1>4. g[9 + n] \in Int /\ g[9 + n] \div 256 \in Int /\ g[9 + n] % 256 \in Int
  BY <1>2, WordPaired, Ranges
<1> QED BY <1>3, <1>4 DEF Summed, Paired

\* A frame without a wrong byte between START and STOP is judged to be what
\* was sent; wrong header bytes do no harm to a payload.
LEMMA JudgedIntact ==
  ASSUME NEW m, NEW n, NEW F, Carries(F, m, n), NEW R, NEW S, Judged(R, n, S),
         \A i \in Nat : 8 <= i /\ i <= 9 + n => R[i] = F[i]
  PROVE  /\ S = {m.data} \/ (S = {} /\ m.data = <<>>)
         /\ (\A i \in Nat : 3 <= i /\ i <= 11 + n => R[i] = F[i]) => S = {m.data}
<1>0. /\ n \in Byte /\ n \in Nat /\ Laid(F, m, n) /\ m.data \in Seq(Byte) /\ n = Len(m.data)
  BY Carrying DEF Carried
<1>1. PICK g : Summed(F, n, g)  BY Carrying DEF Carried
<1>2. PICK h, data, ecc :
        /\ CrcRun(h, R, 2, 9 + n)
        /\ Prefix(data, R, n)
        /\ ecc \in Byte \X Byte /\ ecc[1] = R[8 + n] /\ ecc[2] = R[9 + n]
        /\ S = IF R[10 + n] + 256 * R[11 + n] = h[9 + n] THEN {data} ELSE Repairs(data, ecc)
  BY Zenon DEF Judged
<1>n. n \in Nat  BY <1>0
<1>e. ecc[1] = R[8 + n] /\ ecc[2] = R[9 + n]  BY <1>2
<1>s. S = IF R[10 + n] + 256 * R[11 + n] = h[9 + n] THEN {data} ELSE Repairs(data, ecc)
  BY <1>2
<1>3. data = m.data
  <2>1. \A i \in 1 .. n : 7 + i \in Nat /\ 8 <= 7 + i /\ 7 + i <= 9 + n  BY <1>0
  <2>2. \A i \in 1 .. n : R[7 + i] = F[7 + i]  BY <2>1
  <2>3. Prefix(data, R, n)  BY <1>2
  <2> QED BY <1>0, <2>2, <2>3, SamePayload, Zenon
<1>4. EccOf(m.data, ecc)
  <2>1. R[8 + n] = F[8 + n] /\ R[9 + n] = F[9 + n]  BY <1>n
  <2>2. F[8 + n] = Encode(m.data)[1] /\ F[9 + n] = Encode(m.data)[2]  BY <1>0 DEF Laid
  <2> QED BY <1>e, <2>1, <2>2 DEF EccOf
<1>5. m.data # <<>> => Repairs(m.data, ecc) = {m.data}
  BY <1>0, <1>4, IntactStays
<1>6. m.data = <<>> => Repairs(m.data, ecc) = {}
  BY DEF Repairs
<1>7. ASSUME \A i \in Nat : 3 <= i /\ i <= 11 + n => R[i] = F[i]
      PROVE  S = {m.data}
  <2>1. h[9 + n] = g[9 + n]
    <3>1. PICK k \in Nat : k = 7 + n  BY <1>0
    <3>2. 9 + n = 2 + k  BY <1>0, <3>1
    <3>4. \A i \in 1 .. k : 2 + i \in Nat /\ 3 <= 2 + i /\ 2 + i <= 11 + n  BY <1>0, <3>1
    <3>5. ASSUME NEW i \in 1 .. k PROVE R[2 + i] = F[2 + i]
      <4>1. PICK j \in Nat : j = 2 + i /\ 3 <= j /\ j <= 11 + n  BY <3>4
      <4> QED BY <1>7, <4>1
    <3>6. Alike(R, 2, F, 2, k)  BY <3>5 DEF Alike
    <3>7. CrcRun(h, R, 2, 9 + n) /\ CrcRun(g, F, 2, 9 + n)  BY <1>1, <1>2 DEF Summed
    <3> QED BY <3>2, <3>6, <3>7, SameCrc
  <2>2. R[10 + n] = F[10 + n] /\ R[11 + n] = F[11 + n]  BY <1>n, <1>7
  <2>3. F[10 + n] + 256 * F[11 + n] = g[9 + n]  BY <1>n, <1>1, SentCrc
  <2> QED BY <1>s, <1>3, <2>1, <2>2, <2>3
<1>8. S = {m.data} \/ S = Repairs(m.data, ecc)  BY <1>s, <1>3
<1>9. S = {m.data} \/ (S = {} /\ m.data = <<>>)
  <2>1. CASE m.data = <<>>  BY <1>6, <1>8, <2>1, Zenon
  <2>2. CASE m.data # <<>>
    <3>1. Repairs(m.data, ecc) = {m.data}  BY <1>5, <2>2, Zenon
    <3>2. S = {m.data}  BY <1>8, <3>1, Zenon
    <3> QED BY <3>2, Zenon
  <2> QED BY <2>1, <2>2, Zenon
<1> QED BY <1>7, <1>9

\* One byte of R is not that of F.
Differ(R, F, k, n) ==
  /\ R[k] # F[k]
  /\ \A i \in Nat : 3 <= i /\ i <= 11 + n /\ i # k => R[i] = F[i]

\* A single wrong byte between LEN and CRC changes the CRC.
LEMMA WrongByteTold ==
  ASSUME NEW n \in Nat, NEW F, NEW g, Summed(F, n, g), NEW R, NEW h, CrcRun(h, R, 2, 9 + n),
         NEW k \in Nat, 3 <= k, k <= 9 + n, Differ(R, F, k, n)
  PROVE  R[10 + n] + 256 * R[11 + n] # h[9 + n]
<1>1. R[k] # F[k] /\ \A i \in Nat : 3 <= i /\ i <= 11 + n /\ i # k => R[i] = F[i]
  BY DEF Differ
<1>2. CrcRun(g, F, 2, 9 + n)  BY DEF Summed
<1>3. PICK u \in Nat : u = 9 + n  OBVIOUS
<1>4. k \in 2 + 1 .. u  BY <1>3
<1>5. \A i \in 2 + 1 .. u : i # k => R[i] = F[i]
  <2>1. \A i \in 2 + 1 .. u : i \in Nat /\ 3 <= i /\ i <= 11 + n  BY <1>3
  <2> QED BY <1>1, <2>1
<1>6. CrcRun(h, R, 2, u) /\ CrcRun(g, F, 2, u)  BY <1>2, <1>3
<1>7. h[u] # g[u]  BY <1>1, <1>4, <1>5, <1>6, OtherCrc
<1>8. R[10 + n] = F[10 + n] /\ R[11 + n] = F[11 + n]  BY <1>1
<1>9. F[10 + n] + 256 * F[11 + n] = g[9 + n]  BY SentCrc
<1> QED BY <1>3, <1>7, <1>8, <1>9

\* One wrong byte of the payload is put right.
LEMMA JudgedOneWrong ==
  ASSUME NEW m, NEW n, NEW F, Carries(F, m, n), NEW R \in [Nat -> Byte], NEW S, Judged(R, n, S),
         NEW k \in Nat, 8 <= k, k <= 7 + n, Differ(R, F, k, n)
  PROVE  S = {m.data}
<1>0. /\ n \in Byte /\ n \in Nat /\ Laid(F, m, n) /\ m.data \in Seq(Byte) /\ n = Len(m.data)
      /\ n <= Period
  BY Carrying DEF Carried
<1>1. PICK g : Summed(F, n, g)  BY Carrying DEF Carried
<1>2. PICK h, data, ecc :
        /\ CrcRun(h, R, 2, 9 + n)
        /\ Prefix(data, R, n)
        /\ ecc \in Byte \X Byte /\ ecc[1] = R[8 + n] /\ ecc[2] = R[9 + n]
        /\ S = IF R[10 + n] + 256 * R[11 + n] = h[9 + n] THEN {data} ELSE Repairs(data, ecc)
  BY Zenon DEF Judged
<1>n. n \in Nat  BY <1>0
<1>d. R[k] # F[k] /\ \A i \in Nat : 3 <= i /\ i <= 11 + n /\ i # k => R[i] = F[i]
  BY DEF Differ
<1>3. S = Repairs(data, ecc)
  <2>1. R[10 + n] + 256 * R[11 + n] # h[9 + n]
    <3>1. 3 <= k /\ k <= 9 + n  BY <1>n
    <3> QED BY <1>n, <1>1, <1>2, <3>1, WrongByteTold
  <2> QED BY <1>2, <2>1
<1>4. EccOf(m.data, ecc)
  <2>1. R[8 + n] = F[8 + n] /\ R[9 + n] = F[9 + n]  BY <1>n, <1>d
  <2>2. F[8 + n] = Encode(m.data)[1] /\ F[9 + n] = Encode(m.data)[2]  BY <1>0 DEF Laid
  <2>3. ecc[1] = R[8 + n] /\ ecc[2] = R[9 + n]  BY <1>2
  <2> QED BY <2>1, <2>2, <2>3 DEF EccOf
<1>5. PICK j : j \in 1 .. n /\ k = 7 + j
  <2>1. k - 7 \in 1 .. n /\ k = 7 + (k - 7)  BY <1>n
  <2> QED BY <2>1
<1>6. /\ m.data[j] \in Byte /\ F[k] = m.data[j] /\ R[k] \in Byte
  BY <1>0, <1>5 DEF Laid
<1> DEFINE e == Xor(R[k], F[k])
<1>7. e \in Byte \ {0} /\ Xor(m.data[j], e) = R[k]
  BY <1>6, <1>d, XorGroup, XorCancels
<1>8. data = Wrong(m.data, j, e)
  <2> HIDE DEF e
  <2>1. data \in Seq(Byte) /\ Len(data) = n /\ \A i \in 1 .. n : data[i] = R[7 + i]
    BY <1>2 DEF Prefix
  <2>2. /\ Wrong(m.data, j, e) \in Seq(Byte) /\ Len(Wrong(m.data, j, e)) = n
        /\ \A i \in 1 .. n : Wrong(m.data, j, e)[i] = IF i = j THEN R[k] ELSE m.data[i]
    <3>1. R[k] \in Byte /\ m.data \in Seq(Byte) /\ n = Len(m.data) /\ j \in 1 .. n
      BY <1>0, <1>5, <1>6
    <3>2. Wrong(m.data, j, e) = [m.data EXCEPT ![j] = R[k]]  BY <1>7 DEF Wrong
    <3> QED BY <3>1, <3>2
  <2>3. \A i \in 1 .. n : F[7 + i] = m.data[i]  BY <1>0 DEF Laid
  <2>4. ASSUME NEW i \in 1 .. n PROVE data[i] = Wrong(m.data, j, e)[i]
    <3>1. CASE i = j  BY <1>5, <2>1, <2>2, <3>1
    <3>2. CASE i # j
      <4>1. PICK p \in Nat : p = 7 + i /\ 3 <= p /\ p <= 11 + n /\ p # k
        BY <1>n, <1>5, <3>2
      <4>2. R[p] = F[p]  BY <1>d, <4>1
      <4> QED BY <2>1, <2>2, <2>3, <3>2, <4>1, <4>2
    <3> QED BY <3>1, <3>2
  <2> QED BY <2>1, <2>2, <2>4, SameSequence
<1> HIDE DEF e
<1>9. Repairs(Wrong(m.data, j, e), ecc) = {m.data}
  <2>1. j \in 1 .. Len(m.data)  BY <1>0, <1>5
  <2>2. Len(m.data) <= Period  BY <1>0
  <2> QED BY <1>0, <1>4, <1>7, <2>1, <2>2, OneWrongByte, Zenon
<1> QED BY <1>3, <1>8, <1>9

\* A wrong ECC byte is not got over.
LEMMA JudgedWrongCheck ==
  ASSUME NEW m, NEW n, NEW F, Carries(F, m, n), NEW R \in [Nat -> Byte], NEW S, Judged(R, n, S),
         NEW k \in Nat, k = 8 + n \/ k = 9 + n, Differ(R, F, k, n)
  PROVE  S = {}
<1>0. /\ n \in Byte /\ n \in Nat /\ Laid(F, m, n) /\ m.data \in Seq(Byte) /\ n = Len(m.data)
  BY Carrying DEF Carried
<1>1. PICK g : Summed(F, n, g)  BY Carrying DEF Carried
<1>2. PICK h, data, ecc :
        /\ CrcRun(h, R, 2, 9 + n)
        /\ Prefix(data, R, n)
        /\ ecc \in Byte \X Byte /\ ecc[1] = R[8 + n] /\ ecc[2] = R[9 + n]
        /\ S = IF R[10 + n] + 256 * R[11 + n] = h[9 + n] THEN {data} ELSE Repairs(data, ecc)
  BY Zenon DEF Judged
<1>n. n \in Nat  BY <1>0
<1>d. R[k] # F[k] /\ \A i \in Nat : 3 <= i /\ i <= 11 + n /\ i # k => R[i] = F[i]
  BY DEF Differ
<1>3. S = Repairs(data, ecc)
  <2>1. R[10 + n] + 256 * R[11 + n] # h[9 + n]
    <3>1. 3 <= k /\ k <= 9 + n  BY <1>n
    <3> QED BY <1>n, <1>1, <1>2, <3>1, WrongByteTold
  <2> QED BY <1>2, <2>1
<1>4. data = m.data
  <2>1. ASSUME NEW i \in 1 .. n PROVE R[7 + i] = F[7 + i]
    <3>1. PICK p \in Nat : p = 7 + i /\ 3 <= p /\ p <= 11 + n /\ p # k  BY <1>n
    <3> QED BY <1>d, <3>1
  <2>2. Prefix(data, R, n)  BY <1>2
  <2>3. \A i \in 1 .. n : R[7 + i] = F[7 + i]  BY <2>1
  <2> QED BY <1>0, <2>2, <2>3, SamePayload, Zenon
<1>5. (ecc[1] = Encode(m.data)[1]) # (ecc[2] = Encode(m.data)[2])
  <2>1. F[8 + n] = Encode(m.data)[1] /\ F[9 + n] = Encode(m.data)[2]  BY <1>0 DEF Laid
  <2>2. ecc[1] = R[8 + n] /\ ecc[2] = R[9 + n]  BY <1>2
  <2>3. 8 + n \in Nat /\ 9 + n \in Nat /\ 8 + n # 9 + n /\ 3 <= 8 + n /\ 8 + n <= 11 + n
        /\ 3 <= 9 + n /\ 9 + n <= 11 + n
    BY <1>n
  <2>4. (R[8 + n] = F[8 + n]) # (R[9 + n] = F[9 + n])  BY <1>d, <2>3
  <2> QED BY <2>1, <2>2, <2>4
<1>6. ecc[1] \in Byte /\ ecc[2] \in Byte  BY <1>2, Pairs
<1>7. Repairs(m.data, ecc) = {}  BY <1>0, <1>5, <1>6, WrongCheckFails
<1> QED BY <1>3, <1>4, <1>7

----------------------------------------------------------------------------
(* How they judge a frame that lost a byte *)

\* A sequence without one of its elements.
Removed(r, s, k, n) ==
  /\ r \in Seq(Byte) /\ Len(r) = n
  /\ \A i \in 1 .. n : r[i] = IF i < k THEN s[i] ELSE s[i + 1]

\* What RemoveAt leaves.
LEMMA Without ==
  ASSUME NEW s \in Seq(Byte), NEW k \in 1 .. Len(s), NEW r, r = RemoveAt(s, k),
         NEW n \in Nat, Len(s) = n + 1
  PROVE  Removed(r, s, k, n)
<1>a. SUFFICES ASSUME TRUE PROVE /\ r \in Seq(Byte) /\ Len(r) = n
         /\ \A i \in 1 .. n : r[i] = IF i < k THEN s[i] ELSE s[i + 1]
  BY DEF Removed
<1>1. r = SubSeq(s, 1, k - 1) \o SubSeq(s, k + 1, Len(s))
  BY DEF RemoveAt
<1> DEFINE a == SubSeq(s, 1, k - 1)
           b == SubSeq(s, k + 1, Len(s))
<1>2. a \in Seq(Byte) /\ Len(a) = k - 1 /\ \A i \in 1 .. k - 1 : a[i] = s[i]
  OBVIOUS
<1>3. b \in Seq(Byte) /\ Len(b) = Len(s) - k /\ \A i \in 1 .. Len(s) - k : b[i] = s[k + i]
  OBVIOUS
<1>4. r \in Seq(Byte) /\ Joins(r, a, Len(a), b, Len(b))
  BY <1>1, <1>2, <1>3, Joining
<1> HIDE DEF a, b
<1>5. Joins(r, a, k - 1, b, Len(s) - k)  BY <1>2, <1>3, <1>4
<1>6. /\ Len(r) = (k - 1) + (Len(s) - k)
      /\ \A i \in 1 .. k - 1 : r[i] = a[i]
      /\ \A i \in 1 .. Len(s) - k : r[(k - 1) + i] = b[i]
  BY <1>5 DEF Joins
<1>7. k \in Nat /\ k >= 1 /\ k <= n + 1  OBVIOUS
<1>8. Len(r) = n  BY <1>6, <1>7
<1>9. ASSUME NEW i \in 1 .. n PROVE r[i] = IF i < k THEN s[i] ELSE s[i + 1]
  <2>1. CASE i < k
    <3>1. i \in 1 .. k - 1  BY <1>7, <2>1
    <3> QED BY <1>2, <1>6, <2>1, <3>1
  <2>2. CASE ~(i < k)
    <3>1. PICK j \in Nat : j = i - (k - 1)  BY <1>7, <2>2
    <3>2. j \in 1 .. (n + 1) - k /\ (k - 1) + j = i /\ k + j = i + 1  BY <1>7, <2>2, <3>1
    <3>3. j \in 1 .. Len(s) - k  BY <3>2
    <3>4. r[(k - 1) + j] = b[j] /\ b[j] = s[k + j]  BY <1>3, <1>6, <3>3
    <3> QED BY <2>2, <3>2, <3>4
  <2> QED BY <2>1, <2>2
<1> QED BY <1>4, <1>8, <1>9

\* The CRC of a frame is that of the bytes it covers.
LEMMA CoveredCrc ==
  ASSUME NEW m, NEW n, NEW F, Carries(F, m, n)
  PROVE  F[10 + n] + 256 * F[11 + n] = CrcOf(Covered(m))
<1>1. n \in Nat  BY Carrying DEF Carried
<1>2. PICK g : Summed(F, n, g)  BY Carrying DEF Carried
<1>3. Sendable(m) /\ n = Len(m.data) /\ F = FrameBytes(m)  BY DEF Carries
<1>4. CoveredIs(Covered(m), m, n)  BY <1>3, CoveredBytes
<1>5. Covered(m) \in Seq(Byte) /\ Len(Covered(m)) = n + 7  BY <1>4 DEF CoveredIs
<1>6. PICK h : CrcRun(h, Covered(m), 0, n + 7) /\ CrcOf(Covered(m)) = h[n + 7]
  BY <1>5, CrcRunning
<1>7. PICK k \in Nat : k = n + 7  BY <1>1
<1>8. Alike(F, 2, Covered(m), 0, k)
  <2>1. \A i \in 1 .. n + 7 : F[2 + i] = Covered(m)[i]
    <3>1. Covers(F, m, n)  BY Carrying DEF Carried
    <3> QED BY <3>1 DEF Covers
  <2> QED BY <1>7, <2>1 DEF Alike
<1>9. 9 + n = 2 + k /\ n + 7 = 0 + k  BY <1>1, <1>7
<1>10. CrcRun(g, F, 2, 9 + n)  BY <1>2 DEF Summed
<1>11. g[9 + n] = h[n + 7]  BY <1>6, <1>8, <1>9, <1>10, SameCrc
<1> QED BY <1>1, <1>2, <1>6, <1>11, SentCrc

\* R is F without its q-th byte.
Short(R, F, q, n) ==
  /\ \A i \in Nat : 1 <= i /\ i <= n /\ i < q => R[i] = F[i]
  /\ \A i \in Nat : q <= i /\ i <= n => R[i] = F[i + 1]

\* A frame that lost a byte of its header, and whose payload is taken to be one
\* byte shorter, is told by its CRC and cannot be repaired.
LEMMA JudgedShort ==
  ASSUME NEW m, NEW n, NEW F, Carries(F, m, n), Told(m), NEW R \in [Nat -> Byte],
         NEW l \in Nat, n = l + 1, R[7] = l, NEW q \in 3 .. 7, Short(R, F, q, 11 + l),
         NEW S, Judged(R, l, S)
  PROVE  S = {}
<1>0. /\ n \in Byte /\ Laid(F, m, n) /\ m.data \in Seq(Byte) /\ n = Len(m.data)
      /\ n <= Period
  BY Carrying DEF Carried
<1>1. Sendable(m) /\ F = FrameBytes(m)  BY DEF Carries
<1>2. PICK h, data, ecc :
        /\ CrcRun(h, R, 2, 9 + l)
        /\ Prefix(data, R, l)
        /\ ecc \in Byte \X Byte /\ ecc[1] = R[8 + l] /\ ecc[2] = R[9 + l]
        /\ S = IF R[10 + l] + 256 * R[11 + l] = h[9 + l] THEN {data} ELSE Repairs(data, ecc)
  BY Zenon DEF Judged
<1>3. /\ \A i \in Nat : 1 <= i /\ i <= 11 + l /\ i < q => R[i] = F[i]
      /\ \A i \in Nat : q <= i /\ i <= 11 + l => R[i] = F[i + 1]
  BY DEF Short
<1>4. /\ R[8 + l] = F[8 + n] /\ R[9 + l] = F[9 + n]
      /\ R[10 + l] = F[10 + n] /\ R[11 + l] = F[11 + n]
  <2>1. /\ 8 + l \in Nat /\ q <= 8 + l /\ (8 + l) + 1 = 8 + n
        /\ 9 + l \in Nat /\ q <= 9 + l /\ (9 + l) + 1 = 9 + n
        /\ 10 + l \in Nat /\ q <= 10 + l /\ (10 + l) + 1 = 10 + n
        /\ 11 + l \in Nat /\ q <= 11 + l /\ (11 + l) + 1 = 11 + n
        /\ 8 + l <= 11 + l /\ 9 + l <= 11 + l /\ 10 + l <= 11 + l /\ 11 + l <= 11 + l
    OBVIOUS
  <2> QED BY <1>3, <2>1
<1>5. R[10 + l] + 256 * R[11 + l] # h[9 + l]
  <2> DEFINE c == Covered(m)
             r == RemoveAt(c, q - 2)
  <2>1. c \in Seq(Byte) /\ Len(c) = n + 7
    <3>1. CoveredIs(c, m, n)  BY <1>0, <1>1, CoveredBytes
    <3> QED BY <3>1 DEF CoveredIs
  <2>2. PICK k \in Nat : k = n + 6  OBVIOUS
  <2>3. PICK p \in 1 .. 5 : p = q - 2
    <3>1. q - 2 \in 1 .. 5  OBVIOUS
    <3> QED BY <3>1
  <2>4. /\ r \in Seq(Byte) /\ Len(r) = k
        /\ \A i \in 1 .. k : r[i] = IF i < p THEN c[i] ELSE c[i + 1]
    <3>1. p \in 1 .. Len(c) /\ Len(c) = k + 1 /\ r = RemoveAt(c, p)
      BY <2>1, <2>2, <2>3
    <3> HIDE DEF c, r
    <3>2. Removed(r, c, p, k)  BY <2>1, <2>2, <3>1, Without
    <3> QED BY <3>2 DEF Removed
  <2>5. CrcOf(r) # CrcOf(c)
    BY <2>3 DEF Told
  <2>6. \A i \in 1 .. n + 7 : F[2 + i] = c[i]
    <3>1. Covers(F, m, n)  BY Carrying DEF Carried
    <3> QED BY <3>1 DEF Covers, c
  <2> HIDE DEF c, r
  <2>7. PICK g : CrcRun(g, r, 0, k) /\ CrcOf(r) = g[k]
    BY <2>4, CrcRunning
  <2>8. ASSUME NEW i \in 1 .. k PROVE R[2 + i] = r[i]
    <3>0. PICK j \in Nat : j = 2 + i  OBVIOUS
    <3>1. 1 <= j /\ j <= 11 + l  BY <2>2, <3>0
    <3>2. CASE i < p
      <4>1. i \in 1 .. n + 7 /\ j < q  BY <2>2, <2>3, <3>0, <3>2
      <4>2. R[j] = F[j]  BY <1>3, <3>1, <4>1
      <4>3. F[j] = c[i]  BY <2>6, <3>0, <4>1
      <4>4. r[i] = c[i]  BY <2>4, <3>2
      <4> QED BY <3>0, <4>2, <4>3, <4>4
    <3>3. CASE ~(i < p)
      <4>1. PICK u \in 1 .. n + 7 : u = i + 1  BY <2>2
      <4>2. q <= j /\ j + 1 = 2 + u  BY <2>3, <3>0, <3>3, <4>1
      <4>3. R[j] = F[j + 1]  BY <1>3, <3>1, <4>2
      <4>4. F[2 + u] = c[u]  BY <2>6
      <4>5. r[i] = c[i + 1]  BY <2>4, <3>3
      <4> QED BY <3>0, <4>1, <4>2, <4>3, <4>4, <4>5
    <3> QED BY <3>2, <3>3
  <2>9. h[9 + l] = g[k]
    <3>1. Alike(R, 2, r, 0, k)
      <4>1. \A i \in 1 .. k : 0 + i = i  BY <2>2
      <4> QED BY <2>8, <4>1 DEF Alike
    <3>2. 9 + l = 2 + k /\ k = 0 + k  BY <2>2
    <3> QED BY <1>2, <2>7, <3>1, <3>2, SameCrc
  <2>10. F[10 + n] + 256 * F[11 + n] = CrcOf(c)  BY CoveredCrc DEF c
  <2> QED BY <1>4, <2>5, <2>7, <2>9, <2>10
<1>6. S = Repairs(data, ecc)  BY <1>2, <1>5
<1>7. EccOf(m.data, ecc)
  <2>1. F[8 + n] = Encode(m.data)[1] /\ F[9 + n] = Encode(m.data)[2]  BY <1>0 DEF Laid
  <2>2. ecc[1] = R[8 + l] /\ ecc[2] = R[9 + l]  BY <1>2
  <2> QED BY <1>4, <2>1, <2>2 DEF EccOf
<1>8. \A i \in 1 .. n : F[7 + i] = m.data[i]  BY <1>0 DEF Laid
<1>9. m.data # <<>> /\ m.data[1] = l
  <2>1. m.data # <<>>  BY <1>0
  <2>2. F[8] = m.data[1]
    <3>1. 1 \in 1 .. n /\ 7 + 1 = 8  OBVIOUS
    <3> QED BY <1>8, <3>1
  <2>3. R[7] = F[8]
    <3>1. q <= 7 /\ 7 <= 11 + l /\ 7 + 1 = 8  OBVIOUS
    <3> QED BY <1>3, <3>1
  <2> QED BY <2>1, <2>2, <2>3
<1>10. data = Tail(m.data)
  <2>1. data \in Seq(Byte) /\ Len(data) = l /\ \A i \in 1 .. l : data[i] = R[7 + i]
    BY <1>2 DEF Prefix
  <2>2. /\ Tail(m.data) \in Seq(Byte) /\ Len(Tail(m.data)) = l
        /\ \A i \in 1 .. l : Tail(m.data)[i] = m.data[i + 1]
    BY <1>0, <1>9
  <2>3. ASSUME NEW i \in 1 .. l PROVE data[i] = Tail(m.data)[i]
    <3>1. PICK j \in Nat : j = 7 + i  OBVIOUS
    <3>2. q <= j /\ j <= 11 + l /\ j + 1 = 7 + (i + 1) /\ i + 1 \in 1 .. n  BY <3>1
    <3>3. R[j] = F[j + 1]  BY <1>3, <3>2
    <3>4. F[7 + (i + 1)] = m.data[i + 1]  BY <1>8, <3>2
    <3> QED BY <2>1, <2>2, <3>1, <3>2, <3>3, <3>4
  <2> QED BY <2>1, <2>2, <2>3, SameSequence
<1>11. Len(m.data) = 1 \/ m.data[1] # 0
  <2>1. n = 1 \/ l # 0  OBVIOUS
  <2> QED BY <1>0, <1>9, <2>1
<1>12. Repairs(Tail(m.data), ecc) = {}
  BY <1>0, <1>7, <1>9, <1>11, TailFails
<1> QED BY <1>6, <1>10, <1>12

----------------------------------------------------------------------------
(* What a damaged frame comes to *)

Special(n) == {1, 2, 3, 7, 8 + n, 9 + n}
Payload(n) == 8 .. 7 + n

Mild(hits, losses, n) ==
  /\ losses = {} /\ hits \cap Special(n) = {}
  /\ AtMostOne(hits \cap Payload(n))
  /\ hits \cap Payload(n) # {} => hits \subseteq Payload(n)

Rare(m, hits, losses, n) ==
  /\ Plain(m)
  /\ \/ losses = {} /\ \E p \in Special(n) : hits = {p}
     \/ hits = {} /\ Told(m) /\ \E q : losses = {q}

\* The first k bytes of the frame have arrived, the damaged ones changed.
Damaged(R, F, k, hits) == \A i \in 1 .. k : i \in hits <=> R[i] # F[i]

\* The synchronisation bytes differ where the decoder looks.
LEMMA SyncBytes ==
  /\ START1 \div 16 = 12 /\ START2 \div 16 # 12 /\ TM \div 16 # 12
  /\ TM # START2 /\ STOP1 # START2
BY DEF START1, START2, TM, STOP1

\* The fixed bytes of a frame.
LEMMA FrameParts ==
  ASSUME NEW m, NEW n, NEW F, Carries(F, m, n)
  PROVE  /\ n \in Nat /\ F[1] = START1 /\ F[2] = START2 /\ F[3] = TM /\ F[7] = n
         /\ F[12 + n] = STOP1 /\ F[13 + n] = STOP2
         /\ F[4] + 256 * F[5] = m.id /\ F[6] = m.seq
<1>1. Laid(F, m, n) /\ n \in Nat  BY Carrying DEF Carried
<1>2. m.id \in Word  BY DEF Carries, Sendable
<1>3. m.id = Paired(m.id \div 256, m.id % 256) /\ m.id \div 256 \in Int /\ m.id % 256 \in Int
  BY <1>2, WordPaired, Ranges
<1>4. F[4] = m.id % 256 /\ F[5] = m.id \div 256  BY <1>1 DEF Laid
<1>5. F[4] + 256 * F[5] = m.id  BY <1>3, <1>4 DEF Paired
<1> QED BY <1>1, <1>5 DEF Laid

\* What the check bytes make of a frame with mild damage.
LEMMA JudgedMild ==
  ASSUME NEW m, NEW n, NEW F, Carries(F, m, n), NEW R \in [Nat -> Byte], NEW k \in Nat,
         k >= 11 + n, NEW hits, Mild(hits, {}, n), Damaged(R, F, k, hits),
         NEW S, Judged(R, n, S)
  PROVE  S = {m.data} \/ (S = {} /\ m.data = <<>> /\ hits # {})
<1>1. n \in Nat  BY FrameParts
<1>2. /\ hits \cap Special(n) = {} /\ AtMostOne(hits \cap Payload(n))
      /\ hits \cap Payload(n) # {} => hits \subseteq Payload(n)
  BY DEF Mild
<1>3. \A i \in 1 .. k : i \in hits <=> R[i] # F[i]  BY DEF Damaged
<1>4. \A i \in Nat : 1 <= i /\ i <= 11 + n /\ i \notin hits => R[i] = F[i]
  <2>1. \A i \in Nat : 1 <= i /\ i <= 11 + n => i \in 1 .. k  BY <1>1
  <2> QED BY <1>3, <2>1
<1>5. CASE hits \cap Payload(n) = {}
  <2>1. ASSUME NEW i \in Nat, 8 <= i, i <= 9 + n PROVE R[i] = F[i]
    <3>1. i \in Payload(n) \/ i \in Special(n)  BY <1>1, <2>1 DEF Payload, Special
    <3> QED BY <1>1, <1>2, <1>4, <1>5, <2>1, <3>1
  <2>2. /\ S = {m.data} \/ (S = {} /\ m.data = <<>>)
        /\ (\A i \in Nat : 3 <= i /\ i <= 11 + n => R[i] = F[i]) => S = {m.data}
    BY <2>1, JudgedIntact
  <2>3. hits = {} => \A i \in Nat : 3 <= i /\ i <= 11 + n => R[i] = F[i]
    BY <1>4
  <2> QED BY <2>2, <2>3
<1>6. CASE hits \cap Payload(n) # {}
  <2>1. PICK j \in Payload(n) : hits = {j}
    BY <1>2, <1>6 DEF AtMostOne
  <2>2. j \in Nat /\ 8 <= j /\ j <= 7 + n /\ j \in 1 .. k  BY <1>1, <2>1 DEF Payload
  <2>3. Differ(R, F, j, n)
    <3>1. R[j] # F[j]  BY <1>3, <2>1, <2>2
    <3>2. \A i \in Nat : 3 <= i /\ i <= 11 + n /\ i # j => R[i] = F[i]
      BY <1>4, <2>1
    <3> QED BY <3>1, <3>2 DEF Differ
  <2> QED BY <2>2, <2>3, JudgedOneWrong
<1> QED BY <1>5, <1>6

\* Mild damage drops a frame only at its end.
LEMMA MildRefused ==
  ASSUME NEW m, NEW n, NEW F, Carries(F, m, n), NEW R \in [Nat -> Byte], NEW k \in Nat,
         NEW hits, Mild(hits, {}, n), Damaged(R, F, k, hits), Refused(R, k)
  PROVE  /\ k >= 11 + n
         /\ hits \cap {12 + n, 13 + n} # {} \/ (m.data = <<>> /\ hits # {})
<1>1. /\ n \in Nat /\ F[1] = START1 /\ F[2] = START2 /\ F[3] = TM /\ F[7] = n
      /\ F[12 + n] = STOP1 /\ F[13 + n] = STOP2
  BY FrameParts
<1>2. 1 \notin hits /\ 2 \notin hits /\ 3 \notin hits /\ 7 \notin hits  BY DEF Mild, Special
<1>3. \A i \in 1 .. k : i \in hits <=> R[i] # F[i]  BY DEF Damaged
<1>4. R[7] \in Nat  BY Ranges
<1>5. CASE k <= 3
  <2>1. k >= 1 => R[1] = F[1]  BY <1>2, <1>3
  <2>2. k >= 2 => R[2] = F[2]  BY <1>2, <1>3
  <2>3. k >= 3 => R[3] = F[3]  BY <1>2, <1>3
  <2>4. (k = 1 /\ R[1] \div 16 # 12) \/ (k = 2 /\ R[2] # START2) \/ (k = 3 /\ R[3] # TM)
    BY <1>4, <1>5 DEF Refused
  <2>5. ~(k = 1 /\ R[1] \div 16 # 12)  BY <1>1, <2>1, SyncBytes
  <2>6. ~(k = 2 /\ R[2] # START2)  BY <1>1, <2>2
  <2>7. ~(k = 3 /\ R[3] # TM)  BY <1>1, <2>3
  <2> QED BY <2>4, <2>5, <2>6, <2>7
<1>6. CASE k > 3
  <2>1. k >= 11 + R[7]  BY <1>4, <1>6 DEF Refused
  <2>2. R[7] = n
    <3>1. 7 \in 1 .. k  BY <1>4, <2>1
    <3> QED BY <1>1, <1>2, <1>3, <3>1
  <2>3. CASE k = 11 + n /\ Judged(R, n, {})
    <3>1. k >= 11 + n  BY <1>1, <2>3
    <3>2. \A S : Judged(R, n, S) => S = {m.data} \/ (S = {} /\ m.data = <<>> /\ hits # {})
      BY <3>1, JudgedMild
    <3>3. m.data = <<>> /\ hits # {}  BY <2>3, <3>2
    <3> QED BY <3>1, <3>3
  <2>4. CASE k = 12 + n /\ R[12 + n] # STOP1
    <3>1. 12 + n \in 1 .. k /\ k >= 11 + n  BY <1>1, <2>4
    <3>2. 12 + n \in hits  BY <1>1, <1>3, <2>4, <3>1
    <3> QED BY <3>1, <3>2
  <2>5. CASE k = 13 + n /\ R[13 + n] # STOP2
    <3>1. 13 + n \in 1 .. k /\ k >= 11 + n  BY <1>1, <2>5
    <3>2. 13 + n \in hits  BY <1>1, <1>3, <2>5, <3>1
    <3> QED BY <3>1, <3>2
  <2>6. k # 1 /\ k # 2 /\ k # 3  BY <1>6
  <2> QED BY <2>2, <2>3, <2>4, <2>5, <2>6 DEF Refused
<1> QED BY <1>5, <1>6

\* What the frame handed over has in common with the one sent.
Same(g, m, hits) ==
  /\ g.data = m.data /\ g.none = FALSE
  /\ g.id = m.id \/ hits \cap {4, 5} # {}
  /\ g.seq = m.seq \/ 6 \in hits

\* Mild damage is got over, or was in the ID and SEQ.
LEMMA MildCompleted ==
  ASSUME NEW m, NEW n, NEW F, Carries(F, m, n), NEW R \in [Nat -> Byte], NEW k \in Nat,
         NEW hits, Mild(hits, {}, n), Damaged(R, F, k, hits), NEW g, Completed(g, R, k)
  PROVE  k = 13 + n /\ Same(g, m, hits)
<1>1. /\ n \in Nat /\ F[7] = n /\ F[4] + 256 * F[5] = m.id /\ F[6] = m.seq
  BY FrameParts
<1>2. 7 \notin hits  BY DEF Mild, Special
<1>3. \A i \in 1 .. k : i \in hits <=> R[i] # F[i]  BY DEF Damaged
<1>4. R[7] \in Nat  BY Ranges
<1>5. /\ k = 13 + R[7] /\ g.id = R[4] + 256 * R[5] /\ g.seq = R[6] /\ g.none = FALSE
      /\ \E S : Judged(R, R[7], S) /\ g.data \in S
  BY DEF Completed
<1>6. /\ 4 \in 1 .. k /\ 5 \in 1 .. k /\ 6 \in 1 .. k /\ 7 \in 1 .. k  BY <1>4, <1>5
<1>7. R[7] = n  BY <1>1, <1>2, <1>3, <1>6
<1>8. k = 13 + n /\ k >= 11 + n  BY <1>1, <1>5, <1>7
<1>9. g.data = m.data
  <2>1. PICK S : Judged(R, n, S) /\ g.data \in S  BY <1>5, <1>7
  <2>2. S = {m.data} \/ (S = {} /\ m.data = <<>> /\ hits # {})
    BY <1>8, <2>1, JudgedMild
  <2> QED BY <2>1, <2>2, Zenon
<1>10. g.id = m.id \/ hits \cap {4, 5} # {}
  <2>1. CASE 4 \notin hits /\ 5 \notin hits  BY <1>1, <1>3, <1>5, <1>6, <2>1
  <2>2. CASE 4 \in hits \/ 5 \in hits  BY <2>2
  <2> QED BY <2>1, <2>2
<1>11. g.seq = m.seq \/ 6 \in hits  BY <1>1, <1>3, <1>5, <1>6
<1> QED BY <1>5, <1>8, <1>9, <1>10, <1>11 DEF Same

\* Two neighbours.
LEMMA TwoOf ==
  ASSUME NEW S, NEW s \in Seq(S), NEW k \in Nat, 1 <= k, k + 1 <= Len(s)
  PROVE  SubSeq(s, k, k + 1) = <<s[k], s[k + 1]>>
<1>1. k \in 1 .. Len(s) + 1 /\ k + 1 \in 0 .. Len(s) /\ k + 1 - k + 1 = 2  OBVIOUS
<1>2. Len(SubSeq(s, k, k + 1)) = 2  BY <1>1
<1>3. SubSeq(s, k, k + 1)[1] = s[k]
  <2>1. k + 1 - 1 = k /\ 1 \in 1 .. k + 1 - k + 1  OBVIOUS
  <2> QED BY <1>1, <2>1
<1>4. SubSeq(s, k, k + 1)[2] = s[k + 1]
  <2>1. k + 2 - 1 = k + 1 /\ 2 \in 1 .. k + 1 - k + 1  OBVIOUS
  <2> QED BY <1>1, <2>1
<1>5. SubSeq(s, k, k + 1) \in Seq(S)  BY <1>1
<1>6. PICK q \in Seq(S) : q = SubSeq(s, k, k + 1)  BY <1>5
<1>7. Len(q) = 2 /\ q[1] = s[k] /\ q[2] = s[k + 1]  BY <1>2, <1>3, <1>4, <1>6
<1>8. s[k] \in S /\ s[k + 1] \in S  BY <1>1
<1>9. q = <<s[k], s[k + 1]>>  BY <1>7, <1>8
<1> QED BY <1>6, <1>9

\* Two bytes of a frame that look like the end or the beginning of one.
LEMMA PlainPairs ==
  ASSUME NEW m, NEW n, NEW F, Carries(F, m, n), Plain(m), NEW k \in Nat, 3 <= k, k <= n + 11
  PROVE  ~(F[k] = STOP1 /\ F[k + 1] = STOP2) /\ ~(F[k] = START2 /\ F[k + 1] = TM)
<1>1. /\ n \in Nat /\ F \in Seq(Byte) /\ Len(F) = 13 + n  BY Carrying DEF Carried
<1>2. n = Len(m.data) /\ F = FrameBytes(m)  BY DEF Carries
<1>3. SubSeq(F, k, k + 1) = <<F[k], F[k + 1]>>
  <2>1. 1 <= k /\ k + 1 <= Len(F)  BY <1>1
  <2> QED BY <1>1, <2>1, TwoOf
<1>4. k \in 3 .. Len(m.data) + 11  BY <1>1, <1>2
<1>5. SubSeq(F, k, k + 1) # <<START2, TM>> /\ SubSeq(F, k, k + 1) # <<STOP1, STOP2>>
  BY <1>2, <1>4 DEF Plain
<1> QED BY <1>3, <1>5

\* One damaged byte outside the ID, the SEQ, the payload and the CRC: only a
\* frame whose START1 is another version's is handed over, as it was sent.
LEMMA HitCompleted ==
  ASSUME NEW m, NEW n, NEW F, Carries(F, m, n), Plain(m), NEW R \in [Nat -> Byte],
         NEW k \in Nat, k <= 13 + n, NEW p \in Special(n), Damaged(R, F, k, {p}),
         NEW g, Completed(g, R, k)
  PROVE  p = 1 /\ k = 13 + n /\ Same(g, m, {})
<1>1. /\ n \in Nat /\ F[1] = START1 /\ F[2] = START2 /\ F[3] = TM /\ F[7] = n
      /\ F[4] + 256 * F[5] = m.id /\ F[6] = m.seq
  BY FrameParts
<1>2. \A i \in 1 .. k : i = p <=> R[i] # F[i]  BY DEF Damaged
<1>3. R[7] \in Nat  BY Ranges
<1>4. /\ k = 13 + R[7] /\ R[2] = START2 /\ R[3] = TM
      /\ R[12 + R[7]] = STOP1 /\ R[13 + R[7]] = STOP2
      /\ g.id = R[4] + 256 * R[5] /\ g.seq = R[6] /\ g.none = FALSE
      /\ \E S : Judged(R, R[7], S) /\ g.data \in S
  BY DEF Completed
<1>5. /\ 1 \in 1 .. k /\ 2 \in 1 .. k /\ 3 \in 1 .. k /\ 4 \in 1 .. k /\ 5 \in 1 .. k
      /\ 6 \in 1 .. k /\ 7 \in 1 .. k
  BY <1>3, <1>4
<1>6. p # 2 /\ p # 3  BY <1>1, <1>2, <1>4, <1>5
<1>7. p # 7
  <2> SUFFICES ASSUME p = 7 PROVE FALSE  OBVIOUS
  <2>1. R[7] < n  BY <1>1, <1>2, <1>3, <1>4, <1>5
  <2>2. PICK j \in Nat : j = 12 + R[7]  BY <1>3
  <2>3. /\ j \in 1 .. k /\ j + 1 \in 1 .. k /\ j # 7 /\ j + 1 # 7 /\ 3 <= j /\ j <= n + 11
        /\ j + 1 = 13 + R[7]
    BY <1>1, <1>3, <1>4, <2>1, <2>2
  <2>4. F[j] = STOP1 /\ F[j + 1] = STOP2  BY <1>2, <1>4, <2>2, <2>3
  <2> QED BY <2>3, <2>4, PlainPairs
<1>8. R[7] = n /\ k = 13 + n  BY <1>1, <1>2, <1>4, <1>5, <1>7
<1>9. \A i \in Nat : 1 <= i /\ i <= 13 + n /\ i # p => R[i] = F[i]
  <2>1. \A i \in Nat : 1 <= i /\ i <= 13 + n => i \in 1 .. k  BY <1>1, <1>8
  <2> QED BY <1>2, <2>1
<1>10. PICK S : Judged(R, n, S) /\ g.data \in S  BY <1>4, <1>8
<1>11. p # 8 + n /\ p # 9 + n
  <2> SUFFICES ASSUME p = 8 + n \/ p = 9 + n PROVE FALSE  OBVIOUS
  <2>1. p \in Nat /\ p \in 1 .. k  BY <1>1, <1>8
  <2>2. Differ(R, F, p, n)
    <3>1. R[p] # F[p]  BY <1>2, <2>1
    <3>2. \A i \in Nat : 3 <= i /\ i <= 11 + n /\ i # p => R[i] = F[i]  BY <1>1, <1>9
    <3> QED BY <3>1, <3>2 DEF Differ
  <2>3. S = {}  BY <1>10, <2>1, <2>2, JudgedWrongCheck
  <2> QED BY <1>10, <2>3
<1>12. p = 1  BY <1>6, <1>7, <1>11 DEF Special
<1>13. S = {m.data}
  <2>1. \A i \in Nat : 8 <= i /\ i <= 9 + n => R[i] = F[i]  BY <1>1, <1>9, <1>12
  <2>2. \A i \in Nat : 3 <= i /\ i <= 11 + n => R[i] = F[i]  BY <1>1, <1>9, <1>12
  <2> QED BY <1>10, <2>1, <2>2, JudgedIntact
<1>14. R[4] = F[4] /\ R[5] = F[5] /\ R[6] = F[6]  BY <1>2, <1>5, <1>12
<1>15. g.data = m.data /\ g.id = m.id /\ g.seq = m.seq
  BY <1>1, <1>4, <1>10, <1>13, <1>14
<1> QED BY <1>4, <1>8, <1>12, <1>15 DEF Same

\* A frame that lost one byte is not handed over.
LEMMA ShortNotCompleted ==
  ASSUME NEW m, NEW n, NEW F, Carries(F, m, n), Plain(m), Told(m), NEW R \in [Nat -> Byte],
         NEW k \in Nat, k <= 12 + n, NEW q \in Nat, 1 <= q, Short(R, F, q, k),
         NEW g, Completed(g, R, k)
  PROVE  FALSE
<1>1. /\ n \in Nat /\ F[1] = START1 /\ F[2] = START2 /\ F[3] = TM /\ F[7] = n
  BY FrameParts
<1>2. /\ \A i \in Nat : 1 <= i /\ i <= k /\ i < q => R[i] = F[i]
      /\ \A i \in Nat : q <= i /\ i <= k => R[i] = F[i + 1]
  BY DEF Short
<1>3. PICK l \in Nat : l = R[7]  BY Ranges
<1>4. /\ k = 13 + l /\ R[1] \div 16 = 12 /\ R[2] = START2 /\ R[3] = TM
      /\ R[12 + l] = STOP1 /\ R[13 + l] = STOP2
      /\ \E S : Judged(R, l, S) /\ g.data \in S
  BY <1>3 DEF Completed
<1>5. k >= 13 /\ l <= n - 1  BY <1>1, <1>4
<1>6. q # 1
  <2> SUFFICES ASSUME q = 1 PROVE FALSE  OBVIOUS
  <2>1. R[1] = F[2]
    <3>1. q <= 1 /\ 1 <= k /\ 1 + 1 = 2  BY <1>5
    <3> QED BY <1>2, <3>1
  <2> QED BY <1>1, <1>4, <2>1, SyncBytes
<1>7. q # 2
  <2> SUFFICES ASSUME q = 2 PROVE FALSE  OBVIOUS
  <2>1. R[2] = F[3]
    <3>1. q <= 2 /\ 2 <= k /\ 2 + 1 = 3  BY <1>5
    <3> QED BY <1>2, <3>1
  <2> QED BY <1>1, <1>4, <2>1, SyncBytes
<1>8. q <= 7
  <2> SUFFICES ASSUME 7 < q PROVE FALSE  OBVIOUS
  <2>1. R[7] = F[7]  BY <1>2, <1>5
  <2> QED BY <1>1, <1>3, <1>5, <2>1
<1>9. q \in 3 .. 7  BY <1>6, <1>7, <1>8
<1>10. CASE l < n - 1
  <2>1. PICK j \in Nat : j = 13 + l  OBVIOUS
  <2>2. 3 <= j /\ j <= n + 11  BY <1>1, <1>10, <2>1
  <2>3. /\ 12 + l \in Nat /\ q <= 12 + l /\ 12 + l <= k /\ (12 + l) + 1 = j
        /\ q <= j /\ j <= k
    BY <1>4, <1>9, <2>1
  <2>4. F[j] = STOP1 /\ F[j + 1] = STOP2  BY <1>2, <1>4, <2>1, <2>3
  <2> QED BY <2>2, <2>4, PlainPairs
<1>11. CASE l = n - 1
  <2>1. n = l + 1  BY <1>1, <1>11
  <2>2. Short(R, F, q, 11 + l)
    <3>1. \A i \in Nat : i <= 11 + l => i <= k  BY <1>4
    <3> QED BY <1>2, <3>1 DEF Short
  <2>3. PICK S : Judged(R, l, S) /\ g.data \in S  BY <1>4
  <2>4. S = {}  BY <1>3, <1>9, <2>1, <2>2, <2>3, JudgedShort
  <2> QED BY <2>3, <2>4
<1> QED BY <1>1, <1>5, <1>10, <1>11

----------------------------------------------------------------------------
(* The line *)

\* What can be sent can be put on the line.
LEMMA MessagesSendable ==
  \A m \in Messages : Sendable(m) /\ m # NoFrame
<1> SUFFICES ASSUME NEW m \in Messages PROVE Sendable(m) /\ m # NoFrame
  OBVIOUS
<1>1. /\ m \in [id : Word, seq : Byte, data : Seq(Byte), none : {FALSE}]
      /\ Len(m.data) <= 255
  BY XtpFrameAssumption
<1>2. m.id \in Word /\ m.seq \in Byte /\ m.data \in Seq(Byte) /\ m.none = FALSE
  BY <1>1
<1>3. Len(m.data) \in Byte
  <2>1. Len(m.data) \in Nat  BY <1>2
  <2> QED BY <1>1, <2>1, Ranges
<1>4. NoFrame.none = TRUE  BY DEF NoFrame
<1>5. m # NoFrame  BY <1>2, <1>4
<1> QED BY <1>2, <1>3, <1>5 DEF Sendable

\* The bytes of l come behind the first k of a frame of 13 + n bytes.
OnWay(l, F, n, k) ==
  /\ l \in Seq(Byte) /\ k \in Nat /\ k + Len(l) = 13 + n
  /\ \A i \in 1 .. Len(l) : l[i] = F[k + i]

\* The byte at the head of the line is the next of the frame.
LEMMA Advance ==
  ASSUME NEW l, NEW F, NEW n \in Nat, NEW k, OnWay(l, F, n, k), l # <<>>
  PROVE  /\ k \in Nat /\ k + 1 <= 13 + n /\ Head(l) = F[k + 1] /\ Head(l) \in Byte
         /\ OnWay(Tail(l), F, n, k + 1)
<1>1. /\ l \in Seq(Byte) /\ k \in Nat /\ k + Len(l) = 13 + n
      /\ \A i \in 1 .. Len(l) : l[i] = F[k + i]
  BY DEF OnWay
<1>2. /\ Tail(l) \in Seq(Byte) /\ Len(Tail(l)) = Len(l) - 1 /\ Len(l) \in Nat /\ Len(l) >= 1
      /\ Head(l) = l[1] /\ l[1] \in Byte
      /\ \A i \in 1 .. Len(l) - 1 : Tail(l)[i] = l[i + 1]
  BY <1>1
<1>3. PICK e \in Nat : e = Len(l)  BY <1>2
<1>4. k + 1 <= 13 + n /\ (k + 1) + (e - 1) = 13 + n /\ 1 \in 1 .. e
  BY <1>1, <1>2, <1>3
<1>5. \A i \in 1 .. e - 1 : i + 1 \in 1 .. e /\ k + (i + 1) = (k + 1) + i
  BY <1>1, <1>3
<1>6. \A i \in 1 .. e - 1 : Tail(l)[i] = F[(k + 1) + i]
  BY <1>1, <1>2, <1>3, <1>5
<1>7. Head(l) = F[k + 1]  BY <1>1, <1>2, <1>3, <1>4
<1>8. Len(Tail(l)) = e - 1  BY <1>2, <1>3
<1>9. k + 1 \in Nat  BY <1>1
<1>10. OnWay(Tail(l), F, n, k + 1)
  BY <1>2, <1>4, <1>6, <1>8, <1>9 DEF OnWay
<1> QED BY <1>1, <1>2, <1>4, <1>7, <1>10

\* At first all of the frame is on the line.
LEMMA AllOnWay ==
  ASSUME NEW m, NEW n, NEW F, Carries(F, m, n)
  PROVE  OnWay(F, F, n, 0)
<1>1. F \in Seq(Byte) /\ Len(F) = 13 + n /\ n \in Nat  BY Carrying DEF Carried
<1>2. \A i \in 1 .. Len(F) : 0 + i = i  BY <1>1
<1>3. 0 + Len(F) = 13 + n  BY <1>1
<1> QED BY <1>1, <1>2, <1>3 DEF OnWay

\* The bytes that have left the line, and what is on it.
Gone == At - 1

OnLine ==
  /\ frame = NoFrame => line = <<>> /\ got = NoFrame
  /\ frame # NoFrame =>
       Sendable(frame) /\ OnWay(line, FrameBytes(frame), Len(frame.data), Gone)

Counted ==
  /\ hit \cup lost \subseteq 1 .. Gone
  /\ Cardinality(hit) + Cardinality(lost) <= faults /\ faults <= MaxFaults
  /\ faults \in Nat

\* Everything the steps keep of the types.
Typed ==
  /\ Fits /\ HalfRead /\ GotType
  /\ line \in Seq(Byte) /\ frame \in Messages \cup {NoFrame} /\ aligned \in BOOLEAN
  /\ OnLine /\ Counted

\* Typed is FrameTypeOK and what its induction needs.
LEMMA TypedIsType == Typed => FrameTypeOK
BY DEF Typed, FrameTypeOK, Fits, GotType, Counted, Gone

\* The empty message has the type of a message.
LEMMA NoFrameType ==
  NoFrame \in [id : Word, seq : Byte, data : Seq(Byte), none : BOOLEAN]
<1>1. 0 \in Byte /\ 0 \in Word /\ <<>> \in Seq(Byte) /\ TRUE \in BOOLEAN  BY Ranges
<1> QED BY <1>1 DEF NoFrame

\* Before anything is sent.
LEMMA TypedInit == Init => Typed
<1> SUFFICES ASSUME Init PROVE Typed  OBVIOUS
<1>1. Fits /\ HalfRead
  <2>1. /\ d \in Decoder /\ d.data = <<>> /\ d.length = 0 /\ d.state = "START1"
    BY ResetFits DEF Init, Reset
  <2>2. Len(<<>>) = 0  OBVIOUS
  <2> QED BY <2>1, <2>2 DEF Fits, HalfRead
<1>2. GotType  BY NoFrameType DEF Init, GotType
<1>3. OnLine  BY DEF Init, OnLine
<1>4. Counted
  <2>1. hit = {} /\ lost = {} /\ faults = 0  BY DEF Init
  <2>2. Cardinality(hit) = 0 /\ Cardinality(lost) = 0  BY <2>1, FS_EmptySet
  <2>3. MaxFaults \in Nat  BY XtpFrameAssumption
  <2> QED BY <2>1, <2>2, <2>3 DEF Counted
<1>5. line \in Seq(Byte) /\ frame \in Messages \cup {NoFrame} /\ aligned \in BOOLEAN
  BY DEF Init
<1> QED BY <1>1, <1>2, <1>3, <1>4, <1>5 DEF Typed

\* A byte leaves the line.
LEMMA Leaves ==
  ASSUME Typed, line # <<>>, line' = Tail(line), frame' = frame
  PROVE  /\ frame # NoFrame /\ frame \in Messages /\ Len(frame.data) \in Nat
         /\ Gone \in Nat /\ Gone + 1 <= 13 + Len(frame.data)
         /\ Gone' = Gone + 1 /\ At = Gone + 1
         /\ Head(line) \in Byte /\ Head(line) = FrameBytes(frame)[Gone + 1]
         /\ line' \in Seq(Byte) /\ OnLine'
<1>1. frame # NoFrame /\ frame \in Messages  BY DEF Typed, OnLine
<1>2. Sendable(frame) /\ OnWay(line, FrameBytes(frame), Len(frame.data), Gone)
  BY <1>1 DEF Typed, OnLine
<1>3. PICK n \in Nat : n = Len(frame.data)
  <2>1. frame.data \in Seq(Byte)  BY <1>2 DEF Sendable
  <2> QED BY <2>1
<1>4. /\ Gone \in Nat /\ Gone + 1 <= 13 + n /\ Head(line) = FrameBytes(frame)[Gone + 1]
      /\ Head(line) \in Byte
      /\ OnWay(Tail(line), FrameBytes(frame), n, Gone + 1)
  BY <1>2, <1>3, Advance
<1>5. line \in Seq(Byte) /\ Tail(line) \in Seq(Byte) /\ Len(Tail(line)) = Len(line) - 1
      /\ Len(line) \in Nat
  <2>1. line \in Seq(Byte)  BY DEF Typed
  <2> QED BY <2>1
<1>6. Gone' = n + 14 - Len(Tail(line)) - 1 /\ Gone = n + 14 - Len(line) - 1 /\ At = n + 14 - Len(line)
  BY <1>3 DEF Gone, At
<1>7. PICK e \in Nat : e = Len(line)  BY <1>5
<1>8. Gone' = n + 14 - (e - 1) - 1 /\ Gone = n + 14 - e - 1 /\ At = n + 14 - e
  BY <1>5, <1>6, <1>7
<1>9. Gone' = Gone + 1 /\ At = Gone + 1
  BY <1>8
<1>10. OnLine'
  BY <1>1, <1>2, <1>3, <1>4, <1>9 DEF OnLine
<1> QED BY <1>1, <1>3, <1>4, <1>5, <1>9, <1>10

----------------------------------------------------------------------------
(* Types are invariant *)

\* The positions are finitely many.
LEMMA CountedSets ==
  ASSUME Counted, Gone \in Nat
  PROVE  /\ IsFiniteSet(hit) /\ IsFiniteSet(lost)
         /\ Cardinality(hit) \in Nat /\ Cardinality(lost) \in Nat
<1>1. IsFiniteSet(1 .. Gone)  BY FS_Interval
<1>2. hit \in SUBSET (1 .. Gone) /\ lost \in SUBSET (1 .. Gone)  BY DEF Counted
<1>3. IsFiniteSet(hit) /\ IsFiniteSet(lost)  BY <1>1, <1>2, FS_Subset
<1> QED BY <1>3, FS_CardinalityType

\* A position beyond an interval.
LEMMA Wider ==
  ASSUME NEW S, NEW k \in Nat, S \subseteq 1 .. k
  PROVE  S \subseteq 1 .. (k + 1) /\ k + 1 \notin S /\ S \cup {k + 1} \subseteq 1 .. (k + 1)
<1>1. \A i \in 1 .. k : i \in 1 .. (k + 1) /\ i # k + 1  OBVIOUS
<1>2. k + 1 \in 1 .. (k + 1)  OBVIOUS
<1> QED BY <1>1, <1>2

\* What a damaged byte is read as.
LEMMA NoisyByte ==
  ASSUME NEW b \in Byte, NEW e \in Noise
  PROVE  Xor(b, e) \in Byte /\ Xor(b, e) # b
<1>1. e \in Byte /\ e # 0
  <2>1. e \in Int /\ 1 <= e /\ e <= 255  BY XtpFrameAssumption
  <2> QED BY <2>1, Ranges
<1>2. Xor(b, e) \in Byte /\ Xor(Xor(b, e), b) = e  BY <1>1, XorGroup, XorCancels
<1>3. Xor(b, b) = 0  BY XorGroup
<1> QED BY <1>1, <1>2, <1>3

\* Each action keeps the types: a byte that arrives,
LEMMA TypedArrive == Typed /\ Arrive => Typed'
<1> SUFFICES ASSUME Typed, Arrive PROVE Typed'  OBVIOUS
<1>1. /\ line # <<>> /\ line' = Tail(line) /\ xTP_Read(Head(line))
      /\ UNCHANGED <<frame, aligned, hit, lost, faults>>
  BY DEF Arrive
<1>2. /\ Gone \in Nat /\ Gone' = Gone + 1 /\ Head(line) \in Byte
      /\ line' \in Seq(Byte) /\ OnLine'
  BY <1>1, Leaves
<1>3. Fits' /\ HalfRead' /\ GotType'
  BY <1>1, <1>2, ReadFits DEF Typed
<1>4. Counted'
  <2>1. hit \cup lost \subseteq 1 .. (Gone + 1)
    BY <1>2, Wider DEF Typed, Counted
  <2> QED BY <1>1, <1>2, <2>1 DEF Typed, Counted
<1> QED BY <1>1, <1>2, <1>3, <1>4 DEF Typed

\* one that is damaged,
LEMMA TypedDamage == Typed /\ Damage => Typed'
<1> SUFFICES ASSUME Typed, Damage PROVE Typed'  OBVIOUS
<1>1. /\ line # <<>> /\ line' = Tail(line) /\ faults < MaxFaults
      /\ hit' = hit \cup {At} /\ faults' = faults + 1
      /\ UNCHANGED <<frame, aligned, lost>>
  BY DEF Damage
<1>2. /\ Gone \in Nat /\ Gone' = Gone + 1 /\ Head(line) \in Byte /\ At = Gone + 1
      /\ line' \in Seq(Byte) /\ OnLine'
  BY <1>1, Leaves
<1>3. Fits' /\ HalfRead' /\ GotType'
  <2>1. PICK e \in Noise : xTP_Read(Xor(Head(line), e))  BY DEF Damage
  <2>2. Xor(Head(line), e) \in Byte  BY <1>2, NoisyByte
  <2> QED BY <2>1, <2>2, ReadFits DEF Typed
<1>4. Counted'
  <2>0. Counted  BY DEF Typed
  <2>1. hit' \cup lost' \subseteq 1 .. Gone'
    <3>1. hit' \cup lost' = (hit \cup lost) \cup {Gone + 1}  BY <1>1, <1>2
    <3>2. hit \cup lost \subseteq 1 .. Gone  BY <2>0 DEF Counted
    <3> QED BY <1>2, <3>1, <3>2, Wider
  <2>2. IsFiniteSet(hit) /\ Cardinality(hit) \in Nat /\ Cardinality(lost) \in Nat
    BY <1>2, <2>0, CountedSets
  <2>3. Cardinality(hit') <= Cardinality(hit) + 1 /\ Cardinality(hit') \in Nat
    <3>1. hit' = hit \cup {At}  BY <1>1
    <3>2. Cardinality(hit') = IF At \in hit THEN Cardinality(hit) ELSE Cardinality(hit) + 1
      BY <2>2, <3>1, FS_AddElement, Zenon
    <3> QED BY <2>2, <3>2
  <2>4. /\ Cardinality(hit) + Cardinality(lost) <= faults /\ faults \in Nat
        /\ MaxFaults \in Nat
    BY <2>0, XtpFrameAssumption DEF Counted
  <2>5. Cardinality(hit') + Cardinality(lost') <= faults' /\ faults' <= MaxFaults /\ faults' \in Nat
    BY <1>1, <2>2, <2>3, <2>4
  <2> QED BY <2>1, <2>5 DEF Counted
<1> QED BY <1>1, <1>2, <1>3, <1>4 DEF Typed

\* one that is lost,
LEMMA TypedLose == Typed /\ Lose => Typed'
<1> SUFFICES ASSUME Typed, Lose PROVE Typed'  OBVIOUS
<1>1. /\ line # <<>> /\ line' = Tail(line) /\ faults < MaxFaults
      /\ lost' = lost \cup {At} /\ faults' = faults + 1
      /\ UNCHANGED <<d, frame, aligned, hit, got>>
  BY DEF Lose
<1>2. /\ Gone \in Nat /\ Gone' = Gone + 1 /\ At = Gone + 1
      /\ line' \in Seq(Byte) /\ OnLine'
  BY <1>1, Leaves
<1>3. Fits' /\ HalfRead' /\ GotType'
  BY <1>1 DEF Typed, Fits, HalfRead, GotType
<1>4. Counted'
  <2>0. Counted  BY DEF Typed
  <2>1. hit' \cup lost' \subseteq 1 .. Gone'
    <3>1. hit' \cup lost' = (hit \cup lost) \cup {Gone + 1}  BY <1>1, <1>2
    <3>2. hit \cup lost \subseteq 1 .. Gone  BY <2>0 DEF Counted
    <3> QED BY <1>2, <3>1, <3>2, Wider
  <2>2. IsFiniteSet(lost) /\ Cardinality(hit) \in Nat /\ Cardinality(lost) \in Nat
    BY <1>2, <2>0, CountedSets
  <2>3. Cardinality(lost') <= Cardinality(lost) + 1 /\ Cardinality(lost') \in Nat
    <3>1. lost' = lost \cup {At}  BY <1>1
    <3>2. Cardinality(lost') = IF At \in lost THEN Cardinality(lost) ELSE Cardinality(lost) + 1
      BY <2>2, <3>1, FS_AddElement, Zenon
    <3> QED BY <2>2, <3>2
  <2>4. /\ Cardinality(hit) + Cardinality(lost) <= faults /\ faults \in Nat
        /\ MaxFaults \in Nat
    BY <2>0, XtpFrameAssumption DEF Counted
  <2>5. Cardinality(hit') + Cardinality(lost') <= faults' /\ faults' <= MaxFaults /\ faults' \in Nat
    BY <1>1, <2>2, <2>3, <2>4
  <2> QED BY <2>1, <2>5 DEF Counted
<1> QED BY <1>1, <1>2, <1>3, <1>4 DEF Typed

\* A frame is put on the line.
LEMMA Sending ==
  ASSUME Typed, NEW m \in Messages, xTP_SendEx(m)
  PROVE  /\ frame' = m /\ m # NoFrame /\ Carries(FrameBytes(m), m, Len(m.data))
         /\ OnLine' /\ Gone' = 0 /\ line' \in Seq(Byte) /\ Len(m.data) \in Nat
<1>1. frame' = m /\ line' = FrameBytes(m)  BY DEF xTP_SendEx
<1>2. Sendable(m) /\ m # NoFrame  BY MessagesSendable
<1>3. PICK n, F : Carries(F, m, n) /\ n = Len(m.data) /\ F = FrameBytes(m)
  BY <1>2 DEF Carries
<1>4. n \in Nat /\ F \in Seq(Byte) /\ Len(F) = 13 + n  BY <1>3, Carrying DEF Carried
<1>5. OnWay(F, F, n, 0)  BY <1>3, AllOnWay
<1>6. Gone' = n + 14 - Len(F) - 1  BY <1>1, <1>3 DEF Gone, At
<1>7. Gone' = 0  BY <1>4, <1>6
<1>8. OnLine'  BY <1>1, <1>2, <1>3, <1>5, <1>7 DEF OnLine
<1> QED BY <1>1, <1>2, <1>3, <1>4, <1>7, <1>8

\* a new frame
LEMMA TypedSend == ASSUME NEW m \in Messages PROVE Typed /\ xTP_SendEx(m) => Typed'
<1> SUFFICES ASSUME Typed, xTP_SendEx(m) PROVE Typed'  OBVIOUS
<1>1. /\ frame' = m /\ aligned' = (d.state = "START1") /\ hit' = {} /\ lost' = {}
      /\ got' = NoFrame /\ d' = d /\ faults' = faults
  BY DEF xTP_SendEx
<1>2. OnLine' /\ Gone' = 0 /\ line' \in Seq(Byte)  BY Sending
<1>3. Fits' /\ HalfRead'  BY <1>1 DEF Typed, Fits, HalfRead
<1>4. GotType'  BY <1>1, NoFrameType DEF GotType
<1>5. Counted'
  <2>1. Cardinality(hit') = 0 /\ Cardinality(lost') = 0  BY <1>1, FS_EmptySet
  <2>2. faults \in Nat /\ faults <= MaxFaults  BY DEF Typed, Counted
  <2> QED BY <1>1, <2>1, <2>2 DEF Counted
<1>6. aligned' \in BOOLEAN  BY <1>1
<1> QED BY <1>1, <1>2, <1>3, <1>4, <1>5, <1>6 DEF Typed

\* and the timeout.
LEMMA TypedTimeout == Typed /\ Timeout => Typed'
<1> SUFFICES ASSUME Typed, Timeout PROVE Typed'  OBVIOUS
<1>1. d' = Reset /\ UNCHANGED <<frame, line, aligned, hit, lost, faults, got>>
  BY DEF Timeout
<1>2. Fits' /\ HalfRead'  BY <1>1, AfterReset
<1> QED BY <1>1, <1>2 DEF Typed, GotType, OnLine, Counted, Gone, At

\* Every step keeps the types.
LEMMA TypedStep == Typed /\ [Next]_vars => Typed'
<1> SUFFICES ASSUME Typed, [Next]_vars PROVE Typed'  OBVIOUS
<1>1. CASE \E m \in Messages : xTP_SendEx(m)  BY <1>1, TypedSend
<1>2. CASE Arrive  BY <1>2, TypedArrive
<1>3. CASE Damage  BY <1>3, TypedDamage
<1>4. CASE Lose  BY <1>4, TypedLose
<1>5. CASE Timeout  BY <1>5, TypedTimeout
<1>6. CASE UNCHANGED vars
  BY <1>6 DEF vars, Typed, Fits, HalfRead, GotType, OnLine, Counted, Gone, At
<1> QED BY <1>1, <1>2, <1>3, <1>4, <1>5, <1>6 DEF Next

\* Types, for any messages, error patterns and number of faults; among them that
\* the decoder never holds more payload than LEN announced, whatever bytes it
\* is given (xTP_Read, the state DATA).
THEOREM FrameTypes == Spec => []FrameTypeOK
<1>1. Spec => []Typed
  BY TypedInit, TypedStep, PTL DEF Spec
<1> QED BY <1>1, TypedIsType, PTL

----------------------------------------------------------------------------
(* Where the decoder is in the frame *)

\* R holds what the decoder was given of the k bytes of F that left the line:
\* all of them, or all but the one that was lost.
Faithful(R, j, F, k, hits, losses) ==
  \/ losses = {} /\ j = k /\ Damaged(R, F, j, hits)
  \/ /\ hits = {} /\ j + 1 = k
     /\ \E q \in Nat : 1 <= q /\ q <= k /\ losses = {q} /\ Short(R, F, q, j)

\* The decoder is in the middle of the frame.
Following(s, g, F, k, hits, losses) ==
  g = NoFrame /\ \E R, h, j : Reads(s, R, h, j) /\ Faithful(R, j, F, k, hits, losses)

\* The frame was dropped at its end.
AtEnd(s, g, m, n, k, hits) ==
  /\ g = NoFrame
  /\ \/ s.state = "START1" /\ 11 + n <= k
     \/ s.state = "START2" /\ 12 + n <= k
     \/ s.state = "TYPEMETHOD" /\ 13 + n <= k
  /\ hits \cap {12 + n, 13 + n} # {} \/ (m.data = <<>> /\ hits # {})

\* The frame was dropped, and no other one was taken for begun.
Astray(s, g, F, k) ==
  /\ g = NoFrame
  /\ \/ s.state = "START1" /\ 1 <= k
     \/ s.state = "START2" /\ 3 <= k
     \/ s.state = "TYPEMETHOD" /\ 4 <= k /\ F[k] = START2

Handed(g, m, n, k, hits) == k = 13 + n /\ Same(g, m, hits)

HandedOdd(g, m, n, k, hits, losses) ==
  k = 13 + n /\ hits = {1} /\ losses = {} /\ Same(g, m, {})

Tracked(s, g, m, n, F, k, hits, losses) ==
  /\ Mild(hits, losses, n) =>
       Following(s, g, F, k, hits, losses) \/ AtEnd(s, g, m, n, k, hits) \/ Handed(g, m, n, k, hits)
  /\ Rare(m, hits, losses, n) =>
       Following(s, g, F, k, hits, losses) \/ Astray(s, g, F, k) \/ HandedOdd(g, m, n, k, hits, losses)

\* One byte more, damaged or not.
LEMMA DamagedGrows ==
  ASSUME NEW R \in [Nat -> Byte], NEW F, NEW k \in Nat, NEW hits, hits \subseteq 1 .. k,
         Damaged(R, F, k, hits), NEW b \in Byte, NEW Q, Q = [R EXCEPT ![k + 1] = b], NEW new,
         (b = F[k + 1] /\ new = hits) \/ (b # F[k + 1] /\ new = hits \cup {k + 1})
  PROVE  Damaged(Q, F, k + 1, new)
<1>1. Q[k + 1] = b /\ \A i \in Nat : i <= k => Q[i] = R[i]  BY Heard
<1>2. \A i \in 1 .. k : i \in hits <=> R[i] # F[i]  BY DEF Damaged
<1>3. k + 1 \notin hits  BY Wider
<1>4. ASSUME NEW i \in 1 .. k + 1 PROVE i \in new <=> Q[i] # F[i]
  <2>1. CASE i = k + 1  BY <1>1, <1>3, <2>1
  <2>2. CASE i # k + 1
    <3>1. i \in 1 .. k /\ i \in Nat /\ i <= k  BY <2>2
    <3>2. i \in new <=> i \in hits  BY <2>2
    <3> QED BY <1>1, <1>2, <3>1, <3>2
  <2> QED BY <2>1, <2>2
<1> QED BY <1>4 DEF Damaged

\* One byte more after a lost one.
LEMMA ShortGrows ==
  ASSUME NEW R \in [Nat -> Byte], NEW F, NEW j \in Nat, NEW q \in Nat, q <= j + 1,
         Short(R, F, q, j), NEW b \in Byte, b = F[j + 2], NEW Q, Q = [R EXCEPT ![j + 1] = b]
  PROVE  Short(Q, F, q, j + 1)
<1>1. Q[j + 1] = b /\ \A i \in Nat : i <= j => Q[i] = R[i]  BY Heard
<1>2. /\ \A i \in Nat : 1 <= i /\ i <= j /\ i < q => R[i] = F[i]
      /\ \A i \in Nat : q <= i /\ i <= j => R[i] = F[i + 1]
  BY DEF Short
<1>3. ASSUME NEW i \in Nat, 1 <= i, i <= j + 1, i < q PROVE Q[i] = F[i]
  BY <1>1, <1>2, <1>3
<1>4. ASSUME NEW i \in Nat, q <= i, i <= j + 1 PROVE Q[i] = F[i + 1]
  <2>1. CASE i <= j  BY <1>1, <1>2, <1>4, <2>1
  <2>2. CASE i = j + 1
    <3>1. i + 1 = j + 2  BY <2>2
    <3> QED BY <1>1, <2>2, <3>1
  <2> QED BY <1>4, <2>1, <2>2
<1> QED BY <1>3, <1>4 DEF Short

\* A byte read by a decoder that waits for the beginning of a frame.
LEMMA Waiting ==
  ASSUME d \in Decoder, NEW b, xTP_Read(b),
         d.state \in {"START1", "START2", "TYPEMETHOD"}
  PROVE  /\ d.state = "START1" =>
              got' = got /\ (d'.state = "START1" \/ (d'.state = "START2" /\ b \div 16 = 12))
         /\ d.state = "START2" =>
              got' = got /\ (d'.state = "START1" \/ (d'.state = "TYPEMETHOD" /\ b = START2))
         /\ d.state = "TYPEMETHOD" /\ b # TM => got' = got /\ d'.state = "START1"
<1>0. Reset.state = "START1" /\ [Reset EXCEPT !.state = "START2"].state = "START2"
  BY DEF Reset
<1>1. Go("TYPEMETHOD").state = "TYPEMETHOD"  BY DEF Go, Decoder
<1>2. CASE d.state = "START1"
  <2>1. got' = got /\ d' = IF b \div 16 = 12 THEN [Reset EXCEPT !.state = "START2"] ELSE d
    BY <1>2 DEF xTP_Read, ReadStart, ReadHeader, ReadData, ReadEcc, ReadCrc, ReadStop
  <2> QED BY <1>0, <1>2, <2>1
<1>3. CASE d.state = "START2"
  <2>1. got' = got /\ d' = IF b = START2 THEN Go("TYPEMETHOD") ELSE Reset
    BY <1>3 DEF xTP_Read, ReadStart, ReadHeader, ReadData, ReadEcc, ReadCrc, ReadStop, Expect
  <2> QED BY <1>0, <1>1, <1>3, <2>1
<1>4. CASE d.state = "TYPEMETHOD" /\ b # TM
  <2>1. got' = got /\ d' = Reset
    BY <1>4 DEF xTP_Read, ReadStart, ReadHeader, ReadData, ReadEcc, ReadCrc, ReadStop, Expect
  <2> QED BY <1>0, <1>4, <2>1
<1> QED BY <1>2, <1>3, <1>4

\* What a byte makes of a decoder in the middle of a frame.
Advanced(s, g, F, k, hits, losses) ==
  \/ Following(s, g, F, k, hits, losses)
  \/ /\ s.state = "START1" /\ g = NoFrame
     /\ \E R \in [Nat -> Byte], j \in Nat : Refused(R, j) /\ Faithful(R, j, F, k, hits, losses)
  \/ \E R \in [Nat -> Byte], j \in Nat : Completed(g, R, j) /\ Faithful(R, j, F, k, hits, losses)

\* The byte b is the next one of F, or it was damaged.
NextByte(b, F, k, hits, new) ==
  (b = F[k + 1] /\ new = hits) \/ (b # F[k + 1] /\ new = hits \cup {k + 1})

\* What the decoder was given stays faithful to the frame.
LEMMA FaithfulGrows ==
  ASSUME NEW R \in [Nat -> Byte], NEW j \in Nat, NEW F, NEW k \in Nat, NEW hits,
         hits \subseteq 1 .. k, NEW losses, Faithful(R, j, F, k, hits, losses),
         NEW b \in Byte, NEW Q, Q = [R EXCEPT ![j + 1] = b], NEW new,
         NextByte(b, F, k, hits, new), losses = {} \/ new = {}
  PROVE  Faithful(Q, j + 1, F, k + 1, new, losses)
<1>1. CASE losses = {} /\ j = k /\ Damaged(R, F, j, hits)
  <2>1. Damaged(Q, F, k + 1, new)  BY <1>1, DamagedGrows DEF NextByte
  <2> QED BY <1>1, <2>1 DEF Faithful
<1>2. CASE /\ hits = {} /\ j + 1 = k
           /\ \E q \in Nat : 1 <= q /\ q <= k /\ losses = {q} /\ Short(R, F, q, j)
  <2>1. PICK q \in Nat : 1 <= q /\ q <= k /\ losses = {q} /\ Short(R, F, q, j)
    BY <1>2
  <2>2. new = {}  BY <2>1
  <2>3. b = F[j + 2]
    <3>1. b = F[k + 1]  BY <2>2 DEF NextByte
    <3>2. k + 1 = j + 2  BY <1>2
    <3> QED BY <3>1, <3>2
  <2>4. Short(Q, F, q, j + 1)  BY <1>2, <2>1, <2>3, ShortGrows
  <2>5. (j + 1) + 1 = k + 1 /\ q <= k + 1  BY <1>2, <2>1
  <2> QED BY <2>1, <2>2, <2>4, <2>5 DEF Faithful
<1> QED BY <1>1, <1>2 DEF Faithful

\* A byte read in the middle of the frame.
LEMMA FollowingStep ==
  ASSUME d' \in Decoder, NEW b \in Byte, xTP_Read(b), NEW F, NEW k \in Nat, NEW hits,
         hits \subseteq 1 .. k, NEW losses, Following(d, got, F, k, hits, losses), NEW new,
         NextByte(b, F, k, hits, new), losses = {} \/ new = {}
  PROVE  Advanced(d', got', F, k + 1, new, losses)
<1>1. got = NoFrame  BY DEF Following
<1>2. PICK R, h, j : Reads(d, R, h, j) /\ Faithful(R, j, F, k, hits, losses)
  BY Zenon DEF Following
<1>3. R \in [Nat -> Byte] /\ j \in Nat  BY <1>2 DEF Reads
<1>4. PICK Q : Q = [R EXCEPT ![j + 1] = b]  OBVIOUS
<1>5. Q \in [Nat -> Byte] /\ j + 1 \in Nat  BY <1>3, <1>4
<1>6. Faithful(Q, j + 1, F, k + 1, new, losses)
  BY <1>2, <1>3, <1>4, FaithfulGrows
<1>7. \/ got' = got /\ \E g : Reads(d', Q, g, j + 1)
      \/ got' = got /\ d'.state = "START1" /\ Refused(Q, j + 1)
      \/ d'.state = "START1" /\ Completed(got', Q, j + 1)
  BY <1>2, <1>4, ReadStep
<1>8. CASE got' = got /\ \E g : Reads(d', Q, g, j + 1)
  <2>1. Following(d', got', F, k + 1, new, losses)
    BY <1>1, <1>6, <1>8, Zenon DEF Following
  <2> QED BY <2>1 DEF Advanced
<1>9. CASE got' = got /\ d'.state = "START1" /\ Refused(Q, j + 1)
  BY <1>1, <1>5, <1>6, <1>9, Zenon DEF Advanced
<1>10. CASE Completed(got', Q, j + 1)
  BY <1>5, <1>6, <1>10, Zenon DEF Advanced
<1> QED BY <1>7, <1>8, <1>9, <1>10

\* Under mild damage.
LEMMA MildAdvanced ==
  ASSUME NEW m, NEW n, NEW F, Carries(F, m, n), NEW k \in Nat, k <= 13 + n, NEW hits,
         NEW losses, Mild(hits, losses, n), NEW s, NEW g, Advanced(s, g, F, k, hits, losses)
  PROVE  Following(s, g, F, k, hits, losses) \/ AtEnd(s, g, m, n, k, hits) \/ Handed(g, m, n, k, hits)
<1>1. losses = {} /\ Mild(hits, {}, n)  BY DEF Mild
<1>2. CASE /\ s.state = "START1" /\ g = NoFrame
           /\ \E R \in [Nat -> Byte], j \in Nat :
                Refused(R, j) /\ Faithful(R, j, F, k, hits, losses)
  <2>1. PICK R \in [Nat -> Byte], j \in Nat :
          Refused(R, j) /\ Faithful(R, j, F, k, hits, losses)
    BY <1>2
  <2>2. j = k /\ Damaged(R, F, k, hits)  BY <1>1, <2>1 DEF Faithful
  <2>3. Refused(R, k)  BY <2>1, <2>2
  <2>4. /\ k >= 11 + n
        /\ hits \cap {12 + n, 13 + n} # {} \/ (m.data = <<>> /\ hits # {})
    BY <1>1, <2>2, <2>3, MildRefused
  <2>5. n \in Nat  BY FrameParts
  <2>6. 11 + n <= k  BY <2>4, <2>5
  <2> QED BY <1>2, <2>4, <2>6 DEF AtEnd
<1>3. CASE \E R \in [Nat -> Byte], j \in Nat :
             Completed(g, R, j) /\ Faithful(R, j, F, k, hits, losses)
  <2>1. PICK R \in [Nat -> Byte], j \in Nat :
          Completed(g, R, j) /\ Faithful(R, j, F, k, hits, losses)
    BY <1>3
  <2>2. j = k /\ Damaged(R, F, k, hits)  BY <1>1, <2>1 DEF Faithful
  <2>3. Completed(g, R, k)  BY <2>1, <2>2
  <2>4. k = 13 + n /\ Same(g, m, hits)  BY <1>1, <2>2, <2>3, MildCompleted
  <2> QED BY <2>4 DEF Handed
<1> QED BY <1>2, <1>3, Zenon DEF Advanced

\* Under one damaged or lost byte elsewhere.
LEMMA RareAdvanced ==
  ASSUME NEW m, NEW n, NEW F, Carries(F, m, n), NEW k \in Nat, 1 <= k, k <= 13 + n, NEW hits,
         NEW losses, Rare(m, hits, losses, n), NEW s, NEW g, Advanced(s, g, F, k, hits, losses)
  PROVE  \/ Following(s, g, F, k, hits, losses) \/ Astray(s, g, F, k)
         \/ HandedOdd(g, m, n, k, hits, losses)
<1>1. /\ Plain(m)
      /\ \/ losses = {} /\ \E p \in Special(n) : hits = {p}
         \/ hits = {} /\ Told(m) /\ \E q : losses = {q}
  BY DEF Rare
<1>2. CASE s.state = "START1" /\ g = NoFrame  BY <1>2 DEF Astray
<1>3. CASE \E R \in [Nat -> Byte], j \in Nat :
             Completed(g, R, j) /\ Faithful(R, j, F, k, hits, losses)
  <2>1. PICK R \in [Nat -> Byte], j \in Nat :
          Completed(g, R, j) /\ Faithful(R, j, F, k, hits, losses)
    BY <1>3
  <2>2. CASE losses = {}
    <3>1. PICK p \in Special(n) : hits = {p}  BY <1>1, <2>2
    <3>2. j = k /\ Damaged(R, F, k, {p})  BY <2>1, <2>2, <3>1 DEF Faithful
    <3>3. Completed(g, R, k)  BY <2>1, <3>2
    <3>4. p = 1 /\ k = 13 + n /\ Same(g, m, {})  BY <1>1, <3>2, <3>3, HitCompleted
    <3> QED BY <2>2, <3>1, <3>4 DEF HandedOdd
  <2>3. CASE losses # {}
    <3>1. Told(m)  BY <1>1, <2>3
    <3>2. PICK q \in Nat : 1 <= q /\ q <= k /\ j + 1 = k /\ Short(R, F, q, j)
      BY <2>1, <2>3 DEF Faithful
    <3>3. j <= 12 + n
      <4>1. n \in Nat  BY FrameParts
      <4> QED BY <3>2, <4>1
    <3> QED BY <1>1, <2>1, <3>1, <3>2, <3>3, ShortNotCompleted
  <2> QED BY <2>2, <2>3
<1> QED BY <1>2, <1>3, Zenon DEF Advanced

\* A decoder that dropped the frame at its end stays there.
LEMMA AtEndStep ==
  ASSUME d \in Decoder, NEW b, xTP_Read(b), NEW m, NEW n \in Nat, NEW k \in Nat,
         k + 1 <= 13 + n, NEW hits, NEW new, hits \subseteq new, AtEnd(d, got, m, n, k, hits)
  PROVE  AtEnd(d', got', m, n, k + 1, new)
<1>1. /\ got = NoFrame
      /\ \/ d.state = "START1" /\ 11 + n <= k
         \/ d.state = "START2" /\ 12 + n <= k
         \/ d.state = "TYPEMETHOD" /\ 13 + n <= k
      /\ hits \cap {12 + n, 13 + n} # {} \/ (m.data = <<>> /\ hits # {})
  BY DEF AtEnd
<1>2. new \cap {12 + n, 13 + n} # {} \/ (m.data = <<>> /\ new # {})  BY <1>1
<1>3. d.state = "START1" =>
        got' = got /\ (d'.state = "START1" \/ d'.state = "START2")
  BY Waiting
<1>4. d.state = "START2" =>
        got' = got /\ (d'.state = "START1" \/ d'.state = "TYPEMETHOD")
  BY Waiting
<1>5. CASE d.state = "START1" /\ 11 + n <= k
  <2>1. 11 + n <= k + 1 /\ 12 + n <= k + 1  BY <1>5
  <2> QED BY <1>1, <1>2, <1>3, <1>5, <2>1 DEF AtEnd
<1>6. CASE d.state = "START2" /\ 12 + n <= k
  <2>1. 11 + n <= k + 1 /\ 13 + n <= k + 1  BY <1>6
  <2> QED BY <1>1, <1>2, <1>4, <1>6, <2>1 DEF AtEnd
<1> QED BY <1>1, <1>5, <1>6

\* A decoder that dropped the frame takes no byte of it for the end of a START.
LEMMA AstrayStep ==
  ASSUME d \in Decoder, NEW m, NEW n, NEW F, Carries(F, m, n), Plain(m), NEW k \in Nat,
         k + 1 <= 13 + n, xTP_Read(F[k + 1]), Astray(d, got, F, k)
  PROVE  Astray(d', got', F, k + 1)
<1>1. /\ n \in Nat /\ F[2] = START2 /\ F[12 + n] = STOP1
  BY FrameParts
<1>2. PICK b : b = F[k + 1]  OBVIOUS
<1>3. xTP_Read(b)  BY <1>2
<1>4. got = NoFrame  BY DEF Astray
<1>5. CASE d.state = "START1" /\ 1 <= k
  <2>1. got' = got /\ (d'.state = "START1" \/ (d'.state = "START2" /\ b \div 16 = 12))
    BY <1>3, <1>5, Waiting
  <2>2. b \div 16 = 12 => k # 1  BY <1>1, <1>2, SyncBytes
  <2>3. 1 <= k + 1 /\ (k # 1 => 3 <= k + 1)  BY <1>5
  <2> QED BY <1>4, <2>1, <2>2, <2>3 DEF Astray
<1>6. CASE d.state = "START2" /\ 3 <= k
  <2>1. got' = got /\ (d'.state = "START1" \/ (d'.state = "TYPEMETHOD" /\ b = START2))
    BY <1>3, <1>6, Waiting
  <2>2. 1 <= k + 1 /\ 4 <= k + 1  BY <1>6
  <2> QED BY <1>2, <1>4, <2>1, <2>2 DEF Astray
<1>7. CASE d.state = "TYPEMETHOD" /\ 4 <= k /\ F[k] = START2
  <2>1. b # TM
    <3>1. CASE k <= n + 11
      <4>1. 3 <= k  BY <1>7
      <4> QED BY <1>2, <1>7, <3>1, <4>1, PlainPairs
    <3>2. CASE ~(k <= n + 11)
      <4>1. k = 12 + n  BY <1>1, <3>2
      <4> QED BY <1>1, <1>7, <4>1, SyncBytes
    <3> QED BY <3>1, <3>2
  <2>2. got' = got /\ d'.state = "START1"  BY <1>3, <1>7, <2>1, Waiting
  <2>3. 1 <= k + 1  BY <1>7
  <2> QED BY <1>4, <2>2, <2>3 DEF Astray
<1> QED BY <1>5, <1>6, <1>7 DEF Astray

\* Before a byte that is damaged the frame was undamaged.
LEMMA RareBefore ==
  ASSUME NEW m, NEW n, NEW k \in Nat, NEW hits, hits \subseteq 1 .. k, NEW losses, NEW new,
         NEW b, NEW F, NextByte(b, F, k, hits, new), Rare(m, new, losses, n)
  PROVE  \/ new = hits /\ b = F[k + 1] /\ Rare(m, hits, losses, n)
         \/ hits = {} /\ losses = {} /\ Mild(hits, losses, n)
<1>1. CASE new = hits /\ b = F[k + 1]  BY <1>1
<1>2. CASE new = hits \cup {k + 1}
  <2>1. k + 1 \in new /\ k + 1 \notin hits  BY <1>2, Wider
  <2>2. losses = {} /\ hits = {}  BY <1>2, <2>1 DEF Rare
  <2> QED BY <2>2 DEF Mild, AtMostOne
<1> QED BY <1>1, <1>2 DEF NextByte

\* A byte of the frame is read.
LEMMA TrackedRead ==
  ASSUME d \in Decoder, d' \in Decoder, NEW b \in Byte, xTP_Read(b),
         NEW m, NEW n, NEW F, Carries(F, m, n), NEW k \in Nat, k + 1 <= 13 + n,
         NEW hits, hits \subseteq 1 .. k, NEW losses, NEW new, NextByte(b, F, k, hits, new),
         Tracked(d, got, m, n, F, k, hits, losses)
  PROVE  Tracked(d', got', m, n, F, k + 1, new, losses)
<1>1. n \in Nat  BY FrameParts
<1>2. hits \subseteq new  BY DEF NextByte
<1>3. k + 1 \in Nat /\ 1 <= k + 1 /\ k # 13 + n  BY <1>1
<1>4. ASSUME Following(d, got, F, k, hits, losses), losses = {} \/ new = {}
      PROVE  Advanced(d', got', F, k + 1, new, losses)
  BY <1>4, FollowingStep
<1>5. ASSUME Mild(new, losses, n)
      PROVE  \/ Following(d', got', F, k + 1, new, losses) \/ AtEnd(d', got', m, n, k + 1, new)
             \/ Handed(got', m, n, k + 1, new)
  <2>1. losses = {}  BY <1>5 DEF Mild
  <2>2. Mild(hits, losses, n)  BY <1>2, <1>5 DEF Mild, AtMostOne
  <2>3. CASE Following(d, got, F, k, hits, losses)
    <3>1. Advanced(d', got', F, k + 1, new, losses)  BY <1>4, <2>1, <2>3
    <3> QED BY <1>3, <1>5, <3>1, MildAdvanced
  <2>4. CASE AtEnd(d, got, m, n, k, hits)
    BY <1>1, <1>2, <2>4, AtEndStep
  <2>5. ~Handed(got, m, n, k, hits)  BY <1>3 DEF Handed
  <2> QED BY <2>2, <2>3, <2>4, <2>5 DEF Tracked
<1>6. ASSUME Rare(m, new, losses, n)
      PROVE  \/ Following(d', got', F, k + 1, new, losses) \/ Astray(d', got', F, k + 1)
             \/ HandedOdd(got', m, n, k + 1, new, losses)
  <2>1. losses = {} \/ new = {}  BY <1>6 DEF Rare
  <2>2. CASE Following(d, got, F, k, hits, losses)
    <3>1. Advanced(d', got', F, k + 1, new, losses)  BY <1>4, <2>1, <2>2
    <3> QED BY <1>3, <1>6, <3>1, RareAdvanced
  <2>3. CASE Astray(d, got, F, k) /\ b = F[k + 1]
    <3>1. Plain(m)  BY <1>6 DEF Rare
    <3>2. Astray(d', got', F, k + 1)  BY <2>3, <3>1, AstrayStep
    <3> QED BY <3>2
  <2>4. \/ new = hits /\ b = F[k + 1] /\ Rare(m, hits, losses, n)
        \/ hits = {} /\ losses = {} /\ Mild(hits, losses, n)
    BY <1>6, RareBefore
  <2>5. ~Handed(got, m, n, k, hits) /\ ~HandedOdd(got, m, n, k, hits, losses)
    BY <1>3 DEF Handed, HandedOdd
  <2>6. hits = {} => ~AtEnd(d, got, m, n, k, hits)  BY DEF AtEnd
  <2> QED BY <2>2, <2>3, <2>4, <2>5, <2>6 DEF Tracked
<1> QED BY <1>5, <1>6 DEF Tracked

\* A byte is lost.
LEMMA TrackedLose ==
  ASSUME NEW s, NEW g, NEW m, NEW n \in Nat, NEW F, NEW k \in Nat, k + 1 <= 13 + n,
         NEW hits, NEW losses, losses \subseteq 1 .. k,
         Tracked(s, g, m, n, F, k, hits, losses)
  PROVE  Tracked(s, g, m, n, F, k + 1, hits, losses \cup {k + 1})
<1> DEFINE new == losses \cup {k + 1}
<1>1. k + 1 \in new /\ k + 1 \notin losses  BY Wider
<1>2. ~Mild(hits, new, n)  BY <1>1 DEF Mild
<1>3. ASSUME Rare(m, hits, new, n) PROVE Following(s, g, F, k + 1, hits, new)
  <2>1. hits = {} /\ losses = {}  BY <1>1, <1>3 DEF Rare
  <2>2. Mild(hits, losses, n)  BY <2>1 DEF Mild, AtMostOne
  <2>3. ~AtEnd(s, g, m, n, k, hits) /\ ~Handed(g, m, n, k, hits)
    BY <2>1 DEF AtEnd, Handed
  <2>4. Following(s, g, F, k, hits, losses)  BY <2>2, <2>3 DEF Tracked
  <2>5. PICK R, h, j : Reads(s, R, h, j) /\ Faithful(R, j, F, k, hits, losses)
    BY <2>4, Zenon DEF Following
  <2>6. j = k /\ Damaged(R, F, k, {})  BY <2>1, <2>5 DEF Faithful
  <2>7. Short(R, F, k + 1, k)
    <3>1. \A i \in Nat : 1 <= i /\ i <= k => R[i] = F[i]  BY <2>6 DEF Damaged
    <3> QED BY <3>1 DEF Short
  <2>8. k + 1 \in Nat /\ 1 <= k + 1 /\ k + 1 <= k + 1 /\ new = {k + 1}
    BY <2>1
  <2> HIDE DEF new
  <2>9. Faithful(R, j, F, k + 1, hits, new)
    BY <2>1, <2>6, <2>7, <2>8 DEF Faithful
  <2> QED BY <2>4, <2>5, <2>9, Zenon DEF Following
<1> HIDE DEF new
<1>4. Tracked(s, g, m, n, F, k + 1, hits, new)  BY <1>2, <1>3 DEF Tracked
<1> QED BY <1>4 DEF new

\* The decoder gives up on a frame that has left the line.
LEMMA MildOver ==
  ASSUME NEW s, NEW g, NEW m, NEW n, NEW F, Carries(F, m, n), NEW hits, NEW losses,
         Mild(hits, losses, n)
  PROVE  ~Following(s, g, F, 13 + n, hits, losses)
<1> SUFFICES ASSUME Following(s, g, F, 13 + n, hits, losses) PROVE FALSE
  OBVIOUS
<1>1. n \in Nat /\ F[7] = n  BY FrameParts
<1>2. losses = {} /\ 7 \notin hits  BY DEF Mild, Special
<1>3. PICK R, h, j : Reads(s, R, h, j) /\ Faithful(R, j, F, 13 + n, hits, losses)
  BY Zenon DEF Following
<1>4. j = 13 + n /\ Damaged(R, F, j, hits)  BY <1>2, <1>3 DEF Faithful
<1>5. 7 \in 1 .. j  BY <1>1, <1>4
<1>6. R[7] = n  BY <1>1, <1>2, <1>4, <1>5 DEF Damaged
<1>7. j <= 12 + R[7]  BY <1>3 DEF Reads
<1> QED BY <1>1, <1>4, <1>6, <1>7

\* The timeout after the frame.
LEMMA TrackedTimeout ==
  ASSUME NEW s, NEW g, NEW m, NEW n, NEW F, Carries(F, m, n), NEW hits, NEW losses,
         Tracked(s, g, m, n, F, 13 + n, hits, losses)
  PROVE  Tracked(Reset, g, m, n, F, 13 + n, hits, losses)
<1>1. n \in Nat /\ Reset.state = "START1"  BY FrameParts DEF Reset
<1>2. 11 + n <= 13 + n /\ 1 <= 13 + n  BY <1>1
<1>3. AtEnd(s, g, m, n, 13 + n, hits) => AtEnd(Reset, g, m, n, 13 + n, hits)
  BY <1>1, <1>2 DEF AtEnd
<1>4. Astray(s, g, F, 13 + n) \/ Following(s, g, F, 13 + n, hits, losses)
        => Astray(Reset, g, F, 13 + n)
  BY <1>1, <1>2 DEF Astray, Following
<1>5. Mild(hits, losses, n) => ~Following(s, g, F, 13 + n, hits, losses)  BY MildOver
<1> QED BY <1>3, <1>4, <1>5 DEF Tracked

\* A frame begins while the decoder waits for a START1.
LEMMA TrackedSend ==
  ASSUME NEW s \in Decoder, s.state = "START1", NEW m, NEW n, NEW F
  PROVE  Tracked(s, NoFrame, m, n, F, 0, {}, {})
<1>1. ~Rare(m, {}, {}, n)  BY DEF Rare
<1>2. 0 \in Byte /\ 0 \in Word  BY Ranges
<1>3. PICK R \in [Nat -> Byte], h \in [Nat -> Word] : R[7] \in Byte /\ h[2] = 0
  <2>1. [i \in Nat |-> 0] \in [Nat -> Byte] /\ [i \in Nat |-> 0] \in [Nat -> Word]
        /\ [i \in Nat |-> 0][7] = 0 /\ [i \in Nat |-> 0][2] = 0
    BY <1>2
  <2> QED BY <1>2, <2>1
<1>4. R[7] \in Nat  BY <1>3, Ranges
<1>5. InState(s.state, 0, R[7])  BY <1>4 DEF InState
<1>6. ReadHeaderOf(s, R, 0)  BY DEF ReadHeaderOf
<1>7. ReadBodyOf(s, R, 0, R[7])  BY <1>4 DEF ReadBodyOf
<1>8. ReadCrcOf(s, R, h, 0, R[7])  BY <1>3, <1>4 DEF ReadCrcOf
<1>9. ReadEndOf(s, R, 0, R[7])  BY <1>4 DEF ReadEndOf
<1>10. Reads(s, R, h, 0)
  BY <1>4, <1>5, <1>6, <1>7, <1>8, <1>9 DEF Reads
<1>11. Faithful(R, 0, F, 0, {}, {})
  <2>1. Damaged(R, F, 0, {})  BY DEF Damaged
  <2> QED BY <2>1 DEF Faithful
<1>12. Following(s, NoFrame, F, 0, {}, {})
  BY <1>10, <1>11, Zenon DEF Following
<1> QED BY <1>1, <1>12 DEF Tracked

\* What is known of the frame on the line, and of the last one.
Survey ==
  frame # NoFrame /\ aligned =>
    Tracked(d, got, frame, Len(frame.data), FrameBytes(frame), Gone, hit, lost)

\* What is on the line is a frame.
LEMMA OnLineCarries ==
  ASSUME OnLine, frame # NoFrame
  PROVE  Carries(FrameBytes(frame), frame, Len(frame.data))
BY DEF OnLine, Carries

\* A byte read, damaged or not, keeps the survey:
LEMMA SurveyRead ==
  ASSUME Typed, Typed', Survey, line # <<>>, line' = Tail(line), NEW b \in Byte, xTP_Read(b),
         UNCHANGED <<frame, aligned, lost>>,
         NextByte(b, FrameBytes(frame), Gone, hit, hit')
  PROVE  Survey'
<1>1. frame' = frame /\ aligned' = aligned /\ lost' = lost  OBVIOUS
<1>2. /\ frame # NoFrame /\ Gone \in Nat /\ Gone + 1 <= 13 + Len(frame.data)
      /\ Gone' = Gone + 1
  BY <1>1, Leaves
<1> SUFFICES ASSUME aligned
             PROVE  Tracked(d', got', frame, Len(frame.data), FrameBytes(frame), Gone', hit', lost')
  BY <1>1 DEF Survey
<1>3. Tracked(d, got, frame, Len(frame.data), FrameBytes(frame), Gone, hit, lost)
  BY <1>2 DEF Survey
<1>4. d \in Decoder /\ d' \in Decoder  BY DEF Typed, Fits
<1>5. hit \subseteq 1 .. Gone  BY DEF Typed, Counted
<1>6. Carries(FrameBytes(frame), frame, Len(frame.data))
  BY <1>2, OnLineCarries DEF Typed
<1>7. PICK F, n : F = FrameBytes(frame) /\ n = Len(frame.data)  OBVIOUS
<1>8. Tracked(d', got', frame, n, F, Gone + 1, hit', lost)
  BY <1>2, <1>3, <1>4, <1>5, <1>6, <1>7, TrackedRead
<1> QED BY <1>1, <1>2, <1>7, <1>8

\* one that arrives,
LEMMA SurveyArrive == Typed /\ Typed' /\ Survey /\ Arrive => Survey'
<1> SUFFICES ASSUME Typed, Typed', Survey, Arrive PROVE Survey'  OBVIOUS
<1>1. /\ line # <<>> /\ line' = Tail(line) /\ xTP_Read(Head(line))
      /\ UNCHANGED <<frame, aligned, lost>> /\ hit' = hit
  BY DEF Arrive
<1>2. Head(line) \in Byte /\ Head(line) = FrameBytes(frame)[Gone + 1]
  BY <1>1, Leaves
<1>3. NextByte(Head(line), FrameBytes(frame), Gone, hit, hit')
  BY <1>1, <1>2 DEF NextByte
<1> QED BY <1>1, <1>2, <1>3, SurveyRead

\* one that is damaged,
LEMMA SurveyDamage == Typed /\ Typed' /\ Survey /\ Damage => Survey'
<1> SUFFICES ASSUME Typed, Typed', Survey, Damage PROVE Survey'  OBVIOUS
<1>1. /\ line # <<>> /\ line' = Tail(line)
      /\ UNCHANGED <<frame, aligned, lost>> /\ hit' = hit \cup {At}
  BY DEF Damage
<1>2. PICK e \in Noise : xTP_Read(Xor(Head(line), e))  BY DEF Damage
<1>3. Head(line) \in Byte /\ Head(line) = FrameBytes(frame)[Gone + 1] /\ At = Gone + 1
  BY <1>1, Leaves
<1>4. PICK b \in Byte : b = Xor(Head(line), e) /\ b # Head(line)  BY <1>3, NoisyByte
<1>5. NextByte(b, FrameBytes(frame), Gone, hit, hit')
  BY <1>1, <1>3, <1>4 DEF NextByte
<1> QED BY <1>1, <1>2, <1>4, <1>5, SurveyRead

\* and one that is lost.
LEMMA SurveyLose == Typed /\ Survey /\ Lose => Survey'
<1> SUFFICES ASSUME Typed, Survey, Lose PROVE Survey'  OBVIOUS
<1>1. /\ line # <<>> /\ line' = Tail(line) /\ lost' = lost \cup {At}
      /\ d' = d /\ frame' = frame /\ aligned' = aligned /\ hit' = hit /\ got' = got
  BY DEF Lose
<1>2. /\ frame # NoFrame /\ Gone \in Nat /\ Gone + 1 <= 13 + Len(frame.data)
      /\ Gone' = Gone + 1 /\ At = Gone + 1 /\ Len(frame.data) \in Nat
  BY <1>1, Leaves
<1>3. lost \subseteq 1 .. Gone  BY DEF Typed, Counted
<1> SUFFICES ASSUME aligned
             PROVE  Tracked(d, got, frame, Len(frame.data), FrameBytes(frame), Gone', hit, lost')
  BY <1>1 DEF Survey
<1>4. Tracked(d, got, frame, Len(frame.data), FrameBytes(frame), Gone, hit, lost)
  BY <1>2 DEF Survey
<1>5. PICK F, n : F = FrameBytes(frame) /\ n = Len(frame.data)  OBVIOUS
<1>6. Tracked(d, got, frame, n, F, Gone + 1, hit, lost \cup {Gone + 1})
  BY <1>2, <1>3, <1>4, <1>5, TrackedLose
<1> QED BY <1>1, <1>2, <1>5, <1>6

----------------------------------------------------------------------------
(* The properties *)

\* All bytes have left an empty line.
LEMMA LineOver ==
  ASSUME Typed, frame # NoFrame, line = <<>>
  PROVE  Gone = 13 + Len(frame.data) /\ Len(frame.data) \in Nat
<1>1. Sendable(frame) /\ OnWay(line, FrameBytes(frame), Len(frame.data), Gone)
  BY DEF Typed, OnLine
<1>2. Len(frame.data) \in Nat
  <2>1. frame.data \in Seq(Byte)  BY <1>1 DEF Sendable
  <2> QED BY <2>1
<1>3. Gone \in Nat /\ Gone + Len(<<>>) = 13 + Len(frame.data)  BY <1>1 DEF OnWay
<1>4. Len(<<>>) = 0  OBVIOUS
<1>5. PICK k \in Nat : k = Gone  BY <1>3
<1>6. Gone + 0 = 13 + Len(frame.data)  BY <1>3, <1>4
<1> QED BY <1>2, <1>5, <1>6

\* The timeout keeps the survey.
LEMMA SurveyTimeout == Typed /\ Survey /\ Timeout => Survey'
<1> SUFFICES ASSUME Typed, Survey, Timeout, frame # NoFrame, aligned PROVE Survey'
  BY DEF Survey, Timeout
<1>1. /\ line = <<>> /\ d' = Reset
      /\ UNCHANGED <<frame, line, aligned, hit, lost, got>>
  BY DEF Timeout
<1>2. Gone' = Gone  BY <1>1 DEF Gone, At
<1>3. PICK F, n : F = FrameBytes(frame) /\ n = Len(frame.data)  OBVIOUS
<1>4. Gone = 13 + n  BY <1>1, <1>3, LineOver
<1>5. Carries(F, frame, n)  BY <1>3, OnLineCarries DEF Typed
<1>6. Tracked(d, got, frame, n, F, 13 + n, hit, lost)  BY <1>3, <1>4 DEF Survey
<1>7. Tracked(Reset, got, frame, n, F, 13 + n, hit, lost)  BY <1>5, <1>6, TrackedTimeout
<1> QED BY <1>1, <1>2, <1>3, <1>4, <1>7 DEF Survey

\* A new frame begins a new one.
LEMMA SurveySend == ASSUME NEW m \in Messages PROVE Typed /\ xTP_SendEx(m) => Survey'
<1> SUFFICES ASSUME Typed, xTP_SendEx(m) PROVE Survey'  OBVIOUS
<1>1. /\ frame' = m /\ aligned' = (d.state = "START1") /\ hit' = {} /\ lost' = {}
      /\ got' = NoFrame /\ d' = d
  BY DEF xTP_SendEx
<1>2. Gone' = 0  BY Sending
<1>3. d \in Decoder  BY DEF Typed, Fits
<1>4. PICK F, n : F = FrameBytes(m) /\ n = Len(m.data)  OBVIOUS
<1>5. CASE d.state = "START1"
  <2>1. Tracked(d, NoFrame, m, n, F, 0, {}, {})  BY <1>3, <1>5, TrackedSend
  <2> QED BY <1>1, <1>2, <1>4, <2>1 DEF Survey
<1>6. CASE d.state # "START1"  BY <1>1, <1>6 DEF Survey
<1> QED BY <1>5, <1>6

\* The invariant the properties follow from.
Surveyed == Typed /\ Survey

\* Nothing is on the line at first.
LEMMA SurveyedInit == Init => Surveyed
BY TypedInit DEF Init, Surveyed, Survey

\* The invariant is inductive.
LEMMA SurveyedStep == Surveyed /\ [Next]_vars => Surveyed'
<1> SUFFICES ASSUME Typed, Survey, [Next]_vars PROVE Typed' /\ Survey'
  BY DEF Surveyed
<1>0. Typed'  BY TypedStep
<1>1. CASE \E m \in Messages : xTP_SendEx(m)  BY <1>0, <1>1, SurveySend
<1>2. CASE Arrive  BY <1>0, <1>2, SurveyArrive
<1>3. CASE Damage  BY <1>0, <1>3, SurveyDamage
<1>4. CASE Lose  BY <1>0, <1>4, SurveyLose
<1>5. CASE Timeout  BY <1>0, <1>5, SurveyTimeout
<1>6. CASE UNCHANGED vars
  BY <1>0, <1>6 DEF vars, Survey, Gone, At
<1> QED BY <1>1, <1>2, <1>3, <1>4, <1>5, <1>6 DEF Next

\* What was handed over.
LEMMA HandedOver ==
  ASSUME Surveyed, aligned, ~got.none
  PROVE  /\ Mild(hit, lost, Len(frame.data)) => Same(got, frame, hit)
         /\ Rare(frame, hit, lost, Len(frame.data)) =>
              lost = {} /\ hit = {1} /\ Same(got, frame, {})
<1>1. got # NoFrame
  <2>1. NoFrame.none = TRUE  BY DEF NoFrame
  <2> QED BY <2>1
<1>2. frame # NoFrame  BY <1>1 DEF Surveyed, Typed, OnLine
<1>3. Tracked(d, got, frame, Len(frame.data), FrameBytes(frame), Gone, hit, lost)
  BY <1>2 DEF Surveyed, Survey
<1> QED BY <1>1, <1>3 DEF Tracked, Following, AtEnd, Astray, Handed, HandedOdd

\* It implies AcceptedAsSent
LEMMA SurveyedAccepts == Surveyed => AcceptedAsSent
<1> SUFFICES ASSUME Surveyed, aligned, ~got.none
             PROVE  /\ \/ lost = {} /\ hit \cap (1 .. 3 \cup 7 .. 9 + Len(frame.data)) = {}
                       \/ lost = {} /\ AtMostOne(hit) /\ Plain(frame)
                       => /\ got.data = frame.data
                          /\ got.id = frame.id \/ hit \cap {4, 5} # {}
                          /\ got.seq = frame.seq \/ 6 \in hit
                    /\ hit = {} /\ AtMostOne(lost) /\ Plain(frame) /\ Told(frame) => lost = {}
  BY DEF AcceptedAsSent
<1>1. PICK n : n = Len(frame.data)  OBVIOUS
<1>2. n \in Nat
  <2>1. frame = NoFrame => frame.data = <<>>  BY DEF NoFrame
  <2>2. frame # NoFrame => frame.data \in Seq(Byte)
    BY DEF Surveyed, Typed, OnLine, Sendable
  <2>3. <<>> \in Seq(Byte)  OBVIOUS
  <2>4. frame.data \in Seq(Byte)  BY <2>1, <2>2, <2>3, Zenon
  <2> QED BY <1>1, <2>4
<1>3. Mild(hit, lost, n) => Same(got, frame, hit)  BY <1>1, HandedOver
<1>4. Rare(frame, hit, lost, n) => lost = {} /\ hit = {1} /\ Same(got, frame, {})
  BY <1>1, HandedOver
<1>5. Same(got, frame, {}) => Same(got, frame, hit)  BY DEF Same
<1>6. ASSUME lost = {}, hit \cap (1 .. 3 \cup 7 .. 9 + n) = {}
      PROVE  Same(got, frame, hit)
  <2>1. Special(n) \cup Payload(n) \subseteq 1 .. 3 \cup 7 .. 9 + n
    BY <1>2 DEF Special, Payload
  <2>2. Mild(hit, lost, n)  BY <1>6, <2>1 DEF Mild, AtMostOne
  <2> QED BY <1>3, <2>2
<1>7. ASSUME lost = {}, AtMostOne(hit), Plain(frame)
      PROVE  Same(got, frame, hit)
  <2>1. CASE hit \cap Special(n) = {}
    <3>1. Mild(hit, lost, n)  BY <1>7, <2>1 DEF Mild, AtMostOne
    <3> QED BY <1>3, <3>1
  <2>2. CASE hit \cap Special(n) # {}
    <3>1. \E p \in Special(n) : hit = {p}  BY <1>7, <2>2 DEF AtMostOne
    <3>2. Rare(frame, hit, lost, n)  BY <1>7, <3>1 DEF Rare
    <3> QED BY <1>4, <1>5, <3>2
  <2> QED BY <2>1, <2>2
<1>8. ASSUME hit = {}, AtMostOne(lost), Plain(frame), Told(frame) PROVE lost = {}
  <2> SUFFICES ASSUME lost # {} PROVE FALSE  OBVIOUS
  <2>1. \E q : lost = {q}  BY <1>8 DEF AtMostOne
  <2>2. Rare(frame, hit, lost, n)  BY <1>8, <2>1 DEF Rare
  <2> QED BY <1>4, <2>2
<1>9. Same(got, frame, hit) =>
        /\ got.data = frame.data
        /\ got.id = frame.id \/ hit \cap {4, 5} # {}
        /\ got.seq = frame.seq \/ 6 \in hit
  BY DEF Same
<1> QED BY <1>1, <1>6, <1>7, <1>8, <1>9

\* and OneErrorRepaired.
LEMMA SurveyedRepairs == Surveyed => OneErrorRepaired
<1> SUFFICES ASSUME Surveyed, line = <<>>, aligned, frame # NoFrame, lost = {},
                    \/ hit \subseteq DataBytes /\ AtMostOne(hit)
                    \/ hit \subseteq CrcBytes /\ frame.data # <<>>
             PROVE  got = frame
  BY DEF OneErrorRepaired
<1>0. Typed  BY DEF Surveyed
<1>1. PICK n, F : n \in Nat /\ n = Len(frame.data) /\ F = FrameBytes(frame) /\ Gone = 13 + n
  BY <1>0, LineOver
<1>2. Carries(F, frame, n)  BY <1>0, <1>1, OnLineCarries DEF Typed
<1>3. Tracked(d, got, frame, n, F, 13 + n, hit, lost)  BY <1>1 DEF Surveyed, Survey
<1>p. DataBytes = Payload(n) /\ CrcBytes = {10 + n, 11 + n}
  BY <1>1 DEF DataBytes, CrcBytes, Payload
<1>n. n \in Nat  BY <1>1
<1>4. /\ DataBytes \cap Special(n) = {} /\ CrcBytes \cap Special(n) = {}
      /\ CrcBytes \cap Payload(n) = {} /\ DataBytes = Payload(n)
      /\ 12 + n \notin DataBytes \cup CrcBytes /\ 13 + n \notin DataBytes \cup CrcBytes
      /\ 4 \notin DataBytes \cup CrcBytes /\ 5 \notin DataBytes \cup CrcBytes
      /\ 6 \notin DataBytes \cup CrcBytes
  BY <1>p, <1>n DEF Special, Payload
<1>5. Mild(hit, lost, n)  BY <1>4 DEF Mild, AtMostOne
<1>6. ~Following(d, got, F, 13 + n, hit, lost)  BY <1>2, <1>5, MildOver
<1>7. ~AtEnd(d, got, frame, n, 13 + n, hit)
  <2>1. hit \cap {12 + n, 13 + n} = {}  BY <1>4
  <2>2. frame.data = <<>> => hit = {}
    <3>1. frame.data = <<>> => n = 0  BY <1>1
    <3>2. n = 0 => DataBytes = {}  BY <1>1 DEF DataBytes
    <3> QED BY <3>1, <3>2
  <2> QED BY <2>1, <2>2 DEF AtEnd
<1>8. Same(got, frame, hit)  BY <1>3, <1>5, <1>6, <1>7 DEF Tracked, Handed
<1>9. got.data = frame.data /\ got.none = FALSE /\ got.id = frame.id /\ got.seq = frame.seq
  BY <1>4, <1>8 DEF Same
<1>10. got \in [id : Word, seq : Byte, data : Seq(Byte), none : BOOLEAN]
  BY <1>0 DEF Typed, GotType
<1>11. frame \in [id : Word, seq : Byte, data : Seq(Byte), none : {FALSE}]
  BY <1>0, XtpFrameAssumption DEF Typed
<1>12. frame.none = FALSE  BY <1>11
<1>13. /\ got = [id |-> got.id, seq |-> got.seq, data |-> got.data, none |-> got.none]
       /\ frame = [id |-> frame.id, seq |-> frame.seq, data |-> frame.data, none |-> frame.none]
  BY <1>10, <1>11, Zenon
<1> QED BY <1>9, <1>12, <1>13, Zenon

\* What the application is handed was sent, for any messages up to the longest,
\* any error patterns and any number of faults (xTP_Read, xTP_ECC_Decode).
THEOREM AcceptsAsSent == Spec => []AcceptedAsSent
<1>1. Spec => []Surveyed
  BY SurveyedInit, SurveyedStep, PTL DEF Spec
<1> QED BY <1>1, SurveyedAccepts, PTL

\* One wrong byte of any payload, or a wrong CRC, does not stop a frame, for any
\* messages, error patterns and number of faults (xTP_Read, xTP_ECC_Decode).
THEOREM RepairsOneError == Spec => []OneErrorRepaired
<1>1. Spec => []Surveyed
  BY SurveyedInit, SurveyedStep, PTL DEF Spec
<1> QED BY <1>1, SurveyedRepairs, PTL

=============================================================================
