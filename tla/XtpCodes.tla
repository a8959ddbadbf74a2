------------------------------ MODULE XtpCodes ------------------------------
(***************************************************************************)
(* The check bytes of an xTP frame (M1_SysApp/xtp/xtp_ecc.c, xtp_crc.c):   *)
(* two ECC bytes over the payload, which let the receiver put one wrong    *)
(* byte right, and CRC-16/XMODEM over everything between the START and the *)
(* CRC bytes.  Bytes are computed with, because what the decoder accepts   *)
(* depends on them.                                                        *)
(***************************************************************************)
EXTENDS Integers, Sequences, SequencesExt

Byte == 0 .. 255
Word == 0 .. 65535

\* The bits of half a byte, the lowest first, and the number of given bits.
Weight    == <<1, 2, 4, 8>>
Bits(x)   == [i \in 1 .. 4 |-> (x \div Weight[i]) % 2]
Number(v) == v[1] + 2 * v[2] + 4 * v[3] + 8 * v[4]

\* The operator ^ on half bytes, on bytes and on 16 bits.
Xor4 == [x \in 0 .. 15 |-> [y \in 0 .. 15 |->
            Number([i \in 1 .. 4 |-> (Bits(x)[i] + Bits(y)[i]) % 2])]]

Xor(x, y) == 16 * Xor4[x \div 16][y \div 16] + Xor4[x % 16][y % 16]

Xor16(x, y) == 256 * Xor(x \div 256, y \div 256) + Xor(x % 256, y % 256)

----------------------------------------------------------------------------
(* ECC *)

\* One step of the Galois LFSR.
lf_sr == [x \in Byte |-> Xor(x \div 2, IF x % 2 = 1 THEN 142 ELSE 0)]

\* The two check bytes of a payload, after each of its bytes.
Encode(data) ==
    LET ecc[i \in 0 .. Len(data)] ==
            IF i = 0
            THEN <<0, 0>>
            ELSE LET before == ecc[i - 1]
                 IN  <<Xor(before[1], data[i]), lf_sr[Xor(before[2], data[i])]>>
    IN  ecc[Len(data)]

\* How many turns of the LFSR lead from one syndrome to the other, all of its
\* period when the search gives up.
Period == 255

Turns(scc0, scc1) ==
    LET search[n \in 0 .. Period] ==
            [x \in Byte |->
                IF n = Period \/ x = scc0 THEN n ELSE search[n + 1][lf_sr[x]]]
    IN  search[0][scc1]

\* The place of the wrong byte, counted from 1: idx + 1, where idx starts at
\* len - 255 and a search that gave up or left the payload finds no place.
Fault_Place(len, scc0, scc1) == len + 1 + Turns(scc0, scc1) - (Period - 1)

Place(len, scc0, scc1) == len + 1 + Turns(scc0, scc1) - Period

\* xTP_ECC_Decode: the payload it leaves when it returns OK or CORRECTED, none
\* when it fails.  One wrong check byte is a failure although the payload is
\* right.
Fault_Repairs(data, ecc) ==
    LET scc0 == Xor(Encode(data)[1], ecc[1])
        scc1 == Xor(Encode(data)[2], ecc[2])
    IN  IF data = <<>> \/ (scc0 = 0) # (scc1 = 0)
        THEN {}
        ELSE {[k \in DOMAIN data |->
                  IF k = Place(Len(data), scc0, scc1) THEN Xor(data[k], scc0)
                  ELSE data[k]]}

Repairs(data, ecc) ==
    LET scc0 == Xor(Encode(data)[1], ecc[1])
        scc1 == Xor(Encode(data)[2], ecc[2])
    IN  IF data = <<>> \/ (scc0 = 0) # (scc1 = 0)
        THEN {}
        ELSE IF scc0 = 0
             THEN {data}
             ELSE {[data EXCEPT ![k] = Xor(@, scc0)] :
                      k \in DOMAIN data \cap {Place(Len(data), scc0, scc1)}}

----------------------------------------------------------------------------
(* CRC *)

\* The 256 entries of xtp_crc16_table: the remainder of each byte.
CrcTable ==
    [b \in Byte |->
        FoldLeft(LAMBDA c, i : IF c >= 32768 THEN Xor16((2 * c) % 65536, 4129)
                               ELSE 2 * c,
                 256 * b, <<1, 2, 3, 4, 5, 6, 7, 8>>)]

\* xTP_CRC_Update on 16 bits.
CrcUpdate(crc, b) == Xor16((256 * crc) % 65536, CrcTable[Xor(crc \div 256, b)])

\* The CRC of some bytes, after each of them.
CrcOf(bytes) ==
    LET crc[i \in 0 .. Len(bytes)] ==
            IF i = 0 THEN 0 ELSE CrcUpdate(crc[i - 1], bytes[i])
    IN  crc[Len(bytes)]

----------------------------------------------------------------------------
(* What the tables are, which is computed in full *)

\* Any byte but 0 comes back after a period of the LFSR and no sooner.
ASSUME LfsrPeriod == \A x \in Byte \ {0} : Turns(x, lf_sr[x]) = Period - 1

\* An entry of the CRC table is known by its low byte.
ASSUME CrcTableApart ==
    /\ \A b \in Byte : CrcTable[b] \in Word
    /\ \A a, b \in Byte : CrcTable[a] % 256 = CrcTable[b] % 256 => a = b

=============================================================================
