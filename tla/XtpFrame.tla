------------------------------ MODULE XtpFrame ------------------------------
(***************************************************************************)
(* The frame codec of xTP (M1_SysApp/xtp/xtp.c, xtp_ecc.c, xtp_crc.c), as  *)
(* it is configured: CRC-16/XMODEM, two ECC bytes over the payload, an     *)
(* 8-bit LEN, the SEQ byte of ARQ, no segments, addresses or MAC.  Bytes   *)
(* are computed with, because what the decoder may accept depends on them. *)
(*                                                                         *)
(*      START1 START2 TM ID_L ID_H SEQ LEN DATA.. ECC0 ECC1 CRC_L CRC_H    *)
(*      STOP1 STOP2                                                        *)
(*                                                                         *)
(* xTP_SendEx puts a whole frame on the line; xTP_Process takes the bytes  *)
(* that arrive one at a time and gives each to xTP_Read.  The line damages *)
(* or loses at most MaxFaults bytes in a behaviour.                        *)
(***************************************************************************)
EXTENDS XtpCodes, FiniteSets

CONSTANTS
    Messages,   \* what xTP_SendEx is called with: records id, seq, data, none
    Noise,      \* the error patterns a damaged byte is xored with
    MaxFaults   \* bound: bytes damaged or lost

ASSUME XtpFrameAssumption ==
    /\ Messages \subseteq [id : Word, seq : Byte, data : Seq(Byte), none : {FALSE}]
    /\ \A m \in Messages : Len(m.data) <= 255
    /\ Noise \subseteq 1 .. 255
    /\ MaxFaults \in Nat

VARIABLES
    d,          \* inst->data, the decoder (xTP_Data_t)
    frame,      \* the message on the line, the last one when line = <<>>
    line,       \* the bytes of its frame that have not arrived
    aligned,    \* was the decoder waiting for a START1 when the frame began?
    hit,        \* the positions of the frame's bytes that were damaged
    lost,       \* the positions of those that were lost
    faults,     \* bytes damaged or lost so far, in all frames
    got         \* what xTP_Process dispatched since the frame began

vars == <<d, frame, line, aligned, hit, lost, faults, got>>

NoFrame == [id |-> 0, seq |-> 0, data |-> <<>>, none |-> TRUE]

START1 == 192    \* XTP_START1_BYTE, protocol version 0
START2 == 222    \* XTP_START2_BYTE
STOP1  == 218    \* XTP_STOP1_BYTE
STOP2  == 237    \* XTP_STOP2_BYTE
TM     == 162    \* XTP_PROT_XFER_BYTE: CRC-16, ECC and ARQ

\* The bytes the CRC is taken over, and all that xTP_SendEx hands to the port,
\* one after another.
Covered(m) ==
    <<TM, m.id % 256, m.id \div 256, m.seq, Len(m.data)>>
        \o m.data \o Encode(m.data)

FrameBytes(m) ==
    LET crc == CrcOf(Covered(m))
    IN  <<START1, START2>> \o Covered(m)
            \o <<crc % 256, crc \div 256, STOP1, STOP2>>

----------------------------------------------------------------------------
(* The decoder *)

\* What xTP_Reset leaves: only the expected TM and the tick survive it.
Reset ==
    [state |-> "START1", id |-> 0, seq |-> 0, length |-> 0, data |-> <<>>,
     ecc |-> <<0, 0>>, crc |-> 0, crc_received |-> 0]

Init ==
    /\ d = Reset
    /\ frame = NoFrame /\ line = <<>>
    /\ aligned = TRUE
    /\ hit = {} /\ lost = {} /\ faults = 0
    /\ got = NoFrame

Go(state)       == [d EXCEPT !.state = state]
Hashed(b, next) == [d EXCEPT !.state = next, !.crc = CrcUpdate(@, b)]

\* A byte that must be the expected one, or the frame is dropped.
Expect(b, sync, next) == d' = IF b = sync THEN next ELSE Reset

\* Any version is a START1; a new frame begins with a reset.
ReadStart(b) ==
    \/ /\ d.state = "START1"
       /\ d' = IF b \div 16 = 12 THEN [Reset EXCEPT !.state = "START2"] ELSE d
    \/ d.state = "START2" /\ Expect(b, START2, Go("TYPEMETHOD"))

ReadHeader(b) ==
    \/ d.state = "TYPEMETHOD" /\ Expect(b, TM, Hashed(b, "ID"))
    \/ d.state = "ID" /\ d' = [Hashed(b, "ID_HIGH") EXCEPT !.id = b]
    \/ d.state = "ID_HIGH" /\ d' = [Hashed(b, "SEQ") EXCEPT !.id = @ + 256 * b]
    \/ d.state = "SEQ" /\ d' = [Hashed(b, "LEN") EXCEPT !.seq = b]
    \/ /\ d.state = "LEN"
       /\ d' = [Hashed(b, IF b > 0 THEN "DATA" ELSE "ECC0") EXCEPT !.length = b]

ReadData(b) ==
    /\ d.state = "DATA"
    /\ d' = [Hashed(b, IF Len(d.data) + 1 = d.length THEN "ECC0" ELSE "DATA")
                EXCEPT !.data = Append(@, b)]

ReadEcc(b) ==
    \/ d.state = "ECC0" /\ d' = [Hashed(b, "ECC1") EXCEPT !.ecc[1] = b]
    \/ d.state = "ECC1" /\ d' = [Hashed(b, "CRC1") EXCEPT !.ecc[2] = b]

\* When the CRC does not match, the frame stands if the ECC of its payload
\* matches or repairs it; the CRC is not looked at again.
ReadCrc(b) ==
    \/ d.state = "CRC1" /\ d' = [Go("CRC2") EXCEPT !.crc_received = b]
    \/ /\ d.state = "CRC2"
       /\ LET stop     == [Go("STOP1") EXCEPT !.crc_received = @ + 256 * b]
              repaired == Repairs(d.data, d.ecc)
          IN  \/ stop.crc_received = d.crc /\ d' = stop
              \/ /\ stop.crc_received # d.crc
                 /\ d' \in IF repaired = {} THEN {Reset}
                           ELSE {[stop EXCEPT !.data = r] : r \in repaired}

\* The end of a frame: the decoder waits for a START1 and keeps its fields
\* for the dispatch.
ReadStop(b) ==
    \/ /\ d.state = "STOP1"
       /\ Expect(b, STOP1, Go("STOP2"))
       /\ UNCHANGED got
    \/ /\ d.state = "STOP2"
       /\ Expect(b, STOP2, Go("START1"))
       /\ got' = IF b = STOP2
                 THEN [id |-> d.id, seq |-> d.seq, data |-> d.data, none |-> FALSE]
                 ELSE got

xTP_Read(b) ==
    \/ /\ ReadStart(b) \/ ReadHeader(b) \/ ReadData(b) \/ ReadEcc(b) \/ ReadCrc(b)
       /\ UNCHANGED got
    \/ ReadStop(b)

----------------------------------------------------------------------------
(* The line *)

\* A frame is put on the line when the one before has left it, bound: at most
\* one frame in a row while the decoder is in the middle of another.
xTP_SendEx(m) ==
    /\ line = <<>> /\ (aligned \/ d.state = "START1")
    /\ frame' = m /\ line' = FrameBytes(m)
    /\ aligned' = (d.state = "START1")
    /\ hit' = {} /\ lost' = {}
    /\ got' = NoFrame
    /\ UNCHANGED <<d, faults>>

\* The position in the frame of the byte that arrives next.
At == Len(frame.data) + 14 - Len(line)

Arrive ==
    /\ line # <<>>
    /\ xTP_Read(Head(line))
    /\ line' = Tail(line)
    /\ UNCHANGED <<frame, aligned, hit, lost, faults>>

Damage ==
    /\ line # <<>> /\ faults < MaxFaults
    /\ \E n \in Noise : xTP_Read(Xor(Head(line), n))
    /\ line' = Tail(line)
    /\ hit' = hit \cup {At} /\ faults' = faults + 1
    /\ UNCHANGED <<frame, aligned, lost>>

Lose ==
    /\ line # <<>> /\ faults < MaxFaults
    /\ line' = Tail(line)
    /\ lost' = lost \cup {At} /\ faults' = faults + 1
    /\ UNCHANGED <<d, frame, aligned, hit, got>>

\* xTP_Process finds no byte for XTP_TIMEOUT_MS in the middle of a frame.
Timeout ==
    /\ line = <<>>
    /\ d.state # "START1"
    /\ d' = Reset
    /\ UNCHANGED <<frame, line, aligned, hit, lost, faults, got>>

Next ==
    \/ \E m \in Messages : xTP_SendEx(m)
    \/ Arrive \/ Damage \/ Lose \/ Timeout

Spec == Init /\ [][Next]_vars

----------------------------------------------------------------------------
(* Properties *)

DataBytes == 8 .. 7 + Len(frame.data)
CrcBytes  == {10 + Len(frame.data), 11 + Len(frame.data)}

AtMostOne(S) == \A p, q \in S : p = q

\* No bytes of the frame look like the beginning or the end of another one.
Plain(m) ==
    \A k \in 3 .. Len(m.data) + 11 :
        LET pair == SubSeq(FrameBytes(m), k, k + 1)
        IN  pair # <<START2, TM>> /\ pair # <<STOP1, STOP2>>

\* The CRC tells when a byte of the header is missing.
Told(m) == \A k \in 1 .. 5 : CrcOf(RemoveAt(Covered(m), k)) # CrcOf(Covered(m))

Decoder ==
    [state : {"START1", "START2", "TYPEMETHOD", "ID", "ID_HIGH", "SEQ", "LEN",
              "DATA", "ECC0", "ECC1", "CRC1", "CRC2", "STOP1", "STOP2"},
     id : Word, seq : Byte, length : Byte, data : Seq(Byte),
     ecc : Byte \X Byte, crc : Word, crc_received : Word]

\* Everything has its type, and the decoder never holds more payload than LEN
\* announced: the byte that completes it leaves the state DATA (xTP_Read).
FrameTypeOK ==
    /\ d \in Decoder
    /\ Len(d.data) <= d.length
    /\ d.state = "DATA" => Len(d.data) < d.length
    /\ line \in Seq(Byte)
    /\ frame \in Messages \cup {NoFrame}
    /\ aligned \in BOOLEAN
    /\ got \in [id : Word, seq : Byte, data : Seq(Byte), none : BOOLEAN]
    /\ hit \cup lost \subseteq 1 .. At - 1
    /\ Cardinality(hit) + Cardinality(lost) <= faults /\ faults <= MaxFaults

\* What the application is handed was sent (xTP_Read, xTP_ECC_Decode).  The
\* payload of an accepted frame is the one sent, and its ID and SEQ are unless
\* one of their own bytes was damaged, when START, TM, LEN, DATA and ECC arrived
\* as they were, or when no byte or a single one was damaged, whichever it was,
\* and no bytes of the frame look like the beginning or the end of another.  A
\* damaged header is accepted: nothing but the CRC covers it, and an intact
\* payload overrules the CRC.  A frame that lost one byte is not accepted,
\* unless its CRC is right without the byte.
AcceptedAsSent ==
    aligned /\ ~got.none =>
        /\ \/ lost = {} /\ hit \cap (1 .. 3 \cup 7 .. 9 + Len(frame.data)) = {}
           \/ lost = {} /\ AtMostOne(hit) /\ Plain(frame)
           => /\ got.data = frame.data
              /\ got.id = frame.id \/ hit \cap {4, 5} # {}
              /\ got.seq = frame.seq \/ 6 \in hit
        /\ hit = {} /\ AtMostOne(lost) /\ Plain(frame) /\ Told(frame) => lost = {}

\* A frame that finds the decoder waiting for its START1 is handed over as it
\* was sent although one byte of its payload, or the CRC, was damaged on the
\* way (xTP_ECC_Decode); without a payload there is nothing to overrule the
\* CRC with.
OneErrorRepaired ==
    (/\ line = <<>> /\ aligned /\ frame # NoFrame
     /\ lost = {}
     /\ \/ hit \subseteq DataBytes /\ AtMostOne(hit)
        \/ hit \subseteq CrcBytes /\ frame.data # <<>>)
        => got = frame

=============================================================================
