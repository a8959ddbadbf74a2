----------------------------- MODULE XtpLinkProofs ------------------------------
(***************************************************************************)
(* Proofs about the request link, for any number of requests, retries,      *)
(* fragments and stray control frames.                                      *)
(*                                                                         *)
(* A run of a request needs one of its data frames, and each transmission   *)
(* puts one on the line: executions and frames together are counted.        *)
(* While nothing was disturbed there is one frame under way at most, a      *)
(* data frame of the present request or its acknowledgement, and only       *)
(* while the host waits.                                                    *)
(***************************************************************************)
EXTENDS XtpLink, FiniteSetTheorems, TLAPS

-----------------------------------------------------------------------------
(* Sequences of frames *)

LEMMA HeadAndTail ==
  ASSUME NEW S, NEW q \in Seq(S), q # <<>>
  PROVE  /\ Head(q) \in S /\ Head(q) = q[1]
         /\ Tail(q) \in Seq(S) /\ Len(q) \in Nat \ {0}
         /\ Len(Tail(q)) = Len(q) - 1
         /\ \A i \in 1 .. Len(q) - 1 : Tail(q)[i] = q[i + 1]
  OBVIOUS

LEMMA Appended ==
  ASSUME NEW S, NEW q \in Seq(S), NEW e \in S
  PROVE  /\ Append(q, e) \in Seq(S) /\ Len(q) \in Nat /\ Len(Append(q, e)) = Len(q) + 1
         /\ \A i \in 1 .. Len(q) : Append(q, e)[i] = q[i]
         /\ Append(q, e)[Len(q) + 1] = e
  OBVIOUS

LEMMA FramesAre ==
  /\ \A n \in Requests : Ack(n) \in Frames /\ Response(n) \in Frames
  /\ \A n \in Requests, filled \in BOOLEAN : Data(n, filled) \in Frames
  /\ \A kind \in Controls : Control(kind) \in Frames
  /\ \A f \in Frames :
       /\ f.kind \in {"DATA", "ACK", "RESP"} \cup Controls
       /\ f.kind \in {"DATA", "ACK", "RESP"} => f.req \in Requests
       /\ f.kind = "DATA" => f.filled \in BOOLEAN
BY XtpAssumption DEF Frames, Ack, Response, Data, Control

\* What the MCU adds to the frames on their way to the host.
LEMMA Answered ==
  ASSUME NEW q \in Seq(Frames), NEW n \in Requests, NEW k \in 1 .. MaxFragments
  PROVE  LET new == Append(q, Ack(n)) \o Fragments(n, k) IN
         /\ new \in Seq(Frames) /\ Len(q) \in Nat /\ Len(new) = Len(q) + 1 + k
         /\ \A i \in 1 .. Len(q) : new[i] = q[i]
         /\ new[Len(q) + 1] = Ack(n)
         /\ \A i \in Len(q) + 2 .. Len(new) : new[i] = Response(n)
<1>. DEFINE a == Append(q, Ack(n))
            f == Fragments(n, k)
<1>1. /\ a \in Seq(Frames) /\ Len(q) \in Nat /\ Len(a) = Len(q) + 1
      /\ \A i \in 1 .. Len(q) : a[i] = q[i]
      /\ a[Len(q) + 1] = Ack(n)
  BY FramesAre, Appended
<1>2. k \in Nat /\ Response(n) \in Frames  BY FramesAre
<1>3. f \in Seq(Frames) /\ Len(f) = k /\ \A i \in 1 .. k : f[i] = Response(n)
  BY <1>2 DEF Fragments
<1>. HIDE DEF a, f
<1>4. /\ a \o f \in Seq(Frames) /\ Len(a \o f) = Len(q) + 1 + k
      /\ \A i \in 1 .. Len(q) + 1 : (a \o f)[i] = a[i]
      /\ \A i \in Len(q) + 2 .. Len(q) + 1 + k : (a \o f)[i] = f[i - (Len(q) + 1)]
  BY <1>1, <1>2, <1>3
<1>5. \A i \in Len(q) + 2 .. Len(q) + 1 + k : i - (Len(q) + 1) \in 1 .. k
  BY <1>1, <1>2
<1>6. \A i \in Len(q) + 2 .. Len(q) + 1 + k : (a \o f)[i] = Response(n)
  BY <1>3, <1>4, <1>5
<1>. QED  BY <1>1, <1>4, <1>6 DEF a, f

-----------------------------------------------------------------------------
(* Counting the data frames of a request *)

Sent(q, n) == {i \in 1 .. Len(q) : q[i].kind = "DATA" /\ q[i].req = n}

LEMMA SentFinite ==
  ASSUME NEW q \in Seq(Frames), NEW n
  PROVE  IsFiniteSet(Sent(q, n)) /\ Cardinality(Sent(q, n)) \in Nat
<1>1. Len(q) \in Nat  OBVIOUS
<1>2. IsFiniteSet(1 .. Len(q))  BY <1>1, FS_Interval
<1>3. Sent(q, n) \in SUBSET (1 .. Len(q))  BY DEF Sent
<1>4. IsFiniteSet(Sent(q, n))  BY <1>2, <1>3, FS_Subset
<1>. QED  BY <1>4, FS_CardinalityType

LEMMA SentAppend ==
  ASSUME NEW q \in Seq(Frames), NEW f \in Frames, NEW n
  PROVE  Cardinality(Sent(Append(q, f), n)) =
           Cardinality(Sent(q, n)) + (IF f.kind = "DATA" /\ f.req = n THEN 1 ELSE 0)
<1>1. /\ Len(q) \in Nat /\ Len(Append(q, f)) = Len(q) + 1
      /\ \A i \in 1 .. Len(q) : Append(q, f)[i] = q[i]
      /\ Append(q, f)[Len(q) + 1] = f
  BY Appended
<1>2. Len(q) + 1 \notin Sent(q, n)  BY <1>1 DEF Sent
<1>3. \A i : i \in 1 .. Len(q) + 1 <=> i \in 1 .. Len(q) \/ i = Len(q) + 1
  BY <1>1
<1>4. CASE f.kind = "DATA" /\ f.req = n
  <2>1. Sent(Append(q, f), n) = Sent(q, n) \cup {Len(q) + 1}
    BY <1>1, <1>3, <1>4 DEF Sent
  <2>. QED  BY <2>1, <1>2, <1>4, SentFinite, FS_AddElement
<1>5. CASE ~(f.kind = "DATA" /\ f.req = n)
  <2>1. Sent(Append(q, f), n) = Sent(q, n)
    BY <1>1, <1>3, <1>5 DEF Sent
  <2>2. Cardinality(Sent(q, n)) \in Nat  BY SentFinite
  <2>. QED  BY <2>1, <2>2, <1>5
<1>. QED  BY <1>4, <1>5

LEMMA SentTail ==
  ASSUME NEW q \in Seq(Frames), q # <<>>, NEW n
  PROVE  Cardinality(Sent(Tail(q), n))
           + (IF Head(q).kind = "DATA" /\ Head(q).req = n THEN 1 ELSE 0)
             <= Cardinality(Sent(q, n))
<1>1. /\ Head(q) = q[1] /\ Tail(q) \in Seq(Frames) /\ Len(q) \in Nat \ {0}
      /\ Len(Tail(q)) = Len(q) - 1
      /\ \A i \in 1 .. Len(q) - 1 : Tail(q)[i] = q[i + 1]
  BY HeadAndTail
<1>. DEFINE rest == Sent(q, n) \ {1}
            shift == [i \in Sent(Tail(q), n) |-> i + 1]
<1>2. \A i \in Sent(Tail(q), n) : i \in Nat /\ i + 1 \in rest
  BY <1>1 DEF Sent
<1>3. \A i, j \in Sent(Tail(q), n) : i + 1 = j + 1 => i = j
  BY <1>2
<1>4. shift \in Injection(Sent(Tail(q), n), rest)
  BY <1>2, <1>3 DEF Injection, IsInjective
<1>5. IsFiniteSet(Sent(q, n)) /\ Cardinality(Sent(q, n)) \in Nat  BY SentFinite
<1>6. /\ IsFiniteSet(rest)
      /\ Cardinality(rest) = IF 1 \in Sent(q, n) THEN Cardinality(Sent(q, n)) - 1
                             ELSE Cardinality(Sent(q, n))
  BY <1>5, FS_RemoveElement
<1>7. Cardinality(Sent(Tail(q), n)) <= Cardinality(rest)
  BY <1>4, <1>6, FS_Injection
<1>8. Head(q).kind = "DATA" /\ Head(q).req = n => 1 \in Sent(q, n)
  BY <1>1 DEF Sent
<1>9. Cardinality(Sent(Tail(q), n)) \in Nat  BY <1>1, SentFinite
<1>. HIDE DEF rest
<1>. QED  BY <1>5, <1>6, <1>7, <1>8, <1>9

-----------------------------------------------------------------------------
(* Types *)

\* The host looks at its flags with every frame: it does not go on waiting with
\* one of them set.
WaitInv == stage = "wait" => ~ack_received /\ ~nack_received

TypeInv == XtpTypeOK /\ WaitInv

\* The MCU's answer to one frame.
LEMMA McuTypes ==
  ASSUME TypeInv, McuProcess
  PROVE  /\ up # <<>> /\ up' = Tail(up) /\ down' \in Seq(Frames)
         /\ executions' \in [Requests -> Nat]
         /\ Head(up).kind # "DATA" => UNCHANGED <<down, executions>>
         /\ Head(up).kind = "DATA" =>
              /\ Head(up).req \in Requests
              /\ \A n \in Requests : executions'[n] <=
                   executions[n] + (IF n = Head(up).req THEN 1 ELSE 0)
              /\ \A n \in Requests : executions'[n] >= executions[n]
              /\ Head(up).filled => executions'[Head(up).req] > 0
<1>1. /\ up # <<>> /\ up \in Seq(Frames) /\ down \in Seq(Frames)
      /\ executions \in [Requests -> Nat]
  BY DEF TypeInv, XtpTypeOK, McuProcess
<1>2. Head(up) \in Frames  BY <1>1, HeadAndTail
<1>3. CASE Head(up).kind # "DATA"
  BY <1>1, <1>3 DEF McuProcess
<1>4. CASE Head(up).kind = "DATA"
  <2>1. PICK k \in 1 .. MaxFragments : Serve(Head(up), k)
    BY <1>4 DEF McuProcess
  <2>2. Head(up).req \in Requests /\ Head(up).filled \in BOOLEAN
    BY <1>2, <1>4, FramesAre
  <2>3. /\ Append(down, Ack(Head(up).req)) \in Seq(Frames)
        /\ Append(down, Ack(Head(up).req)) \o Fragments(Head(up).req, k) \in Seq(Frames)
    BY <1>1, <2>2, FramesAre, Appended, Answered
  <2>4. down' \in Seq(Frames)
    BY <2>1, <2>3 DEF Serve
  <2>5. CASE Head(up).filled
    <3>1. executions' = [executions EXCEPT ![Head(up).req] = @ + 1]
      BY <2>1, <2>5 DEF Serve
    <3>. QED  BY <1>1, <1>4, <2>2, <2>4, <3>1 DEF McuProcess
  <2>6. CASE ~Head(up).filled
    <3>1. executions' = executions
      BY <2>1, <2>6 DEF Serve
    <3>. QED  BY <1>1, <1>4, <2>2, <2>4, <2>6, <3>1 DEF McuProcess
  <2>. QED  BY <2>5, <2>6
<1>. QED  BY <1>3, <1>4

\* Returning, and trying again.
LEMMA HostTypes ==
  ASSUME TypeInv, stage = "wait", Retry \/ Return("ok")
  PROVE  /\ stage' \in {"idle", "transmit"} /\ retries' \in 0 .. MaxRetries
         /\ result' \in [Requests -> {"none", "ok", "err"}]
         /\ stage' = "transmit" => retries' = retries + 1 /\ result' = result
         /\ \A n \in Requests : n # current => result'[n] = result[n]
<1>1. current \in Requests  BY DEF TypeInv, XtpTypeOK, Requests
<1>2. MaxRetries \in Nat  BY XtpAssumption
<1>. QED  BY <1>1, <1>2 DEF TypeInv, XtpTypeOK, Retry, Return

LEMMA TypeStep == ASSUME TypeInv, [Next]_vars PROVE TypeInv'
<1>. USE DEF TypeInv, XtpTypeOK
<1>0. MaxRequests \in Nat /\ MaxRetries \in Nat /\ MaxControls \in Nat
  BY XtpAssumption
<1>1. ASSUME SendRequest PROVE TypeInv'
  BY <1>0, <1>1 DEF SendRequest, WaitInv
<1>2. ASSUME Transmit PROVE TypeInv'
  <2>1. current \in Requests  BY <1>2 DEF Transmit, Requests
  <2>2. up' \in Seq(Frames)  BY <1>2, <2>1, FramesAre, Appended DEF Transmit
  <2>. QED  BY <1>2, <2>2 DEF Transmit, WaitInv
<1>3. ASSUME Timeout PROVE TypeInv'
  <2>1. stage = "wait" /\ Retry  BY <1>3 DEF Timeout
  <2>2. /\ stage' \in {"idle", "transmit"} /\ retries' \in 0 .. MaxRetries
        /\ result' \in [Requests -> {"none", "ok", "err"}]
    BY <2>1, HostTypes
  <2>3. current > 0 /\ current' = current  BY <1>3, <2>1 DEF Timeout
  <2>4. undisturbed' \in BOOLEAN  BY <1>3 DEF Timeout
  <2>. QED  BY <1>3, <2>2, <2>3, <2>4 DEF Timeout, WaitInv
<1>4. ASSUME HostProcess PROVE TypeInv'
  <2>1. down # <<>> /\ HostReceive(Head(down)) /\ down' = Tail(down)
    BY <1>4 DEF HostProcess
  <2>2. Head(down) \in Frames /\ down' \in Seq(Frames)
    BY <2>1, HeadAndTail
  <2>3. up' \in Seq(Frames)
    <3>1. CASE Head(down).kind = "RESP"
      BY <2>1, <2>2, <3>1, FramesAre, Appended DEF HostReceive
    <3>2. CASE Head(down).kind # "RESP"
      BY <2>1, <3>2 DEF HostReceive
    <3>. QED  BY <3>1, <3>2
  <2>4. ack_received' \in BOOLEAN /\ nack_received' \in BOOLEAN /\ pend_filled' \in BOOLEAN
    BY <2>1 DEF HostReceive
  <2>5. /\ stage' \in {"idle", "transmit", "wait"} /\ retries' \in 0 .. MaxRetries
        /\ result' \in [Requests -> {"none", "ok", "err"}]
        /\ stage' # "idle" => current > 0
        /\ stage' = "wait" => ~ack_received' /\ ~nack_received'
    BY <1>4, HostTypes DEF HostProcess
  <2>. QED  BY <1>4, <2>2, <2>3, <2>4, <2>5 DEF HostProcess, WaitInv
<1>5. ASSUME McuProcess PROVE TypeInv'
  <2>1. /\ up # <<>> /\ up' = Tail(up) /\ down' \in Seq(Frames)
        /\ executions' \in [Requests -> Nat]
    BY <1>5, McuTypes
  <2>2. up' \in Seq(Frames)  BY <2>1, HeadAndTail
  <2>. QED  BY <1>5, <2>1, <2>2 DEF McuProcess, host_vars, WaitInv
<1>6. ASSUME LoseUp \/ LoseDown PROVE TypeInv'
  <2>1. up' \in Seq(Frames) /\ down' \in Seq(Frames)
    BY <1>6, HeadAndTail DEF LoseUp, LoseDown
  <2>. QED  BY <1>6, <2>1 DEF LoseUp, LoseDown, host_vars, WaitInv
<1>7. ASSUME NEW kind \in Controls, Inject(kind) PROVE TypeInv'
  <2>1. down' \in Seq(Frames)
    BY <1>7, FramesAre, Appended DEF Inject
  <2>. QED  BY <1>0, <1>7, <2>1 DEF Inject, host_vars, WaitInv
<1>8. ASSUME UNCHANGED vars PROVE TypeInv'
  BY <1>8 DEF vars, host_vars, WaitInv
<1>. QED
  BY <1>1, <1>2, <1>3, <1>4, <1>5, <1>6, <1>7, <1>8 DEF Next, Sending

LEMMA TypeInit == Init => TypeInv
<1>. SUFFICES ASSUME Init PROVE TypeInv  OBVIOUS
<1>1. MaxRequests \in Nat /\ MaxRetries \in Nat /\ MaxControls \in Nat
  BY XtpAssumption
<1>2. up \in Seq(Frames) /\ down \in Seq(Frames)  BY DEF Init
<1>3. result \in [Requests -> {"none", "ok", "err"}]  BY DEF Init
<1>4. executions \in [Requests -> Nat]  BY DEF Init
<1>5. retries \in 0 .. MaxRetries /\ injected \in 0 .. MaxControls /\ current \in 0 .. MaxRequests
  BY <1>1 DEF Init
<1>6. /\ stage = "idle" /\ ack_received = FALSE /\ nack_received = FALSE
      /\ pend_filled = FALSE /\ undisturbed = TRUE
  BY DEF Init
<1>. QED  BY <1>2, <1>3, <1>4, <1>5, <1>6 DEF TypeInv, XtpTypeOK, WaitInv

(***************************************************************************)
(* The variables keep their types.                                         *)
(***************************************************************************)
THEOREM XtpTypeCorrect == Spec => []XtpTypeOK
<1>1. TypeInv => XtpTypeOK  BY DEF TypeInv
<1>. QED  BY <1>1, TypeInit, TypeStep, PTL DEF Spec

-----------------------------------------------------------------------------
(* Every run needs a transmission *)

\* How often request n can have been transmitted.
Allowed(n) ==
  IF n < current \/ (n = current /\ stage = "idle") THEN MaxRetries + 1
  ELSE IF n = current THEN (IF stage = "transmit" THEN retries ELSE retries + 1) ELSE 0

CountInv == \A n \in Requests : executions[n] + Cardinality(Sent(up, n)) <= Allowed(n)

Numbers ==
  \A n \in Requests :
    Allowed(n) \in Nat /\ executions[n] \in Nat /\ Cardinality(Sent(up, n)) \in Nat

LEMMA AllowedNat == ASSUME TypeInv PROVE Numbers
<1>1. MaxRetries \in Nat /\ MaxRequests \in Nat  BY XtpAssumption
<1>2. \A n \in Requests : Cardinality(Sent(up, n)) \in Nat
  BY SentFinite DEF TypeInv, XtpTypeOK
<1>3. retries \in Nat /\ current \in Nat /\ executions \in [Requests -> Nat]
  BY <1>1 DEF TypeInv, XtpTypeOK
<1>4. \A n \in Requests : n \in Nat /\ Allowed(n) \in Nat
  BY <1>1, <1>3 DEF Allowed, Requests
<1>. QED  BY <1>2, <1>3, <1>4 DEF Numbers

\* A step that neither runs a request nor sends a data frame.
LEMMA NoMoreRuns ==
  ASSUME TypeInv, TypeInv', CountInv, executions' = executions,
         \A n \in Requests : Cardinality(Sent(up, n))' <= Cardinality(Sent(up, n)),
         \A n \in Requests : Allowed(n) <= Allowed(n)'
  PROVE  CountInv'
<1>1. Numbers /\ Numbers'  BY AllowedNat, PTL
<1>. QED  BY <1>1 DEF CountInv, Numbers

LEMMA CountStep == ASSUME TypeInv, TypeInv', CountInv, [Next]_vars PROVE CountInv'
<1>0. /\ MaxRetries \in Nat /\ MaxRequests \in Nat
      /\ up \in Seq(Frames) /\ down \in Seq(Frames) /\ executions \in [Requests -> Nat]
      /\ current \in 0 .. MaxRequests /\ retries \in 0 .. MaxRetries
      /\ stage # "idle" => current \in Requests
  BY XtpAssumption DEF TypeInv, XtpTypeOK, Requests
<1>s. \A n : Cardinality(Sent(up, n)) \in Nat  BY <1>0, SentFinite
<1>1. ASSUME SendRequest PROVE CountInv'
  <2>1. \A n \in Requests : Allowed(n) <= Allowed(n)'
    BY <1>0, <1>1 DEF SendRequest, Allowed, Requests
  <2>2. up' = up /\ executions' = executions  BY <1>1 DEF SendRequest
  <2>3. \A n \in Requests : Cardinality(Sent(up, n))' <= Cardinality(Sent(up, n))
    BY <2>2, <1>s
  <2>. QED  BY <2>1, <2>2, <2>3, NoMoreRuns
<1>2. ASSUME Transmit PROVE CountInv'
  <2>1. current \in Requests /\ pend_filled \in BOOLEAN
    BY <1>0, <1>2 DEF Transmit, TypeInv, XtpTypeOK
  <2>. DEFINE f == Data(current, pend_filled)
  <2>2. f \in Frames /\ f.kind = "DATA" /\ f.req = current
    BY <2>1, FramesAre DEF Data
  <2>3. up' = Append(up, f) /\ executions' = executions  BY <1>2 DEF Transmit
  <2>. HIDE DEF f
  <2>4. \A n \in Requests : Cardinality(Sent(up', n)) =
                              Cardinality(Sent(up, n)) + (IF n = current THEN 1 ELSE 0)
    BY <2>2, <2>3, <1>0, SentAppend
  <2>5. \A n \in Requests : Allowed(n)' = Allowed(n) + (IF n = current THEN 1 ELSE 0)
    BY <1>0, <1>2 DEF Transmit, Allowed, Requests
  <2>6. \A n \in Requests : /\ Allowed(n) \in Nat /\ executions[n] \in Nat
                            /\ executions[n] + Cardinality(Sent(up, n)) <= Allowed(n)
    BY AllowedNat DEF CountInv, Numbers
  <2>7. ASSUME NEW n \in Requests
        PROVE  executions'[n] + Cardinality(Sent(up', n)) <= Allowed(n)'
    <3>1. executions'[n] = executions[n]  BY <2>3
    <3>2. CASE n = current  BY <3>1, <3>2, <2>4, <2>5, <2>6, <1>s
    <3>3. CASE n # current  BY <3>1, <3>3, <2>4, <2>5, <2>6, <1>s
    <3>. QED  BY <3>2, <3>3
  <2>. QED  BY <2>7 DEF CountInv
<1>3. ASSUME stage = "wait", Retry \/ Return("ok"), current' = current
      PROVE  \A n \in Requests : Allowed(n) <= Allowed(n)'
  BY <1>0, <1>3, HostTypes DEF Allowed, Requests
<1>4. ASSUME Timeout PROVE CountInv'
  <2>1. \A n \in Requests : Allowed(n) <= Allowed(n)'
    BY <1>3, <1>4 DEF Timeout
  <2>2. up' = up /\ executions' = executions  BY <1>4 DEF Timeout
  <2>3. \A n \in Requests : Cardinality(Sent(up, n))' <= Cardinality(Sent(up, n))
    BY <2>2, <1>s
  <2>. QED  BY <2>1, <2>2, <2>3, NoMoreRuns
<1>5. ASSUME HostProcess PROVE CountInv'
  <2>1. /\ down # <<>> /\ HostReceive(Head(down)) /\ executions' = executions
        /\ current' = current /\ stage \in {"idle", "wait"}
        /\ \/ UNCHANGED <<stage, result, retries>>
           \/ stage = "wait" /\ (Retry \/ Return("ok"))
    BY <1>5 DEF HostProcess
  <2>2. \A n \in Requests : Allowed(n) <= Allowed(n)'
    <3>1. CASE UNCHANGED <<stage, result, retries>>
      <4>1. \A n \in Requests : Allowed(n)' = Allowed(n)
        BY <2>1, <3>1 DEF Allowed
      <4>. QED  BY <4>1, AllowedNat DEF Numbers
    <3>2. CASE stage = "wait" /\ (Retry \/ Return("ok"))
      BY <2>1, <3>2, <1>3
    <3>. QED  BY <2>1, <3>1, <3>2
  <2>3. Head(down) \in Frames  BY <2>1, <1>0, HeadAndTail
  <2>4. \A n \in Requests : Cardinality(Sent(up', n)) <= Cardinality(Sent(up, n))
    <3>1. CASE Head(down).kind = "RESP"
      <4>1. Head(down).req \in Requests  BY <2>3, <3>1, FramesAre
      <4>2. Ack(Head(down).req) \in Frames /\ Ack(Head(down).req).kind = "ACK"
        BY <4>1, FramesAre DEF Ack
      <4>3. up' = Append(up, Ack(Head(down).req))
        BY <2>1, <3>1 DEF HostReceive
      <4>4. \A n \in Requests : Cardinality(Sent(up', n)) = Cardinality(Sent(up, n)) + 0
        BY <4>2, <4>3, <1>0, SentAppend
      <4>. QED  BY <4>4, <1>s
    <3>2. CASE Head(down).kind # "RESP"
      <4>1. up' = up  BY <2>1, <3>2 DEF HostReceive
      <4>. QED  BY <4>1, <1>s
    <3>. QED  BY <3>1, <3>2
  <2>5. \A n \in Requests : Cardinality(Sent(up, n))' <= Cardinality(Sent(up, n))
    BY <2>4
  <2>. QED  BY <2>1, <2>2, <2>5, NoMoreRuns
<1>6. ASSUME McuProcess PROVE CountInv'
  <2>1. /\ up # <<>> /\ up' = Tail(up) /\ executions' \in [Requests -> Nat]
        /\ Head(up).kind # "DATA" => UNCHANGED <<down, executions>>
        /\ Head(up).kind = "DATA" =>
             \A n \in Requests : executions'[n] <=
               executions[n] + (IF n = Head(up).req THEN 1 ELSE 0)
    BY <1>6, McuTypes
  <2>2. \A n \in Requests :
          Cardinality(Sent(up', n))
            + (IF Head(up).kind = "DATA" /\ Head(up).req = n THEN 1 ELSE 0)
              <= Cardinality(Sent(up, n))
    BY <2>1, <1>0, SentTail
  <2>3. \A n \in Requests : Cardinality(Sent(up', n)) \in Nat
    BY <2>1, <1>0, HeadAndTail, SentFinite
  <2>4. \A n \in Requests : executions'[n] <=
          executions[n] + (IF Head(up).kind = "DATA" /\ Head(up).req = n THEN 1 ELSE 0)
    BY <2>1, <1>0
  <2>5. \A n \in Requests : Allowed(n)' = Allowed(n)
    BY <1>6 DEF McuProcess, host_vars, Allowed
  <2>6. \A n \in Requests : /\ Allowed(n) \in Nat /\ executions[n] \in Nat
                            /\ executions'[n] \in Nat
                            /\ executions[n] + Cardinality(Sent(up, n)) <= Allowed(n)
    BY <2>1, AllowedNat DEF CountInv, Numbers
  <2>7. \A n \in Requests : executions'[n] + Cardinality(Sent(up', n)) <= Allowed(n)'
    BY <2>2, <2>3, <2>4, <2>5, <2>6, <1>s
  <2>. QED  BY <2>7 DEF CountInv
<1>7. ASSUME LoseUp PROVE CountInv'
  <2>1. up # <<>> /\ up' = Tail(up) /\ executions' = executions
    BY <1>7 DEF LoseUp
  <2>2. \A n \in Requests : Allowed(n)' = Allowed(n)
    BY <1>7 DEF LoseUp, host_vars, Allowed
  <2>3. \A n \in Requests : Allowed(n) <= Allowed(n)'  BY <2>2, AllowedNat DEF Numbers
  <2>4. \A n \in Requests :
          /\ Cardinality(Sent(up', n))
               + (IF Head(up).kind = "DATA" /\ Head(up).req = n THEN 1 ELSE 0)
                 <= Cardinality(Sent(up, n))
          /\ Cardinality(Sent(up', n)) \in Nat
    BY <2>1, <1>0, SentTail, HeadAndTail, SentFinite
  <2>5. \A n \in Requests : Cardinality(Sent(up', n)) <= Cardinality(Sent(up, n))
    BY <2>4, <1>s
  <2>6. \A n \in Requests : Cardinality(Sent(up, n))' <= Cardinality(Sent(up, n))
    BY <2>5
  <2>. QED  BY <2>1, <2>3, <2>6, NoMoreRuns
<1>8. ASSUME LoseDown \/ (\E kind \in Controls : Inject(kind)) \/ UNCHANGED vars
      PROVE  CountInv'
  <2>1. UNCHANGED <<up, executions, current, stage, retries>>
    BY <1>8 DEF LoseDown, Inject, vars, host_vars
  <2>2. \A n \in Requests : Allowed(n)' = Allowed(n)  BY <2>1 DEF Allowed
  <2>3. \A n \in Requests : Allowed(n) <= Allowed(n)'  BY <2>2, AllowedNat DEF Numbers
  <2>4. \A n \in Requests : Cardinality(Sent(up, n))' <= Cardinality(Sent(up, n))
    BY <2>1, <1>s
  <2>. QED  BY <2>1, <2>3, <2>4, NoMoreRuns
<1>. QED
  BY <1>1, <1>2, <1>4, <1>5, <1>6, <1>7, <1>8 DEF Next, Sending

LEMMA CountInit == Init => CountInv
<1>. SUFFICES ASSUME Init PROVE CountInv  OBVIOUS
<1>1. \A n : Sent(up, n) = {}  BY DEF Init, Sent
<1>2. \A n : Cardinality(Sent(up, n)) = 0  BY <1>1, FS_EmptySet
<1>3. MaxRetries \in Nat /\ \A n \in Requests : executions[n] = 0
  BY XtpAssumption DEF Init
<1>4. \A n \in Requests : Allowed(n) = 0
  BY <1>3 DEF Init, Allowed, Requests
<1>. QED  BY <1>2, <1>3, <1>4 DEF CountInv

(***************************************************************************)
(* A request runs at most once per transmission, whatever is lost, late or *)
(* injected; a request that was not sent does not run.                     *)
(***************************************************************************)
THEOREM RunsAreBounded == Spec => []RunsBounded
<1>1. ASSUME TypeInv, CountInv PROVE RunsBounded
  <2>1. \A n \in Requests : /\ Cardinality(Sent(up, n)) \in Nat /\ executions[n] \in Nat
                            /\ Allowed(n) \in Nat
                            /\ executions[n] + Cardinality(Sent(up, n)) <= Allowed(n)
    BY <1>1, AllowedNat DEF CountInv, Numbers
  <2>2. \A n \in Requests : executions[n] <= Allowed(n)  BY <2>1
  <2>3. retries \in Nat  BY <1>1, XtpAssumption DEF TypeInv, XtpTypeOK
  <2>. QED  BY <2>1, <2>2, <2>3 DEF RunsBounded, Allowed
<1>. QED  BY <1>1, TypeInit, TypeStep, CountInit, CountStep, PTL DEF Spec

-----------------------------------------------------------------------------
(* The line while nothing was disturbed *)

DataIn(q) == {i \in 1 .. Len(q) : q[i].kind = "DATA"}
AckIn(q) == {i \in 1 .. Len(q) : q[i].kind = "ACK"}

\* Nothing from position i on belongs to another request than the present one.
OnlyCurrent(q, i) ==
  \A j \in i .. Len(q) : q[j].req = current \/ q[j].kind \in Controls

\* One data frame at most is on its way up, and its acknowledgement is not yet sent.
UpInv ==
  \A i \in DataIn(up) :
    /\ stage = "wait" /\ up[i].req = current /\ up[i].filled
    /\ \A j \in DataIn(up) : j = i
    /\ AckIn(down) = {}

\* One acknowledgement at most is on its way down, for a request that has run,
\* and what comes after it belongs to the same request.
DownInv ==
  \A i \in AckIn(down) :
    /\ stage = "wait" /\ down[i].req = current /\ executions[current] > 0
    /\ \A j \in AckIn(down) : j = i
    /\ OnlyCurrent(down, i)

RanInv == \A n \in Requests : result[n] = "ok" => executions[n] > 0

QuietInv ==
  stage = "idle" /\ current > 0 /\ result[current] = "ok" => OnlyCurrent(down, 1)

Clear == (stage # "idle" => pend_filled) /\ UpInv /\ DownInv /\ RanInv /\ QuietInv

ClearInv == undisturbed => Clear

LEMMA LineTail ==
  ASSUME NEW q \in Seq(Frames), q # <<>>
  PROVE  /\ \A i \in DataIn(Tail(q)) : i + 1 \in DataIn(q)
         /\ \A i \in AckIn(Tail(q)) : i + 1 \in AckIn(q)
         /\ \A i \in 1 .. Len(Tail(q)) : i \in Nat /\ i + 1 \in 1 .. Len(q) /\ Tail(q)[i] = q[i + 1]
         /\ \A i \in 1 .. Len(q) : OnlyCurrent(q, i) => OnlyCurrent(Tail(q), i)
         /\ \A i \in 1 .. Len(Tail(q)) : OnlyCurrent(q, i + 1) => OnlyCurrent(Tail(q), i)
         /\ 1 \in 1 .. Len(q) /\ Head(q) = q[1]
<1>1. /\ Head(q) = q[1] /\ Tail(q) \in Seq(Frames) /\ Len(q) \in Nat \ {0}
      /\ Len(Tail(q)) = Len(q) - 1
      /\ \A i \in 1 .. Len(q) - 1 : Tail(q)[i] = q[i + 1]
  BY HeadAndTail
<1>2. \A i \in 1 .. Len(Tail(q)) : i \in Nat /\ i + 1 \in 1 .. Len(q) /\ Tail(q)[i] = q[i + 1]
  BY <1>1
<1>3. /\ \A i \in DataIn(Tail(q)) : i + 1 \in DataIn(q)
      /\ \A i \in AckIn(Tail(q)) : i + 1 \in AckIn(q)
  BY <1>2 DEF DataIn, AckIn
<1>4. ASSUME NEW i \in 1 .. Len(q), NEW m \in {i, i + 1}, OnlyCurrent(q, m)
      PROVE  OnlyCurrent(Tail(q), i)
  <2>1. \A j \in i .. Len(Tail(q)) : j \in 1 .. Len(Tail(q)) /\ j + 1 \in m .. Len(q)
    BY <1>1
  <2>. QED  BY <1>2, <1>4, <2>1 DEF OnlyCurrent
<1>. QED  BY <1>1, <1>2, <1>3, <1>4

\* An acknowledgement, a response or a control frame joins the line.
LEMMA LineAppend ==
  ASSUME NEW q \in Seq(Frames), NEW f \in Frames, f.kind # "DATA"
  PROVE  /\ DataIn(Append(q, f)) = DataIn(q)
         /\ f.kind # "ACK" => AckIn(Append(q, f)) = AckIn(q)
         /\ \A i \in 1 .. Len(q) : Append(q, f)[i] = q[i]
         /\ \A i \in 1 .. Len(q) + 1 :
              OnlyCurrent(q, i) /\ (f.req = current \/ f.kind \in Controls)
                => OnlyCurrent(Append(q, f), i)
<1>1. /\ Len(q) \in Nat /\ Len(Append(q, f)) = Len(q) + 1
      /\ \A i \in 1 .. Len(q) : Append(q, f)[i] = q[i]
      /\ Append(q, f)[Len(q) + 1] = f
  BY Appended
<1>2. \A i : i \in 1 .. Len(q) + 1 <=> i \in 1 .. Len(q) \/ i = Len(q) + 1
  BY <1>1
<1>3. DataIn(Append(q, f)) = DataIn(q)  BY <1>1, <1>2 DEF DataIn
<1>4. f.kind # "ACK" => AckIn(Append(q, f)) = AckIn(q)  BY <1>1, <1>2 DEF AckIn
<1>5. ASSUME NEW i \in 1 .. Len(q) + 1, OnlyCurrent(q, i), f.req = current \/ f.kind \in Controls
      PROVE  OnlyCurrent(Append(q, f), i)
  <2>1. \A j \in i .. Len(Append(q, f)) :
          (j \in i .. Len(q) /\ j \in 1 .. Len(q)) \/ j = Len(q) + 1
    BY <1>1
  <2>. QED  BY <1>1, <1>5, <2>1 DEF OnlyCurrent
<1>. QED  BY <1>1, <1>3, <1>4, <1>5

LEMMA ClearTypes ==
  ASSUME TypeInv
  PROVE  /\ up \in Seq(Frames) /\ down \in Seq(Frames)
         /\ executions \in [Requests -> Nat]
         /\ result \in [Requests -> {"none", "ok", "err"}]
         /\ stage \in {"idle", "transmit", "wait"} /\ undisturbed \in BOOLEAN
         /\ current \in Nat /\ MaxRequests \in Nat
         /\ current > 0 => current \in Requests
         /\ stage # "idle" => current \in Requests
         /\ "ACK" \notin Controls /\ "DATA" \notin Controls /\ "RESP" \notin Controls
         /\ Controls \subseteq {"NACK", "RST"}
BY XtpAssumption DEF TypeInv, XtpTypeOK, Requests

LEMMA ClearSend == ASSUME TypeInv, Clear, SendRequest PROVE Clear'
<1>1. DataIn(up) = {} /\ AckIn(down) = {}
  BY DEF Clear, UpInv, DownInv, SendRequest
<1>. QED
  BY <1>1 DEF Clear, UpInv, DownInv, RanInv, QuietInv, SendRequest

LEMMA ClearTransmit == ASSUME TypeInv, Clear, Transmit PROVE Clear'
<1>. DEFINE f == Data(current, pend_filled)
<1>1. DataIn(up) = {} /\ AckIn(down) = {} /\ pend_filled = TRUE
  BY DEF Clear, UpInv, DownInv, Transmit, TypeInv, XtpTypeOK
<1>2. f \in Frames /\ f.kind = "DATA" /\ f.req = current /\ f.filled = TRUE
  <2>1. current \in Requests  BY ClearTypes DEF Transmit
  <2>. QED  BY <1>1, <2>1, FramesAre DEF Data
<1>3. up' = Append(up, f) /\ down' = down /\ stage' = "wait" /\ current' = current
  BY DEF Transmit
<1>. HIDE DEF f
<1>4. /\ Len(up) \in Nat /\ Len(up') = Len(up) + 1
      /\ \A i \in 1 .. Len(up) : up'[i] = up[i]
      /\ up'[Len(up) + 1] = f
  BY <1>2, <1>3, ClearTypes, Appended
<1>5. \A i : i \in 1 .. Len(up) + 1 <=> i \in 1 .. Len(up) \/ i = Len(up) + 1
  BY <1>4
<1>6. \A i \in DataIn(up') : i = Len(up) + 1
  BY <1>1, <1>4, <1>5 DEF DataIn
<1>7. UpInv'  BY <1>1, <1>2, <1>3, <1>4, <1>6 DEF UpInv
<1>8. DownInv'  BY <1>1, <1>3 DEF DownInv
<1>9. RanInv' /\ QuietInv' /\ (stage' # "idle" => pend_filled')
  BY <1>1, <1>3 DEF Clear, RanInv, QuietInv, Transmit
<1>. QED  BY <1>7, <1>8, <1>9 DEF Clear

LEMMA ClearTimeout == ASSUME TypeInv, Clear, Timeout, ~UnderWay(current) PROVE Clear'
<1>1. DataIn(up) = {} /\ AckIn(down) = {}
  BY DEF Clear, UpInv, DownInv, UnderWay, DataIn, AckIn
<1>2. UNCHANGED <<up, down, current, pend_filled, executions>> /\ stage = "wait" /\ Retry
  BY DEF Timeout
<1>3. UpInv' /\ DownInv'  BY <1>1, <1>2 DEF UpInv, DownInv
<1>4. CASE stage' = "transmit" /\ result' = result
  BY <1>2, <1>3, <1>4 DEF Clear, RanInv, QuietInv
<1>5. CASE stage' = "idle" /\ result' = [result EXCEPT ![current] = "err"]
  <2>1. current \in Requests /\ result \in [Requests -> {"none", "ok", "err"}]
    BY <1>2, ClearTypes
  <2>2. result'[current] = "err" /\ \A n \in Requests : n # current => result'[n] = result[n]
    BY <1>5, <2>1
  <2>3. RanInv'  BY <1>2, <2>2 DEF Clear, RanInv
  <2>4. QuietInv'  BY <1>2, <2>2 DEF QuietInv
  <2>. QED  BY <1>2, <1>3, <1>5, <2>3, <2>4 DEF Clear
<1>. QED  BY <1>2, <1>4, <1>5 DEF Retry, Return

LEMMA ClearHost ==
  ASSUME TypeInv, Clear, HostProcess, Head(down).kind \notin {"RST", "NACK"}
  PROVE  Clear'
<1>1. /\ down # <<>> /\ down' = Tail(down) /\ HostReceive(Head(down))
      /\ current' = current /\ executions' = executions /\ stage \in {"idle", "wait"}
  BY DEF HostProcess
<1>t. /\ down \in Seq(Frames) /\ up \in Seq(Frames)
      /\ result \in [Requests -> {"none", "ok", "err"}]
      /\ current > 0 => current \in Requests
      /\ stage # "idle" => current \in Requests
  BY ClearTypes
<1>2. Head(down) \in Frames /\ Head(down) = down[1] /\ 1 \in 1 .. Len(down)
  BY <1>1, <1>t, HeadAndTail, LineTail
<1>3. DataIn(up') = DataIn(up) /\ \A i \in DataIn(up) : up'[i] = up[i]
  <2>1. CASE Head(down).kind = "RESP"
    <3>1. Head(down).req \in Requests  BY <1>2, <2>1, FramesAre
    <3>2. Ack(Head(down).req) \in Frames /\ Ack(Head(down).req).kind = "ACK"
      BY <3>1, FramesAre DEF Ack
    <3>3. up' = Append(up, Ack(Head(down).req))
      BY <1>1, <2>1 DEF HostReceive
    <3>4. /\ DataIn(up') = DataIn(up)
          /\ \A i \in 1 .. Len(up) : up'[i] = up[i]
      BY <3>2, <3>3, <1>t, LineAppend
    <3>. QED  BY <3>4 DEF DataIn
  <2>2. CASE Head(down).kind # "RESP"
    BY <1>1, <2>2 DEF HostReceive
  <2>. QED  BY <2>1, <2>2
<1>4. /\ \A i \in AckIn(down') : i + 1 \in AckIn(down) /\ down'[i] = down[i + 1] /\ i \in Nat
      /\ \A i \in 1 .. Len(down) : OnlyCurrent(down, i) => OnlyCurrent(down', i)
      /\ \A i \in AckIn(down') : OnlyCurrent(down, i + 1) => OnlyCurrent(down', i)
  BY <1>1, <1>t, LineTail DEF AckIn
<1>5. \A i : OnlyCurrent(down', i) => OnlyCurrent(down, i)'
  BY <1>1 DEF OnlyCurrent
<1>6. pend_filled' = pend_filled  BY <1>1 DEF HostReceive, TypeInv, XtpTypeOK
<1>7. CASE stage = "idle"
  <2>1. stage' = "idle" /\ result' = result  BY <1>7 DEF HostProcess
  <2>2. DataIn(up) = {} /\ AckIn(down) = {}
    BY <1>7 DEF Clear, UpInv, DownInv
  <2>3. DataIn(up') = {} /\ AckIn(down') = {}
    BY <2>2, <1>3, <1>4
  <2>4. UpInv' /\ DownInv'  BY <2>3 DEF UpInv, DownInv
  <2>5. RanInv'  BY <1>1, <2>1 DEF Clear, RanInv
  <2>6. QuietInv'
    BY <1>1, <1>2, <1>4, <1>5, <1>7, <2>1 DEF Clear, QuietInv
  <2>. QED  BY <2>1, <2>4, <2>5, <2>6 DEF Clear
<1>8. CASE stage = "wait" /\ Head(down).kind = "ACK"
  <2>1. 1 \in AckIn(down)  BY <1>2, <1>8 DEF AckIn
  <2>2. /\ executions[current] > 0 /\ OnlyCurrent(down, 1)
        /\ \A j \in AckIn(down) : j = 1
        /\ DataIn(up) = {}
    BY <2>1 DEF Clear, UpInv, DownInv
  <2>3. ack_received' = TRUE  BY <1>1, <1>8 DEF HostReceive
  <2>4. stage' = "idle" /\ result' = [result EXCEPT ![current] = "ok"]
    BY <1>8, <2>3 DEF HostProcess, Return
  <2>5. AckIn(down') = {}
    <3>1. \A i \in AckIn(down') : i \in 1 .. Len(down') /\ i + 1 = 1
      BY <1>4, <2>2 DEF AckIn
    <3>. QED  BY <3>1
  <2>6. UpInv' /\ DownInv'  BY <1>3, <2>2, <2>5 DEF UpInv, DownInv
  <2>7. \A n \in Requests : n # current => result'[n] = result[n]
    BY <1>t, <2>4
  <2>8. RanInv'  BY <1>1, <2>2, <2>7 DEF Clear, RanInv
  <2>9. QuietInv'  BY <1>2, <1>4, <1>5, <2>2 DEF QuietInv
  <2>. QED  BY <2>4, <2>6, <2>8, <2>9 DEF Clear
<1>9. CASE stage = "wait" /\ Head(down).kind # "ACK"
  <2>1. ack_received = FALSE /\ nack_received = FALSE
    BY <1>9 DEF TypeInv, XtpTypeOK, WaitInv
  <2>2. ack_received' = FALSE /\ nack_received' = FALSE
    BY <1>1, <1>9, <2>1 DEF HostReceive
  <2>3. stage' = "wait" /\ result' = result
    BY <1>9, <2>2 DEF HostProcess
  <2>4. \A i \in DataIn(up) : AckIn(down') = {}
    BY <1>4 DEF Clear, UpInv
  <2>5. UpInv'  BY <1>1, <1>3, <1>9, <2>3, <2>4 DEF Clear, UpInv
  <2>6. \A i, j \in AckIn(down') : i + 1 = j + 1 => i = j  BY <1>4
  <2>7. ASSUME NEW i \in AckIn(down')
        PROVE  /\ down'[i].req = current /\ executions[current] > 0
               /\ \A j \in AckIn(down') : j = i
               /\ OnlyCurrent(down, i)'
    <3>1. i + 1 \in AckIn(down) /\ down'[i] = down[i + 1]  BY <1>4
    <3>2. /\ down[i + 1].req = current /\ executions[current] > 0
          /\ \A j \in AckIn(down) : j = i + 1
          /\ OnlyCurrent(down, i + 1)
      BY <3>1 DEF Clear, DownInv
    <3>3. \A j \in AckIn(down') : j = i  BY <1>4, <2>6, <3>2
    <3>. QED  BY <1>4, <1>5, <3>1, <3>2, <3>3
  <2>7a. DownInv'  BY <1>1, <2>3, <2>7 DEF DownInv
  <2>8. RanInv' /\ QuietInv' /\ (stage' # "idle" => pend_filled')
    BY <1>1, <1>6, <1>9, <2>3 DEF Clear, RanInv, QuietInv
  <2>. QED  BY <2>5, <2>7a, <2>8 DEF Clear
<1>. QED  BY <1>1, <1>7, <1>8, <1>9

LEMMA ClearMcu == ASSUME TypeInv, Clear, McuProcess PROVE Clear'
<1>1. /\ up # <<>> /\ up' = Tail(up)
      /\ UNCHANGED <<stage, current, pend_filled, result>>
  BY DEF McuProcess, host_vars
<1>t. /\ up \in Seq(Frames) /\ down \in Seq(Frames)
      /\ executions \in [Requests -> Nat]
      /\ stage # "idle" => current \in Requests
      /\ "ACK" \notin Controls /\ "DATA" \notin Controls /\ "RESP" \notin Controls
  BY ClearTypes
<1>2. Head(up) \in Frames /\ Head(up) = up[1] /\ 1 \in 1 .. Len(up)
  BY <1>1, <1>t, HeadAndTail, LineTail
<1>3. \A i \in DataIn(up') : i + 1 \in DataIn(up) /\ up'[i] = up[i + 1] /\ i \in Nat
  BY <1>1, <1>t, LineTail DEF DataIn
<1>4. (stage' # "idle" => pend_filled') /\ (stage' = "idle" => stage = "idle")
  BY <1>1 DEF Clear
<1>5. CASE Head(up).kind # "DATA"
  <2>1. down' = down /\ executions' = executions  BY <1>5 DEF McuProcess
  <2>2. ASSUME NEW i \in DataIn(up')
        PROVE  /\ stage = "wait" /\ up'[i].req = current /\ up'[i].filled
               /\ \A j \in DataIn(up') : j = i
               /\ AckIn(down) = {}
    BY <1>3 DEF Clear, UpInv
  <2>3. UpInv'  BY <1>1, <2>1, <2>2 DEF UpInv
  <2>4. DownInv' /\ QuietInv'
    BY <1>1, <2>1 DEF Clear, DownInv, QuietInv, OnlyCurrent
  <2>5. RanInv'  BY <1>1, <2>1 DEF Clear, RanInv
  <2>. QED  BY <1>4, <2>3, <2>4, <2>5 DEF Clear
<1>6. CASE Head(up).kind = "DATA"
  <2>1. 1 \in DataIn(up)  BY <1>2, <1>6 DEF DataIn
  <2>2. /\ stage = "wait" /\ Head(up).req = current /\ Head(up).filled
        /\ \A j \in DataIn(up) : j = 1
        /\ AckIn(down) = {} /\ current \in Requests
    BY <1>2, <1>t, <2>1 DEF Clear, UpInv
  <2>3. PICK k \in 1 .. MaxFragments : Serve(Head(up), k)
    BY <1>6 DEF McuProcess
  <2>4. /\ executions' = [executions EXCEPT ![current] = @ + 1]
        /\ down' = Append(down, Ack(current)) \o Fragments(current, k)
    BY <2>2, <2>3 DEF Serve
  <2>5. /\ Len(down) \in Nat /\ Len(down') = Len(down) + 1 + k
        /\ \A i \in 1 .. Len(down) : down'[i] = down[i]
        /\ down'[Len(down) + 1] = Ack(current)
        /\ \A i \in Len(down) + 2 .. Len(down') : down'[i] = Response(current)
    <3>. DEFINE new == Append(down, Ack(current)) \o Fragments(current, k)
    <3>1. /\ Len(down) \in Nat /\ Len(new) = Len(down) + 1 + k
          /\ \A i \in 1 .. Len(down) : new[i] = down[i]
          /\ new[Len(down) + 1] = Ack(current)
          /\ \A i \in Len(down) + 2 .. Len(new) : new[i] = Response(current)
      BY <1>t, <2>2, Answered
    <3>2. down' = new  BY <2>4
    <3>. HIDE DEF new
    <3>. QED  BY <3>1, <3>2
  <2>6. \A i \in 1 .. Len(down') : \/ i \in 1 .. Len(down) \/ i = Len(down) + 1
                                   \/ i \in Len(down) + 2 .. Len(down')
    BY <2>5
  <2>7. \A i \in AckIn(down') : i = Len(down) + 1
    <3>1. Response(current).kind # "ACK"  BY DEF Response
    <3>. QED  BY <2>2, <2>5, <2>6, <3>1 DEF AckIn
  <2>8. ASSUME NEW i \in AckIn(down')
        PROVE  down'[i].req = current /\ OnlyCurrent(down, i)'
    <3>1. Ack(current).req = current /\ Response(current).req = current
      BY DEF Ack, Response
    <3>2. i = Len(down) + 1  BY <2>7
    <3>3. \A j \in i .. Len(down') : j = Len(down) + 1 \/ j \in Len(down) + 2 .. Len(down')
      BY <2>5, <3>2
    <3>4. \A j \in i .. Len(down') : down'[j].req = current
      BY <2>5, <3>1, <3>3
    <3>. QED  BY <1>1, <2>5, <3>1, <3>2, <3>4 DEF OnlyCurrent
  <2>9. executions'[current] > 0 /\ \A n \in Requests : executions'[n] >= executions[n]
    BY <1>t, <2>2, <2>4
  <2>10. DataIn(up') = {}
    <3>1. \A i \in DataIn(up') : i \in 1 .. Len(up') /\ i + 1 = 1
      BY <1>3, <2>2 DEF DataIn
    <3>. QED  BY <3>1
  <2>11. UpInv'  BY <2>10 DEF UpInv
  <2>12. \A i, j \in AckIn(down') : j = i  BY <2>7
  <2>13. DownInv'  BY <1>1, <2>2, <2>8, <2>9, <2>12 DEF DownInv
  <2>14. RanInv'
    <3>1. ASSUME NEW n \in Requests, result[n] = "ok" PROVE executions'[n] > 0
      <4>1. executions[n] > 0  BY <3>1 DEF Clear, RanInv
      <4>2. executions[n] \in Nat  BY <1>t
      <4>3. CASE n = current
        BY <1>t, <2>4, <4>1, <4>2, <4>3
      <4>4. CASE n # current
        BY <1>t, <2>4, <4>1, <4>4
      <4>. QED  BY <4>3, <4>4
    <3>. QED  BY <1>1, <3>1 DEF RanInv
  <2>15. QuietInv'  BY <1>1, <2>2 DEF QuietInv
  <2>. QED  BY <1>4, <2>11, <2>13, <2>14, <2>15 DEF Clear
<1>. QED  BY <1>5, <1>6

LEMMA ClearLose == ASSUME TypeInv, Clear, LoseUp \/ LoseDown PROVE Clear'
<1>t. up \in Seq(Frames) /\ down \in Seq(Frames)  BY ClearTypes
<1>1. /\ UNCHANGED <<stage, current, pend_filled, result, executions>>
      /\ \/ up # <<>> /\ up' = Tail(up) /\ down' = down
         \/ down # <<>> /\ down' = Tail(down) /\ up' = up
  BY DEF LoseUp, LoseDown, host_vars
<1>2. RanInv' /\ (stage' # "idle" => pend_filled')
  BY <1>1 DEF Clear, RanInv
<1>3. CASE up # <<>> /\ up' = Tail(up) /\ down' = down
  <2>1. \A i \in DataIn(up') : i + 1 \in DataIn(up) /\ up'[i] = up[i + 1] /\ i \in Nat
    BY <1>3, <1>t, LineTail DEF DataIn
  <2>2. ASSUME NEW i \in DataIn(up')
        PROVE  /\ stage = "wait" /\ up'[i].req = current /\ up'[i].filled
               /\ \A j \in DataIn(up') : j = i
               /\ AckIn(down) = {}
    BY <2>1 DEF Clear, UpInv
  <2>3. UpInv'  BY <1>1, <1>3, <2>2 DEF UpInv
  <2>4. DownInv' /\ QuietInv'
    BY <1>1, <1>3 DEF Clear, DownInv, QuietInv, OnlyCurrent
  <2>. QED  BY <1>2, <2>3, <2>4 DEF Clear
<1>4. CASE down # <<>> /\ down' = Tail(down) /\ up' = up
  <2>1. /\ \A i \in AckIn(down') : i + 1 \in AckIn(down) /\ down'[i] = down[i + 1] /\ i \in Nat
        /\ \A i \in 1 .. Len(down) : OnlyCurrent(down, i) => OnlyCurrent(down', i)
        /\ \A i \in AckIn(down') : OnlyCurrent(down, i + 1) => OnlyCurrent(down', i)
        /\ 1 \in 1 .. Len(down)
    BY <1>4, <1>t, LineTail DEF AckIn
  <2>2. \A i : OnlyCurrent(down', i) => OnlyCurrent(down, i)'
    BY <1>1 DEF OnlyCurrent
  <2>3. \A i \in DataIn(up) : AckIn(down') = {}
    BY <2>1 DEF Clear, UpInv
  <2>4. UpInv'  BY <1>1, <1>4, <2>3 DEF Clear, UpInv
  <2>5. ASSUME NEW i \in AckIn(down')
        PROVE  /\ stage = "wait" /\ down'[i].req = current /\ executions[current] > 0
               /\ \A j \in AckIn(down') : j = i
               /\ OnlyCurrent(down, i)'
    <3>1. i + 1 \in AckIn(down) /\ down'[i] = down[i + 1]  BY <2>1
    <3>2. /\ stage = "wait" /\ down[i + 1].req = current /\ executions[current] > 0
          /\ \A j \in AckIn(down) : j = i + 1
          /\ OnlyCurrent(down, i + 1)
      BY <3>1 DEF Clear, DownInv
    <3>3. \A j \in AckIn(down') : j + 1 = i + 1 /\ j \in Nat /\ i \in Nat
      BY <2>1, <3>2
    <3>4. \A j \in AckIn(down') : j = i  BY <3>3
    <3>. QED  BY <2>1, <2>2, <3>1, <3>2, <3>4
  <2>6. DownInv'  BY <1>1, <2>5 DEF DownInv
  <2>7. QuietInv'  BY <1>1, <2>1, <2>2 DEF Clear, QuietInv
  <2>. QED  BY <1>2, <2>4, <2>6, <2>7 DEF Clear
<1>. QED  BY <1>1, <1>3, <1>4

LEMMA ClearInject ==
  ASSUME TypeInv, Clear, NEW kind \in Controls, Inject(kind) PROVE Clear'
<1>t. /\ up \in Seq(Frames) /\ down \in Seq(Frames) /\ Controls \subseteq {"NACK", "RST"}
  BY ClearTypes
<1>. DEFINE f == Control(kind)
<1>1. f \in Frames /\ f.kind \in Controls /\ f.kind # "ACK" /\ f.kind # "DATA"
  BY <1>t, FramesAre DEF Control
<1>2. /\ down' = Append(down, f) /\ up' = up
      /\ UNCHANGED <<stage, current, pend_filled, result, executions>>
  BY DEF Inject, host_vars
<1>. HIDE DEF f
<1>3. /\ AckIn(down') = AckIn(down)
      /\ \A i \in 1 .. Len(down) : down'[i] = down[i]
      /\ \A i \in 1 .. Len(down) + 1 : OnlyCurrent(down, i) => OnlyCurrent(down', i)
  BY <1>t, <1>1, <1>2, LineAppend
<1>4. \A i : OnlyCurrent(down', i) => OnlyCurrent(down, i)'
  BY <1>2 DEF OnlyCurrent
<1>5. 1 \in 1 .. Len(down) + 1 /\ \A i \in AckIn(down) : i \in 1 .. Len(down) /\ i \in 1 .. Len(down) + 1
  BY <1>t DEF AckIn
<1>6. UpInv' /\ RanInv' /\ (stage' # "idle" => pend_filled')
  BY <1>2, <1>3 DEF Clear, UpInv, RanInv
<1>7. ASSUME NEW i \in AckIn(down')
      PROVE  /\ stage = "wait" /\ down'[i].req = current /\ executions[current] > 0
             /\ \A j \in AckIn(down') : j = i
             /\ OnlyCurrent(down, i)'
  BY <1>3, <1>4, <1>5 DEF Clear, DownInv
<1>8. DownInv'  BY <1>2, <1>7 DEF DownInv
<1>9. QuietInv'  BY <1>2, <1>3, <1>4, <1>5 DEF Clear, QuietInv
<1>. QED  BY <1>6, <1>8, <1>9 DEF Clear

LEMMA ClearStep == ASSUME TypeInv, ClearInv, [Next]_vars PROVE ClearInv'
<1>. SUFFICES ASSUME undisturbed' PROVE Clear'  BY DEF ClearInv
<1>1. CASE SendRequest
  <2>1. Clear  BY <1>1 DEF SendRequest, ClearInv
  <2>. QED  BY <1>1, <2>1, ClearSend
<1>2. CASE Transmit
  <2>1. Clear  BY <1>2 DEF Transmit, ClearInv
  <2>. QED  BY <1>2, <2>1, ClearTransmit
<1>3. CASE Timeout
  <2>1. undisturbed' = (undisturbed /\ ~UnderWay(current))  BY <1>3 DEF Timeout
  <2>2. Clear /\ ~UnderWay(current)  BY <2>1 DEF ClearInv
  <2>. QED  BY <1>3, <2>2, ClearTimeout
<1>4. CASE HostProcess
  <2>1. undisturbed' = (undisturbed /\ Head(down).kind \notin {"RST", "NACK"})
    BY <1>4 DEF HostProcess
  <2>2. Clear /\ Head(down).kind \notin {"RST", "NACK"}  BY <2>1 DEF ClearInv
  <2>. QED  BY <1>4, <2>2, ClearHost
<1>5. CASE McuProcess
  <2>1. Clear  BY <1>5 DEF McuProcess, ClearInv
  <2>. QED  BY <1>5, <2>1, ClearMcu
<1>6. CASE LoseUp \/ LoseDown
  <2>1. Clear  BY <1>6 DEF LoseUp, LoseDown, ClearInv
  <2>. QED  BY <1>6, <2>1, ClearLose
<1>7. CASE \E kind \in Controls : Inject(kind)
  <2>1. PICK kind \in Controls : Inject(kind)  BY <1>7
  <2>2. Clear  BY <2>1 DEF Inject, ClearInv
  <2>. QED  BY <2>1, <2>2, ClearInject
<1>8. CASE UNCHANGED vars
  <2>1. Clear /\ UNCHANGED <<up, down, stage, current, pend_filled, result, executions>>
    BY <1>8 DEF vars, host_vars, ClearInv
  <2>. QED
    BY <2>1 DEF Clear, UpInv, DownInv, RanInv, QuietInv, OnlyCurrent
<1>. QED
  BY <1>1, <1>2, <1>3, <1>4, <1>5, <1>6, <1>7, <1>8 DEF Next, Sending

LEMMA ClearInit == Init => ClearInv
<1>. SUFFICES ASSUME Init PROVE ClearInv  OBVIOUS
<1>1. DataIn(up) = {} /\ AckIn(down) = {}  BY DEF Init, DataIn, AckIn
<1>2. RanInv  BY DEF Init, RanInv
<1>3. QuietInv /\ stage = "idle"  BY DEF Init, QuietInv
<1>. QED  BY <1>1, <1>2, <1>3 DEF ClearInv, Clear, UpInv, DownInv

(***************************************************************************)
(* As long as nothing is repeated while it is still under way, XTP_OK      *)
(* means that the MCU has run the request.                                 *)
(***************************************************************************)
THEOREM OkIsRun == Spec => []OkMeansRun
<1>1. ClearInv => OkMeansRun  BY DEF ClearInv, Clear, RanInv, OkMeansRun
<1>. QED  BY <1>1, TypeInit, TypeStep, ClearInit, ClearStep, PTL DEF Spec

(***************************************************************************)
(* As long as nothing is repeated while it is still under way, an           *)
(* acknowledged request leaves no response of an earlier one on the line.  *)
(***************************************************************************)
THEOREM NoOldResponseLeft == Spec => []NoOldResponse
<1>1. ClearInv => NoOldResponse
  BY DEF ClearInv, Clear, QuietInv, OnlyCurrent, NoOldResponse
<1>. QED  BY <1>1, TypeInit, TypeStep, ClearInit, ClearStep, PTL DEF Spec

=============================================================================
