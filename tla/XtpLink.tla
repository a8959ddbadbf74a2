------------------------------- MODULE XtpLink -------------------------------
(***************************************************************************)
(* The request link between a host and the MCU: xTP with its blocking ARQ  *)
(* (M1_SysApp/xtp/xtp_arq.c, the dispatch of xtp.c) and the xCLI requests  *)
(* that travel over it (M1_SysApp/xcli/xcli.c).  Both ends run the library *)
(* of the repository: the host calls xCLI_SendRequest, which blocks in     *)
(* xTP_ARQ_Send, and the MCU's task polls xTP_Process.                     *)
(*                                                                         *)
(* A frame is what one end encodes and the other end's decoder accepts; a  *)
(* frame that the line or a full UART ring damages never arrives.  The     *)
(* sequence byte is carried for logging only, so a frame names the request *)
(* it belongs to instead.  A timeout may fire whatever is on the line: the *)
(* MCU takes one byte off its ring per tick and answers after it has       *)
(* handled what came before.                                               *)
(***************************************************************************)
EXTENDS Integers, Sequences

CONSTANTS
  MaxRequests,   \* bound: the requests the host sends
  MaxRetries,    \* XTP_ARQ_MAX_RETRIES
  MaxFragments,  \* bound: the frames of one response
  Controls,      \* control frames a peer may send of its own: NACK, RST
  MaxControls    \* bound: how many of them

ASSUME XtpAssumption ==
  /\ MaxRequests \in Nat /\ MaxRetries \in Nat /\ MaxFragments \in Nat \ {0}
  /\ Controls \subseteq {"NACK", "RST"} /\ MaxControls \in Nat

Requests == 1..MaxRequests

Data(n, filled) == [kind |-> "DATA", req |-> n, filled |-> filled]
Ack(n) == [kind |-> "ACK", req |-> n]
Response(n) == [kind |-> "RESP", req |-> n]
Control(kind) == [kind |-> kind, req |-> 0]

VARIABLES
  up, down,       \* frames on their way to the MCU and to the host
  stage,          \* where the host is in xTP_ARQ_Send
  current,        \* the request pend_buf holds; 0 before the first
  pend_filled,    \* pend_len is not zero
  retries,        \* retries
  ack_received,   \* ack_received of the host
  nack_received,  \* nack_received of the host
  result,         \* what xCLI_SendRequest returned for each request
  executions,     \* history: how often the MCU's handler ran each request
  injected,       \* history: control frames injected
  undisturbed     \* history: no frame was repeated or reset while still under way

host_vars == <<stage, current, pend_filled, retries, ack_received, nack_received, result>>
vars == <<up, down, host_vars, executions, injected, undisturbed>>

Init ==
  /\ up = <<>> /\ down = <<>>
  /\ stage = "idle" /\ current = 0 /\ pend_filled = FALSE /\ retries = 0
  /\ ack_received = FALSE /\ nack_received = FALSE
  /\ result = [n \in Requests |-> "none"]
  /\ executions = [n \in Requests |-> 0]
  /\ injected = 0 /\ undisturbed = TRUE

(***************************************************************************)
(* The host.  xTP_ARQ_Send buffers the frame, then sends it, waits, and    *)
(* sends it again on a NACK or a timeout until its retries are used up.    *)
(***************************************************************************)
SendRequest ==
  /\ stage = "idle"
  /\ current < MaxRequests
  /\ current' = current + 1
  /\ pend_filled' = TRUE
  /\ retries' = 0
  /\ stage' = "transmit"
  /\ UNCHANGED <<up, down, ack_received, nack_received, result, executions, injected, undisturbed>>

\* The flags of the last request are left standing.
Fault_Transmit ==
  /\ stage = "transmit"
  /\ up' = Append(up, Data(current, pend_filled))
  /\ stage' = "wait"
  /\ UNCHANGED <<down, current, pend_filled, retries, ack_received, nack_received,
                 result, executions, injected, undisturbed>>

Transmit ==
  /\ stage = "transmit"
  /\ ack_received' = FALSE /\ nack_received' = FALSE
  /\ up' = Append(up, Data(current, pend_filled))
  /\ stage' = "wait"
  /\ UNCHANGED <<down, current, pend_filled, retries, result, executions, injected, undisturbed>>

Return(res) ==
  /\ result' = [result EXCEPT ![current] = res]
  /\ stage' = "idle"
  /\ UNCHANGED retries

Retry ==
  IF retries < MaxRetries
    THEN retries' = retries + 1 /\ stage' = "transmit" /\ UNCHANGED result
    ELSE Return("err")

\* A frame of the request, or of its acknowledgement, is on the line.
UnderWay(n) ==
  \/ \E i \in 1..Len(up) : up[i].kind = "DATA" /\ up[i].req = n
  \/ \E i \in 1..Len(down) : down[i].kind = "ACK" /\ down[i].req = n

\* The last transmission waits for its acknowledgement without a limit.
Fault_Timeout ==
  /\ stage = "wait" /\ retries < MaxRetries
  /\ Retry
  /\ undisturbed' = (undisturbed /\ ~UnderWay(current))
  /\ UNCHANGED <<up, down, current, pend_filled, ack_received, nack_received, executions, injected>>

Timeout ==
  /\ stage = "wait"
  /\ Retry
  /\ undisturbed' = (undisturbed /\ ~UnderWay(current))
  /\ UNCHANGED <<up, down, current, pend_filled, ack_received, nack_received, executions, injected>>

(***************************************************************************)
(* xTP_Process of the host: xTP_ARQ_OnReceive, then, if xTP_ARQ_Send is    *)
(* waiting, its look at the flags.  A response is acknowledged like every  *)
(* data frame.                                                             *)
(***************************************************************************)
\* Any frame the host decodes counts as the acknowledgement.
Fault_HostReceive(frame) ==
  /\ ack_received' = (frame.kind # "RST")
  /\ UNCHANGED nack_received
  /\ pend_filled' = (pend_filled /\ frame.kind # "RST")
  /\ up' = IF frame.kind = "RESP" THEN Append(up, Ack(frame.req)) ELSE up

HostReceive(frame) ==
  /\ ack_received' = (IF frame.kind = "RST" THEN FALSE ELSE ack_received \/ frame.kind = "ACK")
  /\ nack_received' = (IF frame.kind = "RST" THEN FALSE ELSE nack_received \/ frame.kind = "NACK")
  /\ pend_filled' = (pend_filled /\ frame.kind # "RST")
  /\ up' = IF frame.kind = "RESP" THEN Append(up, Ack(frame.req)) ELSE up

HostProcess ==
  /\ stage \in {"idle", "wait"}
  /\ down # <<>>
  /\ HostReceive(Head(down))
  /\ down' = Tail(down)
  /\ IF stage = "idle" THEN UNCHANGED <<stage, result, retries>>
     ELSE IF ack_received' THEN Return("ok")
     ELSE IF nack_received' THEN Retry
     ELSE UNCHANGED <<stage, result, retries>>
  /\ undisturbed' = (undisturbed /\ Head(down).kind \notin {"RST", "NACK"})
  /\ UNCHANGED <<current, executions, injected>>

(***************************************************************************)
(* The MCU: a data frame is acknowledged at once, then dispatched;         *)
(* xCLI_Process runs the request's handler and sends the response in       *)
(* fragments, or returns at once from a frame shorter than its header.     *)
(***************************************************************************)
Fragments(n, k) == [i \in 1..k |-> Response(n)]

\* The walk through the command table goes on after a match.
Fault_Serve(frame, k) ==
  IF frame.filled
    THEN /\ executions' = [executions EXCEPT ![frame.req] = @ + 2]
         /\ down' = Append(down, Ack(frame.req)) \o Fragments(frame.req, k)
    ELSE /\ down' = Append(down, Ack(frame.req))
         /\ UNCHANGED executions

Serve(frame, k) ==
  IF frame.filled
    THEN /\ executions' = [executions EXCEPT ![frame.req] = @ + 1]
         /\ down' = Append(down, Ack(frame.req)) \o Fragments(frame.req, k)
    ELSE /\ down' = Append(down, Ack(frame.req))
         /\ UNCHANGED executions

McuProcess ==
  /\ up # <<>>
  /\ up' = Tail(up)
  /\ IF Head(up).kind = "DATA"
       THEN \E k \in 1..MaxFragments : Serve(Head(up), k)
       ELSE UNCHANGED <<down, executions>>
  /\ UNCHANGED <<host_vars, injected, undisturbed>>

(***************************************************************************)
(* The line, and a peer that sends control frames the library never sends. *)
(***************************************************************************)
LoseUp ==
  /\ up # <<>>
  /\ up' = Tail(up)
  /\ UNCHANGED <<down, host_vars, executions, injected, undisturbed>>

LoseDown ==
  /\ down # <<>>
  /\ down' = Tail(down)
  /\ UNCHANGED <<up, host_vars, executions, injected, undisturbed>>

Inject(kind) ==
  /\ injected < MaxControls
  /\ injected' = injected + 1
  /\ down' = Append(down, Control(kind))
  /\ UNCHANGED <<up, host_vars, executions, undisturbed>>

Sending == Transmit \/ HostProcess \/ Timeout

Next ==
  \/ SendRequest
  \/ Sending
  \/ McuProcess
  \/ LoseUp \/ LoseDown
  \/ \E kind \in Controls : Inject(kind)

Spec == Init /\ [][Next]_vars

FairSpec == Spec /\ WF_vars(Sending)

-------------------------------------------------------------------------------
Frames ==
  [kind : {"DATA"}, req : Requests, filled : BOOLEAN]
    \cup [kind : {"ACK", "RESP"}, req : Requests]
    \cup [kind : Controls, req : {0}]

\* The types of the variables.
XtpTypeOK ==
  /\ up \in Seq(Frames) /\ down \in Seq(Frames)
  /\ stage \in {"idle", "transmit", "wait"}
  /\ current \in 0..MaxRequests /\ (stage # "idle" => current > 0)
  /\ pend_filled \in BOOLEAN
  /\ retries \in 0..MaxRetries
  /\ ack_received \in BOOLEAN /\ nack_received \in BOOLEAN
  /\ result \in [Requests -> {"none", "ok", "err"}]
  /\ executions \in [Requests -> Nat]
  /\ injected \in 0..MaxControls /\ undisturbed \in BOOLEAN

(***************************************************************************)
(* As long as nothing is repeated while it is still under way, XTP_OK      *)
(* means that the MCU has run the request.                                 *)
(***************************************************************************)
OkMeansRun ==
  undisturbed => \A n \in Requests : result[n] = "ok" => executions[n] > 0

\* A request runs at most once per transmission, and a repeated one runs again:
\* the MCU does not look for duplicates.
RunsBounded ==
  \A n \in Requests :
    executions[n] <= (IF n < current \/ (n = current /\ stage = "idle") THEN MaxRetries + 1
                      ELSE IF n = current THEN retries + 1 ELSE 0)

(***************************************************************************)
(* As long as nothing is repeated while it is still under way, a request   *)
(* that was acknowledged leaves no response of an earlier request on the   *)
(* line to be taken for its own.                                           *)
(***************************************************************************)
NoOldResponse ==
  undisturbed /\ stage = "idle" /\ current > 0 /\ result[current] = "ok" =>
    \A i \in 1..Len(down) : down[i].req = current \/ down[i].kind \in Controls

\* xTP_ARQ_Send returns, whatever the line does.
SendReturns == (stage # "idle") ~> (stage = "idle")

(***************************************************************************)
(* What xtp_arq.h says of the result XTP_OK, "ACK received, data           *)
(* delivered": a request for which it was returned was run by the MCU, or  *)
(* at least is still on its way there.                                     *)
(***************************************************************************)
OkMeansDelivered ==
  \A n \in Requests :
    result[n] = "ok" =>
      executions[n] > 0 \/ \E i \in 1..Len(up) : up[i].kind = "DATA" /\ up[i].req = n
===============================================================================
