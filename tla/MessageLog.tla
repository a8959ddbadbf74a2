------------------------------ MODULE MessageLog -------------------------------
(***************************************************************************)
(* What the system log keeps: the latest messages, in the order they were   *)
(* written, as many as fit.  A message that does not fit beside the others  *)
(* pushes out the oldest, and no more of them than it needs; but one that   *)
(* pushes out Margin messages more than it leaves is lost, and all the      *)
(* others with it.                                                          *)
(***************************************************************************)
EXTENDS Integers, Sequences

CONSTANTS
    Capacity,   \* cells for entries
    Lengths,    \* of messages
    Margin

VARIABLES
    log,        \* the messages held, oldest first
    count       \* how many were ever written: a message's number

vars == <<log, count>>

\* An entry takes a cell more than its text.
Cells(messages) ==
    LET upto[k \in 0 .. Len(messages)] ==
            IF k = 0 THEN 0 ELSE upto[k - 1] + 1 + messages[k].len
    IN  upto[Len(messages)]

Fits(messages) == Cells(messages) <= Capacity

Init == log = <<>> /\ count = 0

\* The log with a new message in place of its oldest ones.
After(dropped, len) ==
    Append(SubSeq(log, dropped + 1, Len(log)), [id |-> count + 1, len |-> len])

Needed(dropped, len) == dropped > 0 => ~Fits(After(dropped - 1, len))

TooMany(dropped) == dropped > Len(log) - dropped + Margin

Write ==
    \E len \in Lengths, dropped \in 0 .. Len(log) :
        /\ Fits(After(dropped, len)) /\ Needed(dropped, len) /\ ~TooMany(dropped)
        /\ log' = After(dropped, len)
        /\ count' = count + 1

LoseAll ==
    /\ \E len \in Lengths, dropped \in 1 .. Len(log) :
        Needed(dropped, len) /\ TooMany(dropped)
    /\ log' = <<>>
    /\ count' = count + 1

Clear == log' = <<>> /\ UNCHANGED count

Next == Write \/ LoseAll \/ Clear

Spec == Init /\ [][Next]_vars
================================================================================
