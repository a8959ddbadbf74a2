------------------------------- MODULE SampleLog -------------------------------
(***************************************************************************)
(* What the acquisition path of an experiment promises: the external memory *)
(* is filled like a log, one position after the other, with blocks made of  *)
(* BlockSize consecutive samples in the order in which they were captured.  *)
(* Samples may be missing between two blocks, never mixed, repeated or      *)
(* swapped.  While the memory is handed over, the positions passed hold     *)
(* nothing of the log; a hand-over tears at most the one block it falls on. *)
(* A new run starts an empty log.                                           *)
(***************************************************************************)
EXTENDS Integers, Sequences

CONSTANTS
    BlockSize,   \* samples of a block, at least one
    Lost, Torn   \* positions that hold nothing, or a part, of their block

VARIABLES
    log,    \* the positions filled since the last restart
    seen,   \* every later block holds samples numbered from here on
    link    \* "open" to the memory, "closed", or "closing" over a block

vars == <<log, seen, link>>

\* The block whose first sample is number s.
Block(s) == [j \in 0 .. BlockSize - 1 |-> s + j]

Init == log = <<>> /\ seen = 0 /\ link = "open"

Fill(entry) ==
    /\ seen' - BlockSize >= seen
    /\ log' = Append(log, entry)

Store == link = "open" /\ Fill(Block(seen' - BlockSize)) /\ UNCHANGED link
Tear  == link = "closing" /\ Fill(Torn) /\ link' = "closed"
Pass  == link = "closed" /\ Fill(Lost) /\ UNCHANGED link

Close == link = "open" /\ link' \in {"closing", "closed"} /\ UNCHANGED <<log, seen>>
Open  == link = "closed" /\ link' = "open" /\ UNCHANGED <<log, seen>>

Restart == link # "closing" /\ log' = <<>> /\ UNCHANGED <<seen, link>>

Next == Store \/ Tear \/ Pass \/ Close \/ Open \/ Restart

Spec == Init /\ [][Next]_vars
================================================================================
