--------------------------- MODULE ProfileSequence ---------------------------
(***************************************************************************)
(* What the temperature control promises its operators about one profile: *)
(* a profile that is off can be programmed and activated; once active it   *)
(* goes through the steps it was programmed with, from the first to the    *)
(* last and one at a time, then goes off; it may stop on a fault at a      *)
(* step, and it can be switched off at any time.                           *)
(***************************************************************************)
EXTENDS Integers

CONSTANTS Profiles, Counts \* the profiles, the numbers of steps one may have

VARIABLES
  mode, \* "off", "preheat", "step" or "fault"
  at,   \* the step in progress, or -1
  len   \* the number of steps the profile is programmed with

vars == <<mode, at, len>>

Init ==
  /\ mode = [p \in Profiles |-> "off"]
  /\ at = [p \in Profiles |-> -1]
  /\ len \in [Profiles -> Counts]

Program(p) ==
  /\ mode[p] = "off"
  /\ \E n \in Counts : len' = [len EXCEPT ![p] = n]
  /\ UNCHANGED <<mode, at>>

Activate(p) ==
  /\ mode[p] = "off"
  /\ mode' = [mode EXCEPT ![p] = "preheat"]
  /\ UNCHANGED <<at, len>>

Advance(p) ==
  /\ mode[p] \in {"preheat", "step"}
  /\ at[p] + 1 < len[p]
  /\ \E m \in {"step", "fault"} : mode' = [mode EXCEPT ![p] = m]
  /\ at' = [at EXCEPT ![p] = @ + 1]
  /\ UNCHANGED len

\* The last step is done, or an operator stops the profile.
SwitchOff(p) ==
  /\ mode' = [mode EXCEPT ![p] = "off"]
  /\ at' = [at EXCEPT ![p] = -1]
  /\ UNCHANGED len

Next == \E p \in Profiles : Program(p) \/ Activate(p) \/ Advance(p) \/ SwitchOff(p)

Spec == Init /\ [][Next]_vars
=============================================================================
