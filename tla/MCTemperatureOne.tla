--------------------------- MODULE MCTemperatureOne ---------------------------
(* One profile with everything operators may do to it. *)
EXTENDS TemperatureControl

MCSteps(a, b) == [n \in 0 .. 1 |-> IF n = 0 THEN a ELSE b]
MCStep(sp, dur, mode) == [set_point |-> sp, duration |-> dur, control_mode |-> mode]
MCProfile(heaters, tecs, steps, count) ==
  [enabled |-> 0, heater_mask |-> heaters, tec_mask |-> tecs, set_point |-> 1,
   main_sec_delta |-> 1, steps |-> steps, step_count |-> count]

\* a ramp up and a soak that may start from above or below; a ramp down of duration
\* zero and a step of an unknown mode
MCRampSoak == MCProfile({1}, {1}, MCSteps(MCStep(3, 2, 1), MCStep(0, 2, 0)), 2)
MCUnknown == MCProfile({2}, {}, MCSteps(MCStep(1, 0, 2), MCStep(0, 1, 3)), 2)

\* one profile, no edits: a ramp up and a soak, for the runs about a single step
MCLive == MCProfile({1}, {}, MCSteps(MCStep(3, 2, 1), MCStep(3, 1, 0)), 2)
MCLiveData == {MCLive}
MCLiveDefault == [p \in Profiles |-> MCLive]

MCProfileData == {MCRampSoak, MCUnknown}
MCDefaultData == [p \in Profiles |-> MCRampSoak]
MCTemps == {0, 3}
=============================================================================
