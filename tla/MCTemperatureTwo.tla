--------------------------- MODULE MCTemperatureTwo ---------------------------
(* Two profiles sharing the output banks; one has two steps. *)
EXTENDS TemperatureControl

MCStep(mode, dur) == [set_point |-> 3, duration |-> dur, control_mode |-> mode]
MCProfile(heaters, tecs, first, second, count) ==
  [enabled |-> 0, heater_mask |-> heaters, tec_mask |-> tecs, set_point |-> 1,
   main_sec_delta |-> 1, step_count |-> count,
   steps |-> [n \in 0 .. 1 |-> IF n = 0 THEN first ELSE second]]

\* a ramp up then a soak, and a ramp down on a bank of its own
MCHeat == MCProfile({1}, {}, MCStep(1, 1), MCStep(0, 1), 2)
MCCool == MCProfile({}, {1}, MCStep(2, 1), MCStep(2, 1), 1)

MCProfileData == {MCHeat}
MCDefaultData == [p \in Profiles |-> IF p = 0 THEN MCHeat ELSE MCCool]
MCTemps == {3}
=============================================================================
