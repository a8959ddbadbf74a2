----------------------- MODULE TemperatureControlProofs -----------------------
(***************************************************************************)
(* Proofs about TemperatureControl, for any number of profiles, steps,     *)
(* channels, temperatures and durations.                                   *)
(***************************************************************************)
EXTENDS TemperatureControl, TLAPS

\* The part of TypeOK that a call of the state machine may change.
MachineTypeOK ==
  /\ data \in [Profiles -> Profile]
  /\ state \in [Profiles -> States]
  /\ step \in [Profiles -> -1 .. MaxStep - 1]
  /\ timer \in [Profiles -> Timer]
  /\ held \in [Profiles -> -1 .. MaxDuration]
  /\ heaterOn \subseteq Heaters /\ manualHeat \subseteq Heaters
  /\ tecOn \subseteq Tecs /\ manualCool \subseteq Tecs
  /\ driving \in Profiles \cup {None} /\ inband \in BOOLEAN

Active == Preheat \cup Ramp \cup Soak

StepRange == 0 .. MaxStep - 1

LEMMA ProfileFields ==
  ASSUME TypeOK, NEW i \in Profiles
  PROVE  /\ data[i].heater_mask \subseteq Heaters
         /\ data[i].tec_mask \subseteq Tecs
         /\ data[i].step_count \in 0 .. MaxStep
         /\ data[i].set_point \in Int
         /\ \A n \in StepRange : /\ data[i].steps[n].duration \in 0 .. MaxDuration
                                 /\ data[i].steps[n].set_point \in Int
                                 /\ data[i].steps[n].control_mode \in Nat
<1>1. data[i] \in Profile
  BY DEF TypeOK
<1>2. data[i].steps \in [StepRange -> Step]
  BY <1>1 DEF Profile, StepRange
<1>3. \A n \in StepRange : data[i].steps[n] \in Step
  BY <1>2
<1>4. /\ data[i].heater_mask \subseteq Heaters
      /\ data[i].tec_mask \subseteq Tecs
      /\ data[i].step_count \in 0 .. MaxStep
      /\ data[i].set_point \in Int
  BY <1>1 DEF Profile
<1>5. \A s \in Step : /\ s.duration \in 0 .. MaxDuration
                       /\ s.set_point \in Int
                       /\ s.control_mode \in Nat
  BY DEF Step
<1> QED
  BY <1>3, <1>4, <1>5

LEMMA OutputTypes ==
  ASSUME TypeOK, NEW i \in Profiles, NEW on1, NEW on2,
         heater_set_duty(i, on1), cooler_set_duty(i, on2)
  PROVE  /\ heaterOn' \subseteq Heaters /\ manualHeat' \subseteq Heaters
         /\ tecOn' \subseteq Tecs /\ manualCool' \subseteq Tecs
  BY ProfileFields DEF TypeOK, heater_set_duty, cooler_set_duty

LEMMA StoppedTimer == Stopped \in Timer
  BY ConstantsOK DEF Stopped, Timer

LEMMA StartedTimer ==
  ASSUME NEW d \in 0 .. MaxDuration
  PROVE  sw_timer_start(d) \in Timer
  BY ConstantsOK DEF sw_timer_start, Timer

LEMMA TickedTimer ==
  ASSUME NEW tm \in Timer
  PROVE  sw_timer_tick(tm) \in Timer
  BY DEF sw_timer_tick, Timer

LEMMA EnterTypes ==
  ASSUME TypeOK, NEW i \in Profiles, NEW s \in States, NEW tm \in Timer, Enter(i, s, tm)
  PROVE  /\ state' \in [Profiles -> States]
         /\ timer' \in [Profiles -> Timer]
         /\ held' \in [Profiles -> -1 .. MaxDuration]
  BY ConstantsOK DEF TypeOK, Enter

\* The typing facts of a step that calls the state machine, one lemma for each of
\* its entry functions.
LEMMA DisabledTypes ==
  ASSUME TypeOK, NEW i \in Profiles, enter_disabled(i)
  PROVE  /\ state' \in [Profiles -> States]
         /\ step' \in [Profiles -> -1 .. MaxStep - 1]
         /\ timer' \in [Profiles -> Timer]
         /\ held' \in [Profiles -> -1 .. MaxDuration]
         /\ heaterOn' \subseteq Heaters /\ manualHeat' \subseteq Heaters
         /\ tecOn' \subseteq Tecs /\ manualCool' \subseteq Tecs
<1>1. "DISABLED" \in States
  BY DEF States
<1>2. -1 \in -1 .. MaxStep - 1
  BY ConstantsOK
<1>3. step' \in [Profiles -> -1 .. MaxStep - 1]
  BY <1>2 DEF TypeOK, enter_disabled
<1> QED
  BY <1>1, <1>3, EnterTypes, OutputTypes, StoppedTimer DEF enter_disabled, all_outputs_off

LEMMA PreheatTypes ==
  ASSUME TypeOK, NEW i \in Profiles, NEW t, enter_preheat(i, t), UNCHANGED <<data, localVars>>
  PROVE  MachineTypeOK'
<1>1. {"PREHEAT_HEAT", "PREHEAT_COOL"} \subseteq States
  BY DEF States, HeatStates, CoolStates
<1> QED
  BY <1>1, EnterTypes, StoppedTimer DEF TypeOK, MachineTypeOK, enter_preheat, outVars, localVars

LEMMA NextStepRange ==
  ASSUME TypeOK, NEW i \in Profiles
  PROVE  NextStep(i) \in Nat /\ NextStep(i) \in 0 .. MaxStep
<1>1. step[i] \in -1 .. MaxStep - 1
  BY DEF TypeOK
<1> QED
  BY <1>1, ConstantsOK DEF NextStep

LEMMA CheckTypes ==
  ASSUME TypeOK, NEW i \in Profiles, NEW t, NEW tm \in Timer, enter_profile_check(i, t, tm),
         UNCHANGED localVars
  PROVE  MachineTypeOK'
<1> DEFINE n == NextStep(i)
<1>1. n \in Nat /\ n \in 0 .. MaxStep
  BY NextStepRange
<1>2. CASE n >= data[i].step_count
  <2>1. data' = [data EXCEPT ![i].enabled = 0] /\ enter_disabled(i)
    BY <1>2, <1>1, ProfileFields DEF enter_profile_check
  <2>2. [data[i] EXCEPT !.enabled = 0] \in Profile
    <3>1. data[i] \in Profile
      BY DEF TypeOK
    <3> QED
      BY <3>1 DEF Profile
  <2>3. data' \in [Profiles -> Profile]
    BY <2>1, <2>2 DEF TypeOK
  <2> QED
    BY <2>1, <2>3, DisabledTypes DEF TypeOK, MachineTypeOK, localVars
<1>3. CASE n < data[i].step_count
  <2>1. n \in StepRange /\ n \in -1 .. MaxStep - 1
    BY <1>1, <1>3, ProfileFields, ConstantsOK DEF StepRange
  <2>2. UNCHANGED data
    BY <1>1, <1>3, ProfileFields DEF enter_profile_check
  <2>4. CASE enter_soak(i, n, t)
    <3>1. {"SOAK_HEAT", "SOAK_COOL"} \subseteq States
      BY DEF States, HeatStates, CoolStates
    <3> QED
      BY <2>1, <2>2, <2>4, <3>1, EnterTypes, StoppedTimer
      DEF TypeOK, MachineTypeOK, enter_soak, outVars, localVars
  <2>5. CASE enter_ramp(i, n, tm)
    <3>1. {"HEATING", "COOLING"} \subseteq States
      BY DEF States, HeatStates, CoolStates
    <3>2. data[i].steps[n].duration \in 0 .. MaxDuration
      BY <2>1, ProfileFields
    <3> QED
      BY <2>1, <2>2, <2>5, <3>1, <3>2, EnterTypes, StartedTimer
      DEF TypeOK, MachineTypeOK, enter_ramp, outVars, localVars
  <2>6. CASE enter_error(i, n)
    <3>1. "ERROR" \in States
      BY DEF States
    <3> QED
      BY <2>1, <2>2, <2>6, <3>1, EnterTypes, OutputTypes, StoppedTimer
      DEF TypeOK, MachineTypeOK, enter_error, all_outputs_off, localVars
  <2> QED
    <3>1. ~(n >= data[i].step_count)
      BY <1>1, <1>3, ProfileFields
    <3>2. enter_soak(i, n, t) \/ enter_ramp(i, n, tm) \/ enter_error(i, n)
      BY <3>1 DEF enter_profile_check
    <3> QED
      BY <3>2, <2>4, <2>5, <2>6
<1> QED
  BY <1>1, <1>2, <1>3, ProfileFields

\* Either half of a do_ function writes one bank.
LEMMA OneBankTypes ==
  ASSUME TypeOK, NEW i \in Profiles, NEW on,
         \/ heater_set_duty(i, on) /\ UNCHANGED <<tecOn, manualCool>>
         \/ cooler_set_duty(i, on) /\ UNCHANGED <<heaterOn, manualHeat>>
         \/ UNCHANGED outVars
  PROVE  /\ heaterOn' \subseteq Heaters /\ manualHeat' \subseteq Heaters
         /\ tecOn' \subseteq Tecs /\ manualCool' \subseteq Tecs
  BY ProfileFields DEF TypeOK, heater_set_duty, cooler_set_duty, outVars

LEMMA BeginTypes ==
  ASSUME TypeOK, NEW i \in Profiles, NEW t, NEW tm \in Timer, do_begin(i, t, tm)
  PROVE  MachineTypeOK'
<1>1. /\ heaterOn' \subseteq Heaters /\ manualHeat' \subseteq Heaters
      /\ tecOn' \subseteq Tecs /\ manualCool' \subseteq Tecs
  BY OneBankTypes DEF do_begin, DriveOwnBank
<1>2. timer' \in [Profiles -> Timer]
  BY DEF TypeOK, do_begin
<1>3. driving' \in Profiles /\ inband' \in BOOLEAN
  BY DEF do_begin
<1>4. UNCHANGED <<data, state, step, held>>
  BY DEF do_begin
<1> QED
  BY <1>1, <1>2, <1>3, <1>4 DEF TypeOK, MachineTypeOK

LEMMA SoakTypes ==
  ASSUME TypeOK, StepMatchesState, NEW i \in Profiles, state[i] \in Soak, soak_timer(i)
  PROVE  /\ timer' \in [Profiles -> Timer]
         /\ held' \in [Profiles -> -1 .. MaxDuration]
<1> DEFINE d == data[i].steps[step[i]].duration
<1>1. d \in 0 .. MaxDuration
  BY ProfileFields DEF StepMatchesState, StepRange
<1>2. timer' \in [Profiles -> Timer]
  BY <1>1, StartedTimer, StoppedTimer DEF TypeOK, soak_timer
<1>3. held[i] \in -1 .. MaxDuration /\ 0 \in -1 .. MaxDuration /\ -1 \in -1 .. MaxDuration
  BY ConstantsOK DEF TypeOK
<1>4. PICK v \in -1 .. MaxDuration : held' = [held EXCEPT ![i] = v]
  BY <1>3, Zenon DEF soak_timer
<1>5. held' \in [Profiles -> -1 .. MaxDuration]
  BY <1>4 DEF TypeOK
<1> QED
  BY <1>2, <1>5

\* Every call of profileSM_handle_event preserves the types of what it changes.
LEMMA HandlerTypes ==
  ASSUME TypeOK, NEW i \in Profiles, NEW event, NEW t, NEW tm \in Timer,
         profileSM_handle_event(i, event, t, tm)
  PROVE  MachineTypeOK'
<1>1. CASE event = "STOP" /\ enter_disabled(i) /\ UNCHANGED <<data, localVars>>
  BY <1>1, DisabledTypes DEF TypeOK, MachineTypeOK, localVars
<1>2. CASE enter_preheat(i, t) /\ UNCHANGED <<data, localVars>>
  BY <1>2, PreheatTypes
<1>3. CASE /\ timer' = [timer EXCEPT ![i] = tm]
           /\ UNCHANGED <<state, step, held, outVars>>
           /\ UNCHANGED <<data, localVars>>
  BY <1>3 DEF TypeOK, MachineTypeOK, outVars, localVars
<1>4. CASE enter_profile_check(i, t, tm) /\ UNCHANGED localVars
  BY <1>4, CheckTypes
<1>5. CASE do_begin(i, t, tm)
  BY <1>5, BeginTypes
<1>6. CASE /\ all_outputs_off(i)
           /\ timer' = [timer EXCEPT ![i] = tm]
           /\ UNCHANGED <<data, state, step, held, localVars>>
  BY <1>6, OutputTypes DEF TypeOK, MachineTypeOK, all_outputs_off, localVars
<1> QED
  BY <1>1, <1>2, <1>3, <1>4, <1>5, <1>6 DEF profileSM_handle_event

-----------------------------------------------------------------------------
(* What a call of the state machine can do to profile i, with the timer tm. *)

GoTo(i, s, n, t) ==
  /\ state' = [state EXCEPT ![i] = s]
  /\ step' = [step EXCEPT ![i] = n]
  /\ timer' = [timer EXCEPT ![i] = t]
  /\ held' = [held EXCEPT ![i] = -1]

StayWith(i, t) ==
  /\ UNCHANGED <<state, step>>
  /\ timer' = [timer EXCEPT ![i] = t]

BothOff == heaterOn' = {} /\ tecOn' = {}

\* A call that changes the state, or none of the do_ functions: it is over at once.
Switches(i, tm) ==
  \/ GoTo(i, "DISABLED", -1, Stopped) /\ BothOff
  \/ /\ state[i] = "DISABLED"
     /\ \E s \in Preheat : GoTo(i, s, step[i], Stopped) /\ UNCHANGED outVars
  \/ \E n \in StepRange : GoTo(i, "ERROR", n, Stopped) /\ BothOff
  \/ \E n \in StepRange, s \in Soak : GoTo(i, s, n, Stopped) /\ UNCHANGED outVars
  \/ \E n \in StepRange, s \in Ramp, t \in Timer : GoTo(i, s, n, t) /\ UNCHANGED outVars
  \/ state[i] = "DISABLED" /\ StayWith(i, tm) /\ UNCHANGED <<held, outVars>>
  \/ state[i] = "ERROR" /\ StayWith(i, tm) /\ UNCHANGED held /\ BothOff

\* A call of a do_ function, up to its first write.
Begins(i, event, tm) ==
  /\ state[i] \in Active
  /\ event # "TIMER_EXPIRED" /\ StayWith(i, tm) /\ UNCHANGED held
  /\ driving' = i

Effect(i, event, tm) ==
  \/ Switches(i, tm) /\ UNCHANGED localVars
  \/ Begins(i, event, tm)

LEMMA AllOffEffect ==
  ASSUME NEW i, all_outputs_off(i)
  PROVE  BothOff
  BY DEF BothOff, all_outputs_off, heater_set_duty, cooler_set_duty

LEMMA CheckEffect ==
  ASSUME TypeOK, NEW i \in Profiles, NEW t, NEW tm \in Timer,
         enter_profile_check(i, t, tm)
  PROVE  Switches(i, tm)
<1> DEFINE n == NextStep(i)
<1>1. n \in 0 .. MaxStep
  BY NextStepRange
<1>2. CASE enter_disabled(i)
  BY <1>2, AllOffEffect DEF enter_disabled, Enter, Switches, GoTo
<1>3. CASE ~enter_disabled(i)
  <2>1. n < data[i].step_count
    BY <1>1, <1>3, ProfileFields DEF enter_profile_check
  <2>2. n \in StepRange
    BY <1>1, <2>1, ProfileFields, ConstantsOK DEF StepRange
  <2>3. enter_soak(i, n, t) \/ enter_ramp(i, n, tm) \/ enter_error(i, n)
    BY <1>3 DEF enter_profile_check
  <2>4. CASE enter_soak(i, n, t)
    <3>1. \E s \in Soak : GoTo(i, s, n, Stopped) /\ UNCHANGED outVars
      BY <2>4 DEF enter_soak, Enter, GoTo, Soak
    <3> QED
      BY <2>2, <3>1 DEF Switches
  <2>5. CASE enter_ramp(i, n, tm)
    <3>1. sw_timer_start(data[i].steps[n].duration) \in Timer
      BY <2>2, ProfileFields, StartedTimer
    <3>2. \E s \in Ramp, tt \in Timer : GoTo(i, s, n, tt) /\ UNCHANGED outVars
      BY <2>5, <3>1, Zenon DEF enter_ramp, Enter, GoTo, Ramp
    <3> QED
      BY <2>2, <3>2 DEF Switches
  <2>6. CASE enter_error(i, n)
    <3>1. GoTo(i, "ERROR", n, Stopped) /\ BothOff
      BY <2>6, AllOffEffect DEF enter_error, Enter, GoTo
    <3> QED
      BY <2>2, <3>1 DEF Switches
  <2> QED
    BY <2>3, <2>4, <2>5, <2>6
<1> QED
  BY <1>2, <1>3

\* Every call of profileSM_handle_event has one of these effects.
LEMMA HandlerEffect ==
  ASSUME TypeOK, NEW i \in Profiles, NEW event, NEW t, NEW tm \in Timer,
         profileSM_handle_event(i, event, t, tm)
  PROVE  Effect(i, event, tm)
<1>1. CASE enter_disabled(i) /\ UNCHANGED localVars
  BY <1>1, AllOffEffect DEF enter_disabled, Enter, Effect, Switches, GoTo
<1>2. CASE state[i] = "DISABLED" /\ enter_preheat(i, t) /\ UNCHANGED localVars
  <2>1. step' = [step EXCEPT ![i] = step[i]]
    BY <1>2 DEF TypeOK, enter_preheat
  <2>2. \E s \in Preheat : GoTo(i, s, step[i], Stopped) /\ UNCHANGED outVars
    BY <1>2, <2>1 DEF enter_preheat, Enter, GoTo, Preheat
  <2> QED
    BY <1>2, <2>2 DEF Effect, Switches
<1>3. CASE /\ state[i] = "DISABLED"
           /\ timer' = [timer EXCEPT ![i] = tm]
           /\ UNCHANGED <<state, step, held, outVars, localVars>>
  BY <1>3 DEF Effect, Switches, StayWith
<1>4. CASE enter_profile_check(i, t, tm) /\ UNCHANGED localVars
  BY <1>4, CheckEffect DEF Effect
<1>5. CASE state[i] \in Active /\ event # "TIMER_EXPIRED" /\ do_begin(i, t, tm)
  BY <1>5 DEF do_begin, Effect, Begins, StayWith
<1>6. CASE /\ state[i] = "ERROR" /\ all_outputs_off(i)
           /\ timer' = [timer EXCEPT ![i] = tm]
           /\ UNCHANGED <<data, state, step, held, localVars>>
  BY <1>6, AllOffEffect DEF Effect, Switches, StayWith
<1> QED
  BY <1>1, <1>2, <1>3, <1>4, <1>5, <1>6 DEF profileSM_handle_event, Completes, Active

-----------------------------------------------------------------------------
(* The inductive invariant.  The types alone are not inductive: a soak reads   *)
(* steps[current_step], so current_step must match the state; the timer and    *)
(* output properties each need the types; and between the two writes of a do_  *)
(* function its profile is still in the state that function is for.            *)

DrivingActive == driving # None => state[driving] \in Active

IInv ==
  /\ TypeOK
  /\ StepMatchesState
  /\ TimerMatchesState
  /\ IdleMeansOff
  /\ NeverHeatAndCool
  /\ SoakCountsOnlyBand
  /\ DrivingActive

\* What the task guarantees about the timer it hands to the state machine.
TimerPre(i, event, tm) ==
  /\ tm.state = "RUNNING" => state[i] \in Ramp \cup Soak
  /\ tm.state = "EXPIRED" => state[i] \in Ramp \/ (state[i] \in Soak /\ event = "TIMER_EXPIRED")
  /\ state[i] \in Soak /\ tm.state = "RUNNING" => held[i] >= tm.period - tm.left

LEMMA Distinct ==
  /\ "DISABLED" \notin Preheat \cup Ramp \cup Soak
  /\ "ERROR" \notin Preheat \cup Ramp \cup Soak
  /\ Preheat \cap Ramp = {} /\ Preheat \cap Soak = {} /\ Ramp \cap Soak = {}
  BY DEF Preheat, Ramp, Soak

LEMMA NoProfile == None \notin Profiles
  BY DEF None, Profiles

LEMMA EffectStep ==
  ASSUME IInv, NEW i \in Profiles, NEW event, NEW tm \in Timer, Effect(i, event, tm)
  PROVE  StepMatchesState'
<1> SUFFICES ASSUME NEW p \in Profiles
             PROVE  /\ state'[p] \in {"DISABLED"} \cup Preheat => step'[p] = -1
                    /\ state'[p] \in Ramp \cup Soak \cup {"ERROR"} => step'[p] \in StepRange
  BY DEF StepMatchesState, StepRange
<1>1. /\ state[p] \in {"DISABLED"} \cup Preheat => step[p] = -1
      /\ state[p] \in Ramp \cup Soak \cup {"ERROR"} => step[p] \in StepRange
      /\ state[i] \in {"DISABLED"} \cup Preheat => step[i] = -1
  BY DEF IInv, StepMatchesState, StepRange
<1>2. ASSUME NEW s, NEW n, NEW t, GoTo(i, s, n, t)
      PROVE  /\ p # i => state'[p] = state[p] /\ step'[p] = step[p]
             /\ p = i => state'[p] = s /\ step'[p] = n
  BY <1>2 DEF GoTo, IInv, TypeOK
<1>3. CASE UNCHANGED <<state, step>>
  BY <1>1, <1>3
<1>4. CASE GoTo(i, "DISABLED", -1, Stopped)
  BY <1>1, <1>2, <1>4, Distinct
<1>5. CASE state[i] = "DISABLED" /\ \E s \in Preheat : GoTo(i, s, step[i], Stopped)
  BY <1>1, <1>2, <1>5, Distinct
<1>6. CASE \E n \in StepRange : GoTo(i, "ERROR", n, Stopped)
  BY <1>1, <1>2, <1>6, Distinct
<1>7. CASE \E n \in StepRange, s \in Soak : GoTo(i, s, n, Stopped)
  BY <1>1, <1>2, <1>7, Distinct
<1>8. CASE \E n \in StepRange, s \in Ramp, t \in Timer : GoTo(i, s, n, t)
  BY <1>1, <1>2, <1>8, Distinct
<1> QED
  BY <1>3, <1>4, <1>5, <1>6, <1>7, <1>8 DEF Effect, Switches, Begins, StayWith

LEMMA EffectTimer ==
  ASSUME IInv, NEW i \in Profiles, NEW event, NEW tm \in Timer, Effect(i, event, tm),
         TimerPre(i, event, tm)
  PROVE  TimerMatchesState'
<1> SUFFICES ASSUME NEW p \in Profiles
             PROVE  /\ timer'[p].state = "RUNNING" => state'[p] \in Ramp \cup Soak
                    /\ timer'[p].state = "EXPIRED" => state'[p] \in Ramp
  BY DEF TimerMatchesState
<1>1. /\ timer[p].state = "RUNNING" => state[p] \in Ramp \cup Soak
      /\ timer[p].state = "EXPIRED" => state[p] \in Ramp
  BY DEF IInv, TimerMatchesState
<1>2. ASSUME NEW s, NEW n, NEW t, GoTo(i, s, n, t)
      PROVE  /\ p # i => state'[p] = state[p] /\ timer'[p] = timer[p]
             /\ p = i => state'[p] = s /\ timer'[p] = t
  BY <1>2 DEF GoTo, IInv, TypeOK
<1>3. ASSUME NEW t, StayWith(i, t)
      PROVE  /\ p # i => state'[p] = state[p] /\ timer'[p] = timer[p]
             /\ p = i => state'[p] = state[p] /\ timer'[p] = t
  BY <1>3 DEF StayWith, IInv, TypeOK
<1>4. Stopped.state = "STOPPED"
  BY DEF Stopped
<1>5. CASE \E s, n : GoTo(i, s, n, Stopped)
  BY <1>1, <1>2, <1>4, <1>5
<1>6. CASE \E n \in StepRange, s \in Ramp, t \in Timer : GoTo(i, s, n, t)
  BY <1>1, <1>2, <1>6
<1>7. CASE state[i] \notin Soak /\ StayWith(i, tm)
  BY <1>1, <1>3, <1>7 DEF TimerPre
<1>8. CASE state[i] \in Soak /\ event # "TIMER_EXPIRED" /\ StayWith(i, tm)
  BY <1>1, <1>3, <1>8, Distinct DEF TimerPre
<1> QED
  BY <1>5, <1>6, <1>7, <1>8, Distinct DEF Effect, Switches, Begins, Active

LEMMA EffectOutputs ==
  ASSUME IInv, driving = None, NEW i \in Profiles, NEW event, NEW tm, Effect(i, event, tm)
  PROVE  IdleMeansOff' /\ NeverHeatAndCool' /\ DrivingActive'
<1>1. CASE BothOff /\ UNCHANGED localVars
  BY <1>1 DEF BothOff, IdleMeansOff, NeverHeatAndCool, DrivingActive, localVars
<1>2. CASE /\ UNCHANGED <<outVars, localVars>>
           /\ \E s \in Active : \E n, t : GoTo(i, s, n, t)
  <2>1. state'[i] \notin {"DISABLED", "ERROR"}
    BY <1>2, Distinct DEF GoTo, IInv, TypeOK, Active
  <2> QED
    BY <1>2, <2>1 DEF IInv, IdleMeansOff, NeverHeatAndCool, DrivingActive, outVars, localVars
<1>3. CASE UNCHANGED <<outVars, localVars>> /\ UNCHANGED state
  BY <1>3 DEF IInv, IdleMeansOff, NeverHeatAndCool, DrivingActive, outVars, localVars
<1>4. CASE Begins(i, event, tm)
  <2>1. state' = state /\ state[i] \in Active /\ driving' = i /\ i # None
    BY <1>4, NoProfile DEF Begins, StayWith
  <2>2. state'[i] \notin {"DISABLED", "ERROR"}
    BY <2>1, Distinct DEF Active
  <2> QED
    BY <2>1, <2>2 DEF IdleMeansOff, NeverHeatAndCool, DrivingActive
<1> QED
  BY <1>1, <1>2, <1>3, <1>4 DEF Effect, Switches, StayWith, Active

LEMMA EffectSoak ==
  ASSUME IInv, NEW i \in Profiles, NEW event, NEW tm \in Timer, Effect(i, event, tm),
         TimerPre(i, event, tm)
  PROVE  SoakCountsOnlyBand'
<1> SUFFICES ASSUME NEW p \in Profiles, state'[p] \in Soak, timer'[p].state = "RUNNING"
             PROVE  held'[p] >= timer'[p].period - timer'[p].left
  BY DEF SoakCountsOnlyBand
<1>1. state[p] \in Soak /\ timer[p].state = "RUNNING" => held[p] >= timer[p].period - timer[p].left
  BY DEF IInv, SoakCountsOnlyBand
<1>2. ASSUME NEW s, NEW n, NEW t, GoTo(i, s, n, t)
      PROVE  /\ p # i => state'[p] = state[p] /\ timer'[p] = timer[p] /\ held'[p] = held[p]
             /\ p = i => state'[p] = s /\ timer'[p] = t
  BY <1>2 DEF GoTo, IInv, TypeOK
<1>3. ASSUME NEW t, StayWith(i, t)
      PROVE  /\ p # i => state'[p] = state[p] /\ timer'[p] = timer[p]
             /\ p = i => state'[p] = state[p] /\ timer'[p] = t
  BY <1>3 DEF StayWith, IInv, TypeOK
<1>4. Stopped.state = "STOPPED"
  BY DEF Stopped
<1>5. CASE \E s, n : GoTo(i, s, n, Stopped)
  BY <1>1, <1>2, <1>4, <1>5
<1>6. CASE \E n \in StepRange, s \in Ramp, t \in Timer : GoTo(i, s, n, t)
  BY <1>1, <1>2, <1>6, Distinct
<1>7. CASE state[i] \notin Soak /\ StayWith(i, tm) /\ UNCHANGED held
  BY <1>1, <1>3, <1>7
<1>8. /\ held \in [Profiles -> -1 .. MaxDuration]
      /\ tm.period \in 0 .. MaxDuration /\ tm.left \in 0 .. MaxDuration
      /\ MaxDuration \in Nat
  BY ConstantsOK DEF IInv, TypeOK, Timer
<1>9. CASE state[i] \in Soak /\ StayWith(i, tm) /\ UNCHANGED held
  <2>1. CASE p = i
    <3>1. timer'[p] = tm /\ tm.state = "RUNNING"
      BY <1>3, <1>9, <2>1
    <3>2. held[i] >= tm.period - tm.left
      BY <1>9, <3>1 DEF TimerPre
    <3> QED
      BY <1>9, <2>1, <3>1, <3>2
  <2> QED
    BY <1>1, <1>3, <1>9, <2>1
<1> QED
  BY <1>5, <1>6, <1>7, <1>9, Distinct DEF Effect, Switches, Begins

\* A call of the state machine preserves every part of IInv but the types of the
\* variables it leaves to the task.
LEMMA HandlerStep ==
  ASSUME IInv, driving = None, NEW i \in Profiles, NEW event, NEW t, NEW tm \in Timer,
         profileSM_handle_event(i, event, t, tm), TimerPre(i, event, tm)
  PROVE  /\ MachineTypeOK'
         /\ StepMatchesState' /\ TimerMatchesState' /\ IdleMeansOff'
         /\ NeverHeatAndCool' /\ SoakCountsOnlyBand' /\ DrivingActive'
<1>1. TypeOK
  BY DEF IInv
<1>2. MachineTypeOK'
  BY <1>1, HandlerTypes
<1>3. Effect(i, event, tm)
  BY <1>1, HandlerEffect
<1>4. StepMatchesState'
  BY <1>3, EffectStep
<1>5. TimerMatchesState'
  BY <1>3, EffectTimer
<1>6. IdleMeansOff' /\ NeverHeatAndCool' /\ DrivingActive'
  BY <1>3, EffectOutputs
<1>7. SoakCountsOnlyBand'
  BY <1>3, EffectSoak
<1> QED
  BY <1>2, <1>4, <1>5, <1>6, <1>7

\* A step that leaves the state machine and the outputs alone preserves those parts.
LEMMA QuietStep ==
  ASSUME IInv, UNCHANGED smVars, UNCHANGED outVars, UNCHANGED localVars
  PROVE  /\ StepMatchesState' /\ TimerMatchesState' /\ IdleMeansOff'
         /\ NeverHeatAndCool' /\ SoakCountsOnlyBand' /\ DrivingActive'
<1>1. StepMatchesState'
  BY DEF IInv, StepMatchesState, smVars
<1>2. TimerMatchesState'
  BY DEF IInv, TimerMatchesState, smVars
<1>3. IdleMeansOff' /\ NeverHeatAndCool'
  BY DEF IInv, IdleMeansOff, NeverHeatAndCool, smVars, outVars, localVars
<1>4. SoakCountsOnlyBand' /\ DrivingActive'
  BY DEF IInv, SoakCountsOnlyBand, DrivingActive, smVars, localVars
<1> QED
  BY <1>1, <1>2, <1>3, <1>4

\* The timer the machine is handed with a command: the one the last tick left.
LEMMA CommandTimer ==
  ASSUME IInv, NEW i \in Profiles, NEW event
  PROVE  timer[i] \in Timer /\ TimerPre(i, event, timer[i])
  BY DEF IInv, TypeOK, TimerMatchesState, SoakCountsOnlyBand, TimerPre

\* Taking a command.
LEMMA CommandStep ==
  ASSUME IInv, NEW i \in Profiles, TakeCommand(i)
  PROVE  IInv'
<1>1. TypeOK
  BY DEF IInv
<1>2. UNCHANGED <<turn, temp, gap>> /\ driving = None
  BY DEF TakeCommand, sensorVars
<1>3. queue' \in [Profiles -> Seq(Commands)] /\ \A p \in Profiles : Len(queue'[p]) <= QueueLen
  <2>1. CASE UNCHANGED queue
    BY <1>1, <2>1 DEF TypeOK
  <2>2. CASE queue[i] # <<>> /\ queue' = [queue EXCEPT ![i] = Tail(@)]
    <3>1. queue[i] \in Seq(Commands) /\ Len(queue[i]) <= QueueLen
      BY <1>1 DEF TypeOK
    <3>2. Tail(queue[i]) \in Seq(Commands) /\ Len(Tail(queue[i])) <= QueueLen
      BY <2>2, <3>1, ConstantsOK
    <3> QED
      BY <1>1, <2>2, <3>2 DEF TypeOK
  <2> QED
    BY <2>1, <2>2 DEF TakeCommand, HasCommand
<1>4. phase' \in {"command", "enable", "control", "delay"} /\ slipped' \subseteq Profiles
  BY <1>1 DEF TakeCommand, TypeOK
<1>5. CASE UNCHANGED <<dbVars, smVars, outVars, localVars>>
  <2>1. MachineTypeOK'
    BY <1>1, <1>5 DEF TypeOK, MachineTypeOK, dbVars, smVars, outVars, localVars
  <2> QED
    BY <1>1, <1>2, <1>3, <1>4, <1>5, <2>1, QuietStep DEF IInv, TypeOK, MachineTypeOK
<1>6. CASE \E event : profileSM_handle_event(i, event, temp[i], timer[i])
  <2>1. PICK event : profileSM_handle_event(i, event, temp[i], timer[i])
    BY <1>6
  <2> QED
    BY <1>1, <1>2, <1>3, <1>4, <2>1, CommandTimer, HandlerStep DEF IInv, TypeOK, MachineTypeOK
<1> QED
  BY <1>5, <1>6, Zenon DEF TakeCommand

\* Enabling the profile whose validation has returned.
LEMMA EnableStep ==
  ASSUME IInv, NEW i \in Profiles, Enable(i)
  PROVE  IInv'
<1>1. TypeOK
  BY DEF IInv
<1>2. /\ UNCHANGED <<turn, temp, gap, queue, slipped>> /\ driving = None
      /\ phase' = "control"
      /\ profileSM_handle_event(i, "ENABLED", temp[i], timer[i])
  BY DEF Enable, sensorVars
<1> QED
  BY <1>1, <1>2, CommandTimer, HandlerStep DEF IInv, TypeOK, MachineTypeOK

\* The second write of a do_ function, and the timer of a soak: it starts only on a
\* measurement in the band and stops on one outside.
LEMMA EndStep ==
  ASSUME IInv, NEW i \in Profiles, do_end(i)
  PROVE  IInv'
<1>1. TypeOK /\ StepMatchesState /\ state[i] \in Active
  BY NoProfile DEF IInv, do_end, DrivingActive
<1>2. /\ UNCHANGED <<data, state, step, temp, gap, queue, turn, phase, slipped>>
      /\ driving' = None /\ inband' = FALSE
  BY DEF do_end, sensorVars
<1>3. /\ heaterOn' \subseteq Heaters /\ manualHeat' \subseteq Heaters
      /\ tecOn' \subseteq Tecs /\ manualCool' \subseteq Tecs
  BY <1>1, OneBankTypes DEF do_end, ClearOtherBank
<1>4. timer' \in [Profiles -> Timer] /\ held' \in [Profiles -> -1 .. MaxDuration]
  BY <1>1, SoakTypes DEF do_end, TypeOK
<1>5. TypeOK'
  BY <1>1, <1>2, <1>3, <1>4 DEF TypeOK
<1>6. StepMatchesState'
  BY <1>1, <1>2 DEF StepMatchesState
<1>7. IdleMeansOff' /\ NeverHeatAndCool' /\ DrivingActive'
  <2>1. state'[i] \notin {"DISABLED", "ERROR"}
    BY <1>1, <1>2, Distinct DEF Active
  <2>2. heaterOn' = {} \/ tecOn' = {}
    BY DEF do_end, ClearOtherBank, heater_set_duty, cooler_set_duty
  <2> QED
    BY <1>2, <2>1, <2>2 DEF IdleMeansOff, NeverHeatAndCool, DrivingActive
<1>8. CASE UNCHANGED <<timer, held>>
  BY <1>2, <1>5, <1>6, <1>7, <1>8 DEF IInv, TimerMatchesState, SoakCountsOnlyBand
<1>9. CASE state[i] \in Soak /\ soak_timer(i)
  <2> DEFINE d == data[i].steps[step[i]].duration
  <2>1. d \in 0 .. MaxDuration
    BY <1>1, <1>9, ProfileFields DEF StepMatchesState, StepRange
  <2>2. /\ timer[i] \in Timer /\ held[i] \in -1 .. MaxDuration
        /\ timer[i].state # "EXPIRED"
    BY <1>1, <1>9, Distinct DEF TypeOK, IInv, TimerMatchesState
  <2>3. PICK tm : /\ timer' = [timer EXCEPT ![i] = tm]
                  /\ \/ tm = timer[i] /\ (inband \/ tm.state # "RUNNING")
                     \/ tm = Stopped
                     \/ tm = sw_timer_start(d) /\ inband
    BY <1>9, Zenon DEF soak_timer
  <2>4. PICK h : /\ held' = [held EXCEPT ![i] = h]
                 /\ inband => h = IF held[i] = -1 THEN 0 ELSE held[i]
    BY <1>9, Zenon DEF soak_timer
  <2>5. \A p \in Profiles : /\ timer'[p] = IF p = i THEN tm ELSE timer[p]
                            /\ held'[p] = IF p = i THEN h ELSE held[p]
    BY <1>1, <2>3, <2>4 DEF TypeOK
  <2>6. tm.state # "EXPIRED"
    BY <2>2, <2>3 DEF Stopped, sw_timer_start
  <2>7. tm.state = "RUNNING" => h >= tm.period - tm.left
    <3>1. CASE tm = timer[i] /\ inband
      BY <1>9, <2>2, <2>4, <3>1, ConstantsOK DEF IInv, SoakCountsOnlyBand, Timer
    <3>2. CASE tm = sw_timer_start(d) /\ inband
      <4>1. tm.period - tm.left = 0
        BY <2>1, <3>2, ConstantsOK DEF sw_timer_start
      <4>2. h >= 0
        BY <2>2, <2>4, <3>2, ConstantsOK
      <4> QED
        BY <4>1, <4>2
    <3>3. CASE tm = Stopped
      BY <3>3 DEF Stopped
    <3> QED
      BY <2>3, <3>1, <3>2, <3>3
  <2>8. TimerMatchesState'
    BY <1>2, <1>9, <2>5, <2>6 DEF IInv, TimerMatchesState
  <2>9. SoakCountsOnlyBand'
    BY <1>2, <2>5, <2>7 DEF IInv, SoakCountsOnlyBand
  <2> QED
    BY <1>5, <1>6, <1>7, <2>8, <2>9 DEF IInv
<1> QED
  BY <1>8, <1>9 DEF do_end

\* Sampling, ticking and running the state machine.
LEMMA ControlStep ==
  ASSUME IInv, NEW i \in Profiles, Control(i)
  PROVE  IInv'
<1>1. TypeOK /\ driving = None
  BY DEF IInv, Control
<1> DEFINE tm == sw_timer_tick(timer[i])
           event == IF tm.state = "EXPIRED" THEN "TIMER_EXPIRED" ELSE "NONE"
<1>2. tm \in Timer
  BY <1>1, TickedTimer DEF TypeOK
<1>3. TimerPre(i, event, tm)
  BY <1>1, <1>2 DEF IInv, TypeOK, Timer, TimerMatchesState, SoakCountsOnlyBand, TimerPre,
                    sw_timer_tick
<1>4. PICK t \in Temps, g \in Gaps :
        /\ temp' = [temp EXCEPT ![i] = t]
        /\ gap' = [gap EXCEPT ![i] = g]
        /\ profileSM_handle_event(i, event, t, tm)
  BY DEF Control
<1>5. temp' \in [Profiles -> Int] /\ gap' \in [Profiles -> Int]
  BY <1>1, <1>4, ConstantsOK DEF TypeOK
<1>6. /\ turn' \in Profiles /\ phase' \in {"command", "enable", "control", "delay"}
      /\ slipped' \subseteq Profiles
  <2>1. phase' \in {"command", "enable", "control", "delay"}
    BY DEF Control
  <2>2. turn' \in Profiles
    BY ConstantsOK DEF Control, Profiles
  <2>3. slipped' \subseteq Profiles
    BY <1>1 DEF Control, TypeOK
  <2> QED
    BY <2>1, <2>2, <2>3
<1>7. UNCHANGED queue
  BY DEF Control
<1>8. /\ MachineTypeOK'
      /\ StepMatchesState' /\ TimerMatchesState' /\ IdleMeansOff'
      /\ NeverHeatAndCool' /\ SoakCountsOnlyBand' /\ DrivingActive'
  BY <1>1, <1>2, <1>3, <1>4, HandlerStep
<1> QED
  BY <1>1, <1>5, <1>6, <1>7, <1>8 DEF IInv, TypeOK, MachineTypeOK

\* Time passes: the time a soak still has to run and the streak it is measured
\* against change by the same amount, as far as both bounds allow.
LEMMA SleepStep ==
  ASSUME IInv, Sleep
  PROVE  IInv'
<1>1. TypeOK
  BY DEF IInv
<1>2. PICK lag \in Lags :
        /\ timer' = [p \in Profiles |->
                       [timer[p] EXCEPT !.left = IF @ > lag THEN @ - lag ELSE 0]]
        /\ held' = [p \in Profiles |->
                      IF held[p] = -1 THEN -1
                      ELSE IF held[p] + lag < MaxDuration THEN held[p] + lag ELSE MaxDuration]
  BY DEF Sleep
<1>3. lag \in Nat /\ MaxDuration \in Nat
  BY ConstantsOK
<1>4. ASSUME NEW p \in Profiles
      PROVE  /\ timer'[p] \in Timer
             /\ held'[p] \in -1 .. MaxDuration
             /\ timer'[p].state = timer[p].state
             /\ timer'[p].period = timer[p].period
             /\ timer'[p].left = IF timer[p].left > lag THEN timer[p].left - lag ELSE 0
  <2>1. timer[p] \in Timer /\ held[p] \in -1 .. MaxDuration
    BY <1>1 DEF TypeOK
  <2>2. timer'[p] = [timer[p] EXCEPT !.left = IF @ > lag THEN @ - lag ELSE 0]
    BY <1>2
  <2>3. held'[p] \in -1 .. MaxDuration
    BY <1>2, <1>3, <2>1
  <2> QED
    BY <1>3, <2>1, <2>2, <2>3 DEF Timer
<1>5. timer' \in [Profiles -> Timer] /\ held' \in [Profiles -> -1 .. MaxDuration]
  BY <1>2, <1>4
<1>6. /\ UNCHANGED <<data, state, step, temp, gap, queue, turn, outVars, localVars, slipped>>
      /\ phase' = "command"
  BY DEF Sleep, dbVars, sensorVars
<1>7. TypeOK'
  BY <1>1, <1>5, <1>6 DEF TypeOK, outVars, localVars
<1>8. StepMatchesState' /\ IdleMeansOff' /\ NeverHeatAndCool' /\ DrivingActive'
  BY <1>6 DEF IInv, StepMatchesState, IdleMeansOff, NeverHeatAndCool, DrivingActive, outVars,
              localVars
<1>9. TimerMatchesState'
  BY <1>4, <1>6 DEF IInv, TimerMatchesState
<1>10. SoakCountsOnlyBand'
  <2> SUFFICES ASSUME NEW p \in Profiles, state'[p] \in Soak, timer'[p].state = "RUNNING"
               PROVE  held'[p] >= timer'[p].period - timer'[p].left
    BY DEF SoakCountsOnlyBand
  <2>1. /\ held[p] >= timer[p].period - timer[p].left
        /\ timer[p].period \in 0 .. MaxDuration /\ timer[p].left \in 0 .. timer[p].period
        /\ held[p] \in -1 .. MaxDuration
    BY <1>1, <1>4, <1>6 DEF IInv, TypeOK, Timer, SoakCountsOnlyBand
  <2>2. held'[p] = IF held[p] = -1 THEN -1
                   ELSE IF held[p] + lag < MaxDuration THEN held[p] + lag ELSE MaxDuration
    BY <1>2
  <2>3. /\ timer'[p].period = timer[p].period
        /\ timer'[p].left = IF timer[p].left > lag THEN timer[p].left - lag ELSE 0
    BY <1>4
  <2> QED
    BY <1>3, <2>1, <2>2, <2>3
<1> QED
  BY <1>7, <1>8, <1>9, <1>10 DEF IInv

\* What operators do.
LEMMA SendStep ==
  ASSUME IInv, NEW p \in Profiles, NEW c \in Commands, SendCommand(p, c)
  PROVE  IInv'
<1>1. TypeOK
  BY DEF IInv
<1>2. queue[p] \in Seq(Commands) /\ Len(queue[p]) < QueueLen
  BY <1>1 DEF TypeOK, SendCommand
<1>3. Append(queue[p], c) \in Seq(Commands) /\ Len(Append(queue[p], c)) <= QueueLen
  BY <1>2, ConstantsOK
<1>4. queue' = [queue EXCEPT ![p] = Append(queue[p], c)]
  BY DEF SendCommand
<1>5. queue' \in [Profiles -> Seq(Commands)] /\ \A q \in Profiles : Len(queue'[q]) <= QueueLen
  BY <1>1, <1>3, <1>4 DEF TypeOK
<1>6. UNCHANGED <<dbVars, smVars, sensorVars, outVars, taskVars, slipped>>
  BY DEF SendCommand
<1>7. TypeOK'
  BY <1>1, <1>5, <1>6 DEF TypeOK, dbVars, smVars, sensorVars, outVars, taskVars, localVars
<1> QED
  BY <1>6, <1>7, QuietStep DEF IInv, taskVars

LEMMA WriteStep ==
  ASSUME IInv, NEW p \in Profiles, NEW d \in ProfileData, DB_temp_profile_write(p, d)
  PROVE  IInv'
<1>1. UNCHANGED <<smVars, sensorVars, queue, outVars, taskVars>>
  BY DEF DB_temp_profile_write
<1>2. d \in Profile
  BY ConstantsOK
<1>3. data' \in [Profiles -> Profile]
  BY <1>2 DEF IInv, TypeOK, DB_temp_profile_write
<1>4. slipped' \subseteq Profiles
  BY DEF IInv, TypeOK, DB_temp_profile_write
<1>5. TypeOK'
  BY <1>1, <1>3, <1>4 DEF IInv, TypeOK, smVars, sensorVars, outVars, taskVars, localVars
<1> QED
  BY <1>1, <1>5, QuietStep DEF IInv, taskVars

\* A channel that an operator sets by hand no longer counts as a profile's.
LEMMA HeaterStep ==
  ASSUME IInv, NEW h \in Heaters, NEW on \in BOOLEAN, CMD_HEATER_SetDuty(h, on)
  PROVE  IInv'
<1>1. UNCHANGED <<dbVars, smVars, sensorVars, queue, tecOn, manualCool, taskVars, slipped>>
  BY DEF CMD_HEATER_SetDuty
<1>2. heaterOn' \subseteq Heaters /\ manualHeat' \subseteq Heaters
  BY DEF IInv, TypeOK, CMD_HEATER_SetDuty
<1>3. TypeOK'
  BY <1>1, <1>2 DEF IInv, TypeOK, dbVars, smVars, sensorVars, taskVars, localVars
<1>4. IdleMeansOff'
  BY <1>1 DEF IInv, IdleMeansOff, CMD_HEATER_SetDuty, smVars
<1>5. NeverHeatAndCool'
  BY <1>1 DEF IInv, NeverHeatAndCool, CMD_HEATER_SetDuty, taskVars, localVars
<1>6. StepMatchesState' /\ TimerMatchesState' /\ SoakCountsOnlyBand' /\ DrivingActive'
  BY <1>1 DEF IInv, StepMatchesState, TimerMatchesState, SoakCountsOnlyBand, DrivingActive,
              smVars, taskVars, localVars
<1> QED
  BY <1>3, <1>4, <1>5, <1>6 DEF IInv

LEMMA TecStep ==
  ASSUME IInv, NEW c \in Tecs, NEW on \in BOOLEAN, CMD_TEC_Set_Vol(c, on)
  PROVE  IInv'
<1>1. UNCHANGED <<dbVars, smVars, sensorVars, queue, heaterOn, manualHeat, taskVars, slipped>>
  BY DEF CMD_TEC_Set_Vol
<1>2. tecOn' \subseteq Tecs /\ manualCool' \subseteq Tecs
  BY DEF IInv, TypeOK, CMD_TEC_Set_Vol
<1>3. TypeOK'
  BY <1>1, <1>2 DEF IInv, TypeOK, dbVars, smVars, sensorVars, taskVars, localVars
<1>4. IdleMeansOff'
  BY <1>1 DEF IInv, IdleMeansOff, CMD_TEC_Set_Vol, smVars
<1>5. NeverHeatAndCool'
  BY <1>1 DEF IInv, NeverHeatAndCool, CMD_TEC_Set_Vol, taskVars, localVars
<1>6. StepMatchesState' /\ TimerMatchesState' /\ SoakCountsOnlyBand' /\ DrivingActive'
  BY <1>1 DEF IInv, StepMatchesState, TimerMatchesState, SoakCountsOnlyBand, DrivingActive,
              smVars, taskVars, localVars
<1> QED
  BY <1>3, <1>4, <1>5, <1>6 DEF IInv

LEMMA InitIInv == temperature_init => IInv
<1> SUFFICES ASSUME temperature_init
             PROVE  IInv
  OBVIOUS
<1>1. 0 \in Profiles /\ 0 \in Int /\ -1 \in -1 .. MaxStep - 1 /\ -1 \in -1 .. MaxDuration
  BY ConstantsOK DEF Profiles
<1>2. \A p \in Profiles : <<>> \in Seq(Commands) /\ Len(<<>>) <= QueueLen
  BY ConstantsOK
<1>3. "DISABLED" \in States
  BY DEF States
<1>4. TypeOK
  BY <1>1, <1>2, <1>3, StoppedTimer, ConstantsOK DEF TypeOK, temperature_init
<1>5. StepMatchesState
  BY Distinct DEF temperature_init, StepMatchesState
<1>6. TimerMatchesState /\ SoakCountsOnlyBand
  BY DEF temperature_init, TimerMatchesState, SoakCountsOnlyBand, Stopped
<1>7. IdleMeansOff /\ NeverHeatAndCool /\ DrivingActive
  BY DEF temperature_init, IdleMeansOff, NeverHeatAndCool, DrivingActive
<1> QED
  BY <1>4, <1>5, <1>6, <1>7 DEF IInv

LEMMA NextIInv == IInv /\ [Next]_vars => IInv'
<1> SUFFICES ASSUME IInv, [Next]_vars
             PROVE  IInv'
  OBVIOUS
<1>1. CASE \E i \in Profiles : TakeCommand(i)
  BY <1>1, CommandStep
<1>2. CASE \E i \in Profiles : Enable(i) \/ Control(i) \/ do_end(i)
  BY <1>2, EnableStep, ControlStep, EndStep
<1>3. CASE Sleep
  BY <1>3, SleepStep
<1>4. CASE \E p \in Profiles, c \in Commands : SendCommand(p, c)
  BY <1>4, SendStep
<1>5. CASE \E p \in Profiles, d \in ProfileData : DB_temp_profile_write(p, d)
  BY <1>5, WriteStep
<1>6. CASE \E h \in Heaters, on \in BOOLEAN : CMD_HEATER_SetDuty(h, on)
  BY <1>6, HeaterStep
<1>7. CASE \E c \in Tecs, on \in BOOLEAN : CMD_TEC_Set_Vol(c, on)
  BY <1>7, TecStep
<1>8. CASE UNCHANGED vars
  <2>1. TypeOK'
    BY <1>8 DEF IInv, TypeOK, vars
  <2>2. UNCHANGED smVars /\ UNCHANGED outVars /\ UNCHANGED localVars
    BY <1>8 DEF vars, smVars, outVars, localVars
  <2> QED
    BY <2>1, <2>2, QuietStep DEF IInv
<1> QED
  BY <1>1, <1>2, <1>3, <1>4, <1>5, <1>6, <1>7, <1>8 DEF Next, App_TemperatureTask, Operator

-----------------------------------------------------------------------------
(* The theorems *)

\* The inductive invariant holds in every reachable state of the temperature
\* control, whatever the operators send, write and set.
THEOREM Invariance == Spec => []IInv
<1>1. temperature_init => IInv
  BY InitIInv
<1>2. IInv /\ [Next]_vars => IInv'
  BY NextIInv
<1> QED
  BY <1>1, <1>2, PTL DEF Spec

\* Every variable keeps its type: queues never overflow, current_step never leaves
\* the table.
THEOREM TypeCorrect == Spec => []TypeOK
<1>1. IInv => TypeOK
  BY DEF IInv
<1> QED
  BY <1>1, Invariance, PTL

\* With every profile stopped, finished or failed, both banks are off.
THEOREM IdleMeansOffHolds == Spec => []IdleMeansOff
<1>1. IInv => IdleMeansOff
  BY DEF IInv
<1> QED
  BY <1>1, Invariance, PTL

\* Outside the interval between the two writes of a do_ function the profiles drive
\* one bank at most, whatever their number and their modes.
THEOREM NeverHeatAndCoolHolds == Spec => []NeverHeatAndCool
<1>1. IInv => NeverHeatAndCool
  BY DEF IInv
<1> QED
  BY <1>1, Invariance, PTL

\* The current step matches the state, so the do_ functions index the table rightly.
THEOREM StepMatchesStateHolds == Spec => []StepMatchesState
<1>1. IInv => StepMatchesState
  BY DEF IInv
<1> QED
  BY <1>1, Invariance, PTL

\* Only a step in progress has a running timer.
THEOREM TimerMatchesStateHolds == Spec => []TimerMatchesState
<1>1. IInv => TimerMatchesState
  BY DEF IInv
<1> QED
  BY <1>1, Invariance, PTL

\* The time a soak has counted was spent in the band.
THEOREM SoakCountsOnlyBandHolds == Spec => []SoakCountsOnlyBand
<1>1. IInv => SoakCountsOnlyBand
  BY DEF IInv
<1> QED
  BY <1>1, Invariance, PTL

-----------------------------------------------------------------------------
(* How a call of the state machine moves profile i through its steps. *)

\* The events the task hands to the state machine.
Events == {"NONE", "ENABLED", "START", "STOP", "TIMER_EXPIRED"}

Become(i, s, n) ==
  /\ state' = [state EXCEPT ![i] = s]
  /\ step' = [step EXCEPT ![i] = n]

Advances(i, event) ==
  /\ state[i] \in Preheat \cup Ramp \cup Soak
  /\ Completes(state[i], event)
  /\ step[i] + 1 < data[i].step_count
  /\ \E s \in Soak \cup Ramp \cup {"ERROR"} : Become(i, s, step[i] + 1)

Moves(i, event) ==
  \/ UNCHANGED <<state, step>>
  \/ Become(i, "DISABLED", -1) /\ (event = "STOP" \/ Completes(state[i], event))
  \/ /\ state[i] = "DISABLED" /\ event = "ENABLED"
     /\ \E s \in Preheat : Become(i, s, step[i])
  \/ Advances(i, event)

\* The database keeps what the steps and the channels of a profile depend on.
KeepsProfiles ==
  \A p \in Profiles : /\ data'[p].step_count = data[p].step_count
                      /\ data'[p].heater_mask = data[p].heater_mask
                      /\ data'[p].tec_mask = data[p].tec_mask

LEMMA CheckMoves ==
  ASSUME IInv, NEW i \in Profiles, NEW event, NEW t, NEW tm,
         state[i] \in Preheat \cup Ramp \cup Soak, Completes(state[i], event),
         enter_profile_check(i, t, tm)
  PROVE  Moves(i, event)
<1> DEFINE n == NextStep(i)
<1>1. CASE enter_disabled(i)
  BY <1>1 DEF enter_disabled, Enter, Moves, Become
<1>2. CASE ~enter_disabled(i)
  <2>1. n < data[i].step_count /\ n = step[i] + 1
    BY <1>2 DEF enter_profile_check, NextStep
  <2>2. enter_soak(i, n, t) \/ enter_ramp(i, n, tm) \/ enter_error(i, n)
    BY <1>2 DEF enter_profile_check
  <2>3. \E s \in Soak \cup Ramp \cup {"ERROR"} : Become(i, s, n)
    <3>1. CASE enter_soak(i, n, t)
      BY <3>1 DEF enter_soak, Enter, Become, Soak
    <3>2. CASE enter_ramp(i, n, tm)
      BY <3>2 DEF enter_ramp, Enter, Become, Ramp
    <3>3. CASE enter_error(i, n)
      BY <3>3 DEF enter_error, Enter, Become
    <3> QED
      BY <2>2, <3>1, <3>2, <3>3
  <2> QED
    BY <2>1, <2>3 DEF Moves, Advances
<1> QED
  BY <1>1, <1>2

LEMMA HandlerMoves ==
  ASSUME IInv, NEW i \in Profiles, NEW event, NEW t, NEW tm,
         profileSM_handle_event(i, event, t, tm)
  PROVE  Moves(i, event) /\ KeepsProfiles
<1>1. KeepsProfiles
  <2>1. UNCHANGED data \/ data' = [data EXCEPT ![i].enabled = 0]
    BY DEF profileSM_handle_event, enter_profile_check, do_begin
  <2>2. data \in [Profiles -> Profile]
    BY DEF IInv, TypeOK
  <2>3. CASE data' = [data EXCEPT ![i].enabled = 0]
    <3>1. ASSUME NEW p \in Profiles
          PROVE  data'[p] = data[p] \/ data'[p] = [data[p] EXCEPT !.enabled = 0]
      BY <2>2, <2>3
    <3>2. ASSUME NEW p \in Profiles
          PROVE  data[p] \in Profile
      BY <2>2
    <3>3. ASSUME NEW d \in Profile
          PROVE  LET e == [d EXCEPT !.enabled = 0] IN
                 /\ e.step_count = d.step_count
                 /\ e.heater_mask = d.heater_mask /\ e.tec_mask = d.tec_mask
      BY DEF Profile
    <3> QED
      BY <3>1, <3>2, <3>3 DEF KeepsProfiles
  <2> QED
    BY <2>1, <2>3 DEF KeepsProfiles
<1>2. CASE event = "STOP" /\ enter_disabled(i)
  BY <1>1, <1>2 DEF enter_disabled, Enter, Moves, Become
<1>3. CASE state[i] = "DISABLED" /\ event = "ENABLED" /\ enter_preheat(i, t)
  <2>1. step' = [step EXCEPT ![i] = step[i]]
    BY <1>3 DEF IInv, TypeOK, enter_preheat
  <2>2. \E s \in Preheat : Become(i, s, step[i])
    BY <1>3, <2>1 DEF enter_preheat, Enter, Become, Preheat
  <2> QED
    BY <1>1, <1>3, <2>2 DEF Moves
<1>4. CASE UNCHANGED <<state, step>>
  BY <1>1, <1>4 DEF Moves
<1>5. CASE /\ state[i] \in Preheat \cup Ramp \cup Soak /\ Completes(state[i], event)
           /\ enter_profile_check(i, t, tm)
  BY <1>1, <1>5, CheckMoves
<1> QED
  BY <1>1, <1>2, <1>3, <1>4, <1>5 DEF profileSM_handle_event, do_begin

\* A step of the system moves at most the profile at whose turn it is.
LEMMA NextMoves ==
  ASSUME IInv, [Next]_vars, ~UNCHANGED <<state, step>>
  PROVE  \E i \in Profiles, event \in Events :
           /\ turn = i
           /\ Moves(i, event) /\ KeepsProfiles
           /\ \/ phase = "command" /\ event \in {"START", "STOP"}
              \/ phase = "enable" /\ event = "ENABLED"
              \/ /\ phase = "control"
                 /\ event = IF sw_timer_tick(timer[i]).state = "EXPIRED"
                            THEN "TIMER_EXPIRED" ELSE "NONE"
<1>1. CASE \E i \in Profiles : TakeCommand(i)
  <2>1. PICK i \in Profiles : TakeCommand(i)
    BY <1>1
  <2>2. turn = i /\ phase = "command"
    BY <2>1 DEF TakeCommand
  <2>3. PICK event \in {"START", "STOP"} : profileSM_handle_event(i, event, temp[i], timer[i])
    BY <1>1, <2>1, Zenon DEF TakeCommand, smVars
  <2>4. Moves(i, event) /\ KeepsProfiles
    BY <2>3, HandlerMoves
  <2>5. event \in Events
    BY DEF Events
  <2> QED
    BY <2>2, <2>3, <2>4, <2>5
<1>2. CASE \E i \in Profiles : Enable(i)
  <2>1. PICK i \in Profiles : Enable(i)
    BY <1>2
  <2>2. turn = i /\ phase = "enable"
    BY <2>1 DEF Enable
  <2>3. Moves(i, "ENABLED") /\ KeepsProfiles
    BY <2>1, HandlerMoves DEF Enable
  <2> QED
    BY <2>2, <2>3 DEF Events
<1>3. CASE \E i \in Profiles : Control(i)
  <2>1. PICK i \in Profiles : Control(i)
    BY <1>3
  <2>2. turn = i /\ phase = "control"
    BY <2>1 DEF Control
  <2> DEFINE tm == sw_timer_tick(timer[i])
             event == IF tm.state = "EXPIRED" THEN "TIMER_EXPIRED" ELSE "NONE"
  <2>3. PICK t \in Temps : profileSM_handle_event(i, event, t, tm)
    BY <2>1 DEF Control
  <2>4. Moves(i, event) /\ KeepsProfiles
    BY <2>3, HandlerMoves
  <2>5. event \in Events
    BY DEF Events
  <2> QED
    BY <2>2, <2>4, <2>5
<1>4. CASE (\E i \in Profiles : do_end(i)) \/ Sleep \/ Operator \/ UNCHANGED vars
  BY <1>4 DEF do_end, Sleep, Operator, vars, SendCommand, DB_temp_profile_write,
              CMD_HEATER_SetDuty, CMD_TEC_Set_Vol, smVars
<1> QED
  BY <1>1, <1>2, <1>3, <1>4 DEF Next, App_TemperatureTask

\* The database changes under a profile only when an operator writes it.
LEMMA NextKeeps ==
  ASSUME IInv, [Next]_vars
  PROVE  \/ KeepsProfiles
         \/ /\ UNCHANGED <<state, step>>
            /\ \E p \in Profiles, d \in ProfileData : DB_temp_profile_write(p, d)
<1>1. CASE ~UNCHANGED <<state, step>>
  BY <1>1, NextMoves
<1>2. CASE UNCHANGED data
  BY <1>2 DEF KeepsProfiles
<1>3. CASE \E i \in Profiles : TakeCommand(i)
  <2>1. PICK i \in Profiles : TakeCommand(i)
    BY <1>3
  <2>2. UNCHANGED data \/ \E event : profileSM_handle_event(i, event, temp[i], timer[i])
    BY <2>1, Zenon DEF TakeCommand, dbVars
  <2> QED
    BY <1>2, <2>2, HandlerMoves
<1>4. CASE \E i \in Profiles : Enable(i) \/ Control(i)
  <2>1. \E i \in Profiles : \E event, t, tm : profileSM_handle_event(i, event, t, tm)
    BY <1>4 DEF Enable, Control
  <2> QED
    BY <2>1, HandlerMoves
<1>5. CASE \E p \in Profiles, d \in ProfileData : DB_temp_profile_write(p, d)
  BY <1>5 DEF DB_temp_profile_write, smVars
<1>6. CASE (\E i \in Profiles : do_end(i)) \/ Sleep \/ UNCHANGED vars
  BY <1>2, <1>6 DEF do_end, Sleep, vars, dbVars
<1>7. CASE \E p \in Profiles, c \in Commands : SendCommand(p, c)
  BY <1>2, <1>7 DEF SendCommand, dbVars
<1>8. CASE \/ \E h \in Heaters, on \in BOOLEAN : CMD_HEATER_SetDuty(h, on)
           \/ \E c \in Tecs, on \in BOOLEAN : CMD_TEC_Set_Vol(c, on)
  BY <1>2, <1>8 DEF CMD_HEATER_SetDuty, CMD_TEC_Set_Vol, dbVars
<1> QED
  BY <1>3, <1>4, <1>5, <1>6, <1>7, <1>8 DEF Next, App_TemperatureTask, Operator

\* The event TIMER_EXPIRED comes from a timer with nothing left, and in a soak from
\* one that was running.
LEMMA ExpiredTimer ==
  ASSUME IInv, NEW p \in Profiles, sw_timer_tick(timer[p]).state = "EXPIRED"
  PROVE  /\ timer[p].left = 0
         /\ state[p] \in Soak => timer[p].state = "RUNNING"
<1>1. timer[p] \in Timer
  BY DEF IInv, TypeOK
<1>2. timer[p].state = "EXPIRED" => state[p] \in Ramp
  BY DEF IInv, TimerMatchesState
<1> QED
  BY <1>1, <1>2, Distinct DEF Timer, sw_timer_tick

\* A soak gives way only after an unbroken streak in the band that lasted the
\* period of its timer.
THEOREM SoakHeldBeforeNextHolds == Spec => SoakHeldBeforeNext
<1>1. ASSUME IInv, [Next]_vars, NEW p \in Profiles,
             state[p] \in Soak, phase = "control", turn = p, step'[p] # step[p]
      PROVE  held[p] # -1 /\ held[p] >= timer[p].period
  <2>1. PICK i \in Profiles, event \in Events :
          /\ turn = i /\ Moves(i, event)
          /\ event = IF sw_timer_tick(timer[i]).state = "EXPIRED"
                     THEN "TIMER_EXPIRED" ELSE "NONE"
    BY <1>1, NextMoves
  <2>2. Completes(state[p], event)
    BY <1>1, <2>1, Distinct DEF Moves, Advances
  <2>3. sw_timer_tick(timer[p]).state = "EXPIRED"
    BY <1>1, <2>1, <2>2 DEF Completes
  <2>4. timer[p].left = 0 /\ timer[p].state = "RUNNING"
    BY <1>1, <2>3, ExpiredTimer
  <2>5. /\ held[p] >= timer[p].period - timer[p].left
        /\ timer[p].period \in 0 .. MaxDuration /\ held[p] \in -1 .. MaxDuration
    BY <1>1, <2>4 DEF IInv, TypeOK, Timer, SoakCountsOnlyBand
  <2> QED
    BY <2>4, <2>5, ConstantsOK
<1>2. IInv /\ [Next]_vars =>
        [\A p \in Profiles :
           state[p] \in Soak /\ phase = "control" /\ turn = p /\ step'[p] # step[p] =>
             held[p] # -1 /\ held[p] >= timer[p].period]_vars
  BY <1>1
<1> QED
  BY <1>2, Invariance, PTL DEF Spec, SoakHeldBeforeNext

\* Only the timer of a step and a stop end it, and the steps follow in order.
THEOREM StepsInOrderHolds == Spec => StepsInOrder
<1>1. ASSUME IInv, [Next]_vars, NEW p \in Profiles, step[p] >= 0, step'[p] # step[p]
      PROVE  \/ step'[p] = step[p] + 1 /\ phase = "control" /\ timer[p].left = 0
             \/ step'[p] = -1 /\ state'[p] = "DISABLED"
  <2>1. PICK i \in Profiles, event \in Events :
          /\ Moves(i, event)
          /\ \/ phase \in {"command", "enable"} /\ event \in {"ENABLED", "START", "STOP"}
             \/ /\ phase = "control"
                /\ event = IF sw_timer_tick(timer[i]).state = "EXPIRED"
                           THEN "TIMER_EXPIRED" ELSE "NONE"
    BY <1>1, NextMoves
  <2>2. state \in [Profiles -> States] /\ step \in [Profiles -> -1 .. MaxStep - 1]
    BY <1>1 DEF IInv, TypeOK
  <2>3. p = i
    BY <1>1, <2>1, <2>2 DEF Moves, Advances, Become
  <2>4. CASE Become(i, "DISABLED", -1)
    BY <2>2, <2>3, <2>4 DEF Become
  <2>5. CASE \E s : Become(i, s, step[i])
    BY <1>1, <2>2, <2>3, <2>5 DEF Become
  <2>6. CASE Advances(i, event)
    <3>1. step'[p] = step[p] + 1
      BY <2>2, <2>3, <2>6 DEF Advances, Become
    <3>2. state[p] \notin Preheat
      BY <1>1 DEF IInv, StepMatchesState
    <3>3. event = "TIMER_EXPIRED"
      BY <2>3, <2>6, <3>2 DEF Advances, Completes
    <3>4. phase = "control" /\ sw_timer_tick(timer[p]).state = "EXPIRED"
      BY <2>1, <2>3, <3>3
    <3> QED
      BY <1>1, <3>1, <3>4, ExpiredTimer
  <2> QED
    BY <1>1, <2>1, <2>4, <2>5, <2>6 DEF Moves
<1>2. IInv /\ [Next]_vars =>
        [\A p \in Profiles :
           step[p] >= 0 /\ step'[p] # step[p] =>
             \/ step'[p] = step[p] + 1 /\ phase = "control" /\ timer[p].left = 0
             \/ step'[p] = -1 /\ state'[p] = "DISABLED"]_vars
  BY <1>1
<1> QED
  BY <1>2, Invariance, PTL DEF Spec, StepsInOrder

-----------------------------------------------------------------------------
(* Running profiles and their masks.  The invariant also counts the profile    *)
(* that was validated and is about to be enabled: an operator who rewrites it  *)
(* in that interval puts it among the slipped.                                 *)

Counted(p) == p \notin slipped /\ (state[p] # "DISABLED" \/ (phase = "enable" /\ turn = p))

CountedDisjoint ==
  \A p, q \in Profiles :
    p # q /\ Counted(p) /\ Counted(q) =>
      /\ data[p].heater_mask \cap data[q].heater_mask = {}
      /\ data[p].tec_mask \cap data[q].tec_mask = {}

\* A step that keeps the masks and counts no profile anew keeps them disjoint.
LEMMA NoneAnew ==
  ASSUME CountedDisjoint, KeepsProfiles, \A p \in Profiles : Counted(p)' => Counted(p)
  PROVE  CountedDisjoint'
  BY DEF CountedDisjoint, KeepsProfiles

\* Only ENABLED makes a profile run that did not.
LEMMA StaysOff ==
  ASSUME IInv, NEW i \in Profiles, NEW event, event # "ENABLED", Moves(i, event),
         NEW p \in Profiles, state[p] = "DISABLED"
  PROVE  state'[p] = "DISABLED"
<1>1. state \in [Profiles -> States]
  BY DEF IInv, TypeOK
<1>2. CASE Become(i, "DISABLED", -1)
  BY <1>1, <1>2 DEF Become
<1>3. CASE Advances(i, event)
  BY <1>1, <1>3, Distinct DEF Advances, Become
<1> QED
  BY <1>1, <1>2, <1>3 DEF Moves

LEMMA CommandDisjoint ==
  ASSUME IInv, CountedDisjoint, NEW i \in Profiles, TakeCommand(i)
  PROVE  CountedDisjoint'
<1>1. phase = "command"
  BY DEF TakeCommand
<1>2. CASE DB_temp_profile_validation /\ UNCHANGED dbVars
  BY <1>2 DEF CountedDisjoint, DB_temp_profile_validation, dbVars
<1>3. CASE phase' = "control" /\ UNCHANGED <<dbVars, smVars, slipped>>
  <2>1. KeepsProfiles
    BY <1>3 DEF KeepsProfiles, dbVars
  <2>2. \A p \in Profiles : Counted(p)' => Counted(p)
    BY <1>3 DEF Counted, smVars
  <2> QED
    BY <2>1, <2>2, NoneAnew
<1>4. CASE /\ \E event \in {"START", "STOP"} :
                profileSM_handle_event(i, event, temp[i], timer[i])
           /\ phase' = "control"
           /\ slipped' = {p \in slipped : state'[p] # "DISABLED"}
  <2>1. PICK event \in {"START", "STOP"} : Moves(i, event) /\ KeepsProfiles
    BY <1>4, HandlerMoves
  <2>2. \A p \in Profiles : state'[p] # "DISABLED" => state[p] # "DISABLED"
    BY <2>1, StaysOff
  <2>3. \A p \in Profiles : Counted(p)' => Counted(p)
    BY <1>4, <2>2 DEF Counted
  <2> QED
    BY <2>1, <2>3, NoneAnew
<1>5. \/ DB_temp_profile_validation /\ UNCHANGED dbVars
      \/ phase' = "control" /\ UNCHANGED <<dbVars, smVars, slipped>>
      \/ /\ \E event \in {"START", "STOP"} :
              profileSM_handle_event(i, event, temp[i], timer[i])
         /\ phase' = "control"
         /\ slipped' = {p \in slipped : state'[p] # "DISABLED"}
  BY Zenon DEF TakeCommand
<1> QED
  BY <1>2, <1>3, <1>4, <1>5

LEMMA EnableDisjoint ==
  ASSUME IInv, CountedDisjoint, NEW i \in Profiles, Enable(i)
  PROVE  CountedDisjoint'
<1>1. /\ turn = i /\ phase = "enable" /\ phase' = "control" /\ UNCHANGED slipped
      /\ Moves(i, "ENABLED") /\ KeepsProfiles
  BY HandlerMoves DEF Enable
<1>2. \A p \in Profiles : p # i => state'[p] = state[p]
  BY <1>1 DEF IInv, TypeOK, Moves, Advances, Become
<1>3. \A p \in Profiles : Counted(p)' => Counted(p)
  BY <1>1, <1>2 DEF Counted
<1> QED
  BY <1>1, <1>3, NoneAnew

LEMMA ControlDisjoint ==
  ASSUME IInv, CountedDisjoint, NEW i \in Profiles, Control(i)
  PROVE  CountedDisjoint'
<1> DEFINE event == IF sw_timer_tick(timer[i]).state = "EXPIRED" THEN "TIMER_EXPIRED" ELSE "NONE"
<1>1. /\ phase' # "enable"
      /\ slipped' = {p \in slipped : state'[p] # "DISABLED"}
  BY DEF Control
<1>2. PICK t \in Temps : profileSM_handle_event(i, event, t, sw_timer_tick(timer[i]))
  BY DEF Control
<1>3. Moves(i, event) /\ KeepsProfiles /\ event # "ENABLED"
  BY <1>2, HandlerMoves
<1>4. \A p \in Profiles : state'[p] # "DISABLED" => state[p] # "DISABLED"
  BY <1>3, StaysOff
<1>5. \A p \in Profiles : Counted(p)' => Counted(p)
  BY <1>1, <1>4 DEF Counted
<1> QED
  BY <1>3, <1>5, NoneAnew

LEMMA WriteDisjoint ==
  ASSUME EditActive = FALSE, IInv, CountedDisjoint, NEW r \in Profiles, NEW d \in ProfileData,
         DB_temp_profile_write(r, d)
  PROVE  CountedDisjoint'
<1>1. /\ state[r] = "DISABLED" /\ data' = [data EXCEPT ![r] = d]
      /\ UNCHANGED <<state, phase, turn>>
      /\ slipped' = IF phase = "enable" /\ turn = r THEN slipped \cup {r} ELSE slipped
  BY DEF DB_temp_profile_write, smVars, taskVars
<1>2. \A p \in Profiles : Counted(p)' => Counted(p) /\ p # r
  BY <1>1 DEF Counted
<1>3. \A p \in Profiles : p # r => data'[p] = data[p]
  BY <1>1 DEF IInv, TypeOK
<1> QED
  BY <1>2, <1>3 DEF CountedDisjoint

\* Two profiles that run never share a channel, as long as operators do not rewrite
\* a profile that runs and neither was rewritten between its validation and its start.
THEOREM RunningProfilesDisjointHolds ==
  ASSUME EditActive = FALSE
  PROVE  Spec => []RunningProfilesDisjoint
<1>1. temperature_init => CountedDisjoint
  BY DEF temperature_init, CountedDisjoint, Counted
<1>2. ASSUME IInv, [Next]_vars, CountedDisjoint
      PROVE  CountedDisjoint'
  <2>1. CASE \E i \in Profiles : TakeCommand(i) \/ Enable(i) \/ Control(i)
    BY <1>2, <2>1, CommandDisjoint, EnableDisjoint, ControlDisjoint
  <2>2. CASE \E r \in Profiles, d \in ProfileData : DB_temp_profile_write(r, d)
    BY <1>2, <2>2, WriteDisjoint
  <2>3. CASE UNCHANGED <<data, state, slipped>> /\ (UNCHANGED <<phase, turn>> \/ phase' = "command")
    <3>1. KeepsProfiles /\ \A p \in Profiles : Counted(p)' => Counted(p)
      BY <2>3 DEF KeepsProfiles, Counted
    <3> QED
      BY <1>2, <3>1, NoneAnew
  <2>4. CASE (\E i \in Profiles : do_end(i)) \/ Sleep \/ UNCHANGED vars
    BY <2>3, <2>4 DEF do_end, Sleep, vars, dbVars
  <2>5. CASE \E p \in Profiles, c \in Commands : SendCommand(p, c)
    BY <2>3, <2>5 DEF SendCommand, dbVars, smVars, taskVars
  <2>6. CASE \/ \E h \in Heaters, on \in BOOLEAN : CMD_HEATER_SetDuty(h, on)
             \/ \E c \in Tecs, on \in BOOLEAN : CMD_TEC_Set_Vol(c, on)
    BY <2>3, <2>6 DEF CMD_HEATER_SetDuty, CMD_TEC_Set_Vol, dbVars, smVars, taskVars
  <2> QED
    BY <1>2, <2>1, <2>2, <2>4, <2>5, <2>6 DEF Next, App_TemperatureTask, Operator
<1>3. CountedDisjoint => RunningProfilesDisjoint
  BY DEF CountedDisjoint, Counted, RunningProfilesDisjoint
<1> QED
  BY <1>1, <1>2, <1>3, Invariance, PTL DEF Spec

-----------------------------------------------------------------------------
(* The profiles implement ProfileSequence.  Each step of the task on a profile *)
(* is a step of the sequence or leaves it alone; everything else stutters,     *)
(* except an operator who programs a profile that is off.                      *)

LEMMA ModeOf ==
  ASSUME NEW p \in Profiles
  PROVE  /\ state[p] = "DISABLED" => Mode(p) = "off"
         /\ state[p] \in Preheat => Mode(p) = "preheat"
         /\ state[p] \in Ramp \cup Soak => Mode(p) = "step"
         /\ state[p] = "ERROR" => Mode(p) = "fault"
  BY Distinct DEF Mode

LEMMA ModeNext ==
  ASSUME NEW p \in Profiles
  PROVE  /\ state'[p] = "DISABLED" => Mode(p)' = "off"
         /\ state'[p] \in Preheat => Mode(p)' = "preheat"
         /\ state'[p] \in Ramp \cup Soak => Mode(p)' = "step"
         /\ state'[p] = "ERROR" => Mode(p)' = "fault"
         /\ state'[p] = state[p] => Mode(p)' = Mode(p)
  BY Distinct DEF Mode

THEOREM Implements ==
  ASSUME EditActive = FALSE
  PROVE  Spec => ImplementsProfileSequence
<1> DEFINE Modes == [p \in Profiles |-> Mode(p)]
           Lens == [p \in Profiles |-> data[p].step_count]
<1>1. temperature_init => Promise!Init
  <2> SUFFICES ASSUME temperature_init
               PROVE  Promise!Init
    OBVIOUS
  <2>1. \A p \in Profiles : Mode(p) = "off"
    BY ModeOf DEF temperature_init
  <2>2. \A p \in Profiles : data[p].step_count \in 0 .. MaxStep
    BY InitIInv, ProfileFields DEF IInv
  <2> QED
    BY <2>1, <2>2 DEF Promise!Init, temperature_init
<1>2. ASSUME IInv, [Next]_vars
      PROVE  [Promise!Next]_(Promise!vars)
  <2>1. TypeOK /\ TypeOK'
    BY <1>2, NextIInv DEF IInv
  <2>2. state \in [Profiles -> States] /\ step \in [Profiles -> -1 .. MaxStep - 1]
    BY <2>1 DEF TypeOK
  <2>3. UNCHANGED state => UNCHANGED Modes
    BY DEF Mode
  <2>4. KeepsProfiles => UNCHANGED Lens
    BY DEF KeepsProfiles
  <2>5. ASSUME NEW i \in Profiles, NEW s, NEW n, Become(i, s, n)
        PROVE  /\ state'[i] = s
               /\ step' = [step EXCEPT ![i] = n]
               /\ Modes' = [Modes EXCEPT ![i] = Mode(i)']
    <3>1. \A p \in Profiles : Mode(p)' = IF p = i THEN Mode(i)' ELSE Mode(p)
      BY <2>2, <2>5, ModeNext DEF Become
    <3> QED
      BY <2>2, <2>5, <3>1 DEF Become
  <2>6. CASE KeepsProfiles /\ UNCHANGED <<state, step>>
    BY <2>3, <2>4, <2>6 DEF Promise!vars
  <2>7. CASE /\ UNCHANGED <<state, step>>
             /\ \E p \in Profiles, d \in ProfileData : DB_temp_profile_write(p, d)
    <3>1. PICK p \in Profiles, d \in ProfileData : DB_temp_profile_write(p, d)
      BY <2>7
    <3>2. state[p] = "DISABLED" /\ data' = [data EXCEPT ![p] = d]
      BY <3>1 DEF DB_temp_profile_write
    <3>3. d.step_count \in 0 .. MaxStep
      BY ConstantsOK DEF Profile
    <3>4. Modes[p] = "off"
      BY <3>2, ModeOf
    <3>5. Lens' = [Lens EXCEPT ![p] = d.step_count]
      BY <2>1, <3>2 DEF TypeOK
    <3>6. Promise!Program(p)
      BY <2>3, <2>7, <3>3, <3>4, <3>5 DEF Promise!Program
    <3> QED
      BY <3>6 DEF Promise!Next
  <2>8. CASE KeepsProfiles /\ ~UNCHANGED <<state, step>>
    <3>1. PICK i \in Profiles, event \in Events : Moves(i, event)
      BY <1>2, <2>8, NextMoves
    <3>2. CASE Become(i, "DISABLED", -1)
      <4>1. Mode(i)' = "off"
        BY <2>5, <3>2, ModeNext
      <4>2. Promise!SwitchOff(i)
        BY <2>4, <2>5, <2>8, <3>2, <4>1 DEF Promise!SwitchOff
      <4> QED
        BY <4>2 DEF Promise!Next
    <3>3. CASE /\ state[i] = "DISABLED"
               /\ \E s \in Preheat : Become(i, s, step[i])
      <4>1. PICK s \in Preheat : Become(i, s, step[i])
        BY <3>3
      <4>2. Mode(i)' = "preheat"
        BY <2>5, <4>1, ModeNext
      <4>3. Modes[i] = "off"
        BY <3>3, ModeOf
      <4>4. UNCHANGED step
        BY <2>2, <4>1 DEF Become
      <4>5. Promise!Activate(i)
        BY <2>4, <2>5, <2>8, <4>1, <4>2, <4>3, <4>4 DEF Promise!Activate
      <4> QED
        BY <4>5 DEF Promise!Next
    <3>4. CASE Advances(i, event)
      <4>1. PICK s \in Soak \cup Ramp \cup {"ERROR"} : Become(i, s, step[i] + 1)
        BY <3>4 DEF Advances
      <4>2. Mode(i)' \in {"step", "fault"}
        BY <2>5, <4>1, ModeNext
      <4>3. Modes[i] \in {"preheat", "step"} /\ step[i] + 1 < Lens[i]
        BY <3>4, ModeOf DEF Advances
      <4>4. Promise!Advance(i)
        BY <2>4, <2>5, <2>8, <4>1, <4>2, <4>3 DEF Promise!Advance
      <4> QED
        BY <4>4 DEF Promise!Next
    <3> QED
      BY <2>8, <3>1, <3>2, <3>3, <3>4 DEF Moves
  <2> QED
    BY <1>2, <2>6, <2>7, <2>8, NextKeeps
<1> QED
  BY <1>1, <1>2, Invariance, PTL DEF Spec, ImplementsProfileSequence, Promise!Spec
=============================================================================
