------------------------- MODULE TemperatureControl -------------------------
(***************************************************************************)
(* The temperature control application: App_TemperatureTask                *)
(* (app_temperature.c), the profile state machine it drives                *)
(* (profile_state.c), the profile database (db_temperature_profile.c), the *)
(* software timers (sw_timer.c) and the operator commands that reach them  *)
(* (cli_temperature.c, and heater_set / tec_vol of cli_command.c).         *)
(*                                                                         *)
(* The task handles the profiles in index order.  For each it takes at     *)
(* most one command (phase "command"), then samples the sensors, ticks the *)
(* timer and runs the state machine (phase "control"); after the last      *)
(* profile it sleeps (phase "delay").  The command line runs at the same   *)
(* priority, so its actions interleave with every one of these steps, and  *)
(* where the task writes hardware or prints between two of its own reads   *)
(* and writes it comes between those too: after the masks were validated   *)
(* and before the profile is enabled (phase "enable"), and in a do_        *)
(* function after it wrote its own bank and before it clears the other     *)
(* (variable driving).                                                     *)
(*                                                                         *)
(* Data: temperatures are integers compared with set points; a PID output  *)
(* is abstracted to whether the duty is zero, so an output bank is the set *)
(* of channels that are on.  One unit of a step duration is one period of  *)
(* the task.                                                               *)
(***************************************************************************)
EXTENDS Integers, Sequences, FiniteSets

CONSTANTS
  NumProfiles,   \* PROFILE_MAX_NUM
  Heaters, Tecs, \* the output channels
  MaxStep,       \* PROFILE_MAX_STEP_NUM
  MaxDuration,   \* the longest step duration in use
  Temps,         \* the temperatures a sensor may report
  Gaps,          \* the differences between the two sensors of a profile
  Band,          \* SOAK_TEMP_BAND_C
  QueueLen,      \* depth of a temperature_command_queue
  Lags,          \* the periods that may pass while the task sleeps
  Commands,      \* the commands operators send
  ProfileData,   \* the profiles operators write
  DefaultData,   \* what temperature_init leaves in the database
  EditActive     \* whether operators also rewrite profiles that are running

Profiles == 0 .. NumProfiles - 1

HOLD == 0
HEATING_MODE == 1
COOLING_MODE == 2

Step == [set_point : Int, duration : 0 .. MaxDuration, control_mode : Nat]

Profile ==
  [enabled : {0, 1}, heater_mask : SUBSET Heaters, tec_mask : SUBSET Tecs,
   set_point : Int, main_sec_delta : Int,
   steps : [0 .. MaxStep - 1 -> Step], step_count : 0 .. MaxStep]

ASSUME ConstantsOK ==
  /\ NumProfiles \in Nat \ {0}
  /\ MaxStep \in Nat \ {0}
  /\ MaxDuration \in Nat
  /\ Temps \subseteq Int
  /\ Gaps \subseteq Int
  /\ Band \in Nat
  /\ QueueLen \in Nat \ {0}
  /\ Lags \subseteq Nat \ {0}
  /\ Commands \subseteq {"AUTO", "START", "OFF", "MANUAL"}
  /\ ProfileData \subseteq Profile
  /\ DefaultData \in [Profiles -> Profile]
  /\ EditActive \in BOOLEAN

Preheat == {"PREHEAT_HEAT", "PREHEAT_COOL"}
Ramp == {"HEATING", "COOLING"}
Soak == {"SOAK_HEAT", "SOAK_COOL"}
HeatStates == {"PREHEAT_HEAT", "HEATING", "SOAK_HEAT"}
CoolStates == {"PREHEAT_COOL", "COOLING", "SOAK_COOL"}
States == {"DISABLED", "ERROR"} \cup HeatStates \cup CoolStates

\* A timer never has more time left than it was started with, and none once it expired.
Timer ==
  {t \in [state : {"STOPPED", "RUNNING", "EXPIRED"},
          left : 0 .. MaxDuration, period : 0 .. MaxDuration] :
     t.left <= t.period /\ (t.state = "EXPIRED" => t.left = 0)}

VARIABLES
  data,     \* temp_profiles[]: the database, which the state machine uses in place
  state,    \* current_state
  step,     \* current_step
  timer,    \* the sw_timer of each profile
  temp,     \* current_main_temp
  gap,      \* |current_main_temp - current_sec_temp|
  queue,    \* temperature_command_queue[]
  heaterOn, \* the heater channels with a nonzero duty
  tecOn,    \* the TEC channels with a nonzero voltage
  turn,     \* the profile the task is at
  phase,    \* what the task does next
  driving,  \* the profile whose do_ function has written its own bank only, or None
  inband,   \* a local of do_soak: whether the measurement it read was in the band
  held,     \* history: for how long the samples of a soak have been in band, or -1
  slipped,  \* history: running profiles that were rewritten between validation and enabling
  manualHeat, manualCool \* history: channels an operator set since a profile last wrote them

dbVars == <<data>>
smVars == <<state, step, timer, held>>
sensorVars == <<temp, gap>>
outVars == <<heaterOn, tecOn, manualHeat, manualCool>>
localVars == <<driving, inband>>
taskVars == <<turn, phase, localVars>>
vars == <<data, state, step, timer, held, temp, gap, queue, heaterOn, tecOn,
          manualHeat, manualCool, turn, phase, driving, inband, slipped>>

None == -1 \* no profile

Stopped == [state |-> "STOPPED", left |-> 0, period |-> 0]

-----------------------------------------------------------------------------
(* Outputs *)

\* heater_set_duty writes every heater channel: the profile's own to the duty,
\* all others to zero.  cooler_set_duty does the same with the TECs.
Fault_heater_set_duty(i, on) ==  \* writes the profile's own channels only
  /\ heaterOn' = IF on THEN heaterOn \cup data[i].heater_mask
                       ELSE heaterOn \ data[i].heater_mask
  /\ manualHeat' = manualHeat \ data[i].heater_mask

heater_set_duty(i, on) ==
  /\ heaterOn' = IF on THEN data[i].heater_mask ELSE {}
  /\ manualHeat' = {}

cooler_set_duty(i, on) ==
  /\ tecOn' = IF on THEN data[i].tec_mask ELSE {}
  /\ manualCool' = {}

\* One step: nothing reads the outputs, and an operator's write to the second bank
\* between the two has the same effect before both.
all_outputs_off(i) == heater_set_duty(i, FALSE) /\ cooler_set_duty(i, FALSE)

(* Timers *)

sw_timer_start(duration) == [state |-> "RUNNING", left |-> duration, period |-> duration]

\* sw_timer_tick; time itself passes in Sleep.
sw_timer_tick(t) ==
  IF t.state = "RUNNING" /\ t.left = 0 THEN [t EXCEPT !.state = "EXPIRED"] ELSE t

-----------------------------------------------------------------------------
(* Entering a state.  t is the temperature the machine sees, tm its timer. *)

Enter(i, s, tm) ==
  /\ state' = [state EXCEPT ![i] = s]
  /\ timer' = [timer EXCEPT ![i] = tm]
  /\ held' = [held EXCEPT ![i] = -1]

Fault_enter_disabled(i) ==  \* forgets current_step
  /\ all_outputs_off(i)
  /\ Enter(i, "DISABLED", Stopped)
  /\ UNCHANGED step

enter_disabled(i) ==
  /\ all_outputs_off(i)
  /\ Enter(i, "DISABLED", Stopped)
  /\ step' = [step EXCEPT ![i] = -1]

enter_error(i, n) ==
  /\ all_outputs_off(i)
  /\ Enter(i, "ERROR", Stopped)
  /\ step' = [step EXCEPT ![i] = n]

enter_preheat(i, t) ==
  /\ Enter(i, IF t <= data[i].set_point THEN "PREHEAT_HEAT" ELSE "PREHEAT_COOL", Stopped)
  /\ UNCHANGED <<step, outVars>>

Fault_enter_soak_KeepsTimer(i, n, t) ==  \* forgets sw_timer_stop
  /\ Enter(i, IF t <= data[i].steps[n].set_point THEN "SOAK_HEAT" ELSE "SOAK_COOL",
              sw_timer_tick(timer[i]))
  /\ step' = [step EXCEPT ![i] = n]
  /\ UNCHANGED outVars

Fault_enter_soak_Starts(i, n, t) ==  \* times the soak from its entry
  /\ Enter(i, IF t <= data[i].steps[n].set_point THEN "SOAK_HEAT" ELSE "SOAK_COOL",
              sw_timer_start(data[i].steps[n].duration))
  /\ step' = [step EXCEPT ![i] = n]
  /\ UNCHANGED outVars

\* enter_soak_heat and enter_soak_cool stop the timer: do_soak starts it once
\* the temperature is in the band.
enter_soak(i, n, t) ==
  /\ Enter(i, IF t <= data[i].steps[n].set_point THEN "SOAK_HEAT" ELSE "SOAK_COOL", Stopped)
  /\ step' = [step EXCEPT ![i] = n]
  /\ UNCHANGED outVars

Fault_enter_ramp(i, n, tm) ==  \* never starts the timer
  /\ Enter(i, IF data[i].steps[n].control_mode = HEATING_MODE THEN "HEATING" ELSE "COOLING", tm)
  /\ step' = [step EXCEPT ![i] = n]
  /\ UNCHANGED outVars

\* enter_heating and enter_cooling start the timer when the step has a duration
\* and otherwise leave it as it is.
enter_ramp(i, n, tm) ==
  LET s == data[i].steps[n] IN
  /\ Enter(i, IF s.control_mode = HEATING_MODE THEN "HEATING" ELSE "COOLING",
              IF s.duration # 0 THEN sw_timer_start(s.duration) ELSE tm)
  /\ step' = [step EXCEPT ![i] = n]
  /\ UNCHANGED outVars

Fault_NextStep(i) == step[i] + 2 \* START increments it as well

NextStep(i) == step[i] + 1

enter_profile_check(i, t, tm) ==
  LET n == NextStep(i) IN
  \/ /\ n >= data[i].step_count
     /\ data' = [data EXCEPT ![i].enabled = 0]
     /\ enter_disabled(i)
  \/ /\ n < data[i].step_count
     /\ LET mode == data[i].steps[n].control_mode IN
        \/ mode = HOLD /\ enter_soak(i, n, t)
        \/ mode \in {HEATING_MODE, COOLING_MODE} /\ enter_ramp(i, n, tm)
        \/ mode \notin {HOLD, HEATING_MODE, COOLING_MODE} /\ enter_error(i, n)
     /\ UNCHANGED data

-----------------------------------------------------------------------------
(* Staying in a state: the do_ functions.  Each writes the bank of its state,  *)
(* channel by channel over SPI or the PWM timers, and only then clears the     *)
(* other bank; between the two the command line may run.  The PID output may   *)
(* be zero or not.                                                             *)

DriveOwnBank(i) ==
  \E on \in BOOLEAN :
    \/ /\ state[i] \in HeatStates
       /\ heater_set_duty(i, on)
       /\ UNCHANGED <<tecOn, manualCool>>
    \/ /\ state[i] \in CoolStates
       /\ cooler_set_duty(i, on)
       /\ UNCHANGED <<heaterOn, manualHeat>>

Fault_ClearOtherBank(i) ==  \* cooling leaves the heaters as they are
  \/ /\ state[i] \in HeatStates
     /\ cooler_set_duty(i, FALSE)
     /\ UNCHANGED <<heaterOn, manualHeat>>
  \/ /\ state[i] \in CoolStates
     /\ UNCHANGED outVars

ClearOtherBank(i) ==
  \/ /\ state[i] \in HeatStates
     /\ cooler_set_duty(i, FALSE)
     /\ UNCHANGED <<heaterOn, manualHeat>>
  \/ /\ state[i] \in CoolStates
     /\ heater_set_duty(i, FALSE)
     /\ UNCHANGED <<tecOn, manualCool>>

InBand(i, t) ==
  LET target == data[i].steps[step[i]].set_point IN
  t - target <= Band /\ target - t <= Band

\* Up to the first write.  do_soak reads measurement and set point before it, and
\* uses them after the second.
do_begin(i, t, tm) ==
  /\ DriveOwnBank(i)
  /\ driving' = i
  /\ inband' = (state[i] \in Soak /\ InBand(i, t))
  /\ timer' = [timer EXCEPT ![i] = tm]
  /\ UNCHANGED <<data, state, step, held>>

Fault_soak_timer_Restarts(i) ==  \* every sample inside starts the timer again
  /\ timer' = [timer EXCEPT ![i] =
       IF inband /\ data[i].steps[step[i]].duration # 0
       THEN sw_timer_start(data[i].steps[step[i]].duration) ELSE Stopped]
  /\ held' = [held EXCEPT ![i] = IF ~inband THEN -1 ELSE IF @ = -1 THEN 0 ELSE @]

\* The end of do_soak_heat and do_soak_cool.
soak_timer(i) ==
  LET duration == data[i].steps[step[i]].duration IN
  \/ /\ inband
     /\ timer' = [timer EXCEPT ![i] =
          IF @.state = "STOPPED" /\ duration # 0 THEN sw_timer_start(duration) ELSE @]
     /\ held' = [held EXCEPT ![i] = IF @ = -1 THEN 0 ELSE @]
  \/ /\ ~inband
     /\ timer' = [timer EXCEPT ![i] = IF @.state = "RUNNING" THEN Stopped ELSE @]
     /\ held' = [held EXCEPT ![i] = -1]

\* The second write and what follows it.
do_end(i) ==
  /\ driving = i
  /\ driving' = None
  /\ inband' = FALSE
  /\ ClearOtherBank(i)
  /\ \/ state[i] \in Soak /\ soak_timer(i)
     \/ state[i] \notin Soak /\ UNCHANGED <<timer, held>>
  /\ UNCHANGED <<data, state, step, sensorVars, queue, turn, phase, slipped>>

-----------------------------------------------------------------------------
\* The events on which profileSM_handle_event goes to the next step.
Completes(s, event) ==
  \/ event = "TIMER_EXPIRED"
  \/ event = "START" /\ s \in Preheat

\* profileSM_handle_event, up to the first write of a do_ function.
profileSM_handle_event(i, event, t, tm) ==
  \/ /\ event = "STOP"
     /\ enter_disabled(i)
     /\ UNCHANGED <<data, localVars>>
  \/ /\ event # "STOP" /\ state[i] = "DISABLED"
     /\ \/ event = "ENABLED" /\ enter_preheat(i, t)
        \/ /\ event # "ENABLED"
           /\ timer' = [timer EXCEPT ![i] = tm]
           /\ UNCHANGED <<state, step, held, outVars>>
     /\ UNCHANGED <<data, localVars>>
  \/ /\ event # "STOP" /\ state[i] \in Preheat \cup Ramp \cup Soak
     /\ \/ Completes(state[i], event) /\ enter_profile_check(i, t, tm) /\ UNCHANGED localVars
        \/ ~Completes(state[i], event) /\ do_begin(i, t, tm)
  \/ /\ event # "STOP" /\ state[i] = "ERROR"
     /\ all_outputs_off(i)
     /\ timer' = [timer EXCEPT ![i] = tm]
     /\ UNCHANGED <<data, state, step, held, localVars>>

Fault_DB_temp_profile_validation ==  \* compares the TEC masks only
  \A p, q \in Profiles : p # q => data[p].tec_mask \cap data[q].tec_mask = {}

\* DB_temp_profile_validation: no two profiles of the database, running or not,
\* may share a heater or a TEC.
DB_temp_profile_validation ==
  \A p, q \in Profiles : p # q =>
    /\ data[p].heater_mask \cap data[q].heater_mask = {}
    /\ data[p].tec_mask \cap data[q].tec_mask = {}

-----------------------------------------------------------------------------
(* The task *)

Fault_HasCommand(i) == queue[i] # <<>> /\ state[i] \notin Preheat

\* xQueueReceive without waiting.
HasCommand(i) == queue[i] # <<>>

\* Take at most one command of profile i's queue.  A stop and a start go to the
\* machine at once; for AUTO the masks are validated first, and the validation
\* prints to the UART before it returns.
TakeCommand(i) ==
  /\ turn = i /\ phase = "command" /\ driving = None
  /\ \/ /\ ~HasCommand(i)
        /\ phase' = "control"
        /\ UNCHANGED <<queue, dbVars, smVars, outVars, localVars, slipped>>
     \/ /\ HasCommand(i)
        /\ queue' = [queue EXCEPT ![i] = Tail(@)]
        /\ LET handle(event) == /\ profileSM_handle_event(i, event, temp[i], timer[i])
                                /\ phase' = "control"
                                /\ slipped' = {p \in slipped : state'[p] # "DISABLED"}
               command == Head(queue[i]) IN
           \/ /\ command = "AUTO" /\ DB_temp_profile_validation
              /\ phase' = "enable"
              /\ slipped' = {}
              /\ UNCHANGED <<dbVars, smVars, outVars, localVars>>
           \/ /\ command = "AUTO" /\ ~DB_temp_profile_validation
              /\ phase' = "control"
              /\ UNCHANGED <<dbVars, smVars, outVars, localVars, slipped>>
           \/ command = "START" /\ handle("START")
           \/ command \in {"OFF", "MANUAL"} /\ handle("STOP")
  /\ UNCHANGED <<turn, sensorVars>>

\* The validation has returned: hand ENABLED to the machine.
Enable(i) ==
  /\ turn = i /\ phase = "enable" /\ driving = None
  /\ phase' = "control"
  /\ profileSM_handle_event(i, "ENABLED", temp[i], timer[i])
  /\ UNCHANGED <<turn, queue, sensorVars, slipped>>

\* Sample the sensors, tick the timer, run the machine, go to the next profile.
Control(i) ==
  /\ turn = i /\ phase = "control" /\ driving = None
  /\ \E t \in Temps, g \in Gaps :
       LET tm == sw_timer_tick(timer[i]) IN
       /\ temp' = [temp EXCEPT ![i] = t]
       /\ gap' = [gap EXCEPT ![i] = g]
       /\ profileSM_handle_event(i, IF tm.state = "EXPIRED" THEN "TIMER_EXPIRED" ELSE "NONE",
                                 t, tm)
  /\ turn' = IF i = NumProfiles - 1 THEN 0 ELSE i + 1
  /\ phase' = IF i = NumProfiles - 1 THEN "delay" ELSE "command"
  /\ slipped' = {p \in slipped : state'[p] # "DISABLED"}
  /\ UNCHANGED queue

\* vTaskDelay: time passes.
Sleep ==
  /\ phase = "delay" /\ driving = None
  /\ phase' = "command"
  /\ \E lag \in Lags :
       /\ timer' = [p \in Profiles |-> [timer[p] EXCEPT !.left = IF @ > lag THEN @ - lag ELSE 0]]
       /\ held' = [p \in Profiles |->
            IF held[p] = -1 THEN -1
            ELSE IF held[p] + lag < MaxDuration THEN held[p] + lag ELSE MaxDuration]
  /\ UNCHANGED <<dbVars, state, step, sensorVars, queue, outVars, turn, localVars, slipped>>

-----------------------------------------------------------------------------
(* The operators *)

Fault_SendCommand(p, command) ==  \* one more than the queue holds
  /\ Len(queue[p]) <= QueueLen
  /\ queue' = [queue EXCEPT ![p] = Append(@, command)]
  /\ UNCHANGED <<dbVars, smVars, sensorVars, outVars, taskVars, slipped>>

\* temp_auto_ena, temp_auto_start, temp_manu: queued, or refused when full.
SendCommand(p, command) ==
  /\ Len(queue[p]) < QueueLen
  /\ queue' = [queue EXCEPT ![p] = Append(@, command)]
  /\ UNCHANGED <<dbVars, smVars, sensorVars, outVars, taskVars, slipped>>

\* temp_prof_set and the end of the temp_profile_set wizard.
DB_temp_profile_write(p, d) ==
  /\ EditActive \/ state[p] = "DISABLED"
  /\ data' = [data EXCEPT ![p] = d]
  /\ slipped' = IF phase = "enable" /\ turn = p THEN slipped \cup {p} ELSE slipped
  /\ UNCHANGED <<smVars, sensorVars, queue, outVars, taskVars>>

\* heater_set and tec_vol write a channel directly, whatever the profiles do.
CMD_HEATER_SetDuty(h, on) ==
  /\ heaterOn' = IF on THEN heaterOn \cup {h} ELSE heaterOn \ {h}
  /\ manualHeat' = manualHeat \cup {h}
  /\ UNCHANGED <<dbVars, smVars, sensorVars, queue, tecOn, manualCool, taskVars, slipped>>

CMD_TEC_Set_Vol(c, on) ==
  /\ tecOn' = IF on THEN tecOn \cup {c} ELSE tecOn \ {c}
  /\ manualCool' = manualCool \cup {c}
  /\ UNCHANGED <<dbVars, smVars, sensorVars, queue, heaterOn, manualHeat, taskVars, slipped>>

-----------------------------------------------------------------------------
temperature_init ==
  /\ data = DefaultData
  /\ state = [p \in Profiles |-> "DISABLED"]
  /\ step = [p \in Profiles |-> -1]
  /\ timer = [p \in Profiles |-> Stopped]
  /\ temp = [p \in Profiles |-> 0]
  /\ gap = [p \in Profiles |-> 0]
  /\ queue = [p \in Profiles |-> <<>>]
  /\ heaterOn = {} /\ tecOn = {}
  /\ turn = 0 /\ phase = "command"
  /\ driving = None /\ inband = FALSE /\ slipped = {}
  /\ held = [p \in Profiles |-> -1]
  /\ manualHeat = {} /\ manualCool = {}

App_TemperatureTask ==
  \/ \E i \in Profiles : TakeCommand(i) \/ Enable(i) \/ Control(i) \/ do_end(i)
  \/ Sleep

Operator ==
  \/ \E p \in Profiles, c \in Commands : SendCommand(p, c)
  \/ \E p \in Profiles, d \in ProfileData : DB_temp_profile_write(p, d)
  \/ \E h \in Heaters, on \in BOOLEAN : CMD_HEATER_SetDuty(h, on)
  \/ \E c \in Tecs, on \in BOOLEAN : CMD_TEC_Set_Vol(c, on)

Next == App_TemperatureTask \/ Operator

Spec == temperature_init /\ [][Next]_vars

\* The task is never blocked: its queue reads do not wait and its sleep is timed.
FairSpec == Spec /\ WF_vars(App_TemperatureTask)
-----------------------------------------------------------------------------
(* Properties *)

\* The type invariant: every variable keeps the type its C declaration and the
\* bounds of the profile tables give it.
TypeOK ==
  /\ data \in [Profiles -> Profile]
  /\ state \in [Profiles -> States]
  /\ step \in [Profiles -> -1 .. MaxStep - 1]
  /\ timer \in [Profiles -> Timer]
  /\ temp \in [Profiles -> Int]
  /\ gap \in [Profiles -> Int]
  /\ queue \in [Profiles -> Seq(Commands)]
  /\ \A p \in Profiles : Len(queue[p]) <= QueueLen
  /\ heaterOn \subseteq Heaters /\ manualHeat \subseteq Heaters
  /\ tecOn \subseteq Tecs /\ manualCool \subseteq Tecs
  /\ turn \in Profiles
  /\ phase \in {"command", "enable", "control", "delay"}
  /\ driving \in Profiles \cup {None} /\ inband \in BOOLEAN /\ slipped \subseteq Profiles
  /\ held \in [Profiles -> -1 .. MaxDuration]

\* When no profile runs, the only channels on are ones an operator switched by
\* hand since: stopping, finishing and failing all leave both banks off, whatever
\* was done to the masks in the meantime (all_outputs_off in profile_state.c).
IdleMeansOff ==
  (\A p \in Profiles : state[p] \in {"DISABLED", "ERROR"}) =>
    heaterOn \subseteq manualHeat /\ tecOn \subseteq manualCool

\* Whatever the profiles do, one heating while another cools or a profile that goes
\* from a ramp up to a ramp down, both banks are on for them only inside one call of
\* a do_ function of profile_state.c, which drives one bank and then clears the other.
NeverHeatAndCool ==
  driving = None => heaterOn \subseteq manualHeat \/ tecOn \subseteq manualCool

\* Two profiles that run never own the same channel, unless one of them was
\* rewritten while the task was between validating the masks for it and enabling it
\* (app_temperature.c).  The masks are validated on TEMP_CMD_MODE_AUTO only, so this
\* relies on operators not rewriting a profile that runs (EditActive = FALSE).
RunningProfilesDisjoint ==
  \A p, q \in Profiles \ slipped :
    p # q /\ state[p] # "DISABLED" /\ state[q] # "DISABLED" =>
      /\ data[p].heater_mask \cap data[q].heater_mask = {}
      /\ data[p].tec_mask \cap data[q].tec_mask = {}

\* current_step is -1 exactly where no step is in progress, and while a step is in
\* progress it indexes the table steps[] that the do_ functions dereference.
StepMatchesState ==
  \A p \in Profiles :
    /\ state[p] \in {"DISABLED"} \cup Preheat => step[p] = -1
    /\ state[p] \in Ramp \cup Soak \cup {"ERROR"} => step[p] \in 0 .. MaxStep - 1

\* Between two steps of the task only a ramp may hold an expired timer (one that
\* was entered with a duration of zero), and only a step in progress may time.
TimerMatchesState ==
  \A p \in Profiles :
    /\ timer[p].state = "RUNNING" => state[p] \in Ramp \cup Soak
    /\ timer[p].state = "EXPIRED" => state[p] \in Ramp

\* While the timer of a soak runs, every sample since it started was in the band:
\* the time already counted is no longer than the streak (do_soak_heat and
\* do_soak_cool stop the timer on the first sample outside).
SoakCountsOnlyBand ==
  \A p \in Profiles :
    state[p] \in Soak /\ timer[p].state = "RUNNING" =>
      held[p] >= timer[p].period - timer[p].left

\* A soak gives way to the next step only after an unbroken streak of samples in
\* the band at least as long as the period its timer was started with.
SoakHeldBeforeNext ==
  [][\A p \in Profiles :
       state[p] \in Soak /\ phase = "control" /\ turn = p /\ step'[p] # step[p] =>
         held[p] # -1 /\ held[p] >= timer[p].period]_vars

\* No command disturbs a step in progress except a stop: only its timer ends it,
\* and the step that follows is the next one of the table.
StepsInOrder ==
  [][\A p \in Profiles :
       step[p] >= 0 /\ step'[p] # step[p] =>
         \/ step'[p] = step[p] + 1 /\ phase = "control" /\ timer[p].left = 0
         \/ step'[p] = -1 /\ state'[p] = "DISABLED"]_vars

\* The profiles implement ProfileSequence: the state machine, its task and the
\* command line together run the programmed steps one after the other, as long as
\* operators do not rewrite a profile that runs.
Mode(p) ==
  CASE state[p] = "DISABLED" -> "off"
    [] state[p] \in Preheat -> "preheat"
    [] state[p] = "ERROR" -> "fault"
    [] OTHER -> "step"

Promise ==
  INSTANCE ProfileSequence WITH
    Counts <- 0 .. MaxStep,
    mode <- [p \in Profiles |-> Mode(p)],
    at <- step,
    len <- [p \in Profiles |-> data[p].step_count]

ImplementsProfileSequence == Promise!Spec

\* A stop that the queue took is obeyed, whatever else operators keep sending.
StopObeyed ==
  \A p \in Profiles :
    (\E k \in 1 .. Len(queue[p]) : queue[p][k] \in {"OFF", "MANUAL"})
      ~> state[p] = "DISABLED"

\* A ramp that was given a duration ends: the timer that enter_heating and
\* enter_cooling start takes the profile on, or an operator stops it.
RampEnds ==
  \A p \in Profiles : \A n \in 0 .. MaxStep - 1 :
    state[p] \in Ramp /\ step[p] = n /\ data[p].steps[n].duration # 0
      ~> ~(state[p] \in Ramp /\ step[p] = n)

\* A soak that was given a duration ends if the temperature comes into the band for good.
SoakEnds ==
  \A p \in Profiles : \A n \in 0 .. MaxStep - 1 :
    <>[](state[p] \in Soak /\ step[p] = n => InBand(p, temp[p])) =>
      ((state[p] \in Soak /\ step[p] = n /\ data[p].steps[n].duration # 0)
         ~> ~(state[p] \in Soak /\ step[p] = n))
-----------------------------------------------------------------------------
(* What comments and documents of the repository say, which the code does not do *)

\* profile_state.h: a profile's masks say which channels it has.  So the handling
\* of one profile leaves alone the channels of another that is driving them.
DrivesOwnChannelsOnly ==
  [][\A p, q \in Profiles :
       /\ p # q /\ state[q] \in HeatStates \cup CoolStates
       /\ \/ turn = p /\ phase = "control" /\ phase' # "control"
          \/ driving = p /\ driving' # p
       => /\ heaterOn' \cap data[q].heater_mask = heaterOn \cap data[q].heater_mask
          /\ tecOn' \cap data[q].tec_mask = tecOn \cap data[q].tec_mask]_vars

\* profile_state.h: main_sec_delta is the largest difference allowed between the two
\* sensors.  So a step in progress whose sensors differ by more is not carried on.
SensorGapStops ==
  [][\A p \in Profiles :
       /\ turn = p /\ phase = "control" /\ phase' # "control" /\ state[p] \in Ramp \cup Soak
       /\ gap'[p] > data[p].main_sec_delta
       => state'[p] = "ERROR"]_vars
=============================================================================
