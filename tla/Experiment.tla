------------------------------ MODULE Experiment -------------------------------
(***************************************************************************)
(* The control of an experiment (app_experiment.c) over the acquisition     *)
(* path of SampleBuffers: operator commands queue RUN and END, the          *)
(* experiment task sets a run up step by step, and the 10 ms TC3 interrupt  *)
(* takes it through its phases (dark, laser on, dark) and hands the memory  *)
(* to the MPU at the end.                                                   *)
(*                                                                         *)
(* Times are counted in ticks of TC3.  A laser channel outside Channels     *)
(* (0, or whatever the stack holds) switches nothing.  The profile is       *)
(* written and read in one step each.                                       *)
(***************************************************************************)
EXTENDS SampleBuffers

CONSTANTS
    Channels,       \* laser channels 1 .. 24
    BadChannels,    \* other values of the channel byte, 0 among them
    Durations,      \* of a phase, in ticks
    Rates,          \* sampling rates, kHz
    CommandDepth,   \* length of experiment_command_queue
    MaxCommands,    \* bound: commands accepted in a behaviour
    Off

UINT16_MAX == 65535

ASSUME ControlAssumption ==
    /\ Off \notin Channels /\ Channels \cap BadChannels = {}
    /\ Durations \subseteq Nat /\ Rates \subseteq 1 .. UINT16_MAX
    /\ CommandDepth \in Nat /\ MaxCommands \in Nat

VARIABLES
    experiment_command_queue, s_exp_profile,
    commands,    \* history: commands accepted
    exp_pc,      \* where the experiment task stands
    exp_rt,      \* the run: channel, sub_state, counter and phase lengths
    period,      \* of the sampling timer, in its clocks
    laser,       \* the internal laser that is on, or Off
    timer_on,    \* TC3 channel 1 runs
    run_start,   \* history: first sample of the run
    clean,       \* history: the run started alone and is still alone
    handed       \* history: positions filled when the last tick handed the memory over

commandVars == <<experiment_command_queue, commands>>
control == <<commandVars, s_exp_profile, exp_pc, exp_rt, period,
             laser, timer_on, run_start, clean, handed>>
allVars == <<bufferVars, control>>

Profiles(channels) ==
    [channel : channels, pre : Durations, main : Durations, post : Durations, rate : Rates]
AnyProfile == Profiles(Channels \cup BadChannels)

\* The sampling timer's period for a rate: a division of its clock (in Hz),
\* converted to 16 bits.  The conversion of a larger value is undefined: the
\* compiler's code truncates or saturates it.
TimerClock == 120000000

Periods(rate) ==
    LET p == (TimerClock \div rate) \div 1000
    IN  IF p <= UINT16_MAX THEN {p} ELSE {p % (UINT16_MAX + 1), UINT16_MAX}

\* bsp_laser_int_sw_on: one channel and no other; a bad channel changes nothing.
bsp_laser_int_sw_on(channel) ==
    laser' = IF channel \in Channels THEN channel ELSE laser

Init ==
    /\ experiment_init
    /\ experiment_command_queue = <<>> /\ commands = 0
    /\ s_exp_profile \in Profiles(Channels)
    /\ exp_pc = "receive"
    /\ exp_rt = [channel |-> 0, sub_state |-> "PRE", counter |-> 0,
                 pre |-> 0, main |-> 0, post |-> 0, rate |-> 0]
    /\ period = 0 /\ laser = Off /\ timer_on = FALSE
    /\ run_start = 0 /\ clean = TRUE /\ handed = 0

\* Nothing of an earlier run is going on.
Quiet == ~timer_on /\ ~sampling_enable

\* Fault: the queue written whether or not it has room.
Fault_Send(command) ==
    /\ commands < MaxCommands /\ commands' = commands + 1
    /\ experiment_command_queue' = Append(experiment_command_queue, command)

\* A command that finds the queue full is refused.
Send(command) ==
    IF Len(experiment_command_queue) < CommandDepth
    THEN /\ commands < MaxCommands /\ commands' = commands + 1
         /\ experiment_command_queue' = Append(experiment_command_queue, command)
    ELSE UNCHANGED commandVars

CMD_Exp_Start ==
    /\ PsramBlocked
    /\ Send("RUN")
    /\ UNCHANGED <<bufferVars, s_exp_profile, exp_pc, exp_rt, period, laser, timer_on, run_start, clean, handed>>

CMD_Exp_Start_Laser ==
    /\ PsramBlocked
    /\ s_exp_profile' \in Profiles(Channels)
    /\ Send("RUN")
    /\ UNCHANGED <<bufferVars, exp_pc, exp_rt, period, laser, timer_on, run_start, clean, handed>>

CMD_Exp_End ==
    /\ PsramBlocked
    /\ Send("END")
    /\ UNCHANGED <<bufferVars, s_exp_profile, exp_pc, exp_rt, period, laser, timer_on, run_start, clean, handed>>

\* exp_profile copies a channel it never set; dls_setup accepts channel 0.
SetProfile ==
    /\ PsramBlocked
    /\ s_exp_profile' \in AnyProfile
    /\ UNCHANGED <<bufferVars, commandVars, exp_pc, exp_rt, period, laser, timer_on,
                   run_start, clean, handed>>

CommandLine == CMD_Exp_Start \/ CMD_Exp_Start_Laser \/ CMD_Exp_End \/ SetProfile

\* Fault: the address is not reset.
Fault_TakeRun ==
    /\ exp_pc = "receive" /\ PsramBlocked
    /\ experiment_command_queue # <<>> /\ Head(experiment_command_queue) = "RUN"
    /\ experiment_command_queue' = Tail(experiment_command_queue) /\ UNCHANGED commands
    /\ exp_pc' = "mux" /\ clean' = Quiet
    /\ UNCHANGED <<bufferVars, s_exp_profile, exp_rt, period, laser, timer_on, run_start, handed>>

\* The experiment task takes a command: RUN resets the address and goes on to
\* the setup, END takes the memory's bus back.
TakeRun ==
    /\ exp_pc = "receive"
    /\ experiment_command_queue # <<>> /\ Head(experiment_command_queue) = "RUN"
    /\ experiment_command_queue' = Tail(experiment_command_queue) /\ UNCHANGED commands
    /\ ResetAddress
    /\ exp_pc' = "mux" /\ clean' = Quiet
    /\ UNCHANGED <<s_exp_profile, exp_rt, period, laser, timer_on, run_start, handed>>

TakeEnd ==
    /\ exp_pc = "receive"
    /\ experiment_command_queue # <<>> /\ Head(experiment_command_queue) = "END"
    /\ experiment_command_queue' = Tail(experiment_command_queue) /\ UNCHANGED commands
    /\ bsp_psram_sw_mcu
    /\ UNCHANGED <<s_exp_profile, exp_pc, exp_rt, period, laser, timer_on, run_start, clean, handed>>


\* exp_setup: the bus, the run's fields and sampling period, all lasers off.
SetupBus ==
    /\ exp_pc = "mux"
    /\ bsp_psram_sw_mcu
    /\ exp_pc' = "fields"
    /\ UNCHANGED <<commandVars, s_exp_profile, exp_rt, period, laser, timer_on,
                   run_start, clean, handed>>

SetupRun ==
    /\ exp_pc = "fields" /\ PsramBlocked
    /\ exp_rt' = [channel |-> s_exp_profile.channel, sub_state |-> "PRE", counter |-> 0,
                  pre |-> s_exp_profile.pre, main |-> s_exp_profile.main,
                  post |-> s_exp_profile.post, rate |-> s_exp_profile.rate]
    /\ period' \in Periods(s_exp_profile.rate)
    /\ exp_pc' = "all_off"
    /\ UNCHANGED <<bufferVars, commandVars, s_exp_profile, laser, timer_on, run_start, clean, handed>>

SetupLasers ==
    /\ exp_pc = "all_off" /\ PsramBlocked
    /\ laser' = Off
    /\ exp_pc' = "sampling"
    /\ UNCHANGED <<bufferVars, commandVars, s_exp_profile, exp_rt, period, timer_on,
                   run_start, clean, handed>>

\* exp_start: sampling, then the tick timer.
StartRun ==
    /\ exp_pc = "sampling"
    /\ StartSampling
    /\ run_start' = captured
    /\ exp_pc' = "timer"
    /\ UNCHANGED <<commandVars, s_exp_profile, exp_rt, period, laser, timer_on, clean, handed>>

StartTimer ==
    /\ exp_pc = "timer" /\ PsramBlocked
    /\ timer_on' = TRUE
    /\ exp_pc' = "receive"
    /\ UNCHANGED <<bufferVars, commandVars, s_exp_profile, exp_rt, period, laser,
                   run_start, clean, handed>>

App_EXPTask ==
    TakeRun \/ TakeEnd \/ SetupBus \/ SetupRun \/ SetupLasers \/ StartRun \/ StartTimer

\* TC3: a tick within a phase, or at its end the step to the next phase.
Expires(length) == exp_rt.counter + 1 >= length
Enter(sub_state) == exp_rt' = [exp_rt EXCEPT !.counter = 0, !.sub_state = sub_state]
Count == exp_rt' = [exp_rt EXCEPT !.counter = @ + 1]

\* Fault: the main phase begins without the laser.
Fault_TickPre ==
    /\ exp_rt.sub_state = "PRE"
    /\ IF Expires(exp_rt.pre) THEN Enter("MAIN") ELSE Count
    /\ UNCHANGED <<bufferVars, laser, timer_on, clean, handed>>

TickPre ==
    /\ exp_rt.sub_state = "PRE"
    /\ IF Expires(exp_rt.pre) THEN bsp_laser_int_sw_on(exp_rt.channel) /\ Enter("MAIN")
                              ELSE Count /\ UNCHANGED laser
    /\ UNCHANGED <<bufferVars, timer_on, clean, handed>>

\* Fault: the laser is left on at the end of the main phase.
Fault_TickMain ==
    /\ exp_rt.sub_state = "MAIN"
    /\ IF Expires(exp_rt.main) THEN Enter("POST") ELSE Count
    /\ UNCHANGED <<bufferVars, laser, timer_on, clean, handed>>

TickMain ==
    /\ exp_rt.sub_state = "MAIN"
    /\ IF Expires(exp_rt.main) THEN laser' = Off /\ Enter("POST")
                               ELSE Count /\ UNCHANGED laser
    /\ UNCHANGED <<bufferVars, timer_on, clean, handed>>

\* Faults: sampling is left on; the phase never ends.
Fault_TickPost_KeepsSampling ==
    /\ exp_rt.sub_state = "POST"
    /\ IF Expires(exp_rt.post) THEN Enter("DONE") ELSE Count
    /\ UNCHANGED <<bufferVars, laser, timer_on, clean, handed>>

Fault_TickPost_Stays ==
    /\ exp_rt.sub_state = "POST"
    /\ IF Expires(exp_rt.post) THEN StopSampling /\ Enter("POST")
                               ELSE Count /\ UNCHANGED bufferVars
    /\ UNCHANGED <<laser, timer_on, clean, handed>>

TickPost ==
    /\ exp_rt.sub_state = "POST"
    /\ IF Expires(exp_rt.post) THEN StopSampling /\ Enter("DONE")
                               ELSE Count /\ UNCHANGED bufferVars
    /\ UNCHANGED <<laser, timer_on, clean, handed>>

TickDone ==
    /\ exp_rt.sub_state = "DONE"
    /\ Count
    /\ timer_on' = FALSE
    /\ bsp_psram_sw_mpu
    /\ handed' = Len(written)
    /\ UNCHANGED <<laser, clean>>

TC3_CH1_My_Handler ==
    /\ timer_on
    /\ TickPre \/ TickMain \/ TickPost \/ TickDone
    /\ UNCHANGED <<commandVars, s_exp_profile, exp_pc, period, run_start>>

Acquire == (SPI0_Handler \/ APP_PSRAMTask) /\ UNCHANGED control

ExperimentNext == CommandLine \/ App_EXPTask \/ TC3_CH1_My_Handler \/ Acquire

ExperimentSpec == Init /\ [][ExperimentNext]_allVars

\* The timer keeps ticking; the PSRAM task is the first to be scheduled; the
\* experiment task polls its queue every 10 ms and shares its priority in turns.
FairExperiment ==
    /\ ExperimentSpec
    /\ WF_allVars(TC3_CH1_My_Handler)
    /\ WF_allVars(APP_PSRAMTask /\ UNCHANGED control)
    /\ WF_allVars(App_EXPTask)
--------------------------------------------------------------------------------
\* Every variable of the control has its type.
ExperimentTypeOK ==
    /\ TypeOK
    /\ experiment_command_queue \in Seq({"RUN", "END"})
    /\ Len(experiment_command_queue) <= CommandDepth /\ commands \in Nat
    /\ s_exp_profile \in AnyProfile
    /\ exp_pc \in {"receive", "mux", "fields", "all_off", "sampling", "timer"}
    /\ exp_rt \in [channel : Channels \cup BadChannels \cup {0},
                  sub_state : {"PRE", "MAIN", "POST", "DONE"}, counter : Nat,
                  pre : Nat, main : Nat, post : Nat, rate : Nat]
    /\ period \in 0 .. UINT16_MAX
    /\ laser \in Channels \cup {Off}
    /\ timer_on \in BOOLEAN /\ run_start \in Nat /\ clean \in BOOLEAN /\ handed \in Nat

\* A run is clean when the experiment task took its RUN while no other run was
\* going on, and no RUN was taken since.  It is over when its timer stopped.
RunOver == exp_pc = "receive" /\ ~timer_on

\* The laser of a clean run is on throughout the main phase and at no other
\* time (app_experiment.c:178-188).
LaserOnlyInMain ==
    LET lit == timer_on /\ exp_rt.sub_state = "MAIN"
    IN  clean => /\ laser # Off => lit /\ laser = exp_rt.channel
                 /\ lit /\ exp_rt.channel \in Channels => laser = exp_rt.channel

\* However runs are requested over one another, no laser stays on when the
\* timer has stopped and the task is back at its queue: nothing would turn it
\* off any more (app_experiment.c:152, 186, 201).
LaserOffWhenIdle == ~timer_on /\ exp_pc = "receive" => laser = Off

\* The memory is handed over one tick after sampling stopped, whatever the
\* PSRAM task has still to write.  Of a clean run that found the task done, only
\* the blocks waiting then can be lost or torn: the positions filled before the
\* hand-over hold whole blocks, and at most BUF_COUNT - 1 follow them, until a
\* new run starts (app_experiment.c:193-202, 277-283).
HandOverLosesOnlyQueued ==
    clean /\ fresh =>
        /\ \A i \in DOMAIN written : written[i] \in {Blank, Torn} => RunOver /\ i > handed
        /\ RunOver => Len(written) <= handed + BUF_COUNT - 1

\* The memory then holds the run's blocks at their addresses, in the order of
\* capture.  Samples of an earlier run are only in the first block, which the
\* buffer left half full at the end of that run leads (app_experiment.c:93,
\* 119, 228, 283).
MemoryHoldsRun ==
    /\ MemoryHoldsLog
    /\ clean /\ fresh =>
          \A i \in DOMAIN written : written[i] \notin {Blank, Torn} =>
              /\ written[i][BUF_SIZE - 1] >= run_start
              /\ i > 1 => written[i][0] >= run_start

RunEnds == timer_on /\ clean ~> Quiet \/ ~clean
================================================================================
