------------------------------ MODULE EffSweep ------------------------------
(***************************************************************************)
(* The efficiency sweep (main/eff_sweep.c): a list of fixed powers, first  *)
(* in one direction and then in the other, driven through deye_ctrl, which *)
(* is here the mode and power it holds. The sweep's task looks once per    *)
(* second; the user and other tasks may call deye_ctrl at any moment, also *)
(* between the task's look and its call. Times are in seconds of the task. *)
(***************************************************************************)
EXTENDS Naturals, Sequences

CONSTANTS
  NPow,                \* powers per direction, 1..NPow
  Settle, Dwell,       \* settle_s, dwell_s
  PauseS,              \* SWEEP_PAUSE_S
  OfflineS,            \* SWEEP_OFFLINE_S
  ForceLimit,          \* DEYE_FORCE_MAX_S
  SocMin, SocMax,      \* the limits of the request, in points of the SoC
  SocTop,              \* a full battery
  MaxSweepAsks, MaxStarts   \* bounds: calls from elsewhere, sweeps

ASSUME SweepAssumption ==
  /\ NPow \in Nat \ {0} /\ Settle \in Nat /\ Dwell \in Nat /\ Settle < Dwell
  /\ PauseS \in Nat /\ OfflineS \in Nat \ {0} /\ ForceLimit \in Nat
  /\ SocMin \in Nat /\ SocMax \in Nat /\ SocTop \in Nat
  /\ SocMin < SocMax /\ SocMax <= SocTop
  /\ MaxSweepAsks \in Nat /\ MaxStarts \in Nat

Forced == {"Charge", "Discharge"}
Modes  == Forced \cup {"Normal"}
Powers == 0..NPow

VARIABLES
  state,         \* s_st.state
  steps, cur,    \* s_st.step and s_st.cur
  st, stepT,     \* the state of step cur, and the seconds since its power was applied
  paused,        \* seconds of the Normal pause left, 0 = not paused
  off,           \* seconds without an answer of the Deye, as the task saw it
  expected,      \* s_exp_mode and s_exp_power, or Nothing while s_applied is false
  power0,        \* s_user_power0
  stop,          \* s_stop_req
  pass,          \* 0: asleep; 1: the checks; 2, 3: step_tick() in this second
  req,           \* what deye_ctrl holds: [mode, power]
  soc, online,   \* the battery, and whether the Deye answers
  known,         \* l->bat_soc: the SoC of its last answer
  touched,       \* somebody else changed a setting since the sweep started
  unseen,        \* ... and since the task's last check
  run,           \* seconds deye_ctrl has run a forced mode, or Normal, without a break
  sweepAsks, starts

vars == << state, steps, cur, st, stepT, paused, off, expected, power0, stop, pass,
           req, soc, online, known, touched, unseen, run, sweepAsks, starts >>

plant    == << soc, online, known, off >>
calls    == << touched, unseen, sweepAsks, starts >>
sweepStep == << steps, cur, st, stepT >>

NothingDone == [mode |-> "none", power |-> 0]

Init ==
  /\ state = "Idle" /\ steps = <<>> /\ cur = 1 /\ st = "Pending" /\ stepT = 0
  /\ paused = 0 /\ off = 0 /\ expected = NothingDone /\ power0 = 0 /\ stop = FALSE /\ pass = 0
  /\ req = [mode |-> "Normal", power |-> NPow]
  /\ soc \in SocMin..SocMax /\ known = soc /\ online = TRUE
  /\ touched = FALSE /\ unseen = FALSE /\ run = 0 /\ sweepAsks = 0 /\ starts = 0

SweepRunning == state = "Running"

-----------------------------------------------------------------------------
(* A mode or a power put into deye_ctrl; a new mode restarts its clock.    *)
Measures(m, p) ==
  /\ req' = [mode |-> m, power |-> p]
  /\ run' = IF m = req.mode THEN run ELSE 0

UserAsks(m, p) ==
  /\ sweepAsks < MaxSweepAsks /\ sweepAsks' = sweepAsks + 1
  /\ Measures(m, p) /\ touched' = (touched \/ req' # req) /\ unseen' = (unseen \/ req' # req)
  /\ UNCHANGED << state, sweepStep, paused, expected, power0, stop, pass, plant, starts >>

UserStops ==
  /\ sweepAsks < MaxSweepAsks /\ sweepAsks' = sweepAsks + 1
  /\ stop' = TRUE
  /\ UNCHANGED << state, sweepStep, paused, expected, power0, pass, plant, req, run,
                  touched, unseen, starts >>

(* Told to stop with no sweep running: the task takes the request back.    *)
StopIdle ==
  /\ ~SweepRunning /\ stop /\ stop' = FALSE
  /\ UNCHANGED << state, sweepStep, paused, expected, power0, pass, plant, req, run, calls >>

AtLimit(m) == IF m = "Discharge" THEN known <= SocMin ELSE known >= SocMax
Limit(m) == AtLimit(m)

(* eff_sweep_start(): refused while running, in a forced mode, without the *)
(* Deye, or with nothing to do; the direction with more room comes first.  *)
Start(dirs) ==
  LET one(m) == IF m \in dirs THEN [i \in 1..NPow |-> [mode |-> m, w |-> i]] ELSE <<>> IN
  /\ pass = 0 /\ ~SweepRunning /\ starts < MaxStarts /\ starts' = starts + 1
  /\ req.mode = "Normal" /\ online
  /\ \E m \in dirs : ~AtLimit(m)
  /\ steps' = IF 2 * known < SocTop THEN one("Charge") \o one("Discharge")
              ELSE one("Discharge") \o one("Charge")
  /\ state' = "Running" /\ cur' = 1 /\ st' = "Pending" /\ stepT' = 0
  /\ paused' = 0 /\ off' = 0 /\ expected' = NothingDone /\ power0' = req.power /\ stop' = FALSE
  /\ touched' = FALSE /\ unseen' = FALSE
  /\ UNCHANGED << pass, req, soc, online, known, run, sweepAsks >>

-----------------------------------------------------------------------------
(* A second passes: the battery moves with the forced mode, the Deye does  *)
(* or does not answer, and the task wakes.                                 *)
Drift == IF req.mode = "Discharge" THEN {soc, soc - 1}
         ELSE IF req.mode = "Charge" THEN {soc, soc + 1} ELSE {soc}

Second ==
  /\ SweepRunning /\ pass = 0 /\ pass' = 1
  /\ soc' \in Drift \cap 0..SocTop /\ online' \in BOOLEAN
  /\ known' = IF online' THEN soc' ELSE known
  /\ off' = IF online' THEN 0 ELSE off + 1
  /\ run' = IF run > ForceLimit THEN run ELSE run + 1
  /\ stepT' = IF st = "Pending" THEN 0 ELSE stepT + 1
  /\ UNCHANGED << state, steps, cur, st, paused, expected, power0, stop, req, calls >>

(* put() *)
SweepPut(m, p) == Measures(m, p) /\ expected' = [mode |-> m, power |-> p]

(* finish(): Normal over a mode the sweep put there.                       *)
NeverNormal == FALSE                      \* mutant: the forced mode is left in force
Undoes == expected # NothingDone /\ req.mode # "Normal"

Finish(result, normal) ==
  /\ state' = result /\ expected' = NothingDone /\ paused' = 0 /\ pass' = 0
  /\ IF normal /\ Undoes THEN Measures("Normal", power0) ELSE UNCHANGED << req, run >>
  /\ UNCHANGED sweepStep

(* The checks of sweep_tick(), in their order. *)
ModeOnly == expected # NothingDone /\ req.mode # expected.mode    \* mutant: powers not compared
Outside  == expected # NothingDone /\ req # expected

Gone       == off > OfflineS

Check ==
  /\ SweepRunning /\ pass = 1 /\ unseen' = FALSE /\ stop' = FALSE
  /\ IF stop THEN Finish("Aborted", TRUE)
     ELSE IF Outside THEN Finish("Aborted", FALSE)
     ELSE IF Gone THEN Finish("Aborted", TRUE)
     ELSE /\ paused' = IF paused > 0 THEN paused - 1 ELSE 0
          /\ pass' = IF paused > 1 THEN 0 ELSE 2
          /\ UNCHANGED << state, sweepStep, expected, req, run >>
  /\ UNCHANGED << power0, plant, touched, sweepAsks, starts >>

-----------------------------------------------------------------------------
(* step_tick(), for the step cur; a step that is done hands over to the    *)
(* next one in the same second.                                            *)
Step == steps[cur]
NextDirection ==                          \* skip_mode(): the rest of this direction
  CHOOSE j \in cur..(Len(steps) + 1) :
    /\ \A k \in cur..(j - 1) : steps[k].mode = Step.mode
    /\ j <= Len(steps) => steps[j].mode # Step.mode

Turns == expected.mode \in Forced /\ expected.mode # Step.mode

Turn ==                                   \* lasts PauseS seconds
  /\ SweepPut("Normal", power0) /\ paused' = PauseS
  /\ pass' = 0 /\ UNCHANGED << state, sweepStep >>

Skip ==
  /\ cur' = NextDirection /\ st' = "Pending" /\ stepT' = 0 /\ pass' = 0
  /\ UNCHANGED << state, steps, paused, expected, req, run >>

Begin ==
  /\ SweepPut(Step.mode, Step.w) /\ st' = "Settle" /\ stepT' = 0 /\ pass' = 0
  /\ UNCHANGED << state, steps, cur, paused >>

Stay == pass' = 0 /\ UNCHANGED << state, sweepStep, paused, expected, req, run >>

StepSettled ==
  /\ st' = "Measure" /\ pass' = 0
  /\ UNCHANGED << state, steps, cur, stepT, paused, expected, req, run >>

HandOver ==
  /\ cur' = IF Limit(Step.mode) THEN NextDirection ELSE cur + 1
  /\ st' = "Pending" /\ stepT' = 0
  /\ pass' = IF pass = 2 THEN 3 ELSE 0
  /\ UNCHANGED << state, steps, paused, expected, req, run >>

StepTick ==
  /\ SweepRunning /\ pass \in {2, 3}
  /\ \/ cur > Len(steps) /\ Finish("Done", TRUE)
     \/ /\ cur <= Len(steps) /\ st = "Pending"
        /\ \/ ~online /\ Stay
           \/ online /\ Limit(Step.mode) /\ Skip
           \/ online /\ ~Limit(Step.mode) /\ Turns /\ Turn
           \/ online /\ ~Limit(Step.mode) /\ ~Turns /\ Begin
     \/ /\ cur <= Len(steps) /\ st = "Settle"
        /\ \/ Limit(Step.mode) /\ Skip
           \/ ~Limit(Step.mode) /\ stepT < Settle /\ Stay
           \/ ~Limit(Step.mode) /\ stepT >= Settle /\ StepSettled
           \/ ~Limit(Step.mode) /\ stepT >= Settle /\ Finish("Aborted", TRUE)  \* not confirmed
     \/ /\ cur <= Len(steps) /\ st = "Measure"
        /\ IF Limit(Step.mode) \/ stepT >= Dwell THEN HandOver ELSE Stay
  /\ UNCHANGED << power0, stop, plant, calls >>

Task == Second \/ Check \/ StepTick

(* The route of the web page that starts and stops a sweep. *)
SweepPage == UserStops \/ \E dirs \in SUBSET Forced \ {{}} : Start(dirs)

Next == \/ Task \/ SweepPage \/ StopIdle
        \/ \E m \in Modes, p \in Powers : UserAsks(m, p)

Spec == Init /\ [][Next]_vars /\ WF_vars(Task)

-----------------------------------------------------------------------------
(* The sweep's steps that change what deye_ctrl holds. *)
Sets == sweepAsks' = sweepAsks /\ req' # req

(* Once the sweep has put a mode of its own, it changes only what it put,  *)
(* unless it is told to stop or another call came after its last look.     *)
YieldsToUser ==
  [][Sets => \/ req = expected
             \/ stop \/ expected = NothingDone
             \/ pass > 1 /\ unseen]_vars

(* A sweep ends, and nothing forced by it stays in force.                  *)
EndsInNormal == SweepRunning ~> ~SweepRunning /\ (touched \/ req.mode = "Normal")
=============================================================================
