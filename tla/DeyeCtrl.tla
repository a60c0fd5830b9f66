------------------------------ MODULE DeyeCtrl ------------------------------
(***************************************************************************)
(* The battery writer of main/deye_ctrl.c: callers (display, MQTT, energy  *)
(* manager, efficiency sweep) and the SLS guard change the requested mode  *)
(* and power in RAM; one task writes them into the inverter, register by   *)
(* register, over a bus that may lose writes; a forced mode is recorded in *)
(* NVS so that a restart can undo it.                                      *)
(*                                                                         *)
(* Grain of atomicity: a burst of RAM assignments is one step; the NVS     *)
(* writes of a call are a step of their own, and so is every Modbus write  *)
(* of the task, because these block and let the other tasks run.           *)
(***************************************************************************)
EXTENDS Naturals, Sequences

CONSTANTS
  Clients,      \* tasks that call deye_ctrl_apply*() or deye_ctrl_retune()
  AskedPowers,  \* powers callers ask for (W), before clamping
  GuardPowers,  \* sell powers the SLS guard may decide on (W)
  ForceLimit,   \* DEYE_FORCE_MAX_S, in clock ticks
  AutoLimits,   \* windows the energy manager asks for, in clock ticks
  UndoTries,    \* DEYE_UNDO_TRIES
  WritesMayFail,\* TRUE: any register write may be lost or left unconfirmed
  MaxOps,       \* bound: calls of apply or retune in one behaviour
  MaxRestarts   \* bound: restarts of the display in one behaviour

ASSUME CtrlAssumption ==
  /\ AskedPowers \subseteq Nat /\ GuardPowers \subseteq Nat \ {0}
  /\ ForceLimit \in Nat /\ AutoLimits \subseteq Nat
  /\ UndoTries \in Nat \ {0}
  /\ WritesMayFail \in BOOLEAN
  /\ MaxOps \in Nat /\ MaxRestarts \in Nat

PowerMin   == 1000     \* DEYE_POWER_MIN
PowerFloor == 250      \* DEYE_POWER_FLOOR
PowerMax   == 20000    \* DEYE_POWER_MAX
PowerBoot  == 5000     \* initial s_power_w and s_user_power_w
ChargeSoc  == 99       \* stands for every charge target, manual or automatic

Modes == {"Normal", "Charge", "Discharge"}
Kinds == {"manual", "sweep", "auto"}   \* apply, apply_sweep, apply_auto

Clamp(p, floor) == IF p < floor THEN floor ELSE IF p > PowerMax THEN PowerMax ELSE p
FloorOf(k)  == IF k = "manual" THEN PowerMin ELSE PowerFloor
LimitsOf(k) == IF k = "auto" THEN AutoLimits ELSE {ForceLimit}

(* Inverter registers: 142 work mode, 143 sell power, 126/127/128 charge   *)
(* power, stop SoC and current; 166 stands for the six SoC set-points      *)
(* 166..171, 172 for the six grid-charge flags 172..177.                   *)
Regs == {126, 127, 128, 142, 143, 166, 172}

Verified(r, v) == [reg |-> r, val |-> v, verify |-> TRUE]    \* write_verify
Raw(r, v)      == [reg |-> r, val |-> v, verify |-> FALSE]   \* write_raw

NormalWrites == << Verified(142, 2), Verified(143, PowerMax), Raw(126, 5000),
                   Raw(127, 10), Raw(128, 40), Raw(166, 13), Raw(172, 0) >>
ChargeWrites(p) == << Raw(126, p), Verified(127, ChargeSoc), Verified(128, p \div 50),
                      Raw(166, ChargeSoc), Raw(172, 1) >>
DischargeWrites(p) == << Verified(142, 3), Verified(143, p) >>

ModeWrites(m, p) == CASE m = "Normal"    -> NormalWrites
                      [] m = "Charge"    -> ChargeWrites(p)
                      [] m = "Discharge" -> DischargeWrites(p)

(* deye_ctrl_write_power and deye_ctrl_write_charge_power *)
PowerWrites(m, p) == IF m = "Discharge" THEN << Verified(143, p) >>
                     ELSE << Raw(126, p), Verified(128, p \div 50) >>

VARIABLES
  mode, power, userPower,     \* s_mode, s_power_w, s_user_power_w
  limit, age,                 \* s_limit_s; ticks since s_mode_ms
  writeFull, notified,        \* s_write_full; a notification the task has not taken
  undoPending, undoTries,     \* s_undo_pending, s_undo_tries
  failed,                     \* s_failed # 0
  nvsMode, nvsPower,          \* NVS "dmode" and "dpwr"
  inv,                        \* what the inverter's registers hold
  task, job, at,              \* the writer task: what it does, its writes, the next one
  caller,                     \* the call each client is in
  guard,                      \* target sls_guard_tick has decided on, 0 = none
  ops, restarts               \* how much of the bounds is used

vars == << mode, power, userPower, limit, age, writeFull, notified, undoPending,
           undoTries, failed, nvsMode, nvsPower, inv, task, job, at, caller,
           guard, ops, restarts >>

request == << mode, power, userPower >>
clock   == << limit, age >>
undo    == << undoPending, undoTries >>
nvs     == << nvsMode, nvsPower >>
writer  == << failed, inv, task, job, at >>
bounds  == << ops, restarts >>

Idle == [pc |-> "idle", mode |-> "Normal", power |-> 0]

NormalRegs == [r \in Regs |-> CASE r = 142 -> 2    [] r = 143 -> PowerMax [] r = 126 -> 5000
                                [] r = 127 -> 10   [] r = 128 -> 40
                                [] r = 166 -> 13   [] r = 172 -> 0]

Init ==
  /\ mode = "Normal" /\ power = PowerBoot /\ userPower = PowerBoot
  /\ limit = ForceLimit /\ age = 0
  /\ writeFull = FALSE /\ notified = FALSE
  /\ undoPending = FALSE /\ undoTries = 0
  /\ failed = FALSE
  /\ nvsMode = "Normal" /\ nvsPower = 0
  /\ inv = NormalRegs
  /\ task = "wait" /\ job = <<>> /\ at = 1
  /\ caller = [c \in Clients |-> Idle]
  /\ guard = 0
  /\ ops = 0 /\ restarts = 0

-----------------------------------------------------------------------------
(* Callers. apply_clamped() first sets the RAM state, then writes NVS; the *)
(* flag and the notification follow in the same step as the NVS write:     *)
(* nothing but a restart can tell them apart, and a restart forgets both.  *)

BeginApply(c, k, m, p) ==
  LET w == Clamp(p, FloorOf(k)) IN
  /\ caller[c].pc = "idle" /\ ops < MaxOps
  /\ mode' = m /\ power' = w /\ userPower' = w
  /\ limit' \in LimitsOf(k) /\ age' = 0
  /\ caller' = [caller EXCEPT ![c] = [pc |-> "apply", mode |-> m, power |-> w]]
  /\ ops' = ops + 1
  /\ UNCHANGED << writeFull, notified, undo, nvs, writer, guard, restarts >>

FinishApply(c) ==
  /\ caller[c].pc = "apply"
  /\ nvsMode' = caller[c].mode
  /\ nvsPower' = IF caller[c].mode = "Normal" THEN nvsPower ELSE caller[c].power
  /\ writeFull' = TRUE /\ notified' = TRUE
  /\ caller' = [caller EXCEPT ![c] = Idle]
  /\ UNCHANGED << request, clock, undo, writer, guard, bounds >>

(* deye_ctrl_retune(): refused in Normal, does not restart the clock. *)
BeginRetune(c, p) ==
  LET w == Clamp(p, PowerFloor) IN
  /\ caller[c].pc = "idle" /\ ops < MaxOps
  /\ mode # "Normal"
  /\ power' = w /\ userPower' = w
  /\ caller' = [caller EXCEPT ![c] = [pc |-> "retune", mode |-> "Normal", power |-> w]]
  /\ ops' = ops + 1
  /\ UNCHANGED << mode, clock, writeFull, notified, undo, nvs, writer, guard, restarts >>

FinishRetune(c) ==
  /\ caller[c].pc = "retune"
  /\ nvsPower' = caller[c].power
  /\ notified' = TRUE
  /\ caller' = [caller EXCEPT ![c] = Idle]
  /\ UNCHANGED << request, clock, writeFull, undo, nvsMode, writer, guard, bounds >>

(* The SLS guard reads mode, applied and user power, then decides; the     *)
(* throttle is written later, from what it read. A target is never above   *)
(* the user power it saw, and below PowerMin only when that power is.      *)
GuardDecide(p) ==
  /\ guard = 0
  /\ mode = "Discharge"
  /\ p # power /\ p <= userPower
  /\ p >= PowerMin \/ p = userPower
  /\ guard' = p
  /\ UNCHANGED << request, clock, writeFull, notified, undo, nvs, writer, caller, bounds >>

(* deye_ctrl_set_throttled() *)
GuardThrottle ==
  /\ guard # 0
  /\ power' = Clamp(guard, PowerMin)
  /\ notified' = TRUE
  /\ guard' = 0
  /\ UNCHANGED << mode, userPower, clock, writeFull, undo, nvs, writer, caller, bounds >>

-----------------------------------------------------------------------------
(* The writer task. *)

(* First half of fall_back_to_normal(): record Normal, start the writes. *)
FallBack ==
  /\ mode' = "Normal" /\ power' = userPower
  /\ age' = 0
  /\ task' = "fall" /\ job' = NormalWrites /\ at' = 1
  /\ failed' = FALSE
  /\ notified' = FALSE                       \* ulTaskNotifyTake(pdTRUE)
  /\ UNCHANGED << userPower, limit, writeFull, undoPending, nvs, inv, caller, guard, bounds >>

(* A forced mode survived a restart in the inverter: undo it. A wake by a  *)
(* notification counts as a try as well.                                   *)
TriesUncounted == undoTries                            \* mutant: no count of tries
TriesNow == undoTries + 1

WakeUndo ==
  /\ task = "wait" /\ undoPending
  /\ undoTries' = TriesNow
  /\ FallBack

ExpiredSelling == mode = "Discharge" /\ age > limit   \* mutant: a charge has no limit
Expired == mode # "Normal" /\ age > limit

WakeExpired ==
  /\ task = "wait" /\ ~undoPending /\ Expired
  /\ FallBack
  /\ UNCHANGED undoTries

(* deye_ctrl_write_pending(): latest wins, but a mode change (writeFull)   *)
(* always writes the whole set.                                            *)
RoundThrottleWins == IF mode = "Normal" THEN ModeWrites(mode, power)  \* mutant
                     ELSE PowerWrites(mode, power)
Round == IF writeFull \/ mode = "Normal" THEN ModeWrites(mode, power)
         ELSE PowerWrites(mode, power)

WakePending ==
  /\ task = "wait" /\ ~undoPending /\ ~Expired /\ notified
  /\ notified' = FALSE /\ writeFull' = FALSE
  /\ job' = Round
  /\ task' = "write" /\ at' = 1
  /\ failed' = FALSE
  /\ UNCHANGED << request, clock, undo, nvs, inv, caller, guard, bounds >>

(* One register. A write that is lost, refused or left unconfirmed counts  *)
(* as failed only where it is read back.                                   *)
WriteRegister ==
  /\ task # "wait" /\ at <= Len(job)
  /\ at' = at + 1
  /\ \/ /\ inv' = [inv EXCEPT ![job[at].reg] = job[at].val]
        /\ UNCHANGED failed
     \/ /\ WritesMayFail
        /\ \/ UNCHANGED inv
           \/ inv' = [inv EXCEPT ![job[at].reg] = job[at].val]
        /\ failed' = (failed \/ job[at].verify)
  /\ UNCHANGED << request, clock, writeFull, notified, undo, nvs, task, job, caller, guard, bounds >>

EndWrite ==
  /\ task = "write" /\ at > Len(job)
  /\ task' = "wait" /\ job' = <<>> /\ at' = 1
  /\ UNCHANGED << request, clock, writeFull, notified, undo, nvs, failed, inv, caller, guard, bounds >>

(* Second half of fall_back_to_normal() and of the undo round: the stored  *)
(* mode goes only when no read-back failed; the undo stops on success or   *)
(* after UndoTries.                                                        *)
ForgetAlways == TRUE                                   \* mutant: cleared unconfirmed
Confirmed == ~failed
UndoOver == ~failed \/ undoTries >= UndoTries

EndFallBack ==
  /\ task = "fall" /\ at > Len(job)
  /\ nvsMode' = IF Confirmed THEN "Normal" ELSE nvsMode
  /\ undoPending' = (undoPending /\ ~UndoOver)
  /\ task' = "wait" /\ job' = <<>> /\ at' = 1
  /\ UNCHANGED << request, clock, writeFull, notified, undoTries, nvsPower, failed, inv, caller, guard, bounds >>

-----------------------------------------------------------------------------
(* Environment: time, and a restart of the display followed by             *)
(* deye_ctrl_start(). The inverter keeps its registers, NVS its values.    *)

Tick ==
  /\ mode # "Normal" /\ age <= limit
  /\ age' = age + 1
  /\ UNCHANGED << request, limit, writeFull, notified, undo, nvs, writer, caller, guard, bounds >>

Restart ==
  LET kept == nvsMode # "Normal" /\ nvsPower >= PowerFloor /\ nvsPower <= PowerMax
      p    == IF kept THEN nvsPower ELSE PowerBoot IN
  /\ restarts < MaxRestarts
  /\ restarts' = restarts + 1
  /\ mode' = nvsMode /\ power' = p /\ userPower' = p
  /\ undoPending' = (nvsMode # "Normal") /\ undoTries' = 0
  /\ limit' = ForceLimit /\ age' = 0
  /\ writeFull' = FALSE /\ notified' = FALSE
  /\ failed' = FALSE /\ task' = "wait" /\ job' = <<>> /\ at' = 1
  /\ caller' = [c \in Clients |-> Idle] /\ guard' = 0
  /\ UNCHANGED << nvs, inv, ops >>

Next ==
  \/ \E c \in Clients, k \in Kinds, m \in Modes, p \in AskedPowers : BeginApply(c, k, m, p)
  \/ \E c \in Clients : FinishApply(c)
  \/ \E c \in Clients, p \in AskedPowers : BeginRetune(c, p)
  \/ \E c \in Clients : FinishRetune(c)
  \/ \E p \in GuardPowers : GuardDecide(p)
  \/ GuardThrottle
  \/ WakeUndo \/ WakeExpired \/ WakePending
  \/ WriteRegister \/ EndWrite \/ EndFallBack
  \/ Tick \/ Restart

(* The task and the callers are FreeRTOS tasks that run whenever they are  *)
(* ready, and the task wakes at least every 10 s: weak fairness of each of *)
(* their steps. Time passes. Nobody has to call, and nothing has to fail.  *)
Fairness ==
  /\ WF_vars(WakeUndo) /\ WF_vars(WakeExpired) /\ WF_vars(WakePending)
  /\ WF_vars(WriteRegister) /\ WF_vars(EndWrite) /\ WF_vars(EndFallBack)
  /\ \A c \in Clients : WF_vars(FinishApply(c)) /\ WF_vars(FinishRetune(c))
  /\ WF_vars(GuardThrottle) /\ WF_vars(Tick)

Spec == Init /\ [][Next]_vars /\ Fairness

-----------------------------------------------------------------------------
(* Properties *)

RealPowers == PowerFloor..PowerMax
RegWrites == [reg : Regs, val : Nat, verify : BOOLEAN]
Calls == [pc : {"idle", "apply", "retune"}, mode : Modes, power : {0} \cup RealPowers]

(* Every variable of deye_ctrl.c has a value of its kind: powers stay in   *)
(* the range the inverter takes, the task is inside its list of writes.    *)
TypeOK ==
  /\ mode \in Modes /\ power \in RealPowers /\ userPower \in RealPowers
  /\ limit \in AutoLimits \cup {ForceLimit} /\ age \in Nat
  /\ writeFull \in BOOLEAN /\ notified \in BOOLEAN
  /\ undoPending \in BOOLEAN /\ undoTries \in 0..UndoTries
  /\ failed \in BOOLEAN
  /\ nvsMode \in Modes /\ nvsPower \in {0} \cup RealPowers
  /\ inv \in [Regs -> Nat]
  /\ task \in {"wait", "write", "fall"}
  /\ job \in Seq(RegWrites)
  /\ at \in 1..(Len(job) + 1)
  /\ caller \in [Clients -> Calls]
  /\ guard \in {0} \cup GuardPowers
  /\ ops \in 0..MaxOps /\ restarts \in 0..MaxRestarts

Quiet ==                      \* nobody is inside a call and the task has nothing to do
  /\ task = "wait" /\ ~notified /\ ~undoPending /\ guard = 0
  /\ \A c \in Clients : caller[c].pc = "idle"

(* The inverter is in mode m at power p. *)
Holds(m, p) ==
  CASE m = "Normal"    -> inv = NormalRegs
    [] m = "Discharge" -> inv[142] = 3 /\ inv[143] = p
    [] m = "Charge"    -> /\ inv[126] = p /\ inv[128] = p \div 50
                          /\ inv[127] = ChargeSoc /\ inv[166] = ChargeSoc /\ inv[172] = 1

(* Whatever applies, retunes, throttles and fallbacks were interleaved:    *)
(* when all is quiet the inverter runs the mode and the power deye_ctrl    *)
(* reports. Holds where writes succeed and nothing restarts.               *)
SettledMatches == Quiet => Holds(mode, power)

Promise == INSTANCE WriteBehind WITH
             Requests <- Modes \X RealPowers, want <- << mode, power >>,
             current <- Holds(mode, power), busy <- ~Quiet

(* The caller's view: registers change only while a request is worked on,  *)
(* and the work of write_pending() and of the fallbacks always ends, with  *)
(* the last request in the inverter.                                       *)
Contract == Promise!Spec

(* fall_back_to_normal() forgets the stored mode only with the inverter    *)
(* back at Zero Export and full sell power, both read back, however many   *)
(* writes were lost on the way.                                            *)
FallBackConfirmed ==
  [][task = "fall" /\ task' = "wait" /\ nvsMode' # nvsMode
       => inv[142] = 2 /\ inv[143] = PowerMax]_vars

(* A forced mode cannot outlive its window: once nobody asks any more, the *)
(* inverter ends up in Normal and stays there (DEYE_FORCE_MAX_S).          *)
EventuallyNormal == <>[](mode = "Normal" /\ inv = NormalRegs)

(* The undo after a restart ends, confirmed or given up, even on a dead    *)
(* bus: the task does not write to it for ever.                            *)
UndoEnds == undoPending ~> ~undoPending

=============================================================================
