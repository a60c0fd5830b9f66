------------------------------ MODULE MeterEmu ------------------------------
(***************************************************************************)
(* The slave side of main/modbus_rtu.c: the display answers the Deye in    *)
(* the place of its SDM630 meter. do_slave() decides whether to answer,    *)
(* compute_served() what: the real grid power less the setpoint, bent by a *)
(* hold or lock so that the battery does not discharge, and by the         *)
(* operator's manipulation. The three phases are treated alike, so one     *)
(* number stands for them. Times are counted in clock units.               *)
(***************************************************************************)
EXTENDS Integers

CONSTANTS
  Watts, Outputs,  \* grid readings; AC outputs of the inverter, + delivers
  Setpoints, SpMax, \* grid setpoints asked for, MB_GRID_SP_MAX_W
  Manips,          \* manipulations: records [mode, w]
  ClampW,          \* MB_SERVED_CLAMP_W
  MaxAge, OutAge,  \* MB_GRID_MAX_AGE_MS; age up to which the output counts
  HoldS,           \* slave_hold_s, the bridge
  ManipMax,        \* MB_MANIP_MAX_S
  PollMax,         \* the Deye asks at least this often
  HoldRenew        \* HOLD_RENEW_S, BAT_LOCK_RENEW_S

ASSUME MeterAssumption ==
  /\ Watts \subseteq Int /\ Outputs \subseteq Int /\ Setpoints \subseteq Int
  /\ SpMax \in Nat
  /\ \A m \in Manips : m.mode \in {"off", "offset", "abs", "scale"} /\ m.w \in Int
  /\ ClampW \in Nat /\ MaxAge \in Nat /\ OutAge \in Nat /\ HoldS \in Nat
  /\ ManipMax \in Nat /\ PollMax \in Nat \ {0}
  /\ HoldRenew \in Nat

VARIABLES
  gridRead,            \* s_grid_*: last reading of the grid meter, and its age
  phases,          \* s_ph[s_ph_grid_idx]: last reading by phase, summed
  live,            \* inv_total of s_live, whether its block is current, its age
  sp, bridge,      \* s_grid_sp; slave_hold_s
  hold, lock,      \* time left of s_hold_until_ms, s_lock_until_ms
  manip,           \* s_manip, and the time since s_manip_ms
  wasFresh, stale, \* s_grid_was_fresh; time since s_stale_since
  told,            \* the answer just given, {} if none
  pollAge          \* time since the Deye last asked

meterVars == << gridRead, phases, live, sp, bridge, hold, lock, manip, wasFresh,
                stale, told, pollAge >>

Forever == -1      \* MB_SLAVE_HOLD_FOREVER
Nothing == {}

AgeCap == MaxAge + PollMax + HoldS + 1
GrownTo(a, cap) == IF a < cap THEN a + 1 ELSE a
Less(t) == IF t > 0 THEN t - 1 ELSE 0
LeastOf(a, b) == IF a < b THEN a ELSE b

-----------------------------------------------------------------------------
MeterInit ==
  /\ gridRead = [ok |-> FALSE, w |-> 0, age |-> 0]
  /\ phases = [ok |-> FALSE, w |-> 0, age |-> 0]
  /\ live = [ok |-> FALSE, out |-> 0, age |-> 0]
  /\ sp = 0 /\ bridge \in {HoldS, Forever}
  /\ hold = 0 /\ lock = 0
  /\ manip = [on |-> FALSE, mode |-> "offset", w |-> 0, age |-> 0]
  /\ wasFresh = TRUE /\ stale = 0
  /\ told = Nothing /\ pollAge = 0

(* modbus_tcp_grid_w_fresh() and modbus_tcp_grid_phases_fresh(): a reading *)
(* counts up to an age of 12 s, by each task's own look.                   *)
FreshAny(r) == r.ok                                     \* mutant: ever read
Fresh(r) == r.ok /\ r.age <= MaxAge

(* The worker of the grid meter has a new reading, with or without phases: *)
(* p is {} or the one reading.                                             *)
ReadGrid(w, p) ==
  /\ gridRead' = [ok |-> TRUE, w |-> w, age |-> 0]
  /\ \/ p = Nothing /\ phases' = phases
     \/ \E x \in p : phases' = [ok |-> TRUE, w |-> x, age |-> 0]
  /\ told' = Nothing
  /\ UNCHANGED << live, sp, bridge, hold, lock, manip, wasFresh, stale, pollAge >>

(* A poll of the inverter has ended: with its output block, or without it  *)
(* since somebody waited for the bus or the block failed.                  *)
ReadOutput(o) ==
  /\ \/ o = Nothing /\ live' = [ok |-> FALSE, out |-> 0, age |-> 0]
     \/ \E x \in o : live' = [ok |-> TRUE, out |-> x, age |-> 0]
  /\ told' = Nothing
  /\ UNCHANGED << gridRead, phases, sp, bridge, hold, lock, manip, wasFresh, stale, pollAge >>

Within(v, m) == IF v > m THEN m ELSE IF v < -m THEN -m ELSE v

(* modbus_rtu_set_grid_setpoint() *)
SetGridSetpoint(w) ==
  /\ sp' = Within(w, SpMax) /\ told' = Nothing
  /\ UNCHANGED << gridRead, phases, live, bridge, hold, lock, manip, wasFresh, stale, pollAge >>

(* modbus_rtu_set_manip(): the two hours start when it is switched on, not *)
(* when it is edited.                                                      *)
AgeOfManip(on) == IF on /\ ~manip.on THEN 0 ELSE manip.age
SetManip(on, m) ==
  /\ manip' = [on |-> on, mode |-> m.mode, w |-> Within(m.w, ClampW),
             age |-> AgeOfManip(on)]
  /\ told' = Nothing
  /\ UNCHANGED << gridRead, phases, live, sp, bridge, hold, lock, wasFresh, stale, pollAge >>

-----------------------------------------------------------------------------
OutputKnown == live.ok /\ live.age < OutAge
Held == hold > 0 \/ lock > 0

(* The power after the setpoint and the hold: what the Deye regulates to 0 *)
(* is its own delivery while that is more than the house needs.            *)
Real == IF Fresh(phases) THEN phases.w ELSE gridRead.w
Normal == Real - sp
Shifted == IF Held /\ OutputKnown THEN LeastOf(Normal, -live.out) ELSE Normal

Bends(v) == [off |-> v, offset |-> v + manip.w, abs |-> manip.w, scale |-> v * manip.w]
Bent(v) == IF manip.on THEN Bends(v)[manip.mode] ELSE v

(* What compute_served() makes of it, and sdm630_response(): a read of no  *)
(* register or of more than 125 gets no answer.                            *)
Served(v, readable) == IF ~readable THEN Nothing
                       ELSE IF Fresh(gridRead) THEN {Within(v, ClampW)} ELSE {0}

(* do_slave(): how long the reading has been stale, as this poll sees it.  *)
StaleNow == IF wasFresh THEN 0 ELSE stale

BridgeOver == bridge # Forever /\ StaleNow > bridge

AnsweredOrNot ==
  /\ wasFresh' = Fresh(gridRead)
  /\ stale' = IF Fresh(gridRead) THEN 0 ELSE StaleNow
  /\ pollAge' = 0
  /\ UNCHANGED << gridRead, phases, live, sp, bridge, hold, lock >>

KeepSilent ==
  /\ ~Fresh(gridRead) /\ BridgeOver
  /\ told' = Nothing /\ manip' = manip
  /\ AnsweredOrNot

AnswerPoll(readable) ==
  /\ Fresh(gridRead) \/ ~BridgeOver
  /\ \/ /\ manip.on /\ manip.age > ManipMax
        /\ manip' = [manip EXCEPT !.on = FALSE]
        /\ told' = Served(Shifted, readable)
     \/ /\ ~(manip.on /\ manip.age > ManipMax)
        /\ manip' = manip
        /\ told' = Served(Bent(Shifted), readable)
  /\ AnsweredOrNot

-----------------------------------------------------------------------------
(* modbus_rtu_set_hold() and modbus_rtu_set_lock(): two sources, neither   *)
(* lifts the other's.                                                      *)
SetHold(t) ==
  /\ hold' = t /\ told' = Nothing
  /\ UNCHANGED << gridRead, phases, live, sp, bridge, lock, manip, wasFresh, stale, pollAge >>
SetMeterLock(t) ==
  /\ lock' = t /\ told' = Nothing
  /\ UNCHANGED << gridRead, phases, live, sp, bridge, hold, manip, wasFresh, stale, pollAge >>

MeterClock ==
  /\ pollAge < PollMax
  /\ pollAge' = pollAge + 1
  /\ gridRead' = [gridRead EXCEPT !.age = GrownTo(@, AgeCap)]
  /\ phases' = [phases EXCEPT !.age = GrownTo(@, MaxAge + 1)]
  /\ live' = [live EXCEPT !.age = GrownTo(@, OutAge)]
  /\ manip' = [manip EXCEPT !.age = GrownTo(@, ManipMax + 1)]
  /\ hold' = Less(hold) /\ lock' = Less(lock)
  /\ stale' = IF wasFresh THEN 0 ELSE GrownTo(stale, HoldS + 1)
  /\ told' = Nothing
  /\ UNCHANGED << sp, bridge, wasFresh >>

(* modbus_rtu_start() after a restart: setpoint and configuration come     *)
(* from NVS, the manipulation is loaded switched off (load_manip()).       *)
LoadedManip == [manip EXCEPT !.on = FALSE, !.age = 0]
MeterRestart ==
  /\ gridRead' = [ok |-> FALSE, w |-> 0, age |-> 0]
  /\ phases' = [ok |-> FALSE, w |-> 0, age |-> 0]
  /\ live' = [ok |-> FALSE, out |-> 0, age |-> 0]
  /\ hold' = 0 /\ lock' = 0
  /\ manip' = LoadedManip
  /\ wasFresh' = TRUE /\ stale' = 0
  /\ told' = Nothing /\ pollAge' = 0
  /\ UNCHANGED << sp, bridge >>

OneOrNone(S) == {{}} \cup {{x} : x \in S}
MeterNext ==
  \/ \E w \in Watts, p \in OneOrNone(Watts) : ReadGrid(w, p)
  \/ \E o \in OneOrNone(Outputs) : ReadOutput(o)
  \/ \E w \in Setpoints : SetGridSetpoint(w)
  \/ \E on \in BOOLEAN, m \in Manips : SetManip(on, m)
  \/ \E t \in {0, HoldRenew} : SetHold(t) \/ SetMeterLock(t)
  \/ (\E r \in BOOLEAN : AnswerPoll(r)) \/ KeepSilent \/ MeterClock \/ MeterRestart

MeterSpec == MeterInit /\ [][MeterNext]_meterVars

-----------------------------------------------------------------------------
(* The Deye is told something other than 0 W only on a reading that is not *)
(* older than MaxAge, and without a fresh reading it is told anything at   *)
(* all no longer than the bridge, counted from the last reading or the     *)
(* start: the dead sensor of main/modbus_rtu.c do_slave().                 *)
OldNeverServed ==
  \A t \in told :
    /\ t # 0 => gridRead.ok /\ gridRead.age <= MaxAge
    /\ bridge # Forever => gridRead.age <= MaxAge + PollMax + HoldS

(* A battery that is held, by the manager or by the operator's lock, is not *)
(* made to discharge: with the grid and the inverter's own output known and *)
(* nothing manipulated, the Deye is never shown more than what brings its   *)
(* delivery back to zero.                                                   *)
HeldNeverDriven ==
  (hold > 0 \/ lock > 0) /\ Fresh(gridRead) /\ OutputKnown /\ ~manip.on
    => \A t \in told : t <= Within(-live.out, ClampW)

(* What the Deye is told is both. *)
ToldRight == OldNeverServed /\ HeldNeverDriven
=============================================================================
