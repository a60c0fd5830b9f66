---------------------------- MODULE FroniusMeter ----------------------------
(***************************************************************************)
(* main/fronius_meter.c: the Deye served to the Symo as a producer meter,  *)
(* and the energy counter integrated from the rounds of the RS485 master.  *)
(* The Deye draws a constant power, so energy is time, in watt-hours.      *)
(***************************************************************************)
EXTENDS Integers

CONSTANTS
  Stale,       \* FRM_STALE_MS
  GapMax,      \* ROUND_GAP_MAX_US
  SaveEvery,   \* ENERGY_SAVE_US
  PerKwh,      \* watt-hours in a kilowatt-hour
  MaxTime,     \* bound: the clock
  MaxFrmRestarts  \* bound: power failures

ASSUME FrmAssumption ==
  /\ Stale \in Nat /\ GapMax \in Nat /\ SaveEvery \in Nat
  /\ PerKwh \in Nat \ {0} /\ MaxTime \in Nat /\ MaxFrmRestarts \in Nat
  /\ Stale <= GapMax

VARIABLES
  time,       \* esp_timer_get_time()
  round,      \* when the Deye was last read; 0: never (mb_deye_live_t.age_ms)
  online,     \* l.valid, l.online and the OUT block was read
  enabled,    \* frm_enabled
  lastRound,  \* s_last_round_us; 0: none
  energy, saved, savedAt, loaded,  \* s_e, s_e_saved, s_e_saved_us, s_e_loaded
  nvsEnergy,  \* the record in NVS
  heard,      \* ghost: time between rounds no more than GapMax apart
  seen,       \* what the Symo has read last, or Unread
  booked,     \* what it has booked as production since it was scanned
  frmRestarts

deyeRound == << round, online >>
counter == << lastRound, energy, saved, savedAt, loaded >>
symoSide == << seen, booked >>
frmVars == << time, deyeRound, enabled, counter, nvsEnergy, heard, symoSide, frmRestarts >>

Unread == [kwh |-> -1, wh |-> 0]

FrmInit ==
  /\ time = 1 /\ round = 0 /\ online = FALSE /\ enabled \in BOOLEAN
  /\ lastRound = 0 /\ energy = 0 /\ saved = 0 /\ savedAt = 0 /\ loaded = FALSE
  /\ nvsEnergy = 0 /\ heard = 0 /\ seen = Unread /\ booked = 0 /\ frmRestarts = 0

(* poll_deye() of main/modbus_rtu.c ends a round, or fails. *)
DeyeRound ==
  /\ round' = time /\ online' = TRUE
  /\ heard' = IF round # 0 /\ time - round <= GapMax THEN heard + (time - round) ELSE heard
  /\ UNCHANGED << time, enabled, counter, nvsEnergy, symoSide, frmRestarts >>
DeyeLost ==
  /\ online /\ online' = FALSE
  /\ UNCHANGED << time, round, enabled, counter, nvsEnergy, heard, symoSide, frmRestarts >>

(* snapshot(): what may be served to the Symo. *)
FreshRound == online /\ time - round <= Stale

-----------------------------------------------------------------------------
(* fronius_meter_tick(): the counter is loaded once, a round is integrated *)
(* over the time since the one before; a longer gap is not bridged, and    *)
(* the first round after silence only starts the integration.              *)
Bridged(dt) == dt > 0                           \* mutant: a gap is bridged
Counts(dt) == dt > 0 /\ dt <= GapMax
LoadedEnergy == IF loaded THEN energy ELSE nvsEnergy
Integrated == IF lastRound # 0 /\ Counts(round - lastRound) THEN round - lastRound ELSE 0

SaveDue == LET at == IF loaded THEN savedAt ELSE time
               was == IF loaded THEN saved ELSE nvsEnergy
           IN  time - at > SaveEvery /\ energy' # was

(* The record is written at most once in SaveEvery, and may be refused.    *)
FrmTick ==
  /\ loaded' = TRUE
  /\ IF enabled /\ FreshRound
     THEN energy' = LoadedEnergy + Integrated /\ lastRound' = round
     ELSE energy' = LoadedEnergy /\ lastRound' = 0
  /\ IF SaveDue
     THEN /\ savedAt' = time
          /\ \/ nvsEnergy' = energy' /\ saved' = energy'
             \/ UNCHANGED << nvsEnergy, saved >>
     ELSE /\ savedAt' = IF loaded THEN savedAt ELSE time
          /\ saved' = IF loaded THEN saved ELSE nvsEnergy
          /\ nvsEnergy' = nvsEnergy
  /\ UNCHANGED << time, deyeRound, enabled, heard, symoSide, frmRestarts >>

-----------------------------------------------------------------------------
(* fronius_meter_answer(): a read of the counters while there is a fresh   *)
(* round; without one the meter is silent, and no other read has an effect. *)
(* They are served as whole kilowatt-hours and the watt-hours beyond them, *)
(* both from the counter as it is.                                         *)
Pair == [kwh |-> energy \div PerKwh, wh |-> energy % PerKwh]
ReadAs(pair) == pair.kwh * PerKwh + pair.wh
(* The Symo builds differences: a counter that went back is its new start. *)
Gained(pair) == IF seen # Unread /\ ReadAs(pair) > ReadAs(seen) THEN ReadAs(pair) - ReadAs(seen) ELSE 0
SymoReads ==
  /\ enabled /\ loaded /\ FreshRound
  /\ seen' = Pair /\ booked' = booked + Gained(Pair)
  /\ UNCHANGED << time, deyeRound, enabled, counter, nvsEnergy, heard, frmRestarts >>

(* frm_set_handler() switches the meter on or off.                         *)
SwitchMeter ==
  /\ enabled' = ~enabled
  /\ UNCHANGED << time, deyeRound, counter, nvsEnergy, heard, symoSide, frmRestarts >>

(* A power failure: what was counted since the last save is gone. *)
FrmRestart ==
  /\ frmRestarts < MaxFrmRestarts /\ frmRestarts' = frmRestarts + 1
  /\ round' = 0 /\ online' = FALSE /\ lastRound' = 0
  /\ energy' = 0 /\ saved' = 0 /\ savedAt' = 0 /\ loaded' = FALSE
  /\ UNCHANGED << time, enabled, nvsEnergy, heard, symoSide >>

FrmClock ==
  /\ time < MaxTime /\ time' = time + 1
  /\ UNCHANGED << deyeRound, enabled, counter, nvsEnergy, heard, symoSide, frmRestarts >>

FrmNext == DeyeRound \/ DeyeLost \/ FrmTick \/ SymoReads \/ SwitchMeter \/ FrmRestart \/ FrmClock
FrmSpec == FrmInit /\ [][FrmNext]_frmVars

-----------------------------------------------------------------------------
(* Every stretch of time is counted at most once, and only when the Deye   *)
(* was heard at both its ends; and what the Symo books from the pairs it   *)
(* reads is never more than that, whatever outages, restarts and switching *)
(* lie between.                                                            *)
CountedOnce == energy <= heard /\ booked <= heard
=============================================================================
