----------------------------- MODULE PvForecast ----------------------------
(***************************************************************************)
(* main/pv_forecast.c: each plane's forecast from the stored weather, the  *)
(* measurement of today in memory that survives a software restart, and    *)
(* the factor a day with enough measurement teaches. An energy is the set  *)
(* of the intervals it was integrated over, a factor the set of the        *)
(* settings it was learnt under: {} is 1.0.                                *)
(***************************************************************************)
EXTENDS Integers, FiniteSetsExt

CONSTANTS
  Planes,       \* 1..EM_MAX_PLANES
  Settings,     \* plane settings: Planes -> [geo, meter], geometry and meter
  SlotsADay, MaxGap, Cover,  \* a day; PV_MAX_GAP_S; the cover that counts
  Period, BackoffTop,        \* PV_FC_PERIOD_S, the last step of BACKOFF_S
  MaxEvents,    \* bound: settings saved, restarts, failed writes and fetches
  MaxPvTime     \* bound: time

NoMeter == "none"             \* EM_METER_NONE
ASSUME PvAssumption ==
  /\ Planes \subseteq Nat \ {0}
  /\ {SlotsADay, Period, BackoffTop} \subseteq Nat \ {0} /\ {MaxGap, Cover, MaxEvents, MaxPvTime} \subseteq Nat
  /\ \A c \in Settings : DOMAIN c = Planes

VARIABLES
  pvNow, clockSet,  \* the time; the clock is set
  pvCfg,            \* s_cfg's planes as the settings hold them
  sig,              \* s_sig: the plane each factor and forecast belongs to
  cal, calRec,      \* s_cal; the record in NVS
  wx, raw,          \* s_wx_t0; s_raw_sig, the plane each forecast is for
  fetch,            \* s_next_fetch, s_backoff, s_req
  dayT0, lastTick,  \* s_day_t0, s_last_tick
  grp, meas,        \* s_grp_meas_kwh and s_grp_fc_kwh by leader; s_meas_kwh
  keep,             \* s_keep: day, meter and energy of every plane
  events
pvVars == << pvNow, clockSet, pvCfg, sig, cal, calRec, wx, raw, fetch, dayT0, lastTick, grp, meas, keep, events >>

Unset == -1
Nothing == [p \in Planes |-> {}]
NoKeep == [day |-> Unset, meter |-> [p \in Planes |-> NoMeter], kwh |-> Nothing]
NoPlane == [geo |-> 0, meter |-> NoMeter]
NoRecord == [sig |-> [p \in Planes |-> NoPlane], cal |-> Nothing]

PvBoot(rec) ==
  /\ sig' = rec.sig /\ cal' = rec.cal /\ wx' = Unset /\ raw' = [p \in Planes |-> NoPlane]
  /\ fetch' = [next |-> 0, back |-> 0, req |-> FALSE]
  /\ dayT0' = Unset /\ lastTick' = Unset /\ grp' = Nothing /\ meas' = Nothing

PvInit ==
  /\ pvNow = 0 /\ clockSet = FALSE /\ pvCfg \in Settings
  /\ calRec = NoRecord /\ sig = NoRecord.sig /\ cal = NoRecord.cal
  /\ wx = Unset /\ raw = [p \in Planes |-> NoPlane] /\ fetch = [next |-> 0, back |-> 0, req |-> FALSE]
  /\ dayT0 = Unset /\ lastTick = Unset /\ grp = Nothing /\ meas = Nothing
  /\ keep = NoKeep /\ events = 0

Today == pvNow - (pvNow % SlotsADay)
Metered(p) == pvCfg[p].meter # NoMeter
Group(p) == {q \in Planes : pvCfg[q].meter = pvCfg[p].meter}
Leader(p) == Min(Group(p))                              \* group_leader()

----------------------------------------------------------------------------
(* sync_planes(): a plane that changed starts over at 1.0, and any change  *)
(* drops the sums of today.                                                *)
Changed == {p \in Planes : sig[p] # pvCfg[p]}
SyncedCal == [p \in Planes |-> IF p \in Changed THEN {} ELSE cal[p]]
DropNothing(sums) == sums
DropSums(sums) == IF Changed # {} THEN Nothing ELSE sums

(* raw_ok(): the forecast of plane p was computed for the plane it is now. *)
RawOk(p) == wx # Unset /\ raw[p] = pvCfg[p]
Covers(t) == wx <= t /\ t < wx + 2 * SlotsADay

(* integrate(): the interval since the last tick, for every meter that     *)
(* answers; a silent inverter at night counts as no production.            *)
Counted == lastTick # Unset /\ lastTick < pvNow /\ pvNow - lastTick <= MaxGap
SlotOf(t) == IF dayT0 # Unset /\ dayT0 <= t /\ t < dayT0 + SlotsADay THEN {t} ELSE {}

KeptMeters == \* a plane whose meter changed starts its curve over
  [keep EXCEPT !.meter = [p \in Planes |-> pvCfg[p].meter],
               !.kwh = [p \in Planes |-> IF keep.meter[p] = pvCfg[p].meter THEN keep.kwh[p] ELSE {}]]

(* meter_w(): the planes whose meter has a fresh value.                    *)
Heard(online) == {p \in Planes : Metered(p) /\ pvCfg[p].meter \in online}

Integrated(online) ==
  LET heard == Heard(online)
      ok(p) == \A q \in Group(p) : RawOk(q) /\ Covers(lastTick)
      energy(p) == {[t |-> t, meter |-> pvCfg[p].meter] : t \in SlotOf(lastTick)}
  IN  IF ~Counted THEN [grp |-> DropSums(grp), meas |-> DropSums(meas), keep |-> keep]
      ELSE [grp |-> [p \in Planes |-> DropSums(grp)[p] \cup
                       IF p \in heard /\ Leader(p) = p /\ ok(p) THEN {[t |-> lastTick, cfg |-> pvCfg]} ELSE {}],
            meas |-> [p \in Planes |-> DropSums(meas)[p] \cup
                       IF p \in heard THEN {[t |-> lastTick, meter |-> pvCfg[p].meter]} ELSE {}],
            keep |-> [KeptMeters EXCEPT !.kwh = [p \in Planes |-> @[p] \cup IF p \in heard THEN energy(p) ELSE {}]]]

(* calibrate(): a day covered well enough moves every factor of the group. *)
Learnt(sums) ==
  [p \in Planes |->
     IF /\ Metered(p) /\ \A q \in Group(p) : RawOk(q)
        /\ Cardinality(sums[Leader(p)]) > Cover
     THEN SyncedCal[p] \cup {x.cfg : x \in sums[Leader(p)]} ELSE SyncedCal[p]]

(* keep_open_day(): what a software restart left of today, else empty.     *)
StillValid(k) == k.day = Today
Opened(k) ==
  IF StillValid(k)
  THEN [day |-> Today, meter |-> [p \in Planes |-> pvCfg[p].meter],
        kwh |-> [p \in Planes |-> IF k.meter[p] = pvCfg[p].meter THEN k.kwh[p] ELSE {}]]
  ELSE [day |-> Today, meter |-> [p \in Planes |-> pvCfg[p].meter], kwh |-> Nothing]

Event == events < MaxEvents /\ events' = events + 1

(* save_cal() *)
Stored(save, c) == calRec' = IF save THEN [sig |-> pvCfg, cal |-> c] ELSE calRec

(* compute_raw(): from the stored weather, for the plane as it is now.      *)
Computed(w) == IF w # Unset THEN pvCfg ELSE raw

(* maybe_fetch(), and every plane whose forecast is not its own any more.  *)
Fetched(answer) ==
  LET due == fetch.req \/ pvNow >= fetch.next
      back == IF answer THEN 0 ELSE Min({fetch.back + 1, BackoffTop})
  IN  /\ wx' = IF due /\ answer THEN Today ELSE wx
      /\ fetch' = IF ~due THEN fetch
                  ELSE [next |-> pvNow + IF answer THEN Period ELSE fetch.back + 1, back |-> back, req |-> FALSE]
      /\ raw' = Computed(wx')

(* pv_forecast_tick() with the clock set. *)
PvTick(online, answer, save) ==
  LET i    == Integrated(online)
      roll == dayT0 # Today
      c    == IF roll /\ dayT0 # Unset THEN Learnt(i.grp) ELSE SyncedCal
      k    == IF roll THEN Opened(i.keep) ELSE i.keep
  IN
  /\ clockSet /\ lastTick # pvNow
  /\ IF answer /\ save THEN events' = events ELSE Event
  /\ sig' = pvCfg /\ cal' = c
  /\ IF Changed # {} \/ c # SyncedCal THEN Stored(save, c) ELSE calRec' = calRec
  /\ dayT0' = Today /\ lastTick' = pvNow /\ keep' = k
  /\ grp' = IF roll THEN Nothing ELSE i.grp
  /\ meas' = IF ~roll THEN i.meas ELSE IF StillValid(i.keep) THEN k.kwh ELSE Nothing
  /\ Fetched(answer)
  /\ UNCHANGED << pvNow, clockSet, pvCfg >>

(* ... and before the clock is set. *)
PvTickNoClock(save) ==
  /\ ~clockSet /\ (Changed # {} \/ lastTick # Unset)
  /\ IF save THEN events' = events ELSE Event
  /\ sig' = pvCfg /\ cal' = SyncedCal
  /\ IF Changed # {} THEN Stored(save, SyncedCal) ELSE calRec' = calRec
  /\ grp' = DropSums(grp) /\ meas' = DropSums(meas) /\ lastTick' = Unset
  /\ UNCHANGED << pvNow, clockSet, pvCfg, wx, raw, fetch, dayT0, keep >>

PvRequest ==
  /\ ~fetch.req /\ Event /\ fetch' = [fetch EXCEPT !.req = TRUE]
  /\ UNCHANGED << pvNow, clockSet, pvCfg, sig, cal, calRec, wx, raw, dayT0, lastTick, grp, meas, keep >>

SavePlanes(c) ==
  /\ c # pvCfg /\ Event /\ pvCfg' = c
  /\ UNCHANGED << pvNow, clockSet, sig, cal, calRec, wx, raw, fetch, dayT0, lastTick, grp, meas, keep >>

(* A software restart keeps s_keep; a power cut does not.                  *)
PvRestart(power) ==
  /\ Event /\ PvBoot(calRec) /\ clockSet' = FALSE
  /\ keep' = IF power THEN NoKeep ELSE keep
  /\ UNCHANGED << pvNow, pvCfg, calRec >>

PvClock ==
  /\ IF clockSet THEN pvNow < MaxPvTime /\ pvNow' = pvNow + 1 /\ clockSet' = TRUE
     ELSE clockSet' = TRUE /\ pvNow' = pvNow
  /\ UNCHANGED << pvCfg, sig, cal, calRec, wx, raw, fetch, dayT0, lastTick, grp, meas, keep, events >>

Meters == UNION {{c[p].meter : p \in Planes} : c \in Settings} \ {NoMeter}
PvNext ==
  \/ \E online \in SUBSET Meters, answer, save \in BOOLEAN : PvTick(online, answer, save)
  \/ \E save \in BOOLEAN : PvTickNoClock(save)
  \/ PvRequest \/ (\E c \in Settings : SavePlanes(c)) \/ (\E power \in BOOLEAN : PvRestart(power)) \/ PvClock
PvSpec == PvInit /\ [][PvNext]_pvVars

----------------------------------------------------------------------------
(* A factor has been learnt from the plane it belongs to alone: neither a  *)
(* change in the middle of the day, nor a restart, nor a record that could *)
(* not be written lets it learn from another geometry or another meter.    *)
FactorFits == \A p \in Planes : \A c \in cal[p] : c[p] = sig[p]
=============================================================================
