----------------------------- MODULE EmManager -----------------------------
(***************************************************************************)
(* The energy manager's tick (main/energy_mgr.c): settings, requests, feeds, *)
(* the plan and the record of the quarter hour; and its settings             *)
(* (main/em_cfg.c), which the web server and the MQTT task change while it   *)
(* works. A tick works with the time it began at; its feeds may take         *)
(* minutes, so quarter hours may end within it. What the plan does to the    *)
(* battery is BatteryArb.                                                    *)
(***************************************************************************)
EXTENDS Integers, FiniteSets

CONSTANTS
  Horizon,               \* quarter hours a new price list reaches
  MinSlots,              \* prices a plan needs
  MaxEmEdits,            \* bound on changes of the settings and on restarts
  MaxQuarters            \* bound on the clock

ASSUME EmAssumption == Horizon \in Nat /\ MinSlots \in 1..Horizon /\ MaxEmEdits \in Nat /\ MaxQuarters \in Nat

VARIABLES
  emCfg, emNvs,          \* s_cfg and the record in NVS
  writer,                \* em_cfg_set() and em_cfg_set_token() under way, by task
  emReq,                 \* s_req
  emTask,                \* where em_task() is, its `now`, its copy of settings and requests
  quarter,               \* the quarter hour of the wall clock
  priceEnd, priceNew,    \* the first quarter hour without a price; ps.fetched # s_price_seen
  pvNew,                 \* pv.fetched # s_pv_seen
  lastSlot,              \* s_last_plan_slot
  emPlan,                \* s_plan: from and until when, ghost: newer data came since
  deyeOn,                \* the Deye answers
  priceOf, record,       \* the quarter hours whose price is in s_st.price_now_ct, in s_price of s_cur
  emEdits
settingVars == << emCfg, emNvs, writer >>
emFeeds == << priceEnd, priceNew, pvNew >>
history == << priceOf, record >>
emVars == << settingVars, emReq, emTask, quarter, emFeeds, lastSlot, emPlan, deyeOn, history, emEdits >>

Writers == {"web", "mqtt"}
Default == 2             \* em_cfg.c:defaults()
Refusable == 9
Settled == [at |-> "idle", c |-> [mode |-> "off", soc |-> Default, token |-> "none"], tok |-> "kept"]
NoSlot == -1
NoPlan == [made |-> FALSE, from |-> 0, until |-> 0, oldPrice |-> FALSE, oldPv |-> FALSE]
Fresh == [slot |-> NoSlot, price |-> NoSlot]

EmInit ==
  /\ emCfg \in [mode : {"off", "on"}, soc : {Default}, token : {"none", "t"}] /\ emNvs = emCfg
  /\ writer = [w \in Writers |-> Settled] /\ emReq = {} /\ emTask = [at |-> "wait", now |-> 0, c |-> emCfg, req |-> {}]
  /\ quarter = 0 /\ priceEnd = 0 /\ priceNew = FALSE /\ pvNew = FALSE /\ lastSlot = NoSlot /\ emPlan = NoPlan
  /\ deyeOn = TRUE /\ priceOf = NoSlot /\ record = Fresh /\ emEdits = 0

----------------------------------------------------------------------------
(* em_cfg_get() and a change; em_cfg_set() fills in defaults, refuses what   *)
(* is out of range and keeps the token it finds; store() writes NVS, then   *)
(* the copy in RAM; the caller asks for a plan.                            *)
Filled(c) == [c EXCEPT !.soc = IF @ = 0 THEN Default ELSE @]
CfgGood(c) == c.soc # Refusable
Asks(w, c, t) ==
  /\ writer[w].at = "idle" /\ emEdits < MaxEmEdits /\ emEdits' = emEdits + 1
  /\ writer' = [writer EXCEPT ![w] = [at |-> "check", c |-> c, tok |-> t]]
  /\ UNCHANGED << emCfg, emNvs, emReq, emTask, quarter, emFeeds, lastSlot, emPlan, deyeOn, history >>
SetMode(w) == \E m \in {"off", "on"} : Asks(w, [emCfg EXCEPT !.mode = m], "kept")
PostCfg == \E s \in {0, 1, Refusable}, t \in {"kept", "none", "u"} : Asks("web", [emCfg EXCEPT !.soc = s], t)
CheckCfg(w) ==
  /\ writer[w].at = "check"
  /\ LET c == [Filled(writer[w].c) EXCEPT !.token = emCfg.token]
     IN writer' = [writer EXCEPT ![w] = IF CfgGood(c) THEN [@ EXCEPT !.at = "nvs", !.c = c] ELSE Settled]
  /\ UNCHANGED << emCfg, emNvs, emReq, emTask, quarter, emFeeds, lastSlot, emPlan, deyeOn, history, emEdits >>
EmSetToken(w) ==
  /\ writer[w].at = "token"
  /\ writer' = [writer EXCEPT ![w] = [at |-> "nvs", c |-> [emCfg EXCEPT !.token = writer[w].tok], tok |-> "kept"]]
  /\ UNCHANGED << emCfg, emNvs, emReq, emTask, quarter, emFeeds, lastSlot, emPlan, deyeOn, history, emEdits >>
StoreNvs(w, ok) ==
  /\ writer[w].at = "nvs"
  /\ IF ok THEN emNvs' = writer[w].c /\ writer' = [writer EXCEPT ![w].at = "ram"]
           ELSE writer' = [writer EXCEPT ![w] = Settled] /\ UNCHANGED emNvs
  /\ UNCHANGED << emCfg, emReq, emTask, quarter, emFeeds, lastSlot, emPlan, deyeOn, history, emEdits >>
StoreRam(w) ==
  /\ writer[w].at = "ram" /\ emCfg' = writer[w].c /\ writer' = [writer EXCEPT ![w].at = IF writer[w].tok = "kept" THEN "request" ELSE "token"]
  /\ UNCHANGED << emNvs, emReq, emTask, quarter, emFeeds, lastSlot, emPlan, deyeOn, history, emEdits >>
EmRequest(w) ==
  /\ writer[w].at = "request" /\ writer' = [writer EXCEPT ![w] = Settled]
  /\ \E r \in {{"plan"}, {"plan", "prices"}, {"plan", "forecast"}} : emReq' = emReq \cup r
  /\ UNCHANGED << emCfg, emNvs, emTask, quarter, emFeeds, lastSlot, emPlan, deyeOn, history, emEdits >>
Writer == \E w \in Writers : CheckCfg(w) \/ EmSetToken(w) \/ StoreNvs(w, TRUE) \/ StoreNvs(w, FALSE) \/ StoreRam(w) \/ EmRequest(w)

----------------------------------------------------------------------------
(* The start of a tick: the time is taken, the settings are copied, and      *)
(* em_hist_tick() is fed what the last describe() left.                      *)
Sampled(now) ==
  [slot |-> now, price |-> IF priceOf # NoSlot THEN priceOf ELSE IF record.slot = now THEN record.price ELSE NoSlot]
WakeTask ==
  /\ emTask.at = "wait" /\ emTask' = [at |-> "read", now |-> quarter, c |-> emCfg, req |-> {}]
  /\ record' = Sampled(quarter)
  /\ UNCHANGED << settingVars, emReq, quarter, emFeeds, lastSlot, emPlan, deyeOn, priceOf, emEdits >>
(* req = s_req; s_req = 0;                                                  *)
ReadReq ==
  /\ emTask.at = "read" /\ emTask' = [emTask EXCEPT !.at = "clear", !.req = emReq]
  /\ UNCHANGED << settingVars, emReq, quarter, emFeeds, lastSlot, emPlan, deyeOn, history, emEdits >>
ClearReq ==
  /\ emTask.at = "clear" /\ emTask' = [emTask EXCEPT !.at = "feeds"] /\ emReq' = {}
  /\ UNCHANGED << settingVars, quarter, emFeeds, lastSlot, emPlan, deyeOn, history, emEdits >>

(* price_feed_tick(), pv_forecast_tick(): either may bring new data.         *)
FeedsTick(price, pv) ==
  /\ emTask.at = "feeds" /\ emTask' = [emTask EXCEPT !.at = "plan"]
  /\ IF price THEN priceEnd' = emTask.now + Horizon /\ priceNew' = TRUE ELSE UNCHANGED << priceEnd, priceNew >>
  /\ pvNew' = (pvNew \/ pv)
  /\ emPlan' = [emPlan EXCEPT !.oldPrice = (@ \/ price) /\ emPlan.made, !.oldPv = (@ \/ pv) /\ emPlan.made]
  /\ UNCHANGED << settingVars, emReq, quarter, lastSlot, deyeOn, history, emEdits >>

(* build_inputs(): prices from this quarter hour on, a Deye that answers.    *)
CanPlan == priceEnd - emTask.now >= MinSlots /\ deyeOn
Described == priceOf' = (IF priceEnd > emTask.now THEN emTask.now ELSE NoSlot) /\ record' = record
TurnedOff ==
  /\ emTask.at = "plan" /\ emTask.c.mode = "off" /\ emTask' = [emTask EXCEPT !.at = "done"]
  /\ emPlan' = NoPlan /\ Described
  /\ UNCHANGED << settingVars, emReq, quarter, emFeeds, lastSlot, deyeOn, emEdits >>
DueSlot == "plan" \in emTask.req \/ priceNew \/ pvNew
Due == emTask.now # lastSlot \/ "plan" \in emTask.req \/ priceNew \/ pvNew
PlanNow ==
  /\ emTask.at = "plan" /\ emTask.c.mode = "on" /\ emTask' = [emTask EXCEPT !.at = "done"]
  /\ IF ~Due THEN UNCHANGED << emPlan, priceNew, pvNew, lastSlot >>
     ELSE /\ lastSlot' = emTask.now
          /\ IF CanPlan
             THEN /\ emPlan' = [NoPlan EXCEPT !.made = TRUE, !.from = emTask.now, !.until = priceEnd]
                  /\ priceNew' = FALSE /\ pvNew' = FALSE
             ELSE emPlan' = NoPlan /\ UNCHANGED << priceNew, pvNew >>
  /\ Described /\ UNCHANGED << settingVars, emReq, quarter, priceEnd, deyeOn, emEdits >>
EndTick ==
  /\ emTask.at = "done" /\ emTask' = [emTask EXCEPT !.at = "wait"]
  /\ UNCHANGED << settingVars, emReq, quarter, emFeeds, lastSlot, emPlan, deyeOn, history, emEdits >>
EmTask == WakeTask \/ ReadReq \/ ClearReq \/ (\E p, f \in BOOLEAN : FeedsTick(p, f)) \/ TurnedOff \/ PlanNow \/ EndTick

(* A quarter hour ends, at any point of a tick.                              *)
NewSlot ==
  /\ quarter < MaxQuarters /\ quarter' = quarter + 1
  /\ UNCHANGED << settingVars, emReq, emTask, emFeeds, lastSlot, emPlan, deyeOn, history, emEdits >>
DeyeAnswers ==
  /\ deyeOn' = ~deyeOn
  /\ UNCHANGED << settingVars, emReq, emTask, quarter, emFeeds, lastSlot, emPlan, history, emEdits >>
(* em_cfg_init() takes the stored record; everything else starts anew.       *)
EmRestart ==
  /\ emEdits < MaxEmEdits /\ emEdits' = emEdits + 1 /\ emCfg' = Filled(emNvs) /\ writer' = [w \in Writers |-> Settled]
  /\ emReq' = {} /\ emTask' = [at |-> "wait", now |-> 0, c |-> emCfg', req |-> {}]
  /\ priceEnd' = 0 /\ priceNew' = FALSE /\ pvNew' = FALSE /\ lastSlot' = NoSlot /\ emPlan' = NoPlan
  /\ priceOf' = NoSlot /\ record' = Fresh /\ UNCHANGED << emNvs, quarter, deyeOn >>

EmNext == EmTask \/ Writer \/ (\E w \in Writers : SetMode(w)) \/ PostCfg \/ NewSlot \/ DeyeAnswers \/ EmRestart
EmSpec == EmInit /\ [][EmNext]_emVars

----------------------------------------------------------------------------
(* energy_mgr.c:441: the plan a tick has acted on begins with the quarter    *)
(* hour the tick began in, is made of the prices and the forecast that are   *)
(* current, and the manager was on. So a plan is acted on for a quarter hour *)
(* that is over only by the tick within which that quarter hour ended: the   *)
(* tick after it makes a new one first.                                      *)
NoStalePlan ==
  emTask.at = "done" /\ emPlan.made =>
    emTask.c.mode = "on" /\ emPlan.from = emTask.now /\ ~emPlan.oldPrice /\ ~emPlan.oldPv
=============================================================================
