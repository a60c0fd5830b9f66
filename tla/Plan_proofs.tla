---------------------------- MODULE Plan_proofs ----------------------------
(***************************************************************************)
(* What the energy manager decides by: the tick never acts on an old plan, *)
(* a factor of the forecast is learnt from its own plane alone, the sweep  *)
(* yields, a source that asked for a pause has it, and a saving of the     *)
(* planner is the whole difference it makes, for any prices, settings,     *)
(* weather, requests and restarts.                                         *)
(***************************************************************************)
EXTENDS PriceFeed, EmPlanner, PvForecast, EmManager, EffSweep, TLAPS, WellFoundedInduction, FiniteSetTheorems,
        SlotInduction

(***************************************************************************)
(* The energy manager.                                                     *)
(***************************************************************************)
TaskAt  == {"wait", "read", "clear", "feeds", "plan", "done"}
PlanSet == [made : BOOLEAN, from : Int, until : Int, oldPrice : BOOLEAN, oldPv : BOOLEAN]

EmType ==
  /\ emPlan \in PlanSet
  /\ emTask = [at |-> emTask.at, now |-> emTask.now, c |-> emTask.c, req |-> emTask.req]
  /\ emTask.at \in TaskAt /\ emTask.now \in Int
  /\ priceNew \in BOOLEAN /\ pvNew \in BOOLEAN
  /\ quarter \in Int /\ priceEnd \in Int

(* The plan is of the quarter hour it was last looked for in; one made of  *)
(* older data has a reason to be made anew still open.                     *)
Flagged ==
  emPlan.made => /\ emPlan.from = lastSlot
                 /\ emPlan.oldPrice => priceNew
                 /\ emPlan.oldPv => pvNew

EmInv == EmType /\ Flagged /\ NoStalePlan

LEMMA Plans ==
  /\ NoPlan \in PlanSet /\ NoPlan.made = FALSE
  /\ \A m, n \in Int : LET p == [NoPlan EXCEPT !.made = TRUE, !.from = m, !.until = n]
                       IN  p \in PlanSet /\ p.from = m /\ ~p.oldPrice /\ ~p.oldPv
<1>1. NoPlan \in PlanSet
  BY DEF NoPlan, PlanSet
<1>2. NoPlan.made = FALSE /\ NoPlan.oldPrice = FALSE /\ NoPlan.oldPv = FALSE
  BY Zenon DEF NoPlan
<1>3. ASSUME NEW m \in Int, NEW n \in Int
      PROVE  LET p == [NoPlan EXCEPT !.made = TRUE, !.from = m, !.until = n]
             IN  p \in PlanSet /\ p.from = m /\ ~p.oldPrice /\ ~p.oldPv
  BY <1>1, <1>2 DEF PlanSet
<1> QED
  BY <1>1, <1>2, <1>3

LEMMA EmInitInv == EmInit => EmInv
<1> SUFFICES ASSUME EmInit PROVE EmInv
  OBVIOUS
<1>1. /\ emTask.at = "wait" /\ emTask.now = 0
      /\ emTask = [at |-> emTask.at, now |-> emTask.now, c |-> emTask.c, req |-> emTask.req]
  BY DEF EmInit
<1>2. priceNew \in BOOLEAN /\ pvNew \in BOOLEAN
  BY Zenon DEF EmInit
<1>3. quarter \in Int /\ priceEnd \in Int
  BY DEF EmInit
<1>4. emPlan \in PlanSet /\ ~emPlan.made
  BY Plans DEF EmInit
<1> QED
  BY <1>1, <1>2, <1>3, <1>4 DEF EmInv, EmType, Flagged, NoStalePlan, TaskAt

(* Steps of the web server, of MQTT, of the clock, of the task's requests  *)
(* and of the Deye: none touches a plan or what makes it due.              *)
LEMMA EmUntouched ==
  ASSUME EmInv, UNCHANGED << emPlan, emFeeds, lastSlot >>, quarter' \in Int,
         \/ emTask' = emTask
         \/ \E a \in TaskAt \ {"done"} : \E n \in Int : \E c, r : emTask' = [at |-> a, now |-> n, c |-> c, req |-> r]
  PROVE  EmInv'
<1>1. EmType'
  BY DEF EmInv, EmType, emFeeds
<1>2. emTask' = emTask \/ emTask'.at # "done"
  OBVIOUS
<1>3. Flagged' /\ NoStalePlan'
  BY <1>2 DEF EmInv, Flagged, NoStalePlan, emFeeds
<1> QED
  BY <1>1, <1>3 DEF EmInv

LEMMA FeedsStep ==
  ASSUME EmInv, NEW price \in BOOLEAN, NEW pv \in BOOLEAN, FeedsTick(price, pv)
  PROVE  EmInv'
<1> USE EmAssumption
<1>1. emTask' = [emTask EXCEPT !.at = "plan"] /\ emTask'.at = "plan"
  BY DEF EmInv, EmType, FeedsTick
<1>2. /\ emPlan'.made = emPlan.made /\ emPlan'.from = emPlan.from
      /\ emPlan'.oldPrice = ((emPlan.oldPrice \/ price) /\ emPlan.made)
      /\ emPlan'.oldPv = ((emPlan.oldPv \/ pv) /\ emPlan.made)
      /\ emPlan' \in PlanSet
  BY DEF EmInv, EmType, FeedsTick, PlanSet
<1>3. /\ priceNew' = (priceNew \/ price) /\ pvNew' = (pvNew \/ pv)
      /\ priceEnd' \in {priceEnd, emTask.now + Horizon}
      /\ lastSlot' = lastSlot /\ quarter' = quarter
  BY DEF EmInv, EmType, FeedsTick
<1>4. EmType'
  BY <1>1, <1>2, <1>3 DEF EmInv, EmType, TaskAt
<1>5. Flagged'
  BY <1>2, <1>3 DEF EmInv, Flagged
<1>6. NoStalePlan'
  BY <1>1 DEF NoStalePlan
<1> QED
  BY <1>4, <1>5, <1>6 DEF EmInv

(* The tick drops the plan, makes it anew or finds no reason to.           *)
LEMMA PlanSteps ==
  ASSUME EmInv, TurnedOff \/ PlanNow
  PROVE  EmInv'
<1>1. /\ emTask' = [emTask EXCEPT !.at = "done"] /\ emTask'.at = "done" /\ emTask'.c = emTask.c
      /\ emTask'.now = emTask.now
  BY DEF EmInv, EmType, TurnedOff, PlanNow
<1>2. priceEnd' = priceEnd /\ quarter' = quarter /\ priceNew' \in BOOLEAN /\ pvNew' \in BOOLEAN
  BY DEF EmInv, EmType, TurnedOff, PlanNow, emFeeds
<1>3. CASE emPlan' = NoPlan
  BY <1>1, <1>2, <1>3, Plans DEF EmInv, EmType, Flagged, NoStalePlan, TaskAt
<1>4. CASE /\ PlanNow /\ lastSlot' = emTask.now
           /\ emPlan' = [NoPlan EXCEPT !.made = TRUE, !.from = emTask.now, !.until = priceEnd]
  <2>1. emPlan' \in PlanSet /\ emPlan'.from = emTask.now /\ ~emPlan'.oldPrice /\ ~emPlan'.oldPv
    BY <1>4, Plans DEF EmInv, EmType
  <2> QED
    BY <1>1, <1>2, <1>4, <2>1 DEF EmInv, EmType, Flagged, NoStalePlan, TaskAt, PlanNow
<1>5. CASE PlanNow /\ ~Due
  BY <1>1, <1>2, <1>5 DEF EmInv, EmType, PlanSet, Flagged, NoStalePlan, TaskAt, PlanNow, Due
<1> QED
  BY <1>3, <1>4, <1>5 DEF TurnedOff, PlanNow

LEMMA EmRestartStep ==
  ASSUME EmInv, EmRestart
  PROVE  EmInv'
<1>1. /\ emTask'.at = "wait" /\ emTask'.now = 0
      /\ emTask' = [at |-> emTask'.at, now |-> emTask'.now, c |-> emTask'.c, req |-> emTask'.req]
  BY DEF EmRestart
<1>2. priceNew' \in BOOLEAN /\ pvNew' \in BOOLEAN
  BY Zenon DEF EmRestart
<1>3. quarter' = quarter /\ priceEnd' \in Int
  BY DEF EmRestart
<1>4. emPlan' \in PlanSet /\ ~emPlan'.made
  BY Plans DEF EmRestart
<1> QED
  BY <1>1, <1>2, <1>3, <1>4 DEF EmInv, EmType, Flagged, NoStalePlan, TaskAt

LEMMA EmStepInv == EmInv /\ [EmNext]_emVars => EmInv'
<1> SUFFICES ASSUME EmInv, [EmNext]_emVars PROVE EmInv'
  OBVIOUS
<1>1. CASE WakeTask \/ ReadReq \/ ClearReq \/ EndTick
  <2>1. \E a \in TaskAt \ {"done"} : \E n \in Int : \E c, r : emTask' = [at |-> a, now |-> n, c |-> c, req |-> r]
    BY <1>1 DEF EmInv, EmType, TaskAt, WakeTask, ReadReq, ClearReq, EndTick
  <2>2. UNCHANGED << emPlan, emFeeds, lastSlot, quarter >>
    BY <1>1 DEF WakeTask, ReadReq, ClearReq, EndTick
  <2> QED
    BY <2>1, <2>2, EmUntouched DEF EmInv, EmType
<1>2. CASE \/ Writer \/ PostCfg \/ DeyeAnswers \/ UNCHANGED emVars
           \/ \E w \in Writers : SetMode(w)
  <2>1. UNCHANGED << emPlan, emFeeds, lastSlot, quarter, emTask >>
    BY <1>2 DEF Writer, CheckCfg, EmSetToken, StoreNvs, StoreRam, EmRequest, PostCfg, SetMode, Asks,
                DeyeAnswers, emVars
  <2> QED
    BY <2>1, EmUntouched DEF EmInv, EmType
<1>3. CASE NewSlot
  BY <1>3, EmUntouched DEF NewSlot, EmInv, EmType
<1>4. CASE TurnedOff \/ PlanNow
  BY <1>4, PlanSteps
<1> QED
  BY <1>1, <1>2, <1>3, <1>4, FeedsStep, EmRestartStep DEF EmNext, EmTask

(* energy_mgr.c:441: whatever prices and forecasts arrive, settings change *)
(* and quarter hours end, within a tick or between two, the plan a tick    *)
(* acts on begins with the quarter hour the tick began in and is made of   *)
(* the prices and the forecast it has.                                     *)
THEOREM NoStalePlanSound == EmSpec => []NoStalePlan
<1>1. EmInv => NoStalePlan
  BY DEF EmInv
<1> QED
  BY <1>1, EmInitInv, EmStepInv, PTL DEF EmSpec

(***************************************************************************)
(* The forecast. A sum of today was integrated under the planes the        *)
(* factors belong to, and the record in NVS fits as the factors in RAM do: *)
(* what a restart brings back is no other plane's either.                  *)
(***************************************************************************)
Fits(c, sg) == \A p \in Planes : \A x \in c[p] : x[p] = sg[p]
SumsOf(g, sg) == \A p \in Planes : \A x \in g[p] : \A q \in Planes : x.cfg[q] = sg[q]

PvInv ==
  /\ Fits(cal, sig)
  /\ Fits(calRec.cal, calRec.sig)
  /\ SumsOf(grp, sig)

LEMMA NothingFits ==
  /\ \A sg : Fits(Nothing, sg) /\ SumsOf(Nothing, sg)
  /\ NoRecord = [sig |-> NoRecord.sig, cal |-> Nothing]
<1>1. \A p \in Planes : Nothing[p] = {}
  BY DEF Nothing
<1> QED
  BY <1>1 DEF Fits, SumsOf, NoRecord

LEMMA PvInitInv == PvInit => PvInv
BY NothingFits DEF PvInit, PvInv

(* group_leader() is a plane of the group: the sums it holds are there.    *)
LEMMA LeaderIsPlane ==
  ASSUME NEW p \in Planes
  PROVE  Leader(p) \in Planes
<1>1. Group(p) \subseteq Nat /\ Group(p) # {} /\ Group(p) \subseteq Planes
  BY PvAssumption DEF Group
<1>2. \E x \in Group(p) : \A y \in Group(p) : ~(<< y, x >> \in OpToRel(<, Nat))
  BY <1>1, NatLessThanWellFounded, WFMin
<1>3. \A x, y \in Nat : y < x => << y, x >> \in OpToRel(<, Nat)
  BY Zenon DEF OpToRel
<1>4. PICK x \in Group(p) : \A y \in Group(p) : ~(y < x)
  BY <1>1, <1>2, <1>3, Zenon
<1>5. \A y \in Group(p) : x =< y
  BY <1>1, <1>4
<1>6. Leader(p) \in Group(p)
  BY <1>5 DEF Leader, Min
<1> QED
  BY <1>1, <1>6

(* sync_planes() keeps what fits the planes as they are now.               *)
LEMMA Synced ==
  ASSUME PvInv
  PROVE  Fits(SyncedCal, pvCfg) /\ SumsOf(DropSums(grp), pvCfg)
<1>1. \A p \in Planes : p \notin Changed => sig[p] = pvCfg[p]
  BY DEF Changed
<1>2. Fits(SyncedCal, pvCfg)
  BY <1>1 DEF PvInv, Fits, SyncedCal
<1>3. CASE Changed = {}
  BY <1>1, <1>2, <1>3 DEF PvInv, SumsOf, DropSums
<1>4. CASE Changed # {}
  BY <1>2, <1>4, NothingFits DEF DropSums
<1> QED
  BY <1>3, <1>4

(* integrate() adds to the sums the planes it integrated under.            *)
LEMMA IntegratedSums ==
  ASSUME PvInv, NEW hears
  PROVE  SumsOf(Integrated(hears).grp, pvCfg)
<1>1. SumsOf(DropSums(grp), pvCfg)
  BY Synced
<1>2. CASE ~Counted
  BY <1>1, <1>2 DEF Integrated
<1>3. CASE Counted
  <2>1. \A p \in Planes : Integrated(hears).grp[p]
                           \subseteq DropSums(grp)[p] \cup {[t |-> lastTick, cfg |-> pvCfg]}
    BY <1>3 DEF Integrated
  <2> QED
    BY <1>1, <2>1 DEF SumsOf
<1> QED
  BY <1>2, <1>3

(* calibrate() moves a factor by the sums of its group.                    *)
LEMMA LearntFits ==
  ASSUME PvInv, NEW sums, SumsOf(sums, pvCfg)
  PROVE  Fits(Learnt(sums), pvCfg)
<1> SUFFICES ASSUME NEW p \in Planes, NEW c \in Learnt(sums)[p] PROVE c[p] = pvCfg[p]
  BY DEF Fits
<1>1. c \in SyncedCal[p] \/ \E x \in sums[Leader(p)] : c = x.cfg
  BY DEF Learnt
<1>2. CASE c \in SyncedCal[p]
  BY <1>2, Synced DEF Fits
<1>3. CASE \E x \in sums[Leader(p)] : c = x.cfg
  BY <1>3, LeaderIsPlane DEF SumsOf
<1> QED
  BY <1>1, <1>2, <1>3

LEMMA StoredFits ==
  ASSUME PvInv, NEW save \in BOOLEAN, NEW c, Fits(c, pvCfg), Stored(save, c) \/ calRec' = calRec
  PROVE  Fits(calRec'.cal, calRec'.sig)
BY DEF PvInv, Stored

LEMMA PvTickStep ==
  ASSUME PvInv, NEW hears, NEW answer \in BOOLEAN, NEW save \in BOOLEAN, PvTick(hears, answer, save)
  PROVE  PvInv'
<1>1. PICK sums : sums = Integrated(hears).grp
  OBVIOUS
<1>2. SumsOf(sums, pvCfg)
  BY <1>1, IntegratedSums
<1>3. PICK c : c = cal'
  OBVIOUS
<1>4. c = Learnt(sums) \/ c = SyncedCal
  BY <1>1, <1>3 DEF PvTick
<1>5. Fits(c, pvCfg)
  BY <1>2, <1>4, LearntFits, Synced
<1>6. sig' = pvCfg /\ (Stored(save, c) \/ calRec' = calRec) /\ grp' \in {Nothing, sums}
  BY <1>1, <1>3 DEF PvTick
<1>7. Fits(calRec'.cal, calRec'.sig)
  BY <1>5, <1>6, StoredFits
<1>8. SumsOf(grp', pvCfg)
  BY <1>2, <1>6, NothingFits
<1> QED
  BY <1>3, <1>5, <1>6, <1>7, <1>8 DEF PvInv

LEMMA PvTickNoClockStep ==
  ASSUME PvInv, NEW save \in BOOLEAN, PvTickNoClock(save)
  PROVE  PvInv'
<1>1. /\ sig' = pvCfg /\ cal' = SyncedCal /\ grp' = DropSums(grp)
      /\ Stored(save, SyncedCal) \/ calRec' = calRec
  BY DEF PvTickNoClock
<1>2. Fits(calRec'.cal, calRec'.sig)
  BY <1>1, Synced, StoredFits
<1> QED
  BY <1>1, <1>2, Synced DEF PvInv

LEMMA PvRestartStep ==
  ASSUME PvInv, NEW power \in BOOLEAN, PvRestart(power)
  PROVE  PvInv'
BY NothingFits DEF PvInv, PvRestart, PvBoot

LEMMA PvStepInv == PvInv /\ [PvNext]_pvVars => PvInv'
<1> SUFFICES ASSUME PvInv, [PvNext]_pvVars PROVE PvInv'
  OBVIOUS
<1>1. CASE PvRequest \/ (\E c \in Settings : SavePlanes(c)) \/ PvClock \/ UNCHANGED pvVars
  <2>1. UNCHANGED << sig, cal, calRec, grp >>
    BY <1>1 DEF PvRequest, SavePlanes, PvClock, pvVars
  <2> QED
    BY <2>1 DEF PvInv
<1> QED
  BY <1>1, PvTickStep, PvTickNoClockStep, PvRestartStep DEF PvNext

(* pv_forecast.c:231: however planes are changed, days end, weather comes, *)
(* writes fail and the power goes, a factor has been learnt from the plane *)
(* it belongs to alone.                                                    *)
THEOREM FactorSound == PvSpec => []FactorFits
<1>1. PvInv => FactorFits
  BY DEF PvInv, Fits, FactorFits
<1> QED
  BY <1>1, PvInitInv, PvStepInv, PTL DEF PvSpec

(***************************************************************************)
(* The efficiency sweep. Between two looks of its task only others change  *)
(* what deye_ctrl holds: it differs from what the sweep put there last     *)
(* only by a call the task has not looked at yet.                          *)
(***************************************************************************)
SweepInv ==
  /\ sweepAsks \in Nat
  /\ expected # NothingDone /\ req # expected => unseen

(* A step of the task that puts a mode leaves exactly that mode expected.  *)
LEMMA SweepPuts ==
  ASSUME NEW m, NEW p, SweepPut(m, p)
  PROVE  req' = expected'
BY DEF SweepPut, Measures

LEMMA SweepEnds ==
  ASSUME NEW result, NEW normal, Finish(result, normal)
  PROVE  expected' = NothingDone
BY DEF Finish

LEMMA SweepStepTick ==
  ASSUME SweepInv, StepTick
  PROVE  SweepInv'
<1>1. \/ req' = req /\ expected' = expected
      \/ req' = expected'
      \/ expected' = NothingDone
  BY SweepPuts, SweepEnds
  DEF StepTick, Stay, Skip, Turn, Begin, StepSettled, HandOver
<1>2. unseen' = unseen /\ sweepAsks' = sweepAsks
  BY DEF StepTick, calls
<1> QED
  BY <1>1, <1>2 DEF SweepInv

LEMMA SweepCheck ==
  ASSUME SweepInv, Check
  PROVE  SweepInv'
<1>1. sweepAsks' = sweepAsks
  BY DEF Check
<1>2. CASE stop \/ Outside \/ Gone
  <2>1. expected' = NothingDone
    BY <1>2, SweepEnds DEF Check
  <2> QED
    BY <1>1, <2>1 DEF SweepInv
<1>3. CASE ~stop /\ ~Outside /\ ~Gone
  BY <1>1, <1>3 DEF Check, Outside, SweepInv
<1> QED
  BY <1>2, <1>3

LEMMA SweepStarts == Init => SweepInv
BY DEF Init, SweepInv

LEMMA SweepSteps == SweepInv /\ [Next]_vars => SweepInv'
<1> SUFFICES ASSUME SweepInv, [Next]_vars PROVE SweepInv'
  OBVIOUS
<1>1. CASE \E m \in Modes, p \in Powers : UserAsks(m, p)
  <2>1. sweepAsks' \in Nat /\ expected' = expected
    BY <1>1 DEF UserAsks, SweepInv
  <2>2. req' # req \/ unseen => unseen'
    BY <1>1, Zenon DEF UserAsks
  <2> QED
    BY <2>1, <2>2, Zenon DEF SweepInv
<1>2. CASE \E dirs \in SUBSET Forced \ {{}} : Start(dirs)
  BY <1>2 DEF Start, SweepInv
<1>3. CASE UserStops \/ StopIdle \/ Second \/ UNCHANGED vars
  BY <1>3 DEF UserStops, StopIdle, Second, vars, calls, SweepInv
<1> QED
  BY <1>1, <1>2, <1>3, SweepCheck, SweepStepTick DEF Next, Task, SweepPage

(* Once the sweep has put a mode, it changes only what it put itself,      *)
(* unless it is told to stop or another call came after its last look.     *)
LEMMA SweepYields ==
  ASSUME SweepInv, [Next]_vars, Sets
  PROVE  req = expected \/ stop \/ expected = NothingDone \/ (pass > 1 /\ unseen)
<1>1. CASE \E m \in Modes, p \in Powers : UserAsks(m, p)
  BY <1>1 DEF UserAsks, Sets, SweepInv
<1>2. CASE StepTick
  <2>1. pass > 1
    BY <1>2 DEF StepTick
  <2> QED
    BY <2>1 DEF SweepInv
<1>3. CASE Check
  <2>1. CASE stop \/ ~Outside
    BY <2>1 DEF Outside
  <2>2. CASE ~stop /\ Outside
    BY <1>3, <2>2 DEF Check, Finish, Sets
  <2> QED
    BY <2>1, <2>2
<1>4. CASE \/ UserStops \/ StopIdle \/ Second \/ UNCHANGED vars
           \/ \E dirs \in SUBSET Forced \ {{}} : Start(dirs)
  BY <1>4 DEF UserStops, StopIdle, Second, Start, vars, Sets
<1> QED
  BY <1>1, <1>2, <1>3, <1>4 DEF Next, Task, SweepPage

(* eff_sweep.c, sweep_tick(): whatever the user and other tasks call and   *)
(* whenever, the sweep does not write over them once it has looked.        *)
THEOREM YieldsSound == Spec => YieldsToUser
<1>1. SweepInv /\ [Next]_vars
        => [Sets => \/ req = expected
                    \/ stop \/ expected = NothingDone
                    \/ pass > 1 /\ unseen]_vars
  BY SweepYields
<1> QED
  BY <1>1, SweepStarts, SweepSteps, PTL DEF Spec, YieldsToUser

(***************************************************************************)
(* The price feed. Whoever makes a job ask, its date is never before the   *)
(* end of the backoff its failures have earned.                            *)
(***************************************************************************)
JobType == [day : Int, tomorrow : BOOLEAN, tried : Int, ok : Int, fails : Nat, r429 : BOOLEAN]

(* No attempt lies in the future.                                          *)
FeedInv ==
  /\ pfNow \in 0..Day - 1
  /\ job \in [Jobs -> JobType]
  /\ \A j \in Jobs : job[j].tried <= pfNow

LEMMA MaxTwo ==
  ASSUME NEW a \in Int, NEW b \in Int
  PROVE  Max({a, b}) \in Int /\ (Max({a, b}) = a \/ Max({a, b}) = b) /\ Max({a, b}) >= a /\ Max({a, b}) >= b
<1>1. \E x \in {a, b} : \A y \in {a, b} : x >= y
  OBVIOUS
<1> QED
  BY <1>1 DEF Max

LEMMA MinTwo ==
  ASSUME NEW a \in Int, NEW b \in Int
  PROVE  Min({a, b}) \in Int /\ (Min({a, b}) = a \/ Min({a, b}) = b) /\ Min({a, b}) <= a /\ Min({a, b}) <= b
<1>1. \E x \in {a, b} : \A y \in {a, b} : x <= y
  OBVIOUS
<1> QED
  BY <1>1 DEF Min

LEMMA BackLen == Len(Back) \in Nat \ {0} /\ \A i \in 1..Len(Back) : Back[i] \in Nat \ {0}
<1>1. Back \in Seq(Nat \ {0}) /\ Back # << >>
  BY FeedAssumption
<1>2. Len(Back) # 0
  BY <1>1
<1> QED
  BY <1>1, <1>2

LEMMA BackoffType == ASSUME NEW j \in JobType PROVE Backoff(j) \in Int
<1> DEFINE b == IF j.fails = 0 THEN 0 ELSE Back[Min({j.fails, Len(Back)})]
<1>1. b \in Int
  <2>1. CASE j.fails = 0
    BY <2>1
  <2>2. CASE j.fails # 0
    <3>1. j.fails \in Nat \ {0}
      BY <2>2 DEF JobType
    <3>2. Min({j.fails, Len(Back)}) \in 1..Len(Back)
      <4>1. j.fails \in Int /\ Len(Back) \in Int /\ j.fails >= 1 /\ Len(Back) >= 1
        BY <3>1, BackLen
      <4> DEFINE n == Min({j.fails, Len(Back)})
      <4>2. n \in Int /\ n <= Len(Back) /\ (n = j.fails \/ n = Len(Back))
        BY <4>1, MinTwo
      <4> HIDE DEF n
      <4>3. n \in 1..Len(Back)
        BY <4>1, <4>2
      <4> QED
        BY <4>3 DEF n
    <3> QED
      BY <2>2, <3>2, BackLen
  <2> QED
    BY <2>1, <2>2
<1>2. Hold \in Int
  BY FeedAssumption
<1> HIDE DEF b
<1>3. Max({b, Hold}) \in Int
  BY <1>1, <1>2, MaxTwo
<1>4. Backoff(j) = IF j.fails > 0 /\ j.r429 THEN Max({b, Hold}) ELSE b
  BY Zenon DEF Backoff, b
<1>5. CASE j.fails > 0 /\ j.r429
  BY <1>3, <1>4, <1>5
<1>6. CASE ~(j.fails > 0 /\ j.r429)
  BY <1>1, <1>4, <1>6
<1> QED
  BY <1>5, <1>6

LEMMA MidnightType == ASSUME NEW t \in Int PROVE Midnight(t) \in Int
<1>1. Day \in Int
  BY FeedAssumption
<1>2. Midnight(t) = -Day \/ Midnight(t) = 0
  BY Zenon DEF Midnight
<1> QED
  BY <1>1, <1>2

LEMMA AfterBackoff ==
  ASSUME NEW j \in JobType, NEW due \in Int, j.fails > 0
  PROVE  AfterFailure(j, due) >= j.tried + Backoff(j) /\ AfterFailure(j, due) \in Int
<1>1. j.tried + Backoff(j) \in Int
  BY BackoffType DEF JobType
<1> QED
  BY <1>1, MaxTwo DEF AfterFailure

LEMMA PriceDueAfter ==
  ASSUME FeedInv, NEW j \in JobType, j.fails > 0
  PROVE  PriceDue(j) >= j.tried + Backoff(j) /\ PriceDue(j) \in Int
<1> DEFINE day  == Midnight(pfNow - Roll)
           d    == Max({j.day, day})
           next == Max({d + From, j.tried + Every})
           due  == IF j.day < day THEN pfNow
                   ELSE IF ~j.tomorrow /\ next < d + Until THEN Min({j.ok + Refresh, next})
                   ELSE j.ok + Refresh
<1>1. /\ pfNow \in Int /\ Roll \in Int /\ From \in Int /\ Until \in Int
      /\ Every \in Int /\ Refresh \in Int
      /\ j.day \in Int /\ j.tried \in Int /\ j.ok \in Int
  BY FeedAssumption DEF FeedInv, JobType
<1>2. day \in Int
  BY <1>1, MidnightType
<1>3. d \in Int
  BY <1>1, <1>2, MaxTwo
<1>4. next \in Int
  <2>1. d + From \in Int /\ j.tried + Every \in Int
    BY <1>1, <1>3
  <2> HIDE DEF d
  <2> QED
    BY <2>1, MaxTwo
<1>5. Min({j.ok + Refresh, next}) \in Int
  <2>1. j.ok + Refresh \in Int
    BY <1>1
  <2> HIDE DEF next
  <2> QED
    BY <1>4, <2>1, MinTwo
<1>6. due \in Int
  BY <1>1, <1>5
<1>7. PriceDue(j) = AfterFailure(j, due)
  BY DEF PriceDue
<1> QED
  BY <1>6, <1>7, AfterBackoff

LEMMA EcDueAfter ==
  ASSUME FeedInv, NEW j \in JobType, j.fails > 0
  PROVE  EcDue(j) >= j.tried + Backoff(j) /\ EcDue(j) \in Int
<1>1. j.tried + EcGap \in Int /\ j.tried + Backoff(j) \in Int
  <2>1. EcGap \in Int /\ j.tried \in Int
    BY FeedAssumption DEF JobType
  <2> QED
    BY <2>1, BackoffType
<1>2. Max({PriceDue(j), j.tried + EcGap}) >= PriceDue(j) /\ Max({PriceDue(j), j.tried + EcGap}) \in Int
  BY <1>1, PriceDueAfter, MaxTwo
<1>3. PriceDue(j) >= j.tried + Backoff(j) /\ PriceDue(j) \in Int
  BY PriceDueAfter
<1> QED
  BY <1>1, <1>2, <1>3 DEF EcDue

LEMMA MixDueAfter ==
  ASSUME FeedInv, NEW j \in JobType, j.fails > 0
  PROVE  MixDue(j) >= j.tried + Backoff(j) /\ MixDue(j) \in Int
<1> DEFINE day  == Midnight(pfNow - MixRoll)
           next == Max({day + MixFrom, j.tried + MixEvery})
           due  == IF j.day < day THEN pfNow
                   ELSE IF ~j.tomorrow /\ pfNow < day + MixUntil /\ next < day + MixUntil
                        THEN Min({j.ok + MixRefresh, next})
                   ELSE j.ok + MixRefresh
<1>1. /\ pfNow \in Int /\ MixRoll \in Int /\ MixFrom \in Int /\ MixUntil \in Int
      /\ MixEvery \in Int /\ MixRefresh \in Int
      /\ j.day \in Int /\ j.tried \in Int /\ j.ok \in Int
  BY FeedAssumption DEF FeedInv, JobType
<1>2. day \in Int
  BY <1>1, MidnightType
<1>3. next \in Int
  <2>1. day + MixFrom \in Int /\ j.tried + MixEvery \in Int
    BY <1>1, <1>2
  <2> HIDE DEF day
  <2> QED
    BY <2>1, MaxTwo
<1>4. Min({j.ok + MixRefresh, next}) \in Int
  <2>1. j.ok + MixRefresh \in Int
    BY <1>1
  <2> HIDE DEF next
  <2> QED
    BY <1>3, <2>1, MinTwo
<1>5. due \in Int
  BY <1>1, <1>4
<1>6. MixDue(j) = AfterFailure(j, due)
  BY DEF MixDue
<1> QED
  BY <1>5, <1>6, AfterBackoff

LEMMA ForcedAfter ==
  ASSUME NEW j \in JobType, j.fails > 0
  PROVE  ForcedDue(j) = j.tried + Backoff(j)
BY DEF ForcedDue

(* Whichever way a job comes to be the one of this tick.                   *)
LEMMA ChosenIsDue ==
  ASSUME FeedInv, NEW j \in Chosen, job[j].fails > 0
  PROVE  j \in Jobs /\ pfNow >= job[j].tried + Backoff(job[j])
<1>1. /\ job["tib"] \in JobType /\ job["ec"] \in JobType
      /\ job["mix"] \in JobType /\ job["gen"] \in JobType
  BY DEF FeedInv, Jobs
<1>2. \/ j = "tib" /\ TibDue
      \/ j = "ec" /\ EcPriceDue
      \/ j = "mix" /\ MixNow
      \/ j = "gen" /\ GenNow
  BY DEF Chosen
<1>3. j \in Jobs /\ job[j] \in JobType
  BY <1>1, <1>2 DEF Jobs
<1>4. pfNow \in Int /\ job[j].tried + Backoff(job[j]) \in Int
  BY <1>3, BackoffType DEF FeedInv, JobType
<1>5. \/ pfNow >= ForcedDue(job[j]) \/ pfNow >= PriceDue(job[j]) \/ pfNow >= EcDue(job[j])
      \/ pfNow >= MixDue(job[j]) \/ pfNow >= job[j].tried + Backoff(job[j])
  BY <1>2 DEF TibDue, EcPriceDue, MixNow, GenNow
<1> QED
  BY <1>3, <1>4, <1>5, ForcedAfter, PriceDueAfter, EcDueAfter, MixDueAfter

LEMMA NeverIs == Day \in Nat \ {0} /\ Never \in Int /\ Never < 0 /\ Never + Day < 0
<1>1. Day \in Nat \ {0}
  BY FeedAssumption
<1> QED
  BY <1>1 DEF Never

LEMMA ClockTurns ==
  ASSUME NEW n \in Nat \ {0}, NEW t \in Nat, t < n
  PROVE  (t + 1) % n = IF t + 1 = n THEN 0 ELSE t + 1
<1> PICK q, r : q = (t + 1) \div n /\ r = (t + 1) % n
  OBVIOUS
<1>1. q \in Nat /\ r \in Nat /\ r < n /\ t + 1 = n * q + r
  OBVIOUS
<1>2. q = 0 \/ q = 1 \/ q >= 2
  BY <1>1
<1>3. ASSUME q >= 2 PROVE FALSE
  <2>1. n * 2 <= n * q
    BY <1>1, <1>3
  <2> QED
    BY <1>1, <2>1
<1>4. CASE q = 0
  BY <1>1, <1>4
<1>5. CASE q = 1
  BY <1>1, <1>5
<1> QED
  BY <1>2, <1>3, <1>4, <1>5

LEMMA FeedStarts == FeedInit => FeedInv
<1> SUFFICES ASSUME FeedInit PROVE FeedInv
  OBVIOUS
<1>1. Day \in Nat \ {0} /\ Never \in Int /\ Never < 0
  BY NeverIs
<1>2. NewJob \in JobType /\ NewJob.tried = Never
  BY <1>1 DEF NewJob, JobType
<1> QED
  BY <1>1, <1>2 DEF FeedInit, FeedInv

LEMMA FailedType ==
  ASSUME NEW j \in JobType, NEW a, pfNow \in Int
  PROVE  Failed(j, a) \in JobType /\ Failed(j, a).tried = pfNow
<1> DEFINE n == Min({j.fails + 1, Len(Back)})
<1>1. j.fails + 1 \in Int /\ Len(Back) \in Int /\ j.fails + 1 >= 0 /\ Len(Back) >= 0
  BY BackLen DEF JobType
<1>2. n \in Int /\ (n = j.fails + 1 \/ n = Len(Back))
  BY <1>1, MinTwo
<1> HIDE DEF n
<1>3. n \in Nat
  BY <1>1, <1>2
<1>4. (a = "429") \in BOOLEAN
  OBVIOUS
<1> DEFINE r == [j EXCEPT !.fails = n, !.r429 = (a = "429"), !.tried = pfNow]
<1>5. r \in JobType /\ r.tried = pfNow
  BY <1>3, <1>4 DEF JobType
<1>6. Failed(j, a) = r
  BY Zenon DEF Failed, n
<1> QED
  BY <1>5, <1>6

LEMMA SucceededType ==
  ASSUME NEW b \in BOOLEAN, pfNow \in Int
  PROVE  Succeeded(b) \in JobType /\ Succeeded(b).tried = pfNow
BY DEF Succeeded, JobType

(* A job that asks has its attempt dated now, the others keep theirs.      *)
LEMMA FetchJob ==
  ASSUME FeedInv, NEW j \in Jobs, NEW a, Fetch(j, a)
  PROVE  \E r \in JobType : r.tried = pfNow /\ job' = [job EXCEPT ![j] = r]
<1>0. job \in [Jobs -> JobType] /\ job[j] \in JobType /\ pfNow \in Int
  BY FeedAssumption DEF FeedInv
<1>1. Failed(job[j], a) \in JobType /\ Failed(job[j], a).tried = pfNow
  BY <1>0, FailedType
<1>2. \A b \in BOOLEAN : Succeeded(b) \in JobType /\ Succeeded(b).tried = pfNow
  BY <1>0, SucceededType
<1>3. CASE j \in {"tib", "ec"}
  <2>1. FetchPrices(j, a)
    BY <1>3 DEF Fetch
  <2>2. \/ job' = [job EXCEPT ![j] = Failed(job[j], a)]
        \/ \E b \in BOOLEAN : job' = [job EXCEPT ![j] = Succeeded(b)]
    <3> DEFINE s0 == Cut(Put(Cleared, {0} \cup Ahead(a)))
    <3>1. (1 \in s0.days) \in BOOLEAN
      OBVIOUS
    <3>2. \/ job' = [job EXCEPT ![j] = Succeeded(1 \in s0.days)]
          \/ job' = [job EXCEPT ![j] = Failed(job[j], a)]
      BY <2>1, Zenon DEF FetchPrices
    <3> QED
      BY <3>1, <3>2, Zenon
  <2> QED
    BY <1>1, <1>2, <2>2, Zenon
<1>4. CASE j = "mix"
  <2>1. FetchMix(a)
    BY <1>4 DEF Fetch
  <2>2. \/ job' = [job EXCEPT ![j] = Failed(job[j], a)]
        \/ \E b \in BOOLEAN : job' = [job EXCEPT ![j] = Succeeded(b)]
    BY <1>4, <2>1 DEF FetchMix
  <2> QED
    BY <1>1, <1>2, <2>2, Zenon
<1>5. CASE j = "gen"
  <2>1. FetchGen(a)
    BY <1>5 DEF Fetch
  <2> DEFINE more == [job[j] EXCEPT !.tried = pfNow, !.fails = 0]
  <2>2. more \in JobType /\ more.tried = pfNow
    BY <1>0 DEF JobType
  <2> HIDE DEF more
  <2>3. \/ job' = [job EXCEPT ![j] = Failed(job[j], a)]
        \/ \E b \in BOOLEAN : job' = [job EXCEPT ![j] = Succeeded(b)]
        \/ job' = [job EXCEPT ![j] = more]
    BY <1>5, <2>1 DEF FetchGen, more
  <2> QED
    BY <1>1, <1>2, <2>2, <2>3, Zenon
<1> QED
  BY <1>3, <1>4, <1>5 DEF Jobs

LEMMA FeedTicks ==
  ASSUME FeedInv, NEW a \in Answers, Tick(a)
  PROVE  \/ job' = job
         \/ \E j \in Chosen : j \in Jobs /\ \E r \in JobType : r.tried = pfNow /\ job' = [job EXCEPT ![j] = r]
<1>1. \A j \in Chosen : j \in Jobs
  BY DEF Chosen, Jobs
<1>2. job' = job \/ \E j \in Chosen : Fetch(j, a)
  BY DEF Tick
<1> QED
  BY <1>1, <1>2, FetchJob

(* An attempt of an earlier day stays one of an earlier day.               *)
LEMMA FeedClock ==
  ASSUME FeedInv, Clock
  PROVE  /\ FeedInv'
         /\ \A j \in Jobs : job'[j].tried = pfNow => job[j].tried = pfNow
<1> DEFINE midnight == pfNow + 1 = Day
           Older1(t) == IF midnight THEN Max({t - Day, Never}) ELSE t
<1>1. /\ Day \in Nat \ {0} /\ pfNow \in Nat /\ pfNow < Day
      /\ Never \in Int /\ Never < 0
  BY NeverIs DEF FeedInv
<1>2. pfNow' = IF midnight THEN 0 ELSE pfNow + 1
  <2>1. pfNow' = (pfNow + 1) % Day
    BY DEF Clock
  <2> QED
    BY <1>1, <2>1, ClockTurns
<1>3. ASSUME NEW t \in Int
      PROVE  /\ Older1(t) \in Int
             /\ t <= pfNow => Older1(t) <= pfNow' /\ (Older1(t) = pfNow => t = pfNow)
  <2>1. CASE ~midnight
    BY <1>1, <1>2, <2>1
  <2>2. CASE midnight
    <3>1. t - Day \in Int
      BY <1>1
    <3>2. Max({t - Day, Never}) = t - Day \/ Max({t - Day, Never}) = Never
      BY <1>1, <3>1, MaxTwo
    <3> QED
      BY <1>1, <1>2, <2>2, <3>2
  <2> QED
    BY <2>1, <2>2
<1>4. job' = [j \in Jobs |-> [job[j] EXCEPT !.day = Older1(@), !.tried = Older1(@), !.ok = Older1(@)]]
  BY Zenon DEF Clock
<1> HIDE DEF Older1
<1>5. ASSUME NEW j \in Jobs
      PROVE  /\ job'[j] \in JobType /\ job'[j].tried <= pfNow'
             /\ job'[j].tried = pfNow => job[j].tried = pfNow
  <2>1. job[j] \in JobType /\ job[j].tried <= pfNow /\ job[j].tried \in Int
    BY DEF FeedInv, JobType
  <2>2. job'[j] = [job[j] EXCEPT !.day = Older1(@), !.tried = Older1(@), !.ok = Older1(@)]
    BY <1>4
  <2>3. Older1(job[j].day) \in Int /\ Older1(job[j].tried) \in Int /\ Older1(job[j].ok) \in Int
    BY <1>3, <2>1 DEF JobType
  <2>4. job'[j] \in JobType /\ job'[j].tried = Older1(job[j].tried)
    BY <2>1, <2>2, <2>3 DEF JobType
  <2> QED
    BY <1>3, <2>1, <2>4
<1>6. job' \in [Jobs -> JobType]
  BY <1>4, <1>5
<1>7. pfNow' \in 0..Day - 1
  BY <1>1, <1>2
<1> QED
  BY <1>5, <1>6, <1>7 DEF FeedInv

LEMMA FeedSteps == FeedInv /\ [FeedNext]_feedVars => FeedInv'
<1> SUFFICES ASSUME FeedInv, [FeedNext]_feedVars PROVE FeedInv'
  OBVIOUS
<1>1. ASSUME NEW a \in Answers, Tick(a) PROVE FeedInv'
  <2>1. pfNow' = pfNow
    BY <1>1 DEF Tick
  <2>2. CASE job' = job
    BY <2>1, <2>2 DEF FeedInv
  <2>3. ASSUME NEW j \in Jobs, NEW r \in JobType, r.tried = pfNow, job' = [job EXCEPT ![j] = r]
        PROVE  FeedInv'
    <3>1. job' \in [Jobs -> JobType] /\ \A i \in Jobs : job'[i] = IF i = j THEN r ELSE job[i]
      BY <2>3 DEF FeedInv
    <3> QED
      BY <2>1, <2>3, <3>1 DEF FeedInv
  <2> QED
    BY <1>1, <2>2, <2>3, FeedTicks
<1>2. CASE Clock
  BY <1>2, FeedClock
<1>3. CASE FeedRestart
  <2>1. Never \in Int /\ Never < 0 /\ NewJob \in JobType /\ NewJob.tried = Never
    BY NeverIs DEF NewJob, JobType
  <2>2. pfNow' = pfNow /\ job' = [j \in Jobs |-> NewJob]
    BY <1>3 DEF FeedRestart
  <2> QED
    BY <2>1, <2>2 DEF FeedInv
<1>4. CASE Request \/ SetToken \/ TibberOutage \/ UNCHANGED feedVars
  BY <1>4 DEF Request, SetToken, TibberOutage, feedVars, FeedInv
<1> QED
  BY <1>1, <1>2, <1>3, <1>4 DEF FeedNext

HoldStep ==
  \A j \in Jobs : (job[j].fails > 0 /\ job'[j].tried = pfNow /\ job[j].tried # pfNow)
    => pfNow >= job[j].tried + Backoff(job[j])

LEMMA FeedHolds == FeedInv /\ [FeedNext]_feedVars => HoldStep
<1> SUFFICES ASSUME FeedInv, [FeedNext]_feedVars PROVE HoldStep
  OBVIOUS
<1>1. ASSUME NEW a \in Answers, Tick(a) PROVE HoldStep
  <2>1. CASE job' = job
    BY <2>1 DEF HoldStep
  <2>2. ASSUME NEW i \in Chosen, NEW r, job' = [job EXCEPT ![i] = r]
        PROVE  HoldStep
    <3>1. \A j \in Jobs : j # i => job'[j] = job[j]
      BY <2>2 DEF FeedInv
    <3>2. job[i].fails > 0 => pfNow >= job[i].tried + Backoff(job[i])
      BY ChosenIsDue
    <3> QED
      BY <3>1, <3>2 DEF HoldStep
  <2> QED
    BY <1>1, <2>1, <2>2, FeedTicks
<1>2. CASE Clock
  BY <1>2, FeedClock DEF HoldStep
<1>3. CASE FeedRestart
  <2>1. NewJob.tried = Never /\ pfNow # Never
    BY NeverIs DEF NewJob, FeedInv
  <2> QED
    BY <1>3, <2>1 DEF FeedRestart, HoldStep
<1>4. CASE Request \/ SetToken \/ TibberOutage \/ UNCHANGED feedVars
  BY <1>4 DEF Request, SetToken, TibberOutage, feedVars, HoldStep
<1> QED
  BY <1>1, <1>2, <1>3, <1>4 DEF FeedNext

(* price_feed.c, after_failure() and forced_due(): no schedule, no forced  *)
(* refresh and no round of the generation under way makes a source that    *)
(* failed ask again before its backoff, and a "too many requests" its hold,*)
(* is over, for any times, any days and any answers.                       *)
THEOREM HoldSound == FeedSpec => HoldKept
<1>1. FeedInv /\ [FeedNext]_feedVars => [HoldStep]_feedVars
  BY FeedHolds
<1> QED
  BY <1>1, FeedStarts, FeedSteps, PTL DEF FeedSpec, HoldKept, HoldStep

-----------------------------------------------------------------------------
(* The planner. One slot.                                                  *)
StepType == [e : Int, grid : Int, ac : Nat, used : Int, cost : Int]
StopType == [from : Int, sum : Int, slot : StepType]
Decisions == [0..N - 1 -> [act : {"normal", "hold", "charge"}, g : Int, why : Int]]

LEMMA PlanSizes ==
  /\ N \in Nat \ {0} /\ {Emin, Egmax, Efull, DisMax, LossDis, Spread, Cycle, EtaPct} \subseteq Nat
  /\ Emin <= Efull /\ Feedin \in Int
BY PlanAssumption

LEMMA InputType ==
  ASSUME NEW c \in Inputs, NEW i \in 0..N - 1
  PROVE  c.net[i] \in Int /\ c.price[i] \in Int /\ c.e0 \in Int
<1>1. c.price \in [0..N - 1 -> Int] /\ c.net \in [0..N - 1 -> Int] /\ c.e0 \in 0..Efull
  BY PlanAssumption
<1>2. c.price[i] \in Int /\ c.net[i] \in Int
  BY <1>1
<1>3. c.e0 \in Int
  BY <1>1, PlanSizes
<1> QED
  BY <1>2, <1>3

LEMMA PosType == ASSUME NEW x \in Int PROVE Pos(x) \in Nat /\ Pos(x) >= x
BY MaxTwo DEF Pos

LEMMA ChargedType ==
  ASSUME NEW e \in Int, NEW sur \in Int, NEW g \in Int
  PROVE  Charged(e, sur, g).pv \in Int /\ Charged(e, sur, g).g \in Int
<1> DEFINE room == Pos(Efull - e)
           pv == Min({sur, room})
           groom == Pos(Egmax - e - pv)
<1>1. Efull \in Int /\ Egmax \in Int
  BY PlanSizes
<1>2. Efull - e \in Int
  BY <1>1
<1>3. room \in Int
  BY <1>2, PosType
<1>4. pv \in Int
  BY <1>3, MinTwo
<1>5. Egmax - e - pv \in Int
  BY <1>1, <1>4
<1>6. groom \in Int
  BY <1>5, PosType
<1>7. Min({g, groom}) \in Int
  BY <1>6, MinTwo
<1>8. Charged(e, sur, g) = [pv |-> pv, g |-> Min({g, groom})]
  BY Zenon DEF Charged
<1> HIDE DEF room, pv, groom
<1> QED
  BY <1>4, <1>7, <1>8

LEMMA DischargedType ==
  ASSUME NEW e \in Int, NEW act, NEW deficit \in Int
  PROVE  Discharged(e, act, deficit).ac \in Nat /\ Discharged(e, act, deficit).dc \in Int
<1> DEFINE p == Min({deficit, DisMax})
           avail == e - Emin
<1>1. Emin \in Int /\ DisMax \in Int /\ LossDis \in Int
  BY PlanSizes
<1>2. p \in Int /\ avail \in Int
  BY <1>1, MinTwo
<1>3. Discharged(e, act, deficit) =
        IF act # "normal" \/ p <= 0 \/ avail <= LossDis THEN [ac |-> 0, dc |-> 0]
        ELSE IF p + LossDis > avail THEN [ac |-> avail - LossDis, dc |-> avail]
        ELSE [ac |-> p, dc |-> p + LossDis]
  BY Zenon DEF Discharged
<1> HIDE DEF p, avail
<1>4. CASE act # "normal" \/ p <= 0 \/ avail <= LossDis
  BY <1>3, <1>4
<1>5. CASE ~(act # "normal" \/ p <= 0 \/ avail <= LossDis) /\ p + LossDis > avail
  <2>1. Discharged(e, act, deficit) = [ac |-> avail - LossDis, dc |-> avail]
    BY <1>3, <1>5
  <2> QED
    BY <1>1, <1>2, <1>5, <2>1
<1>6. CASE ~(act # "normal" \/ p <= 0 \/ avail <= LossDis) /\ ~(p + LossDis > avail)
  <2>1. Discharged(e, act, deficit) = [ac |-> p, dc |-> p + LossDis]
    BY <1>3, <1>6
  <2> QED
    BY <1>1, <1>2, <1>6, <2>1
<1> QED
  BY <1>4, <1>5, <1>6

FlowType == [e : Int, grid : Int, ac : Nat, dc : Int, used : Int]
LEMMA FlowIs ==
  ASSUME NEW net \in Int, NEW e \in Int, NEW act, NEW g \in Int
  PROVE  Flow(net, e, act, g) \in FlowType
<1> DEFINE in_ == Charged(e, Pos(net), IF act = "charge" THEN g ELSE 0)
           out == Discharged(e, act, Pos(-net))
<1>1. Pos(net) \in Int /\ Pos(-net) \in Int /\ (IF act = "charge" THEN g ELSE 0) \in Int
  BY PosType
<1>2. in_.pv \in Int /\ in_.g \in Int
  BY <1>1, ChargedType
<1>3. out.ac \in Nat /\ out.dc \in Int
  BY <1>1, DischargedType
<1>4. Flow(net, e, act, g) = [e |-> e + in_.pv + in_.g - out.dc, grid |-> in_.pv + in_.g - net - out.ac,
                              ac |-> out.ac, dc |-> out.dc, used |-> in_.g]
  BY Zenon DEF Flow
<1> HIDE DEF in_, out
<1> QED
  BY <1>2, <1>3, <1>4 DEF FlowType

LEMMA CostIs ==
  ASSUME NEW f \in FlowType, NEW p \in Int
  PROVE  CostOf(f, p) \in Int
<1>1. f.grid \in Int /\ f.dc \in Int /\ Feedin \in Int /\ Cycle \in Int
  BY PlanSizes DEF FlowType
<1>2. (IF f.grid > 0 THEN p ELSE Feedin) \in Int
  BY <1>1
<1>3. f.grid * (IF f.grid > 0 THEN p ELSE Feedin) \in Int /\ Cycle * f.dc \in Int
  BY <1>1, <1>2
<1> QED
  BY <1>3 DEF CostOf

LEMMA SlotStepIs ==
  ASSUME NEW c \in Inputs, NEW i \in 0..N - 1, NEW e \in Int, NEW act, NEW g \in Int
  PROVE  SlotStep(c, i, e, act, g) \in StepType
<1> DEFINE f == Flow(c.net[i], e, act, g)
<1>1. c.net[i] \in Int /\ c.price[i] \in Int
  BY InputType
<1>2. f \in FlowType
  BY <1>1, FlowIs
<1>3. CostOf(f, c.price[i]) \in Int
  BY <1>1, <1>2, CostIs
<1>4. SlotStep(c, i, e, act, g) = [e |-> f.e, grid |-> f.grid, ac |-> f.ac, used |-> f.used, cost |-> CostOf(f, c.price[i])]
  BY Zenon DEF SlotStep
<1> HIDE DEF f
<1> QED
  BY <1>2, <1>3, <1>4 DEF FlowType, StepType

(* A move of the battery through the horizon: what run() computes.         *)
Passes(c, t, r) ==
  /\ r[0].from = c.e0 /\ r[0].sum = 0
  /\ \A i \in 0..N - 1 : /\ r[i].slot = SlotStep(c, i, r[i].from, t[i].act, t[i].g)
                         /\ r[i + 1].from = r[i].slot.e
                         /\ r[i + 1].sum = r[i].sum + r[i].slot.cost

LEMMA ArrivesIs ==
  ASSUME NEW c \in Inputs, NEW t \in Decisions, NEW i \in 0..N, NEW e \in Int, NEW sum \in Int
  PROVE  /\ Arrives(c, t, i, e, sum) \in StopType
         /\ Arrives(c, t, i, e, sum).from = e /\ Arrives(c, t, i, e, sum).sum = sum
         /\ i # N => Arrives(c, t, i, e, sum).slot = SlotStep(c, i, e, t[i].act, t[i].g)
<1> DEFINE now == IF i = N THEN NoStep(e) ELSE SlotStep(c, i, e, t[i].act, t[i].g)
<1>1. now \in StepType
  <2>1. CASE i = N
    <3>1. NoStep(e) \in StepType
      BY DEF NoStep, StepType
    <3> QED
      BY <2>1, <3>1
  <2>2. CASE i # N
    <3>1. i \in 0..N - 1 /\ t[i].g \in Int
      BY <2>2, PlanSizes DEF Decisions
    <3>2. SlotStep(c, i, e, t[i].act, t[i].g) \in StepType
      BY <3>1, SlotStepIs
    <3> QED
      BY <2>2, <3>2
  <2> QED
    BY <2>1, <2>2
<1>2. i # N => now = SlotStep(c, i, e, t[i].act, t[i].g)
  OBVIOUS
<1>3. Arrives(c, t, i, e, sum) = [from |-> e, sum |-> sum, slot |-> now]
  BY Zenon DEF Arrives
<1> HIDE DEF now
<1> QED
  BY <1>1, <1>2, <1>3 DEF StopType

LEMMA FollowIs ==
  ASSUME NEW c \in Inputs, NEW t \in Decisions, NEW i \in 0..N, NEW p \in StopType
  PROVE  /\ Follow(c, t, i, p) \in StopType
         /\ Follow(c, t, i, p).from = p.slot.e /\ Follow(c, t, i, p).sum = p.sum + p.slot.cost
         /\ i # N => Follow(c, t, i, p).slot = SlotStep(c, i, p.slot.e, t[i].act, t[i].g)
<1>1. p.slot.e \in Int /\ p.sum + p.slot.cost \in Int
  BY DEF StopType, StepType
<1> QED
  BY <1>1, ArrivesIs DEF Follow

LEMMA RunIs ==
  ASSUME NEW c \in Inputs, NEW t \in Decisions
  PROVE  Run(c, t) \in [0..N -> StopType] /\ Passes(c, t, Run(c, t))
<1> DEFINE x0 == Arrives(c, t, 0, c.e0, 0)
           Body(g) == [i \in 0..N |-> IF i = 0 THEN x0 ELSE Follow(c, t, i, g[i - 1])]
           step == [i \in 0 + 1 .. N |-> [p \in StopType |-> Follow(c, t, i, p)]]
           f == CHOOSE g : g = Body(g)
<1>0. N \in Nat \ {0}
  BY PlanSizes
<1>1. Run(c, t) = f
  BY Zenon DEF Run
<1>2. c.e0 \in Int /\ 0 \in 0..N
  <2>1. 0 \in 0..N - 1 /\ 0 \in 0..N
    BY <1>0
  <2> QED
    BY <2>1, InputType
<1>3. x0 \in StopType /\ x0.from = c.e0 /\ x0.sum = 0 /\ x0.slot = SlotStep(c, 0, c.e0, t[0].act, t[0].g)
  BY <1>0, <1>2, ArrivesIs
<1> HIDE DEF x0
<1>4. step \in [0 + 1 .. N -> [StopType -> StopType]]
  BY <1>0, FollowIs
<1>a. \E h : h \in Unrolled(0, N, StopType, x0, step)
  <2> HIDE DEF step
  <2>1. 0 \in Int /\ N \in Int /\ 0 <= N
    BY <1>0
  <2>2. x0 \in StopType
    BY <1>3
  <2> QED
    BY <1>4, <2>1, <2>2, RecursionWorks
<1>5. PICK h \in [0..N -> StopType] : h[0] = x0 /\ \A i \in 0 + 1 .. N : h[i] = step[i][h[i - 1]]
  BY <1>a DEF Unrolled
<1>6. h = Body(h)
  <2>1. \A i \in 0..N : i # 0 => i \in 0 + 1 .. N /\ i - 1 \in 0..N
    BY <1>0
  <2>2. \A i \in 0..N : h[i] = IF i = 0 THEN x0 ELSE Follow(c, t, i, h[i - 1])
    BY <1>5, <2>1
  <2> QED
    BY <2>2
<1>7. f = Body(f)
  <2> HIDE DEF Body
  <2> QED
    BY <1>6, Zenon
<1> HIDE DEF f
<1>8. f[0] = x0 /\ \A i \in 1..N : f[i] = Follow(c, t, i, f[i - 1])
  BY <1>0, <1>7
<1>9. \A i \in 0..N : f[i] \in StopType
  <2> DEFINE P == {i \in 0..N : f[i] \in StopType}
  <2>1. 0 \in P
    BY <1>2, <1>3, <1>8
  <2>2. \A i \in 0 + 1 .. N : i - 1 \in P => i \in P
    BY <1>0, <1>8, FollowIs
  <2> HIDE DEF P
  <2>3. \A i \in 0..N : i \in P
    BY <1>0, <2>1, <2>2, StepByStep
  <2> QED
    BY <2>3 DEF P
<1>10. f \in [0..N -> StopType]
  <2>1. f = [i \in 0..N |-> f[i]]
    BY <1>7
  <2> QED
    BY <1>9, <2>1
<1>11. ASSUME NEW i \in 0..N - 1
       PROVE  /\ f[i].slot = SlotStep(c, i, f[i].from, t[i].act, t[i].g)
              /\ f[i + 1].from = f[i].slot.e
              /\ f[i + 1].sum = f[i].sum + f[i].slot.cost
  <2>1. i \in 0..N /\ i # N /\ i + 1 \in 1..N /\ i + 1 \in 0..N /\ (i + 1) - 1 = i
    BY <1>0
  <2>2. f[i + 1] = Follow(c, t, i + 1, f[i])
    BY <1>8, <2>1
  <2>3. f[i].slot = SlotStep(c, i, f[i].from, t[i].act, t[i].g)
    <3>1. CASE i = 0
      BY <1>3, <1>8, <3>1
    <3>2. CASE i # 0
      <4>1. i \in 1..N /\ i - 1 \in 0..N
        BY <1>0, <3>2
      <4>2. f[i] = Follow(c, t, i, f[i - 1]) /\ f[i - 1] \in StopType
        BY <1>8, <1>9, <4>1
      <4> QED
        BY <2>1, <4>2, FollowIs
    <3> QED
      BY <3>1, <3>2
  <2>4. f[i] \in StopType
    BY <1>9, <2>1
  <2> QED
    BY <2>1, <2>2, <2>3, <2>4, FollowIs
<1> QED
  BY <1>1, <1>3, <1>8, <1>10, <1>11 DEF Passes

(* Two plans that decide alike up to a slot arrive there alike.            *)
Alike(r, q, i) == r[i].from = q[i].from /\ r[i].sum = q[i].sum

LEMMA PassTogether ==
  ASSUME NEW c, NEW t, NEW u, NEW r, NEW q, Passes(c, t, r), Passes(c, u, q), NEW n \in 0..N,
         \A i \in 0..N - 1 : i < n => t[i].act = u[i].act /\ t[i].g = u[i].g
  PROVE  \A i \in 0..n : Alike(r, q, i)
<1> DEFINE P == {i \in 0..n : Alike(r, q, i)}
<1>0. N \in Nat \ {0} /\ n \in Nat /\ n <= N
  BY PlanSizes
<1>1. 0 \in P
  BY <1>0 DEF Passes, Alike
<1>2. ASSUME NEW i \in 0 + 1 .. n, i - 1 \in P PROVE i \in P
  <2> PICK k : k = i - 1
    OBVIOUS
  <2>1. k \in 0..N - 1 /\ k < n /\ i = k + 1 /\ i \in 0..n
    BY <1>0
  <2>2. Alike(r, q, k)
    BY <1>2
  <2>3. r[k].slot = q[k].slot
    BY <2>1, <2>2 DEF Passes, Alike
  <2>4. Alike(r, q, k + 1)
    BY <2>1, <2>2, <2>3 DEF Passes, Alike
  <2> QED
    BY <2>1, <2>4
<1> HIDE DEF P
<1>3. \A i \in 0..n : i \in P
  BY <1>0, <1>1, <1>2, StepByStep
<1> QED
  BY <1>3 DEF P

LEMMA SameCost ==
  ASSUME NEW c \in Inputs, NEW t \in Decisions, NEW u \in Decisions, NEW v,
         \A i \in 0..N - 1 : t[i].act = u[i].act /\ t[i].g = u[i].g
  PROVE  Total(v, Run(c, t)) = Total(v, Run(c, u))
<1>1. N \in 0..N
  BY PlanSizes
<1>2. \A i \in 0..N : Alike(Run(c, t), Run(c, u), i)
  <2>1. \A i \in 0..N - 1 : i < N => t[i].act = u[i].act /\ t[i].g = u[i].g
    OBVIOUS
  <2> QED
    BY <1>1, <2>1, RunIs, PassTogether
<1> QED
  BY <1>1, <1>2 DEF Alike, Total

(* What is left at the end has a value.                                    *)
LEMMA TermValueIs ==
  ASSUME NEW v, v.flat \in Int, v.tab = << >> \/ v.tab \in [Emin..Efull -> Int], NEW e \in Int
  PROVE  TermValue(v, e) \in Int
<1>1. Emin \in Int /\ Efull \in Int /\ Emin <= Efull
  BY PlanSizes
<1>2. CASE e <= Emin
  BY <1>2 DEF TermValue
<1>3. CASE e > Emin /\ v.tab = << >>
  <2>1. TermValue(v, e) = (e - Emin) * v.flat
    BY <1>1, <1>3 DEF TermValue
  <2> PICK k : k = e - Emin
    OBVIOUS
  <2>2. k \in Int
    BY <1>1
  <2>3. k * v.flat \in Int
    BY <2>2
  <2> QED
    BY <2>1, <2>3
<1>4. CASE e > Emin /\ v.tab # << >>
  <2> PICK k : k = Min({e, Efull})
    OBVIOUS
  <2>a. k \in Int /\ (k = e \/ k = Efull) /\ k <= Efull
    BY <1>1, MinTwo
  <2>1. k \in Emin..Efull
    BY <1>1, <1>4, <2>a
  <2>2. TermValue(v, e) = v.tab[k]
    BY <1>1, <1>4 DEF TermValue
  <2> QED
    BY <1>4, <2>1, <2>2
<1> QED
  BY <1>1, <1>2, <1>3, <1>4

(* The plan under way: its horizon is what run() makes of it.              *)
HorizonInv ==
  /\ in \in Inputs /\ s \in Decisions /\ base = Run(in, s)
  /\ term.flat \in Int /\ (term.tab = << >> \/ term.tab \in [Emin..Efull -> Int])

MoveType(m) ==
  /\ m.j \in 0..N - 1 /\ m.act \in {"normal", "hold", "charge"} /\ m.g \in Int
  /\ m.br # {} => m.k \in 0..N
  /\ \A i \in m.br : i \in 0..N - 1 /\ i < m.k /\ i > m.j

LEMMA AppliedIs ==
  ASSUME HorizonInv, NEW m, MoveType(m)
  PROVE  /\ Applied(m) \in Decisions
         /\ Applied(m)[m.j].act = m.act /\ Applied(m)[m.j].g = m.g
         /\ \A i \in 0..N - 1 : i # m.j =>
              /\ Applied(m)[i].act = (IF i \in m.br THEN "hold" ELSE s[i].act)
              /\ Applied(m)[i].g = s[i].g
<1> DEFINE Dec == [act : {"normal", "hold", "charge"}, g : Int, why : Int]
           at(i) == IF i = m.j THEN [s[i] EXCEPT !.act = m.act, !.g = m.g]
                    ELSE IF i \in m.br THEN [s[i] EXCEPT !.act = "hold"] ELSE s[i]
<1>1. \A i \in 0..N - 1 : s[i] \in Dec
  BY DEF HorizonInv, Decisions
<1>2. m.act \in {"normal", "hold", "charge"} /\ m.g \in Int /\ m.j \in 0..N - 1
  BY DEF MoveType
<1>3. ASSUME NEW i \in 0..N - 1, i = m.j
      PROVE  at(i) \in Dec /\ at(i).act = m.act /\ at(i).g = m.g
  <2>1. at(i) = [s[i] EXCEPT !.act = m.act, !.g = m.g]
    BY <1>3
  <2>2. s[i] \in Dec
    BY <1>1
  <2> HIDE DEF at
  <2> QED
    BY <1>2, <2>1, <2>2
<1>4. ASSUME NEW i \in 0..N - 1, i # m.j
      PROVE  at(i) \in Dec /\ at(i).act = (IF i \in m.br THEN "hold" ELSE s[i].act) /\ at(i).g = s[i].g
  <2>1. at(i) = IF i \in m.br THEN [s[i] EXCEPT !.act = "hold"] ELSE s[i]
    BY <1>4
  <2>2. s[i] \in Dec
    BY <1>1
  <2> HIDE DEF at
  <2>3. CASE i \in m.br
    <3>1. at(i) = [s[i] EXCEPT !.act = "hold"]
      BY <2>1, <2>3
    <3> QED
      BY <2>2, <2>3, <3>1
  <2>4. CASE i \notin m.br
    <3>1. at(i) = s[i]
      BY <2>1, <2>4
    <3> QED
      BY <2>2, <2>4, <3>1
  <2> QED
    BY <2>3, <2>4
<1>5. Applied(m) = [i \in 0..N - 1 |-> at(i)]
  BY Zenon DEF Applied
<1> HIDE DEF at
<1>6. Applied(m) \in [0..N - 1 -> Dec]
  BY <1>3, <1>4, <1>5
<1> QED
  BY <1>2, <1>3, <1>4, <1>5, <1>6 DEF Decisions

(* delta() stands at the slot i: the candidate's energy is x, or it is the *)
(* base's again, and d is what the candidate has saved until now.          *)
RideType == [x : Int, met : BOOLEAN, d : Int]
Rides(m, r, q, i, p) ==
  /\ p.d = r[i + 1].sum - q[i + 1].sum
  /\ p.met => q[i + 1].from = r[i + 1].from /\ (m.br # {} => i >= m.k)
  /\ ~p.met => p.x = q[i + 1].from

LEMMA RideGoesOn ==
  ASSUME HorizonInv, NEW m, MoveType(m),
         NEW q, q = Run(in, Applied(m)),
         NEW i \in 0..N - 1, i > m.j, NEW p \in RideType, Rides(m, base, q, i - 1, p)
  PROVE  Goes(m, i, p) \in RideType /\ Rides(m, base, q, i, Goes(m, i, p))
<1> DEFINE n == Goes(m, i, p)
<1>a. n = Goes(m, i, p)
  OBVIOUS
<1>0. N \in Nat \ {0} /\ i \in 0..N /\ i + 1 \in 0..N /\ (i - 1) + 1 = i /\ m.j \in Int
  BY PlanSizes DEF MoveType
<1>1. /\ base \in [0..N -> StopType] /\ q \in [0..N -> StopType]
      /\ Passes(in, s, base) /\ Passes(in, Applied(m), q)
  BY RunIs, AppliedIs DEF HorizonInv
<1>2. /\ base[i].slot = SlotStep(in, i, base[i].from, s[i].act, s[i].g)
      /\ base[i + 1].from = base[i].slot.e /\ base[i + 1].sum = base[i].sum + base[i].slot.cost
      /\ q[i].slot = SlotStep(in, i, q[i].from, Applied(m)[i].act, Applied(m)[i].g)
      /\ q[i + 1].from = q[i].slot.e /\ q[i + 1].sum = q[i].sum + q[i].slot.cost
  BY <1>1 DEF Passes
<1>3. /\ Applied(m)[i].act = (IF i \in m.br THEN "hold" ELSE s[i].act) /\ Applied(m)[i].g = s[i].g
  BY <1>0, AppliedIs
<1>4. /\ base[i].from \in Int /\ base[i].sum \in Int /\ base[i].slot.e \in Int /\ base[i].slot.cost \in Int
      /\ q[i].from \in Int /\ q[i].sum \in Int /\ q[i].slot.e \in Int /\ q[i].slot.cost \in Int
  BY <1>0, <1>1 DEF StopType, StepType
<1>5. /\ p.d = base[i].sum - q[i].sum
      /\ p.met => q[i].from = base[i].from /\ (m.br # {} => i - 1 >= m.k)
      /\ ~p.met => p.x = q[i].from
  BY <1>0 DEF Rides
<1>6. p.x \in Int /\ p.met \in BOOLEAN /\ p.d \in Int
  BY DEF RideType
<1>7. m.br # {} => m.k \in Int /\ \A l \in m.br : l < m.k
  BY PlanSizes DEF MoveType
<1>8. CASE p.met \/ Met(m, i, p.x)
  <2>1. n = [x |-> p.x, met |-> TRUE, d |-> p.d]
    BY <1>8 DEF Goes
  <2> HIDE DEF n
  <2>2. q[i].from = base[i].from /\ (m.br # {} => i >= m.k)
    BY <1>0, <1>5, <1>7, <1>8 DEF Met
  <2>3. i \notin m.br
    BY <1>0, <1>7, <2>2
  <2>4. q[i].slot = base[i].slot
    BY <1>2, <1>3, <2>2, <2>3
  <2>5. q[i + 1].from = base[i + 1].from
    BY <1>2, <2>4
  <2>6. p.d = base[i + 1].sum - q[i + 1].sum
    BY <1>2, <1>4, <1>5, <2>4
  <2>7. n \in RideType /\ n.met /\ n.d = p.d
    BY <1>6, <2>1 DEF RideType
  <2> QED
    BY <1>a, <2>2, <2>5, <2>6, <2>7 DEF Rides
<1>9. CASE ~p.met /\ ~Met(m, i, p.x)
  <2> DEFINE now == SlotStep(in, i, p.x, IF i \in m.br THEN "hold" ELSE s[i].act, s[i].g)
  <2>1. n = [x |-> now.e, met |-> FALSE, d |-> p.d + base[i].slot.cost - now.cost]
    BY <1>9 DEF Goes, Went
  <2>2. now = q[i].slot
    BY <1>2, <1>3, <1>5, <1>9
  <2> HIDE DEF now, n
  <2>3. n = [x |-> q[i + 1].from, met |-> FALSE, d |-> p.d + base[i].slot.cost - q[i].slot.cost]
    BY <1>2, <2>1, <2>2
  <2>4. p.d + base[i].slot.cost - q[i].slot.cost = base[i + 1].sum - q[i + 1].sum
    BY <1>2, <1>4, <1>5
  <2>5. p.d + base[i].slot.cost - q[i].slot.cost \in Int /\ q[i + 1].from \in Int
    BY <1>2, <1>4, <1>6
  <2>6. n \in RideType /\ ~n.met /\ n.x = q[i + 1].from /\ n.d = base[i + 1].sum - q[i + 1].sum
    BY <2>3, <2>4, <2>5 DEF RideType
  <2> QED
    BY <1>a, <2>6 DEF Rides
<1> QED
  BY <1>8, <1>9

LEMMA GoesType ==
  ASSUME HorizonInv, NEW m, NEW i \in 0..N - 1, NEW p \in RideType
  PROVE  Goes(m, i, p) \in RideType
<1> DEFINE now == SlotStep(in, i, p.x, IF i \in m.br THEN "hold" ELSE s[i].act, s[i].g)
<1>1. p.x \in Int /\ p.met \in BOOLEAN /\ p.d \in Int
  BY DEF RideType
<1>2. in \in Inputs /\ s[i].g \in Int
  BY DEF HorizonInv, Decisions
<1>3. now \in StepType
  BY <1>1, <1>2, SlotStepIs
<1>4. base[i].slot.cost \in Int
  <2>1. i \in 0..N
    BY PlanSizes
  <2>2. base \in [0..N -> StopType]
    BY RunIs DEF HorizonInv
  <2> QED
    BY <2>1, <2>2 DEF StopType, StepType
<1>5. CASE p.met \/ Met(m, i, p.x)
  BY <1>1, <1>5 DEF Goes, RideType
<1>6. CASE ~(p.met \/ Met(m, i, p.x))
  <2>1. Goes(m, i, p) = [x |-> now.e, met |-> FALSE, d |-> p.d + base[i].slot.cost - now.cost]
    BY <1>6 DEF Goes, Went
  <2> HIDE DEF now
  <2> QED
    BY <1>1, <1>3, <1>4, <2>1 DEF RideType, StepType
<1> QED
  BY <1>5, <1>6

LEMMA RideStarts ==
  ASSUME HorizonInv, NEW m, MoveType(m)
  PROVE  Left(m) \in RideType /\ Rides(m, base, Run(in, Applied(m)), m.j, Left(m))
<1> DEFINE q == Run(in, Applied(m))
           j == m.j
           now == SlotStep(in, j, base[j].from, m.act, m.g)
<1>a. q = Run(in, Applied(m)) /\ j = m.j
  OBVIOUS
<1>0. N \in Nat \ {0} /\ j \in 0..N - 1 /\ j \in 0..N /\ j + 1 \in 0..N
  BY PlanSizes DEF MoveType
<1>1. Left(m) = [x |-> now.e, met |-> FALSE, d |-> base[j].slot.cost - now.cost]
  BY Zenon DEF Left
<1> HIDE DEF q, j
<1>2. /\ base \in [0..N -> StopType] /\ q \in [0..N -> StopType]
      /\ Passes(in, s, base) /\ Passes(in, Applied(m), q)
  BY <1>a, RunIs, AppliedIs DEF HorizonInv
<1>3. Alike(base, q, j)
  <2>1. \A i \in 0..N - 1 : i < j => s[i].act = Applied(m)[i].act /\ s[i].g = Applied(m)[i].g
    <3> SUFFICES ASSUME NEW i \in 0..N - 1, i < j
                 PROVE  s[i].act = Applied(m)[i].act /\ s[i].g = Applied(m)[i].g
      OBVIOUS
    <3>1. i # m.j /\ i \notin m.br
      BY <1>a, <1>0 DEF MoveType
    <3> QED
      BY <3>1, AppliedIs
  <2>2. \A i \in 0..j : Alike(base, q, i)
    BY <1>0, <1>2, <2>1, PassTogether
  <2> QED
    BY <1>0, <2>2
<1>4. /\ base[j + 1].from = base[j].slot.e /\ base[j + 1].sum = base[j].sum + base[j].slot.cost
      /\ q[j].slot = SlotStep(in, j, q[j].from, Applied(m)[j].act, Applied(m)[j].g)
      /\ q[j + 1].from = q[j].slot.e /\ q[j + 1].sum = q[j].sum + q[j].slot.cost
  BY <1>0, <1>2 DEF Passes
<1>5. Applied(m)[j].act = m.act /\ Applied(m)[j].g = m.g
  BY <1>a, AppliedIs
<1>6. q[j].slot = now
  BY <1>3, <1>4, <1>5 DEF Alike
<1>7. /\ base[j].sum \in Int /\ base[j].slot.cost \in Int
      /\ q[j].sum \in Int /\ q[j].slot.e \in Int /\ q[j].slot.cost \in Int
  BY <1>0, <1>2 DEF StopType, StepType
<1> HIDE DEF now
<1>8. base[j].slot.cost - now.cost = base[j + 1].sum - q[j + 1].sum
  BY <1>3, <1>4, <1>6, <1>7 DEF Alike
<1>9. Left(m) \in RideType /\ ~Left(m).met /\ Left(m).x = q[j + 1].from /\ Left(m).d = base[j + 1].sum - q[j + 1].sum
  BY <1>1, <1>4, <1>6, <1>7, <1>8 DEF RideType
<1>10. Rides(m, base, q, j, Left(m))
  BY <1>9 DEF Rides
<1> QED
  BY <1>a, <1>9, <1>10

(* What delta() sums is what the two whole horizons differ by, though it   *)
(* stops where their energy meets.                                         *)
LEMMA DeltaIs ==
  ASSUME HorizonInv, NEW m, MoveType(m)
  PROVE  /\ Delta(m) = Total(term, base) - Total(term, Run(in, Applied(m)))
         /\ Delta(m) \in Int /\ Total(term, base) \in Int /\ Total(term, Run(in, Applied(m))) \in Int
<1> DEFINE q == Run(in, Applied(m))
           b == N - 1
           Body(g) == [i \in m.j..b |-> IF i = m.j THEN Left(m) ELSE Goes(m, i, g[i - 1])]
           step == [i \in m.j + 1 .. b |-> [p \in RideType |-> Goes(m, i, p)]]
           f == CHOOSE g : g = Body(g)
<1>a. q = Run(in, Applied(m)) /\ b = N - 1
  OBVIOUS
<1>0. /\ N \in Nat \ {0} /\ m.j \in Int /\ 0 <= m.j /\ b \in Int /\ m.j <= b
      /\ N \in 0..N /\ b \in 0..N - 1 /\ b + 1 = N
  BY PlanSizes DEF MoveType
<1>1. Delta(m) = Ended(f[b])
  BY Zenon DEF Delta
<1>2. Left(m) \in RideType /\ Rides(m, base, q, m.j, Left(m))
  BY RideStarts
<1> HIDE DEF q, b
<1>3. \A i \in m.j..b : i \in 0..N - 1
  BY <1>a, <1>0
<1>4. step \in [m.j + 1 .. b -> [RideType -> RideType]]
  <2>1. \A i \in m.j + 1 .. b : i \in m.j..b
    BY <1>0
  <2> QED
    BY <1>3, <2>1, GoesType
<1>5. PICK h \in [m.j..b -> RideType] : h[m.j] = Left(m) /\ \A i \in m.j + 1 .. b : h[i] = step[i][h[i - 1]]
  <2> HIDE DEF step
  <2>1. \E h : h \in Unrolled(m.j, b, RideType, Left(m), step)
    BY <1>0, <1>2, <1>4, RecursionWorks
  <2> QED
    BY <2>1 DEF Unrolled
<1>6. h = Body(h)
  <2>1. \A i \in m.j..b : i # m.j => i \in m.j + 1 .. b /\ i - 1 \in m.j..b
    BY <1>0
  <2>2. \A i \in m.j..b : h[i] = IF i = m.j THEN Left(m) ELSE Goes(m, i, h[i - 1])
    BY <1>5, <2>1
  <2> QED
    BY <2>2
<1>7. f = Body(f)
  <2> HIDE DEF Body
  <2> QED
    BY <1>6, Zenon
<1> HIDE DEF f
<1>8. f[m.j] = Left(m) /\ \A i \in m.j + 1 .. b : f[i] = Goes(m, i, f[i - 1])
  BY <1>0, <1>7
<1>9. \A i \in m.j..b : f[i] \in RideType /\ Rides(m, base, q, i, f[i])
  <2> DEFINE P == {i \in m.j..b : f[i] \in RideType /\ Rides(m, base, q, i, f[i])}
  <2>1. m.j \in P
    BY <1>0, <1>2, <1>8
  <2>2. ASSUME NEW i \in m.j + 1 .. b, i - 1 \in P PROVE i \in P
    <3>1. i \in m.j..b /\ i > m.j /\ i \in 0..N - 1
      BY <1>0, <1>3
    <3>2. f[i - 1] \in RideType /\ Rides(m, base, q, i - 1, f[i - 1]) /\ f[i] = Goes(m, i, f[i - 1])
      BY <1>8, <2>2
    <3>3. Goes(m, i, f[i - 1]) \in RideType /\ Rides(m, base, q, i, Goes(m, i, f[i - 1]))
      BY <1>a, <3>1, <3>2, RideGoesOn
    <3> QED
      BY <3>1, <3>2, <3>3
  <2> HIDE DEF P
  <2>3. \A i \in m.j..b : i \in P
    BY <1>0, <2>1, <2>2, StepByStep
  <2> QED
    BY <2>3 DEF P
<1>10. f[b] \in RideType /\ Rides(m, base, q, b, f[b])
  BY <1>0, <1>9
<1>11. PICK p : p = f[b]
  OBVIOUS
<1>12. /\ p.d = base[N].sum - q[N].sum
       /\ p.met => q[N].from = base[N].from
       /\ ~p.met => p.x = q[N].from
       /\ p.met \in BOOLEAN /\ p.d \in Int
  BY <1>0, <1>10, <1>11 DEF Rides, RideType
<1>13. /\ base[N].sum \in Int /\ base[N].from \in Int /\ q[N].sum \in Int /\ q[N].from \in Int
  <2>1. base \in [0..N -> StopType] /\ q \in [0..N -> StopType]
    BY <1>a, RunIs, AppliedIs DEF HorizonInv
  <2> QED
    BY <1>0, <2>1 DEF StopType
<1>14. TermValue(term, base[N].from) \in Int /\ TermValue(term, q[N].from) \in Int
  BY <1>13, TermValueIs DEF HorizonInv
<1>15. Total(term, base) = base[N].sum - TermValue(term, base[N].from) /\ Total(term, q) = q[N].sum - TermValue(term, q[N].from)
  BY DEF Total
<1>16. Delta(m) = p.d + IF p.met THEN 0 ELSE TermValue(term, p.x) - TermValue(term, base[N].from)
  BY <1>1, <1>11 DEF Ended
<1>17. CASE p.met
  BY <1>a, <1>12, <1>13, <1>14, <1>15, <1>16, <1>17
<1>18. CASE ~p.met
  BY <1>a, <1>12, <1>13, <1>14, <1>15, <1>16, <1>18
<1> QED
  BY <1>12, <1>17, <1>18

(* The moves that are tried.                                               *)
LEMMA LeastSlot ==
  ASSUME NEW S, S \subseteq 0..N - 1, S # {}
  PROVE  Min(S) \in S
<1>1. S \subseteq Nat
  BY PlanSizes
<1>2. \E x \in S : \A y \in S : ~(<< y, x >> \in OpToRel(<, Nat))
  BY <1>1, NatLessThanWellFounded, WFMin
<1>3. \A x, y \in Nat : y < x => << y, x >> \in OpToRel(<, Nat)
  BY Zenon DEF OpToRel
<1>4. PICK x \in S : \A y \in S : ~(y < x)
  BY <1>1, <1>2, <1>3, Zenon
<1>5. \A y \in S : x <= y
  BY <1>1, <1>4
<1> QED
  BY <1>5 DEF Min

LEMMA TargetIs ==
  ASSUME NEW k \in Target
  PROVE  k \in 0..N
<1>1. N \in Nat \ {0}
  BY PlanSizes
<1>2. CASE k = End
  BY <1>1, <1>2 DEF End
<1>3. CASE k # End
  <2>1. Dearest # {} /\ k = Min(Dearest)
    BY <1>3 DEF Target
  <2>2. Dearest \subseteq 0..N - 1
    BY DEF Dearest, Importing
  <2>3. k \in Dearest
    BY <2>1, <2>2, LeastSlot
  <2> QED
    BY <1>1, <2>2, <2>3
<1> QED
  BY <1>2, <1>3

LEMMA MovesAre ==
  ASSUME HorizonInv, NEW k \in 0..N, NEW m \in Moves(k)
  PROVE  MoveType(m) /\ m.k = k
<1>0. N \in Nat \ {0}
  BY PlanSizes
<1> DEFINE Cheap == {i \in 0..k - 1 : in.price[i] < Price(k) - Spread}
           There(j) == {[j |-> j, k |-> k, act |-> c.act, g |-> c.g, br |-> b] :
                          c \in Changes(j, k), b \in {{}, Bridge(k) \cap (j + 1)..k - 1}}
<1>a. m \in UNION {There(j) : j \in Cheap}
  BY DEF Moves
<1>1. PICK j \in Cheap : m \in There(j)
  <2> HIDE DEF Cheap, There
  <2> QED
    BY <1>a
<1>2. PICK c \in Changes(j, k), b \in {{}, Bridge(k) \cap (j + 1)..k - 1} :
        m = [j |-> j, k |-> k, act |-> c.act, g |-> c.g, br |-> b]
  BY <1>1
<1>3. j \in 0..N - 1 /\ j \in 0..k - 1
  BY <1>0, <1>1
<1>4. s[j].g \in Int
  BY <1>3 DEF HorizonInv, Decisions
<1>5. c.act \in {"normal", "hold", "charge"} /\ c.g \in Int
  <2>1. CASE \E g \in Charges(j, k) : c = [act |-> "charge", g |-> g]
    <3>1. \A g \in Charges(j, k) : g \in Int
      BY <1>4, PlanAssumption DEF Charges
    <3> QED
      BY <2>1, <3>1
  <2>2. CASE c = [act |-> "hold", g |-> 0]
    BY <2>2
  <2> QED
    BY <2>1, <2>2 DEF Changes
<1>6. b \subseteq (j + 1)..k - 1
  BY <1>2
<1>7. \A i \in b : i \in 0..N - 1 /\ i < k /\ i > j
  BY <1>0, <1>3, <1>6
<1> QED
  BY <1>2, <1>3, <1>5, <1>7 DEF MoveType

LEMMA LowerIs ==
  ASSUME HorizonInv, NEW j \in Held
  PROVE  MoveType(Lower(j))
<1>1. j \in 0..N - 1
  BY DEF Held
<1>2. s[j].g \in Int
  BY <1>1 DEF HorizonInv, Decisions
<1>3. /\ Lower(j).j = j /\ Lower(j).br = {}
      /\ Lower(j).act = (IF s[j].act = "hold" THEN "normal" ELSE IF s[j].g > 1 THEN "charge" ELSE "hold")
      /\ Lower(j).g = (IF s[j].act = "charge" THEN s[j].g - 1 ELSE 0)
  BY DEF Lower
<1>4. Lower(j).act \in {"normal", "hold", "charge"}
  BY <1>3
<1>5. Lower(j).g \in Int
  BY <1>2, <1>3
<1> QED
  BY <1>1, <1>3, <1>4, <1>5 DEF MoveType

(* A move shifts energy and never gives any back.                          *)
LEMMA BridgedIs ==
  ASSUME HorizonInv, NEW m
  PROVE  Bridged(m) \in Nat
<1> DEFINE Body(g) == [i \in 0..N |-> IF i = 0 THEN 0 ELSE g[i - 1] + HeldBack(m, i - 1)]
           step == [i \in 0 + 1 .. N |-> [p \in Nat |-> p + HeldBack(m, i - 1)]]
           f == CHOOSE g : g = Body(g)
<1>0. N \in Nat \ {0}
  BY PlanSizes
<1>1. Bridged(m) = f[N]
  BY Zenon DEF Bridged
<1>2. ASSUME NEW i \in 0..N - 1 PROVE HeldBack(m, i) \in Nat
  <2>1. in.net[i] \in Int
    BY InputType DEF HorizonInv
  <2>2. base[i].slot.grid \in Int
    <3>1. base \in [0..N -> StopType] /\ i \in 0..N
      BY <1>0, RunIs DEF HorizonInv
    <3> QED
      BY <3>1 DEF StopType, StepType
  <2>3. -in.net[i] - base[i].slot.grid \in Int
    BY <2>1, <2>2
  <2>4. Pos(-in.net[i] - base[i].slot.grid) \in Nat
    BY <2>3, PosType
  <2> QED
    BY <2>4 DEF HeldBack
<1>3. step \in [0 + 1 .. N -> [Nat -> Nat]]
  <2>1. \A i \in 0 + 1 .. N : i - 1 \in 0..N - 1
    BY <1>0
  <2>2. \A i \in 0 + 1 .. N : HeldBack(m, i - 1) \in Nat
    BY <1>2, <2>1
  <2> QED
    BY <2>2
<1>4. PICK h \in [0..N -> Nat] : h[0] = 0 /\ \A i \in 0 + 1 .. N : h[i] = step[i][h[i - 1]]
  <2> HIDE DEF step
  <2>a. 0 \in Int /\ N \in Int /\ 0 <= N /\ 0 \in Nat
    BY <1>0
  <2>1. \E h : h \in Unrolled(0, N, Nat, 0, step)
    BY <1>3, <2>a, RecursionWorks
  <2> QED
    BY <2>1 DEF Unrolled
<1>5. h = Body(h)
  <2>1. \A i \in 0..N : i # 0 => i \in 0 + 1 .. N /\ i - 1 \in 0..N
    BY <1>0
  <2>2. \A i \in 0..N : h[i] = IF i = 0 THEN 0 ELSE h[i - 1] + HeldBack(m, i - 1)
    BY <1>4, <2>1
  <2> QED
    BY <2>2
<1>6. f = Body(f)
  <2> HIDE DEF Body
  <2> QED
    BY <1>5, Zenon
<1> HIDE DEF f
<1>7. f[0] = 0 /\ \A i \in 0 + 1 .. N : f[i] = f[i - 1] + HeldBack(m, i - 1)
  BY <1>0, <1>6
<1>8. \A i \in 0..N : f[i] \in Nat
  <2> DEFINE P == {i \in 0..N : f[i] \in Nat}
  <2>1. 0 \in P
    BY <1>0, <1>7
  <2>2. ASSUME NEW i \in 0 + 1 .. N, i - 1 \in P PROVE i \in P
    <3>1. i - 1 \in 0..N - 1 /\ i \in 0..N
      BY <1>0
    <3>2. HeldBack(m, i - 1) \in Nat /\ f[i - 1] \in Nat
      BY <1>2, <2>2, <3>1
    <3> QED
      BY <1>7, <3>1, <3>2
  <2> HIDE DEF P
  <2>a. 0 \in Int /\ N \in Int
    BY <1>0
  <2>3. \A i \in 0..N : i \in P
    BY <2>a, <2>1, <2>2, StepByStep
  <2> QED
    BY <2>3 DEF P
<1> QED
  BY <1>0, <1>1, <1>8

LEMMA MovedIs ==
  ASSUME HorizonInv, NEW m, MoveType(m), m.act = "charge" => GridMoved(m) > 0
  PROVE  Moved(m) \in Nat
<1>1. m.j \in 0..N - 1 /\ m.j \in 0..N /\ m.g \in Int
  BY PlanSizes DEF MoveType
<1>2. base[m.j] \in StopType
  BY <1>1, RunIs DEF HorizonInv
<1>3. Kept(m.j) \in Nat
  BY <1>2 DEF Kept, StopType, StepType
<1>4. GridMoved(m) \in Nat
  <2>1. CASE m.act = "charge"
    <3>1. SlotStep(in, m.j, base[m.j].from, m.act, m.g) \in StepType
      BY <1>1, <1>2, SlotStepIs DEF HorizonInv, StopType
    <3>2. GridMoved(m) \in Int
      BY <1>2, <3>1 DEF GridMoved, StopType, StepType
    <3> QED
      BY <2>1, <3>2
  <2>2. CASE m.act # "charge"
    BY <2>2 DEF GridMoved
  <2> QED
    BY <2>1, <2>2
<1>5. Bridged(m) \in Nat
  BY BridgedIs
<1> QED
  BY <1>3, <1>4, <1>5 DEF Moved

(* What is left at the end has a price: the k-th of the prices, and the    *)
(* table of the forecast past them.                                        *)
ValuesOf(a, b, g, S) == g \in [a..b -> Int] /\ S \subseteq Int /\ \A y \in S : \E i \in a..b : y = g[i]

LEMMA SomeLeast ==
  ASSUME NEW a \in Int, NEW b \in Int, NEW g, NEW S, ValuesOf(a, b, g, S), NEW x0 \in S
  PROVE  \E x \in S : \A y \in S : x <= y
<1> DEFINE Upto(n) == {y \in S : \E i \in a..n : y = g[i]}
           P == {n \in a..b : Upto(n) = {} \/ \E x \in Upto(n) : \A y \in Upto(n) : x <= y}
<1> USE DEF ValuesOf
<1>0. a <= b
  <2>1. PICK i \in a..b : x0 = g[i]
    OBVIOUS
  <2> QED
    BY <2>1
<1>1. a \in P
  <2>1. \A y \in Upto(a) : y = g[a]
    <3>1. \A i \in a..a : i = a
      OBVIOUS
    <3> QED
      BY <3>1
  <2>2. g[a] \in Int
    BY <1>0
  <2>3. \A x, y \in Upto(a) : x <= y
    BY <2>1, <2>2
  <2>4. a \in a..b
    BY <1>0
  <2> HIDE DEF Upto
  <2> QED
    BY <2>3, <2>4
<1>2. ASSUME NEW n \in a + 1 .. b, n - 1 \in P PROVE n \in P
  <2>0. n \in a..b /\ n - 1 \in a..b /\ n \in a..n
    OBVIOUS
  <2>1. g[n] \in Int
    BY <2>0
  <2>2. ASSUME NEW y \in Upto(n) PROVE y = g[n] \/ y \in Upto(n - 1)
    <3>1. PICK i \in a..n : y = g[i]
      OBVIOUS
    <3>2. i = n \/ i \in a..n - 1
      OBVIOUS
    <3> QED
      BY <3>1, <3>2
  <2>3. Upto(n - 1) \subseteq Upto(n)
    <3>1. \A i \in a..n - 1 : i \in a..n
      OBVIOUS
    <3> QED
      BY <3>1
  <2>4. g[n] \in S => g[n] \in Upto(n)
    BY <2>0
  <2>5. Upto(n) \subseteq S /\ Upto(n) \subseteq Int /\ Upto(n - 1) \subseteq Int
    OBVIOUS
  <2>6. Upto(n - 1) = {} \/ \E x \in Upto(n - 1) : \A y \in Upto(n - 1) : x <= y
    BY <1>2
  <2> HIDE DEF Upto
  <2>7. Upto(n) = {} \/ \E x \in Upto(n) : \A y \in Upto(n) : x <= y
    <3>1. CASE Upto(n - 1) = {}
      <4>1. \A y \in Upto(n) : y = g[n]
        BY <2>2, <3>1
      <4> QED
        BY <2>1, <4>1
    <3>2. CASE Upto(n - 1) # {}
      <4>1. PICK x \in Upto(n - 1) : \A y \in Upto(n - 1) : x <= y
        BY <2>6, <3>2
      <4>2. CASE g[n] \in Upto(n) /\ g[n] < x
        <5>1. ASSUME NEW y \in Upto(n) PROVE g[n] <= y
          <6>1. CASE y = g[n]
            BY <2>1, <6>1
          <6>2. CASE y \in Upto(n - 1)
            <7>1. x \in Int /\ y \in Int /\ x <= y
              BY <2>5, <4>1, <6>2
            <7> QED
              BY <2>1, <4>2, <7>1
          <6> QED
            BY <2>2, <6>1, <6>2
        <5> QED
          BY <4>2, <5>1
      <4>3. CASE ~(g[n] \in Upto(n) /\ g[n] < x)
        <5>1. ASSUME NEW y \in Upto(n) PROVE x <= y
          <6>1. CASE y = g[n]
            <7>1. x \in Int /\ ~(g[n] < x)
              BY <2>5, <4>1, <4>3, <5>1, <6>1
            <7> QED
              BY <2>1, <6>1, <7>1
          <6>2. CASE y \in Upto(n - 1)
            BY <4>1, <6>2
          <6> QED
            BY <2>2, <6>1, <6>2
        <5> QED
          BY <2>3, <4>1, <5>1
      <4> QED
        BY <4>2, <4>3
    <3> QED
      BY <3>1, <3>2
  <2> QED
    BY <2>0, <2>7 DEF P
<1> HIDE DEF P
<1>3. \A n \in a..b : n \in P
  BY <1>1, <1>2, StepByStep
<1>4. b \in P
  BY <1>0, <1>3
<1>5. Upto(b) = S
  OBVIOUS
<1> HIDE DEF Upto
<1> QED
  BY <1>4, <1>5 DEF P

LEMMA SomeMost ==
  ASSUME NEW a \in Int, NEW b \in Int, NEW g, NEW S, ValuesOf(a, b, g, S), NEW x0 \in S
  PROVE  \E x \in S : \A y \in S : x >= y
<1> DEFINE h == [i \in a..b |-> -g[i]]
           T == {y \in Int : -y \in S}
<1> USE DEF ValuesOf
<1>1. h \in [a..b -> Int]
  OBVIOUS
<1>2. T \subseteq Int /\ -x0 \in T
  OBVIOUS
<1>3. ASSUME NEW y \in T PROVE \E i \in a..b : y = h[i]
  <2>1. PICK i \in a..b : -y = g[i]
    OBVIOUS
  <2>2. h[i] = -g[i] /\ y \in Int
    OBVIOUS
  <2>3. y = h[i]
    BY <2>1, <2>2
  <2> QED
    BY <2>3
<1>4. \A y \in S : -y \in T
  OBVIOUS
<1>5. \A y \in T : -y \in S
  OBVIOUS
<1> HIDE DEF h, T
<1>6. \E x \in T : \A y \in T : x <= y
  <2>1. ValuesOf(a, b, h, T)
    BY <1>1, <1>2, <1>3
  <2> HIDE DEF ValuesOf
  <2> QED
    BY <1>2, <2>1, SomeLeast
<1>7. PICK x \in T : \A y \in T : x <= y
  BY <1>6
<1>8. \A y \in S : x <= -y
  BY <1>4, <1>7
<1>9. -x \in S /\ \A y \in S : -x >= y
  BY <1>2, <1>5, <1>8
<1> QED
  BY <1>9

LEMMA NthIs ==
  ASSUME NEW c \in Inputs, NEW k \in 1..N
  PROVE  Nth(c, k) \in Int
<1> DEFINE upto(p) == {i \in 0..N - 1 : c.price[i] <= p}
           Q == {p \in Range(c.price) : Cardinality(upto(p)) >= k}
<1>0. N \in Nat \ {0} /\ 0 \in Int /\ N - 1 \in Int /\ 0 \in 0..N - 1
  BY PlanSizes
<1>1. c.price \in [0..N - 1 -> Int] /\ DOMAIN c.price = 0..N - 1
  BY PlanAssumption
<1>2. Range(c.price) \subseteq Int /\ \A y \in Range(c.price) : \E i \in 0..N - 1 : y = c.price[i]
  BY <1>1 DEF Range
<1>3. c.price[0] \in Range(c.price)
  BY <1>0, <1>1 DEF Range
<1>4. \E x \in Range(c.price) : \A y \in Range(c.price) : x >= y
  <2>1. ValuesOf(0, N - 1, c.price, Range(c.price))
    BY <1>1, <1>2 DEF ValuesOf
  <2> QED
    BY <1>0, <1>3, <2>1, SomeMost
<1>5. PICK x \in Range(c.price) : \A y \in Range(c.price) : x >= y
  BY <1>4
<1>6. upto(x) = 0..N - 1
  <2>1. ASSUME NEW i \in 0..N - 1 PROVE c.price[i] <= x
    <3>1. c.price[i] \in Range(c.price)
      BY <1>1 DEF Range
    <3> QED
      BY <1>2, <1>5, <3>1
  <2> QED
    BY <2>1
<1>7. Cardinality(0..N - 1) = N
  <2>1. Cardinality(0..N - 1) = IF 0 > N - 1 THEN 0 ELSE (N - 1) - 0 + 1
    BY <1>0, FS_Interval
  <2> QED
    BY <1>0, <2>1
<1>8. x \in Q
  <2> HIDE DEF upto
  <2>1. Cardinality(upto(x)) = N
    BY <1>6, <1>7
  <2>2. Cardinality(upto(x)) >= k
    BY <1>0, <2>1
  <2> QED
    BY <1>5, <2>2
<1>9. Q \subseteq Range(c.price)
  OBVIOUS
<1>10. Nth(c, k) = Min(Q)
  BY DEF Nth
<1> HIDE DEF Q
<1>11. \E y \in Q : \A z \in Q : y <= z
  <2>1. ValuesOf(0, N - 1, c.price, Q)
    BY <1>1, <1>2, <1>9 DEF ValuesOf
  <2> QED
    BY <1>0, <1>8, <2>1, SomeLeast
<1>12. Min(Q) \in Q
  BY <1>11 DEF Min
<1> QED
  BY <1>2, <1>9, <1>10, <1>12

LEMMA PricesAre ==
  ASSUME NEW c \in Inputs
  PROVE  Median(c) \in Int /\ Quartile(c) \in Int
<1>0. N \in Nat \ {0}
  BY PlanSizes
<1>1. Median(c) \in Int
  <2>1. CASE N % 2 = 1
    <3>1. N \div 2 + 1 \in 1..N
      BY <1>0, <2>1
    <3>2. Nth(c, N \div 2 + 1) \in Int
      BY <3>1, NthIs
    <3> QED
      BY <2>1, <3>2 DEF Median
  <2>2. CASE N % 2 # 1
    <3>1. N \div 2 \in 1..N /\ N \div 2 + 1 \in 1..N
      BY <1>0, <2>2
    <3>2. Nth(c, N \div 2) \in Int /\ Nth(c, N \div 2 + 1) \in Int
      BY <3>1, NthIs
    <3>3. (Nth(c, N \div 2) + Nth(c, N \div 2 + 1)) \div 2 \in Int
      BY <3>2
    <3> QED
      BY <2>2, <3>3 DEF Median
  <2> QED
    BY <2>1, <2>2
<1>2. Quartile(c) \in Int
  <2> PICK k : k = (N - 1) \div 4 + 1
    OBVIOUS
  <2>1. k \in 1..N /\ (k < N => k + 1 \in 1..N)
    BY <1>0
  <2>2. Nth(c, k) \in Int /\ (k < N => Nth(c, k + 1) \in Int)
    BY <2>1, NthIs
  <2>3. Quartile(c) = IF k < N THEN Nth(c, k) + (((N - 1) % 4) * (Nth(c, k + 1) - Nth(c, k))) \div 4 ELSE Nth(c, k)
    BY DEF Quartile
  <2>4. CASE k < N
    <3> PICK f : f = (N - 1) % 4
      OBVIOUS
    <3> PICK d : d = Nth(c, k + 1) - Nth(c, k)
      OBVIOUS
    <3>1. f \in Int /\ d \in Int
      BY <1>0, <2>2, <2>4
    <3>2. f * d \in Int
      BY <3>1
    <3>3. (f * d) \div 4 \in Int
      BY <3>2
    <3>4. Quartile(c) = Nth(c, k) + (f * d) \div 4
      BY <2>3, <2>4
    <3> QED
      BY <2>2, <3>3, <3>4
  <2>5. CASE ~(k < N)
    BY <2>2, <2>3, <2>5
  <2> QED
    BY <2>4, <2>5
<1> QED
  BY <1>1, <1>2

LEMMA DeliveredIs ==
  ASSUME NEW p \in Int
  PROVE  Delivered(p) \in Int
<1>1. EtaPct \in Int /\ Cycle \in Int
  BY PlanSizes
<1>2. EtaPct * p \in Int
  BY <1>1
<1>3. (EtaPct * p) \div 100 \in Int
  BY <1>2
<1>4. (EtaPct * p) \div 100 - Cycle \in Int
  BY <1>1, <1>3
<1> QED
  BY <1>4, PosType DEF Delivered

OnwardType == [e : Int, cost : Int]
LEMMA RunOnIs ==
  ASSUME NEW ext \in Seq(Int), NEW e0 \in Int, NEW p \in Int
  PROVE  RunOn(ext, e0, p) \in OnwardType
<1> DEFINE b == Len(ext)
           x0 == [e |-> e0, cost |-> 0]
           Body(g) == [i \in 0..b |-> IF i = 0 THEN x0 ELSE Onward(g[i - 1], ext[i], p)]
           step == [i \in 0 + 1 .. b |-> [q \in OnwardType |-> Onward(q, ext[i], p)]]
           f == CHOOSE g : g = Body(g)
<1>0. b \in Nat /\ 0 \in Int /\ b \in Int /\ 0 <= b /\ 0 \in 0..b /\ b \in 0..b
  OBVIOUS
<1>1. RunOn(ext, e0, p) = f[b]
  BY Zenon DEF RunOn
<1>2. x0 \in OnwardType
  BY DEF OnwardType
<1>3. ASSUME NEW i \in 0 + 1 .. b, NEW q \in OnwardType PROVE Onward(q, ext[i], p) \in OnwardType
  <2>1. ext[i] \in Int /\ q.e \in Int /\ q.cost \in Int
    BY DEF OnwardType
  <2>2. Flow(ext[i], q.e, "normal", 0) \in FlowType
    BY <2>1, FlowIs
  <2>3. CostOf(Flow(ext[i], q.e, "normal", 0), p) \in Int
    BY <2>2, CostIs
  <2> QED
    BY <2>1, <2>2, <2>3 DEF Onward, OnwardType, FlowType
<1> HIDE DEF x0, b
<1>4. step \in [0 + 1 .. b -> [OnwardType -> OnwardType]]
  BY <1>3
<1>5. PICK h \in [0..b -> OnwardType] : h[0] = x0 /\ \A i \in 0 + 1 .. b : h[i] = step[i][h[i - 1]]
  <2> HIDE DEF step
  <2>1. \E h : h \in Unrolled(0, b, OnwardType, x0, step)
    BY <1>0, <1>2, <1>4, RecursionWorks
  <2> QED
    BY <2>1 DEF Unrolled
<1>6. h = Body(h)
  <2>1. \A i \in 0..b : i # 0 => i \in 0 + 1 .. b /\ i - 1 \in 0..b
    BY <1>0
  <2>2. \A i \in 0..b : h[i] = IF i = 0 THEN x0 ELSE Onward(h[i - 1], ext[i], p)
    BY <1>5, <2>1
  <2> QED
    BY <2>2
<1>7. f = Body(f)
  <2> HIDE DEF Body
  <2> QED
    BY <1>6, Zenon
<1> HIDE DEF f
<1>8. f[0] = x0 /\ \A i \in 0 + 1 .. b : f[i] = Onward(f[i - 1], ext[i], p)
  BY <1>0, <1>7
<1>9. \A i \in 0..b : f[i] \in OnwardType
  <2> DEFINE P == {i \in 0..b : f[i] \in OnwardType}
  <2>1. 0 \in P
    BY <1>0, <1>2, <1>8
  <2>2. ASSUME NEW i \in 0 + 1 .. b, i - 1 \in P PROVE i \in P
    <3>1. i \in 0..b
      BY <1>0
    <3> QED
      BY <1>3, <1>8, <2>2, <3>1
  <2> HIDE DEF P
  <2>3. \A i \in 0..b : i \in P
    BY <1>0, <2>1, <2>2, StepByStep
  <2> QED
    BY <2>3 DEF P
<1> QED
  BY <1>0, <1>1, <1>9

LEMMA EndTableIs ==
  ASSUME NEW ext \in Seq(Int), NEW med \in Int, NEW low \in Int
  PROVE  EndTable(ext, med, low) \in [Emin..Efull -> Int]
<1> DEFINE worth == [e \in Emin..Efull |-> Worth(RunOn(ext, e, med), low)]
<1>0. Emin \in Int /\ Efull \in Int /\ Emin <= Efull
  BY PlanSizes
<1>1. ASSUME NEW e \in Emin..Efull PROVE Worth(RunOn(ext, e, med), low) \in Int
  <2> DEFINE x == RunOn(ext, e, med)
  <2>1. x \in OnwardType
    BY <1>0, RunOnIs
  <2> HIDE DEF x
  <2>2. x.e \in Int /\ x.cost \in Int /\ x.e - Emin \in Int
    BY <1>0, <2>1 DEF OnwardType
  <2>a. Pos(x.e - Emin) \in Nat
    BY <2>2, PosType
  <2>b. Delivered(low) \in Int
    BY DeliveredIs
  <2>3. Pos(x.e - Emin) \in Int /\ Delivered(low) \in Int
    BY <2>a, <2>b
  <2>4. Pos(x.e - Emin) * Delivered(low) \in Int
    BY <2>3
  <2>5. Worth(x, low) \in Int
    BY <2>2, <2>4 DEF Worth
  <2> QED
    BY <2>5 DEF x
<1>2. worth \in [Emin..Efull -> Int]
  BY <1>1
<1>3. EndTable(ext, med, low) = [e \in Emin..Efull |-> Max({worth[x] - worth[Emin] : x \in Emin..e})]
  BY Zenon DEF EndTable
<1> HIDE DEF worth
<1>4. ASSUME NEW e \in Emin..Efull PROVE Max({worth[x] - worth[Emin] : x \in Emin..e}) \in Int
  <2> DEFINE g == [x \in Emin..e |-> worth[x] - worth[Emin]]
             S == {worth[x] - worth[Emin] : x \in Emin..e}
  <2>1. \A x \in Emin..e : worth[x] - worth[Emin] \in Int
    BY <1>0, <1>2
  <2>2. g \in [Emin..e -> Int] /\ S \subseteq Int /\ \A y \in S : \E i \in Emin..e : y = g[i]
    BY <2>1
  <2>3. worth[Emin] - worth[Emin] \in S
    BY <1>0
  <2> HIDE DEF g, S
  <2>4. ValuesOf(Emin, e, g, S)
    BY <2>2 DEF ValuesOf
  <2>5. \E x \in S : \A y \in S : x >= y
    BY <1>0, <2>3, <2>4, SomeMost
  <2>6. Max(S) \in S
    BY <2>5 DEF Max
  <2>7. Max(S) \in Int
    BY <2>2, <2>6
  <2> QED
    BY <2>7 DEF S
<1> QED
  BY <1>3, <1>4

LEMMA TermIs ==
  ASSUME NEW c \in Inputs
  PROVE  TermOf(c).flat \in Int /\ (TermOf(c).tab = << >> \/ TermOf(c).tab \in [Emin..Efull -> Int])
<1>1. Delivered(Median(c)) \in Int
  BY PricesAre, DeliveredIs
<1>2. c.ext \in Seq(Int)
  BY PlanAssumption
<1>3. EndTable(c.ext, Median(c), Quartile(c)) \in [Emin..Efull -> Int]
  BY <1>2, PricesAre, EndTableIs
<1>4. /\ TermOf(c).flat = Delivered(Median(c))
      /\ TermOf(c).tab = << >> \/ TermOf(c).tab = EndTable(c.ext, Median(c), Quartile(c))
  BY DEF TermOf
<1> QED
  BY <1>1, <1>3, <1>4

(* The decisions that a step writes down.                                  *)
SameDecisions(t, u) == \A i \in 0..N - 1 : t[i].act = u[i].act /\ t[i].g = u[i].g

LEMMA ExplainedIs ==
  ASSUME NEW t \in Decisions, NEW m, m.k \in Int
  PROVE  Explained(t, m) \in Decisions /\ SameDecisions(Explained(t, m), t)
<1> DEFINE Dec == [act : {"normal", "hold", "charge"}, g : Int, why : Int]
           at(i) == IF i \in {m.j} \cup m.br /\ t[i].why = -1 THEN [t[i] EXCEPT !.why = m.k] ELSE t[i]
<1>1. \A i \in 0..N - 1 : t[i] \in Dec
  BY DEF Decisions
<1>2. ASSUME NEW i \in 0..N - 1
      PROVE  at(i) \in Dec /\ at(i).act = t[i].act /\ at(i).g = t[i].g
  <2>1. at(i) = [t[i] EXCEPT !.why = m.k] \/ at(i) = t[i]
    OBVIOUS
  <2>2. t[i] \in Dec
    BY <1>1
  <2> HIDE DEF at
  <2> QED
    BY <2>1, <2>2
<1>3. Explained(t, m) = [i \in 0..N - 1 |-> at(i)]
  BY Zenon DEF Explained
<1> HIDE DEF at
<1> QED
  BY <1>2, <1>3 DEF Decisions, SameDecisions

LEMMA ReleasedIs ==
  ASSUME HorizonInv, NEW m, MoveType(m)
  PROVE  Released(m) \in Decisions /\ SameDecisions(Released(m), Applied(m))
<1> DEFINE Dec == [act : {"normal", "hold", "charge"}, g : Int, why : Int]
           t == Applied(m)
           w == IF m.act = "normal" THEN -1 ELSE t[m.j].why
<1>1. t \in [0..N - 1 -> Dec] /\ m.j \in 0..N - 1
  BY AppliedIs DEF Decisions, MoveType
<1>2. Released(m) = [t EXCEPT ![m.j] = [t[m.j] EXCEPT !.why = w]]
  BY DEF Released
<1> HIDE DEF t
<1>3. w \in Int
  BY <1>1
<1> HIDE DEF w
<1>4. [t[m.j] EXCEPT !.why = w] \in Dec
  BY <1>1, <1>3
<1>5. Released(m) \in [0..N - 1 -> Dec]
  BY <1>1, <1>2, <1>4
<1>6. ASSUME NEW i \in 0..N - 1 PROVE Released(m)[i].act = t[i].act /\ Released(m)[i].g = t[i].g
  <2>1. CASE i = m.j
    <3>1. Released(m)[i] = [t[i] EXCEPT !.why = w] /\ t[i] \in Dec
      BY <1>1, <1>2, <2>1
    <3> QED
      BY <3>1
  <2>2. CASE i # m.j
    <3>1. Released(m)[i] = t[i]
      BY <1>1, <1>2, <2>2
    <3> QED
      BY <3>1
  <2> QED
    BY <2>1, <2>2
<1> QED
  BY <1>5, <1>6 DEF Decisions, SameDecisions, t

LEMMA Cheaper ==
  ASSUME HorizonInv, NEW m, MoveType(m), Delta(m) >= 0,
         NEW t \in Decisions, SameDecisions(t, Applied(m))
  PROVE  Total(term, Run(in, t)) <= Total(term, Run(in, s))
<1>1. Applied(m) \in Decisions
  BY AppliedIs
<1>2. Total(term, Run(in, t)) = Total(term, Run(in, Applied(m)))
  BY <1>1, SameCost DEF SameDecisions, HorizonInv
<1>3. base = Run(in, s)
  BY DEF HorizonInv
<1> QED
  BY <1>2, <1>3, DeltaIs

NotDearer == s' # s => Total(term, Run(in, s')) <= Total(term, Run(in, s))

LEMMA HorizonStart == PlanInit => HorizonInv
<1> SUFFICES ASSUME PlanInit PROVE HorizonInv
  OBVIOUS
<1>1. in \in Inputs /\ term = TermOf(in) /\ s = Normal /\ base = Run(in, s)
  BY DEF PlanInit
<1>2. Normal \in Decisions
  BY DEF Normal, Slot0, Decisions
<1>3. term.flat \in Int /\ (term.tab = << >> \/ term.tab \in [Emin..Efull -> Int])
  BY <1>1, TermIs
<1> QED
  BY <1>1, <1>2, <1>3 DEF HorizonInv

LEMMA GreedyPassKeeps == ASSUME HorizonInv, GreedyPass PROVE HorizonInv' /\ NotDearer
<1>1. in' = in /\ term' = term
  BY DEF GreedyPass
<1>2. PICK k \in Target :
        \E rated \in {Worthwhile(k)} :
          IF rated = {} THEN done' = done \cup {k} /\ UNCHANGED << s, base, progress >>
          ELSE /\ \E r \in Best(rated) : s' = Explained(Applied(r.m), r.m)
               /\ base' = Rerun(s') /\ progress' = TRUE /\ UNCHANGED done
  BY Zenon DEF GreedyPass
<1>3. CASE Worthwhile(k) = {}
  <2>1. s' = s /\ base' = base
    BY <1>2, <1>3
  <2> QED
    BY <1>1, <2>1 DEF HorizonInv, NotDearer
<1>4. CASE Worthwhile(k) # {}
  <2>1. base' = Run(in, s')
    BY <1>2, <1>4 DEF Rerun
  <2>2. PICK r \in Best(Worthwhile(k)) : s' = Explained(Applied(r.m), r.m)
    BY <1>2, <1>4
  <2>3. r \in Worthwhile(k)
    BY <2>2 DEF Best
  <2>4. PICK m \in Moves(k) : /\ m.act = "charge" => GridMoved(m) > 0
                             /\ r = [m |-> m, net |-> Saving(m), moved |-> Moved(m)]
    BY <2>3 DEF Worthwhile
  <2>5. Saving(m) > 0
    BY <2>3, <2>4 DEF Worthwhile
  <2>6. k \in 0..N
    BY TargetIs
  <2>7. MoveType(m) /\ m.k \in Int
    BY <2>6, MovesAre, PlanSizes
  <2>8. Delta(m) > 0
    <3>1. Moved(m) \in Nat /\ Spread \in Nat /\ Delta(m) \in Int
      BY <2>4, <2>7, MovedIs, DeltaIs, PlanSizes
    <3>2. Spread * Moved(m) \in Nat
      BY <3>1
    <3> QED
      BY <2>5, <3>1, <3>2 DEF Saving
  <2>9. Applied(m) \in Decisions
    BY <2>7, AppliedIs
  <2>10. s' \in Decisions /\ SameDecisions(s', Applied(m))
    BY <2>2, <2>4, <2>7, <2>9, ExplainedIs
  <2>11. Total(term, Run(in, s')) <= Total(term, Run(in, s))
    <3>1. Delta(m) >= 0
      BY <2>7, <2>8, DeltaIs
    <3> QED
      BY <2>7, <2>10, <3>1, Cheaper
  <2> QED
    BY <1>1, <2>1, <2>10, <2>11 DEF HorizonInv, NotDearer
<1> QED
  BY <1>3, <1>4

LEMMA ReleaseKeeps == ASSUME HorizonInv, Release PROVE HorizonInv' /\ NotDearer
<1>1. in' = in /\ term' = term /\ base' = Run(in, s')
  BY DEF Release, Rerun
<1>2. PICK r \in Releasable : s' = Released(r.m)
  BY DEF Release
<1>3. PICK j \in Held : r = [m |-> Lower(j), d |-> Delta(Lower(j))]
  BY <1>2 DEF Releasable
<1>4. Delta(Lower(j)) >= 0
  BY <1>2, <1>3 DEF Releasable
<1>5. MoveType(Lower(j))
  BY LowerIs
<1>6. s' \in Decisions /\ SameDecisions(s', Applied(Lower(j)))
  BY <1>2, <1>3, <1>5, ReleasedIs
<1>7. Total(term, Run(in, s')) <= Total(term, Run(in, s))
  BY <1>4, <1>5, <1>6, Cheaper
<1> QED
  BY <1>1, <1>6, <1>7 DEF HorizonInv, NotDearer

LEMMA HorizonStep == HorizonInv /\ [PlanNext]_planVars => HorizonInv' /\ NotDearer
<1> SUFFICES ASSUME HorizonInv, [PlanNext]_planVars PROVE HorizonInv' /\ NotDearer
  OBVIOUS
<1>1. CASE UNCHANGED << in, term, s, base >>
  BY <1>1 DEF HorizonInv, NotDearer
<1>2. CASE GreedyPass
  BY <1>2, GreedyPassKeeps
<1>3. CASE Release
  BY <1>3, ReleaseKeeps
<1>4. CASE GreedyAgain \/ GreedyEnds \/ ReleaseEnds \/ UNCHANGED planVars
  BY <1>1, <1>4 DEF GreedyAgain, GreedyEnds, ReleaseEnds, planVars
<1> QED
  BY <1>2, <1>3, <1>4 DEF PlanNext

LEMMA AllExact == HorizonInv => DeltaExact
<1> SUFFICES ASSUME HorizonInv, NEW m \in (UNION {Moves(k) : k \in Target}) \cup {Lower(j) : j \in Held}
             PROVE  Delta(m) = Total(term, base) - Total(term, Run(in, Applied(m)))
  BY DEF DeltaExact
<1>1. MoveType(m)
  <2>1. CASE \E k \in Target : m \in Moves(k)
    BY <2>1, TargetIs, MovesAre
  <2>2. CASE \E j \in Held : m = Lower(j)
    BY <2>2, LowerIs
  <2>3. m \in UNION {Moves(k) : k \in Target} \/ m \in {Lower(j) : j \in Held}
    OBVIOUS
  <2>4. m \in UNION {Moves(k) : k \in Target} => \E k \in Target : m \in Moves(k)
    OBVIOUS
  <2>5. m \in {Lower(j) : j \in Held} => \E j \in Held : m = Lower(j)
    OBVIOUS
  <2> QED
    BY <2>1, <2>2, <2>3, <2>4, <2>5
<1> QED
  BY <1>1, DeltaIs

(* Every saving that the planner decides by is the difference of the two   *)
(* whole horizons, and no move it makes, neither an addition nor a         *)
(* release, makes the horizon dearer: em_plan_compute() never ends worse   *)
(* than it began, whatever the prices, the forecast and the battery.       *)
THEOREM SavingsSound == PlanSpec => SavingsReal
<1>1. HorizonInv /\ [PlanNext]_planVars => [DeltaExact]_planVars /\ [NotDearer]_planVars
  BY AllExact, HorizonStep
<1>2. HorizonInv /\ [PlanNext]_planVars => HorizonInv'
  BY HorizonStep
<1>3. [NotDearer]_planVars => [s' # s => Total(term, Run(in, s')) <= Total(term, Run(in, s))]_planVars
  BY DEF NotDearer
<1>4. PlanSpec => [][DeltaExact]_planVars
  BY <1>1, <1>2, HorizonStart, PTL DEF PlanSpec
<1>5. PlanSpec => [][s' # s => Total(term, Run(in, s')) <= Total(term, Run(in, s))]_planVars
  BY <1>1, <1>2, <1>3, HorizonStart, PTL DEF PlanSpec
<1> QED
  BY <1>4, <1>5 DEF SavingsReal, NeverDearer
=============================================================================
