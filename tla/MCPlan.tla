------------------------------ MODULE MCPlan ------------------------------
(***************************************************************************)
(* What the energy manager decides by, for TLC: prices, planner, forecast, *)
(* the manager's tick with its settings, and the efficiency sweep, which   *)
(* measures the curve the planner uses. They hand each other results and   *)
(* share no state, so one run checks them part by part and spares the      *)
(* product of their states; the parts at rest keep one initial state.      *)
(***************************************************************************)
EXTENDS PriceFeed, EmPlanner, PvForecast, EmManager, EffSweep

VARIABLE part
sweepVars == vars
partVars == << feedVars, planVars, pvVars, emVars, sweepVars, part >>

\* two steps of backoff; the prices and the night of five slots, with the morning
\* after them in the forecast or not; two planes whose geometry or meter is changed
MCBack == << 1, 2 >>
Day5(a, b, c, d, e) == (0 :> a) @@ (1 :> b) @@ (2 :> c) @@ (3 :> d) @@ (4 :> e)
MCInputs ==
  [price : {Day5(a, b, c, 4, 10) : a \in {2, 4}, b \in {2, 6}, c \in {8, 12}}
             \cup {Day5(8, 10, 10, 2, 4), Day5(6, 2, 10, 12, 2)},
   net : {Day5(-2, -2, 1, -4, -3), Day5(-4, 2, -2, -1, -4), Day5(-1, 8, -3, -3, -3)},
   e0 : {0, 4}, ext : {<< >>, << -2, -1, 7, -1 >>, << -3, -2, -1, 0 >>}]
Planes2(a, b, m, n) == [p \in {1, 2} |-> IF p = 1 THEN [geo |-> a, meter |-> m] ELSE [geo |-> b, meter |-> n]]
MCSettings == {Planes2(1, 2, "m", "m"), Planes2(1, 3, "m", "m"), Planes2(1, 2, "m", "d")}

InFeed(A) == part = "feed" /\ A /\ UNCHANGED << planVars, pvVars, emVars, sweepVars, part >>
InPlan(A) == part = "plan" /\ A /\ UNCHANGED << feedVars, pvVars, emVars, sweepVars, part >>
InPv(A) == part = "pv" /\ A /\ UNCHANGED << feedVars, planVars, emVars, sweepVars, part >>
InEm(A) == part = "em" /\ A /\ UNCHANGED << feedVars, planVars, pvVars, sweepVars, part >>
InSweep(A) == part = "sweep" /\ A /\ UNCHANGED << feedVars, planVars, pvVars, emVars, part >>

\* a plan that is finished
PlanDone ==
  /\ in = (CHOOSE i \in MCInputs : TRUE) /\ term = TermOf(in) /\ s = Normal /\ base = Run(in, s) /\ it = 0
  /\ phase = [at |-> "done", round |-> 0] /\ done = {} /\ progress = FALSE /\ any = FALSE

PartInit ==
  /\ part \in {"feed", "plan", "pv", "em", "sweep"}
  /\ FeedInit /\ (IF part = "plan" THEN PlanInit ELSE PlanDone) /\ PvInit /\ EmInit /\ Init
  /\ part # "pv" => pvCfg = Planes2(1, 2, "m", "m")
  /\ part # "em" => emCfg.mode = "off" /\ emCfg.token = "none"
  /\ part # "sweep" => soc = SocMin

PartNext ==
  \/ InFeed(FeedNext) \/ InPlan(PlanNext) \/ InPv(PvNext) \/ InEm(EmNext) \/ InSweep(Next)

(* The fairness of EffSweep, while its part runs.                           *)
PartSpec == PartInit /\ [][PartNext]_partVars /\ WF_partVars(InSweep(Task))
=============================================================================
