----------------------------- MODULE EmPlanner -----------------------------
(***************************************************************************)
(* em_plan_compute() of main/em_planner.c, one pass of its loops a step:   *)
(* the greedy adds holds and grid charges where the simulated horizon gets *)
(* cheaper, release() takes back what no longer pays. Energy and power are *)
(* whole units for one slot, an inverter that discharges draws LossDis     *)
(* more; the losses and the taper of charging are left out. What is left   *)
(* at the end is valued as ctx_init() does, the table in steps of a unit.  *)
(***************************************************************************)
EXTENDS Integers, Sequences, FiniteSetsExt, Functions, TLC

CONSTANTS
  N,            \* slots of the horizon
  Inputs,       \* inputs: [price, net: per slot, pv - load; e0;
                \*          ext: net of the slots forecast past the prices]
  Emin, Egmax, Efull,    \* discharge floor, ceiling of grid charging, full
  DisMax, ChgMax, LossDis,
  Spread, Cycle, Feedin,   \* ct per unit
  EtaPct,       \* efficiency of a discharge at 1 kW
  MinExt,       \* the forecast must reach at least so far past the prices
  MaxIter, MaxRounds     \* EM_PLAN_MAX_ITER and the four rounds

ASSUME PlanAssumption ==
  /\ N \in Nat \ {0} /\ {Emin, Egmax, Efull} \subseteq Nat /\ Emin <= Egmax /\ Egmax <= Efull
  /\ {DisMax, ChgMax, LossDis, Spread, Cycle, EtaPct, MinExt, MaxIter, MaxRounds} \subseteq Nat /\ Feedin \in Int
  /\ \A in \in Inputs : /\ in.price \in [0..N - 1 -> Int] /\ in.net \in [0..N - 1 -> Int]
                        /\ in.e0 \in 0..Efull /\ in.ext \in Seq(Int)

VARIABLES
  in,          \* the inputs
  term,        \* ctx_t: the value of a unit left at the end, or a table of it
  s,           \* out->s: per slot act, charge, for_slot
  base,        \* the horizon of s, run(): e[i], the sum so far and the slot's step
  it,          \* passes made
  phase,       \* greedy, release or done, and the round
  done, progress,  \* slots set aside, moves made since
  any          \* release() changed something
planVars == << in, term, s, base, it, phase, done, progress, any >>

Slot0 == [act |-> "normal", g |-> 0, why |-> -1]
End == N                      \* EM_FOR_END
Normal == [i \in 0..N - 1 |-> Slot0]

----------------------------------------------------------------------------
(* One slot of the battery. *)
Pos(x) == Max({x, 0})

Charged(e, sur, g) ==
  LET pv == Min({sur, Pos(Efull - e)})
  IN  [pv |-> pv, g |-> Min({g, Pos(Egmax - e - pv)})]

Discharged(e, act, deficit) ==
  LET p == Min({deficit, DisMax})
      avail == e - Emin
  IN  IF act # "normal" \/ p <= 0 \/ avail <= LossDis THEN [ac |-> 0, dc |-> 0]
      ELSE IF p + LossDis > avail THEN [ac |-> avail - LossDis, dc |-> avail]
      ELSE [ac |-> p, dc |-> p + LossDis]

\* a slot of the net power net
Flow(net, e, act, g) ==
  LET in_ == Charged(e, Pos(net), IF act = "charge" THEN g ELSE 0)
      out == Discharged(e, act, Pos(-net))
  IN  [e |-> e + in_.pv + in_.g - out.dc, grid |-> in_.pv + in_.g - net - out.ac,
       ac |-> out.ac, dc |-> out.dc, used |-> in_.g]
CostOf(f, price) == f.grid * (IF f.grid > 0 THEN price ELSE Feedin) + Cycle * f.dc

SlotStep(c, i, e, act, g) ==
  LET f == Flow(c.net[i], e, act, g)
  IN  [e |-> f.e, grid |-> f.grid, ac |-> f.ac, used |-> f.used, cost |-> CostOf(f, c.price[i])]

----------------------------------------------------------------------------
(* price_stats(): the k-th of the prices when they are sorted, the median  *)
(* and the lower quartile.                                                 *)
Nth(c, k) == Min({p \in Range(c.price) : Cardinality({i \in 0..N - 1 : c.price[i] <= p}) >= k})
Median(c) == IF N % 2 = 1 THEN Nth(c, N \div 2 + 1) ELSE (Nth(c, N \div 2) + Nth(c, N \div 2 + 1)) \div 2
Quartile(c) ==
  LET k == (N - 1) \div 4 + 1
  IN  IF k < N THEN Nth(c, k) + (((N - 1) % 4) * (Nth(c, k + 1) - Nth(c, k))) \div 4 ELSE Nth(c, k)

(* What a stored unit brings when it is delivered at the price p.          *)
Delivered(p) == Pos((EtaPct * p) \div 100 - Cycle)

(* The battery run on from energy e0 through the forecast past the prices, *)
(* what is missing bought at the price p: what it costs, what is left.     *)
Onward(q, net, p) ==
  LET f == Flow(net, q.e, "normal", 0) IN [e |-> f.e, cost |-> q.cost + CostOf(f, p)]
RunOn(ext, e0, p) ==
  LET r[i \in 0..Len(ext)] == IF i = 0 THEN [e |-> e0, cost |-> 0] ELSE Onward(r[i - 1], ext[i], p)
  IN  r[Len(ext)]

(* The table: against an empty battery, and never falling.                 *)
Worth(x, low) == Pos(x.e - Emin) * Delivered(low) - x.cost
EndTable(ext, med, low) ==
  LET worth == [e \in Emin..Efull |-> Worth(RunOn(ext, e, med), low)]
  IN  [e \in Emin..Efull |-> Max({worth[x] - worth[Emin] : x \in Emin..e})]

TermOf(c) ==
  [flat |-> Delivered(Median(c)),
   tab  |-> IF Len(c.ext) >= MinExt /\ Emin < Efull THEN EndTable(c.ext, Median(c), Quartile(c)) ELSE << >>]

TermValue(v, e) ==
  IF e <= Emin THEN 0
  ELSE IF v.tab = << >> THEN (e - Emin) * v.flat ELSE v.tab[Min({e, Efull})]

(* What one more unit at the end is worth.                                 *)
TermSlope(v, e) == IF v.tab = << >> THEN v.flat ELSE TermValue(v, e + 1) - TermValue(v, e)

(* run(): the horizon of c for the decisions t, and what it costs. After   *)
(* its end nothing flows.                                                  *)
NoStep(e) == [e |-> e, grid |-> 0, ac |-> 0, used |-> 0, cost |-> 0]
Arrives(c, t, i, e, sum) ==
  [from |-> e, sum |-> sum, slot |-> IF i = N THEN NoStep(e) ELSE SlotStep(c, i, e, t[i].act, t[i].g)]
Follow(c, t, i, p) == Arrives(c, t, i, p.slot.e, p.sum + p.slot.cost)
Run(c, t) ==
  LET f[i \in 0..N] == IF i = 0 THEN Arrives(c, t, 0, c.e0, 0) ELSE Follow(c, t, i, f[i - 1])
  IN  f
Stale(t) == base
Rerun(t) == Run(in, t)       \* after every change
Total(v, r) == r[N].sum - TermValue(v, r[N].from)

PlanInit ==
  /\ in \in Inputs /\ term = TermOf(in) /\ s = Normal /\ base = Run(in, s) /\ it = 0 /\ phase = [at |-> "greedy", round |-> 0]
  /\ done = {} /\ progress = FALSE /\ any = FALSE

----------------------------------------------------------------------------
(* A move: slot j becomes (act, g), and the slots of br become HOLD.       *)
Applied(m) ==
  [i \in 0..N - 1 |-> IF i = m.j THEN [s[i] EXCEPT !.act = m.act, !.g = m.g]
                      ELSE IF i \in m.br THEN [s[i] EXCEPT !.act = "hold"] ELSE s[i]]

MetAtOnce(m, i, x) == x = base[i].from
(* From here on the candidate's horizon is the base's.                     *)
Met(m, i, x) == x = base[i].from /\ (m.br # {} => i >= m.k)

Went(m, i, p) ==
  LET st == SlotStep(in, i, p.x, IF i \in m.br THEN "hold" ELSE s[i].act, s[i].g)
  IN  [x |-> st.e, met |-> FALSE, d |-> p.d + base[i].slot.cost - st.cost]
Left(m) ==
  LET st == SlotStep(in, m.j, base[m.j].from, m.act, m.g)
  IN  [x |-> st.e, met |-> FALSE, d |-> base[m.j].slot.cost - st.cost]
Goes(m, i, p) ==
  IF p.met \/ Met(m, i, p.x) THEN [x |-> p.x, met |-> TRUE, d |-> p.d] ELSE Went(m, i, p)
Ended(p) == p.d + IF p.met THEN 0 ELSE TermValue(term, p.x) - TermValue(term, base[N].from)

(* delta(): what the move saves, summed until the trajectories meet.       *)
Delta(m) ==
  LET run[i \in m.j..N - 1] == IF i = m.j THEN Left(m) ELSE Goes(m, i, run[i - 1])
  IN  Ended(run[N - 1])

----------------------------------------------------------------------------
(* The dearest slot that still imports, or the end when it is worth more.  *)
Importing == {i \in 0..N - 1 : i \notin done /\ s[i].act = "normal" /\ base[i].slot.grid > 0}
Dearest == {i \in Importing : \A x \in Importing : in.price[x] <= in.price[i]}
EndPrice == TermSlope(term, base[N].from)
Target ==
  IF /\ End \notin done /\ EndPrice > 0 /\ base[N].from < Efull
     /\ \A i \in Dearest : EndPrice > in.price[i]
  THEN {End} ELSE IF Dearest = {} THEN {} ELSE {Min(Dearest)}
Price(k) == IF k = End THEN EndPrice ELSE in.price[k]

(* Slots before k where the battery is empty and that are cheap enough to  *)
(* go without it.                                                          *)
Bridge(k) == {i \in 0..k - 1 : /\ s[i].act = "normal" /\ in.price[i] < Price(k) - Spread
                               /\ base[i].slot.grid > 0 /\ base[i].slot.ac < DisMax}

(* Even at the best round trip a unit bought at j is worth the move.       *)
LessAtBest(cost, p) == cost * (DisMax + LossDis) < p * DisMax
Pays(j, k) ==
  IF k = End THEN in.price[j] + Spread < EndPrice
  ELSE LessAtBest(in.price[j] + Spread + Cycle, in.price[k])

Charges(j, k) ==
  LET g0 == IF s[j].act = "charge" THEN s[j].g ELSE 0
  IN  IF base[j].from < Egmax /\ Pays(j, k) /\ g0 < ChgMax THEN {g0 + 1, ChgMax} ELSE {}
Kept(j) == IF s[j].act = "normal" THEN base[j].slot.ac ELSE 0
Changes(j, k) ==
  {[act |-> "charge", g |-> g] : g \in Charges(j, k)}
    \cup (IF Kept(j) > 0 THEN {[act |-> "hold", g |-> 0]} ELSE {})
Moves(k) ==
  UNION {{[j |-> j, k |-> k, act |-> c.act, g |-> c.g, br |-> b] :
            c \in Changes(j, k), b \in {{}, Bridge(k) \cap (j + 1)..k - 1}} :
         j \in {i \in 0..k - 1 : in.price[i] < Price(k) - Spread}}

(* What the move shifts: the charge, the discharge it prevents at j and    *)
(* what the bridge keeps.                                                  *)
GridMoved(m) == IF m.act = "charge" THEN SlotStep(in, m.j, base[m.j].from, m.act, m.g).used - base[m.j].slot.used ELSE 0
HeldBack(m, i) == IF i \in m.br THEN Pos(-in.net[i] - base[i].slot.grid) ELSE 0
Bridged(m) ==
  LET sum[i \in 0..N] == IF i = 0 THEN 0 ELSE sum[i - 1] + HeldBack(m, i - 1)
  IN  sum[N]
Moved(m) == Kept(m.j) + GridMoved(m) + Bridged(m)
Saving(m) == Delta(m) - Spread * Moved(m)
Worthwhile(k) ==
  {r \in {[m |-> m, net |-> Saving(m), moved |-> Moved(m)] :
             m \in {x \in Moves(k) : x.act = "charge" => GridMoved(x) > 0}} : r.net > 0}
Best(rated) == {a \in rated : \A b \in rated : b.net * a.moved <= a.net * b.moved}

Explained(t, m) ==
  [i \in 0..N - 1 |-> IF i \in {m.j} \cup m.br /\ t[i].why = -1 THEN [t[i] EXCEPT !.why = m.k] ELSE t[i]]

At(p) == phase.at = p
GreedyPass ==
  /\ At("greedy") /\ it < MaxIter
  /\ \E k \in Target :
       /\ it' = it + 1
       /\ \E rated \in {Worthwhile(k)} :
            IF rated = {} THEN done' = done \cup {k} /\ UNCHANGED << s, base, progress >>
            ELSE /\ \E r \in Best(rated) : s' = Explained(Applied(r.m), r.m)
                 /\ base' = Rerun(s') /\ progress' = TRUE /\ UNCHANGED done
  /\ UNCHANGED << in, term, phase, any >>

GreedyAgain ==
  /\ At("greedy") /\ it < MaxIter /\ Target = {} /\ progress
  /\ done' = {} /\ progress' = FALSE
  /\ UNCHANGED << in, term, s, base, it, phase, any >>

GreedyEnds ==
  /\ At("greedy") /\ (it = MaxIter \/ (Target = {} /\ ~progress))
  /\ phase' = [phase EXCEPT !.at = "release"] /\ any' = FALSE
  /\ UNCHANGED << in, term, s, base, it, done, progress >>

(* release(): every HOLD as NORMAL, every CHARGE one quantum lower.        *)
Lower(j) ==
  [j |-> j, k |-> j, br |-> {},
   act |-> IF s[j].act = "hold" THEN "normal" ELSE IF s[j].g > 1 THEN "charge" ELSE "hold",
   g |-> IF s[j].act = "charge" THEN s[j].g - 1 ELSE 0]
Held == {i \in 0..N - 1 : s[i].act # "normal"}
Releasable == {r \in {[m |-> Lower(j), d |-> Delta(Lower(j))] : j \in Held} : r.d >= 0}
Released(m) == [Applied(m) EXCEPT ![m.j].why = IF m.act = "normal" THEN -1 ELSE @]
Release ==
  /\ At("release") /\ it < MaxIter
  /\ \E rated \in {Releasable} :
       \E r \in rated : (\A x \in rated : x.d <= r.d) /\ s' = Released(r.m)
  /\ base' = Rerun(s') /\ it' = it + 1 /\ any' = TRUE
  /\ UNCHANGED << in, term, phase, done, progress >>

ReleaseEnds ==
  /\ At("release") /\ (it = MaxIter \/ Releasable = {})
  /\ phase' = IF any /\ phase.round + 1 < MaxRounds THEN [at |-> "greedy", round |-> phase.round + 1]
              ELSE [phase EXCEPT !.at = "done"]
  /\ done' = {} /\ progress' = FALSE
  /\ UNCHANGED << in, term, s, base, it, any >>

PlanNext == GreedyPass \/ GreedyAgain \/ GreedyEnds \/ Release \/ ReleaseEnds
PlanSpec == PlanInit /\ [][PlanNext]_planVars

----------------------------------------------------------------------------
(* The saving the planner decides by is the difference of the two whole    *)
(* horizons, though delta() stops where the trajectories meet.             *)
DeltaExact ==
  (At("greedy") \/ At("release")) =>
    \A m \in (UNION {Moves(k) : k \in Target}) \cup {Lower(j) : j \in Held} :
      Delta(m) = Total(term, base) - Total(term, Run(in, Applied(m)))

(* The contract of em_planner.h, that the plan never costs more than doing *)
(* nothing: no addition and no release makes the whole horizon dearer.     *)
NeverDearer == [][s' # s => Total(term, Run(in, s')) <= Total(term, Run(in, s))]_planVars

(* The savings the planner goes by are real, at every step it takes.       *)
SavingsReal == [][DeltaExact]_planVars /\ NeverDearer
=============================================================================
