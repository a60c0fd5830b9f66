----------------------------- MODULE PriceFeed -----------------------------
(***************************************************************************)
(* main/price_feed.c: one request per tick to Tibber or Energy-Charts, the *)
(* schedule of its four jobs, what is published and its roll at midnight.  *)
(* Times count from the midnight of today; a series keeps of its values    *)
(* which of its two days are known. The task is the manager's.             *)
(***************************************************************************)
EXTENDS Integers, Sequences, FiniteSetsExt

CONSTANTS
  Day, Roll, Until, From, Every, Refresh, EcGap,         \* prices, PF_*
  MixRoll, MixFrom, MixUntil, MixEvery, MixRefresh,      \* grid mix and generation
  Hold, Back, Spacing,  \* PF_429_HOLD, the backoff steps, PF_EC_SPACING
  Types,      \* 1..3, the kinds of generation: two stages each
  Published,  \* the time from which the sources know tomorrow
  MaxBad,     \* bound: requests that fail
  MaxAsks     \* bound: refreshes forced, token changes, restarts

Jobs == {"tib", "ec", "mix", "gen"}
Never == -2 * Day        \* a time of 0, and every time older than that

ASSUME FeedAssumption ==
  /\ {Day, Every, EcGap, Hold, Spacing, Published} \subseteq Nat \ {0}
  /\ {Roll, From, Until, Refresh, MixRoll, MixFrom, MixUntil, MixEvery, MixRefresh} \subseteq Nat
  /\ Types \in Nat \ {0} /\ {MaxBad, MaxAsks} \subseteq Nat
  /\ 0 < Roll /\ Roll < From /\ From < Until /\ Until < Day
  /\ 0 < MixRoll /\ MixRoll < MixFrom /\ MixFrom < MixUntil /\ MixUntil < Day
  /\ Back \in Seq(Nat \ {0}) /\ Back # << >>

VARIABLES
  pfNow, ticked, \* the time of day, the tick at this time is done
  tok,        \* a Tibber token is set
  job,        \* s_tib, s_ec, s_mixj, s_genj
  ecLast,     \* s_ec_last
  stage,      \* s_gen_stage
  force,      \* s_force_px, s_force_mix
  px,         \* s_big->px: the total, and whether its source is Tibber
  work, shown, \* s_big->wmix, s_big->mix: the generation of each type
  tibUp,      \* Tibber answers
  bad, asks
feedVars == << pfNow, ticked, tok, job, ecLast, stage, force, px, work, shown, tibUp, bad, asks >>

NoSeries == [from |-> Never, n |-> 0, days |-> {}]
NewJob == [day |-> Never, tomorrow |-> FALSE, tried |-> Never, ok |-> Never,
           fails |-> 0, r429 |-> FALSE]

FeedInit ==
  /\ pfNow = 0 /\ ticked = FALSE /\ tok = TRUE /\ tibUp = TRUE /\ bad = 0 /\ asks = 0
  /\ job = [j \in Jobs |-> NewJob] /\ ecLast = Never /\ stage = 0 /\ force = {}
  /\ px = [series |-> NoSeries, real |-> FALSE]
  /\ work = [t \in 1..Types |-> NoSeries] /\ shown = work

----------------------------------------------------------------------------
(* The schedule. *)
Midnight(t) == IF t < 0 THEN -Day ELSE 0
Backoff(j) ==
  LET b == IF j.fails = 0 THEN 0 ELSE Back[Min({j.fails, Len(Back)})]
  IN  IF j.fails > 0 /\ j.r429 THEN Max({b, Hold}) ELSE b
AfterFailure(j, due) == IF j.fails > 0 THEN Max({due, j.tried + Backoff(j)}) ELSE due

PriceDue(j) ==
  LET day  == Midnight(pfNow - Roll)
      d    == Max({j.day, day})
      next == Max({d + From, j.tried + Every})
      due  == IF j.day < day THEN pfNow
              ELSE IF ~j.tomorrow /\ next < d + Until THEN Min({j.ok + Refresh, next})
              ELSE j.ok + Refresh
  IN  AfterFailure(j, due)

EcDue(j) == IF j.tried = Never THEN PriceDue(j) ELSE Max({PriceDue(j), j.tried + EcGap})

MixDue(j) ==
  LET day  == Midnight(pfNow - MixRoll)
      next == Max({day + MixFrom, j.tried + MixEvery})
      due  == IF j.day < day THEN pfNow
              ELSE IF ~j.tomorrow /\ pfNow < day + MixUntil /\ next < day + MixUntil
                   THEN Min({j.ok + MixRefresh, next})
              ELSE j.ok + MixRefresh
  IN  AfterFailure(j, due)

ForcedAtOnce(j) == pfNow
ForcedDue(j) == IF j.fails > 0 THEN j.tried + Backoff(j) ELSE pfNow

EcNeeded == ~tok \/ (job["tib"].fails > 0 /\ job["tib"].day < Midnight(pfNow - Roll))

TibDue == tok /\ pfNow >= IF "px" \in force THEN ForcedDue(job["tib"]) ELSE PriceDue(job["tib"])
EcPriceDue == EcNeeded /\ pfNow >= IF "px" \in force THEN ForcedDue(job["ec"]) ELSE EcDue(job["ec"])
MixNow == pfNow >= IF "mix" \in force THEN ForcedDue(job["mix"]) ELSE MixDue(job["mix"])
GenNow == pfNow >= IF stage > 0 THEN job["gen"].tried + Backoff(job["gen"])
                   ELSE IF "mix" \in force THEN ForcedDue(job["gen"]) ELSE MixDue(job["gen"])
EcFree == ecLast = Never \/ pfNow - ecLast >= Spacing

(* The one request of this tick. *)
Chosen ==
  IF TibDue THEN {"tib"}
  ELSE IF ~EcFree THEN {}
  ELSE IF EcPriceDue THEN {"ec"} ELSE IF MixNow THEN {"mix"} ELSE IF GenNow THEN {"gen"} ELSE {}

(* day_roll(): yesterday's tomorrow becomes today. *)
Rolled ==
  LET day == Midnight(pfNow - Roll)
      k   == (day - px.series.from) \div Day
      n   == Max({0, px.series.n - k})
  IN  IF px.series.n > 0 /\ px.series.from < day
      THEN [px EXCEPT !.series = [from |-> day, n |-> n,
                                  days |-> {i \in 0..n - 1 : i + k \in px.series.days}]]
      ELSE px

----------------------------------------------------------------------------
(* What the sources answer: "ok", or it is late with tomorrow, or no answer *)
(* that can be used, one of them "too many requests".                       *)
Answers == {"ok", "late", "down", "429", "garbled", "nobuf"}
Good(a) == a \in {"ok", "late"}
Ahead(a) == IF a = "ok" /\ pfNow >= Published THEN {Day} ELSE {}
Put(s, days) == [s EXCEPT !.days = @ \cup {i \in {0, 1} : s.from + i * Day \in days}]
Cut(s) == [s EXCEPT !.n = IF 1 \in s.days THEN 2 ELSE 1]
Cleared == [from |-> 0, n |-> 0, days |-> {}]

Failed(j, a) == [j EXCEPT !.fails = Min({@ + 1, Len(Back)}), !.r429 = a = "429", !.tried = pfNow]
Succeeded(tomorrow) ==
  [day |-> 0, tomorrow |-> tomorrow, tried |-> pfNow, ok |-> pfNow, fails |-> 0, r429 |-> FALSE]

FetchPrices(j, a) ==
  LET s == Cut(Put(Cleared, {0} \cup Ahead(a))) IN
  /\ force' = force \ {"px"}
  /\ IF Good(a)
     THEN /\ job' = [job EXCEPT ![j] = Succeeded(1 \in s.days)]
          /\ px' = [series |-> s, real |-> j = "tib"]
     ELSE job' = [job EXCEPT ![j] = Failed(@, a)] /\ px' = Rolled
  /\ UNCHANGED << stage, work, shown >>

FetchMix(a) ==
  /\ force' = force \ {"mix"}
  /\ IF Good(a)
     THEN /\ job' = [job EXCEPT !["mix"] = Succeeded(Ahead(a) # {})]
          /\ shown' = work               \* s_big->mix = s_big->wmix, the generation with it
     ELSE job' = [job EXCEPT !["mix"] = Failed(@, a)] /\ shown' = shown
  /\ UNCHANGED << stage, work >>

(* Day-ahead knows today only until tomorrow is out, intraday knows today.  *)
Part(a, intraday) == IF intraday \/ Ahead(a) = {} THEN {0} ELSE Ahead(a)

FetchGen(a) ==
  LET k        == stage \div 2 + 1
      intraday == stage % 2 = 1
      base     == IF intraday THEN work[k] ELSE Cleared
      s        == Cut(IF Good(a) THEN Put(base, Part(a, intraday)) ELSE base)
      last     == stage + 1 = 2 * Types
  IN
  /\ work' = IF Good(a) \/ a = "garbled" THEN [work EXCEPT ![k] = s] ELSE work
  /\ IF Good(a)
     THEN /\ shown' = IF intraday \/ shown[k].n = 0 THEN [shown EXCEPT ![k] = s] ELSE shown
          /\ stage' = IF last THEN 0 ELSE stage + 1
          /\ job' = [job EXCEPT !["gen"] =
               IF last THEN Succeeded(\A t \in 1..Types : 1 \in work'[t].days)
               ELSE [@ EXCEPT !.tried = pfNow, !.fails = 0]]
     ELSE /\ job' = [job EXCEPT !["gen"] = Failed(@, a)]
          /\ UNCHANGED << shown, stage >>
  /\ UNCHANGED force

Fetch(j, a) ==
  CASE j \in {"tib", "ec"} -> FetchPrices(j, a)
    [] j = "mix" -> FetchMix(a) /\ px' = Rolled
    [] j = "gen" -> FetchGen(a) /\ px' = Rolled

Expected(a) == Chosen = {"tib"} /\ ~tibUp /\ a = "down"

(* price_feed_tick(); without memory for the answer only the spacing starts. *)
Tick(a) ==
  /\ ~ticked /\ ticked' = TRUE
  /\ bad' = bad + IF a = "ok" \/ Expected(a) THEN 0 ELSE 1
  /\ bad' <= MaxBad /\ (Chosen = {} => a = "ok") /\ (Chosen = {"tib"} /\ ~tibUp => ~Good(a))
  /\ ecLast' = IF Chosen \subseteq {"tib"} THEN ecLast ELSE pfNow
  /\ IF Chosen = {} \/ a = "nobuf" THEN px' = Rolled /\ UNCHANGED << job, stage, force, work, shown >>
     ELSE \E j \in Chosen : Fetch(j, a)
  /\ UNCHANGED << pfNow, tok, tibUp, asks >>

(* The clock goes on, and at midnight every time and day is a day older.   *)
Clock ==
  LET midnight   == pfNow + 1 = Day
      Older(t)   == IF midnight THEN Max({t - Day, Never}) ELSE t
      Aged(s)    == IF s.n = 0 THEN s ELSE [s EXCEPT !.from = Older(@)]
      OlderJob(j) == [j EXCEPT !.day = Older(@), !.tried = Older(@), !.ok = Older(@)]
  IN
  /\ ticked /\ ticked' = FALSE
  /\ pfNow' = (pfNow + 1) % Day
  /\ job' = [j \in Jobs |-> OlderJob(job[j])] /\ ecLast' = Older(ecLast)
  /\ px' = [px EXCEPT !.series = Aged(@)]
  /\ work' = [t \in 1..Types |-> Aged(work[t])] /\ shown' = [t \in 1..Types |-> Aged(shown[t])]
  /\ UNCHANGED << tok, tibUp, stage, force, bad, asks >>

Ask == asks < MaxAsks /\ asks' = asks + 1
(* price_feed_request(), for the page or MQTT by way of the manager. *)
Request == Ask /\ force' = {"px", "mix"} /\ UNCHANGED << pfNow, ticked, tok, job, ecLast, stage, px, work, shown, tibUp, bad >>
SetToken == Ask /\ tok' = ~tok /\ UNCHANGED << pfNow, ticked, job, ecLast, stage, force, px, work, shown, tibUp, bad >>
FeedRestart ==
  /\ Ask /\ job' = [j \in Jobs |-> NewJob] /\ ecLast' = Never /\ stage' = 0 /\ force' = {}
  /\ px' = [series |-> NoSeries, real |-> FALSE]
  /\ work' = [t \in 1..Types |-> NoSeries] /\ shown' = work'
  /\ UNCHANGED << pfNow, ticked, tok, tibUp, bad >>

TibberOutage ==
  /\ bad < MaxBad /\ bad' = bad + 1 /\ tibUp' = ~tibUp
  /\ UNCHANGED << pfNow, ticked, tok, job, ecLast, stage, force, px, work, shown, asks >>

FeedNext == (\E a \in Answers : Tick(a)) \/ Clock \/ Request \/ SetToken \/ FeedRestart \/ TibberOutage

FeedSpec == FeedInit /\ [][FeedNext]_feedVars

----------------------------------------------------------------------------
(* While a source backs off, and for the time a "too many requests" asks,  *)
(* nobody makes it ask again: neither the schedule, nor a forced refresh,  *)
(* nor a round of the generation that is under way.                        *)
HoldKept ==
  [][\A j \in Jobs : (job[j].fails > 0 /\ job'[j].tried = pfNow /\ job[j].tried # pfNow)
       => pfNow >= job[j].tried + Backoff(job[j])]_feedVars
=============================================================================
