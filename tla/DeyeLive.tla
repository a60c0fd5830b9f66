------------------------------ MODULE DeyeLive ------------------------------
(***************************************************************************)
(* The poll round of main/modbus_rtu.c: a copy of the live values is filled *)
(* from the bus and written back, while a page resets the sums, the bus is *)
(* set up anew or the device restarts. An energy is the set of the rounds  *)
(* it was counted in, named by their time; the time unit is one round.     *)
(***************************************************************************)
EXTENDS Integers, FiniteSetsExt

CONSTANTS
  Optional, Need,       \* the blocks asked after the battery; those that count
  MaxMiss, Retry,       \* LIVE_BLK_FAILS, LIVE_BLK_RETRY_MS
  GapMax, FullHold,     \* EFF_GAP_MAX_US, EFF_FULL_HOLD_US
  SaveEvery,            \* EFF_LT_SAVE_US
  MaxLive, MaxTouch     \* bounds: time; resets, set-ups, restarts, failed writes

LivePowers == {"dis", "chg", "odd"}     \* odd: more out than in, or PV alone

ASSUME LiveAssumption ==
  /\ Need \subseteq Optional \cup {"bat"}
  /\ {MaxMiss, Retry, GapMax, FullHold, SaveEvery} \subseteq Nat \ {0} /\ {MaxLive, MaxTouch} \subseteq Nat

VARIABLES
  dlNow, dlNext, \* the time; s_next_poll_us
  busOn,        \* the bus is an enabled master
  live,         \* s_live: online, blocks, the sums since a start, the long-term sum
  round,        \* where the round is and its copy of s_live
  miss, retryAt, \* s_blk_fail, s_blk_retry_us
  eff,          \* s_eff_us and the powers of that round
  since,        \* s_eff_dis_t0_us, s_eff_t0_us; s_eff_dis_full
  resetSeen,    \* s_eff_reset
  full,         \* s_full_since_us, s_full_done
  ltRec, ltSaved, \* the record in NVS; s_lt_saved, s_lt_saved_us
  curve, dirty, curveAt, curveRec,  \* s_curve, its flag and time, the record in NVS
  writing,      \* copies of the curve on their way to NVS
  touches, lost \* what the bounds count; writes that failed
liveVars == << dlNow, dlNext, busOn, live, round, miss, retryAt, eff, since, resetSeen, full, ltRec, ltSaved, curve, dirty, curveAt, curveRec, writing, touches, lost >>

NeverRead == -1
NoValues == [online |-> FALSE, blocks |-> {}, dis |-> {}, chg |-> {}, lt |-> {}]
Idle == [at |-> "idle", l |-> NoValues]
NobodyWrites == [w \in {"bus", "page"} |-> {}]     \* {copy} while it is on its way

LiveInit ==
  /\ dlNow = 0 /\ dlNext = 0 /\ busOn = TRUE /\ live = NoValues /\ round = Idle
  /\ miss = [b \in Optional |-> 0] /\ retryAt = [b \in Optional |-> 0]
  /\ eff = [at |-> NeverRead, p |-> "odd"] /\ since = [dis |-> 0, chg |-> 0, full |-> FALSE]
  /\ resetSeen = FALSE /\ full = [from |-> NeverRead, done |-> FALSE]
  /\ ltRec = {} /\ ltSaved = [lt |-> {}, at |-> 0]
  /\ curve = {} /\ dirty = FALSE /\ curveAt = 0 /\ curveRec = {} /\ writing = NobodyWrites
  /\ touches = 0 /\ lost = 0

ReadAt(p) == round.at = p
Sums == << since, resetSeen, full >>
Records == << ltRec, ltSaved, curve, dirty, curveAt, curveRec, writing >>
Touch == touches < MaxTouch /\ touches' = touches + 1

----------------------------------------------------------------------------
(* poll_deye(): the copy, and the battery that decides whether to go on.   *)
RoundBegins(answer) ==
  /\ ReadAt("idle") /\ writing["bus"] = {} /\ busOn /\ dlNow >= dlNext /\ dlNext' = dlNow + 1
  /\ IF answer
     THEN round' = [at |-> "read", l |-> [live EXCEPT !.online = TRUE, !.blocks = {"bat"}]] /\ live' = live
     ELSE round' = [Idle EXCEPT !.at = "save"] /\ live' = [live EXCEPT !.online = FALSE, !.blocks = {}]
  /\ UNCHANGED << dlNow, busOn, miss, retryAt, eff, Sums, Records, touches, lost >>

(* live_read(): a block that kept missing is asked after a while only, and *)
(* one that somebody else's request displaces is no miss.                  *)
LiveDue(b) == miss[b] < MaxMiss \/ dlNow >= retryAt[b]
Misses(asked, got) ==
  [b \in Optional |-> IF b \in got THEN 0 ELSE IF b \in asked THEN Min({miss[b] + 1, MaxMiss}) ELSE miss[b]]
RoundReads(asked, got) ==
  /\ ReadAt("read") /\ asked \subseteq {b \in Optional : LiveDue(b)} /\ got \subseteq asked
  /\ miss' = Misses(asked, got)
  /\ retryAt' = [b \in Optional |-> IF b \in asked \ got THEN dlNow + Retry ELSE retryAt[b]]
  /\ round' = [at |-> "count", l |-> [round.l EXCEPT !.blocks = @ \cup got]]
  /\ UNCHANGED << dlNow, dlNext, busOn, live, eff, Sums, Records, touches, lost >>

(* The battery at 100 % for long restarts the discharge, once.             *)
FullNow(at100) ==
  LET from == IF full.from = NeverRead THEN dlNow ELSE full.from
  IN  IF ~at100 THEN [from |-> NeverRead, done |-> FALSE]
      ELSE [from |-> from, done |-> full.done \/ dlNow - from >= FullHold]
Restarts(at100) == FullNow(at100).done /\ ~full.done

(* A steady, plausible round after another complete one is counted.        *)
Complete == Need \subseteq round.l.blocks
Counts(p) ==
  /\ Complete /\ eff.at # NeverRead /\ eff.p = p /\ p # "odd"
  /\ 0 < dlNow - eff.at /\ dlNow - eff.at < GapMax

RoundCounts(p, at100) ==
  LET l     == round.l
      dis   == IF Restarts(at100) THEN {} ELSE l.dis
      new   == IF Counts(p) THEN {dlNow} ELSE {}
  IN
  /\ ReadAt("count")
  /\ full' = FullNow(at100)
  /\ since' = IF Restarts(at100) THEN [since EXCEPT !.dis = dlNow, !.full = TRUE] ELSE since
  /\ round' = [at |-> "write",
               l |-> [l EXCEPT !.dis = IF p = "dis" THEN dis \cup new ELSE dis,
                               !.chg = IF p = "chg" THEN @ \cup new ELSE @,
                               !.lt = @ \cup new]]
  /\ curve' = curve \cup new /\ dirty' = (dirty \/ new # {})
  /\ eff' = IF Complete THEN [at |-> dlNow, p |-> p] ELSE [eff EXCEPT !.at = NeverRead]
  /\ UNCHANGED << dlNow, dlNext, busOn, live, miss, retryAt, resetSeen, ltRec, ltSaved, curveAt, curveRec, writing, touches, lost >>

(* The write-back; a reset that came in meanwhile is not undone.           *)
AsCopied(l) == l
NotUndone(l) == IF resetSeen THEN [l EXCEPT !.dis = {}, !.chg = {}] ELSE l
RoundWrites ==
  /\ ReadAt("write") /\ live' = NotUndone(round.l) /\ resetSeen' = FALSE
  /\ round' = [Idle EXCEPT !.at = "save"]
  /\ UNCHANGED << dlNow, dlNext, busOn, miss, retryAt, eff, since, full, Records, touches, lost >>

(* eff_lt_save() *)
LtDue(force) == live.lt # ltSaved.lt /\ (force \/ dlNow - ltSaved.at >= SaveEvery)
LtWritten(force, ok) ==
  IF LtDue(force) /\ ok THEN ltRec' = live.lt /\ ltSaved' = [lt |-> live.lt, at |-> dlNow]
  ELSE UNCHANGED << ltRec, ltSaved >>

(* eff_curve_save(): the copy is taken under the lock, the record is not.  *)
CurveDue(force) == dirty /\ (force \/ dlNow - curveAt >= SaveEvery)
Failing(ok) == IF ok THEN UNCHANGED << touches, lost >> ELSE Touch /\ lost' = lost + 1

RoundSaves(ok) ==
  /\ ReadAt("save") /\ Failing(ok) /\ (LtDue(FALSE) \/ ok)
  /\ LtWritten(FALSE, ok)
  /\ round' = Idle
  /\ IF CurveDue(FALSE)
     THEN writing' = [writing EXCEPT !["bus"] = {curve}] /\ dirty' = FALSE
     ELSE UNCHANGED << writing, dirty >>
  /\ UNCHANGED << dlNow, dlNext, busOn, live, miss, retryAt, eff, Sums, curve, curveAt, curveRec >>

CurveWritten(w, ok) ==
  /\ Failing(ok)
  /\ \E c \in writing[w] : curveRec' = IF ok THEN c ELSE curveRec
  /\ curveAt' = dlNow /\ dirty' = (dirty \/ ~ok) /\ writing' = [writing EXCEPT ![w] = {}]
  /\ UNCHANGED << dlNow, dlNext, busOn, live, round, miss, retryAt, eff, Sums, ltRec, ltSaved, curve >>

----------------------------------------------------------------------------
(* The page and the settings, from other tasks.                            *)
ResetEff ==
  /\ Touch /\ live' = [live EXCEPT !.dis = {}, !.chg = {}]
  /\ since' = [dis |-> dlNow, chg |-> dlNow, full |-> FALSE] /\ resetSeen' = TRUE
  /\ UNCHANGED << dlNow, dlNext, busOn, round, miss, retryAt, eff, full, Records, lost >>

ResetCurve ==
  /\ Touch /\ writing["page"] = {} /\ curve' = {} /\ dirty' = FALSE
  /\ writing' = [writing EXCEPT !["page"] = {{}}]
  /\ UNCHANGED << dlNow, dlNext, busOn, live, round, miss, retryAt, eff, Sums, ltRec, ltSaved, curveAt, curveRec, lost >>

SetBus ==
  /\ Touch /\ busOn' = ~busOn /\ live' = [live EXCEPT !.online = FALSE, !.blocks = {}]
  /\ UNCHANGED << dlNow, dlNext, round, miss, retryAt, eff, Sums, Records, lost >>

(* A restart on purpose runs the shutdown handler, a power cut does not.   *)
LtLoaded(orderly) == IF orderly THEN live.lt ELSE ltRec
CurveLoaded(orderly) == IF orderly /\ dirty THEN curve ELSE curveRec
LiveRestart(orderly) ==
  LET kept == LtLoaded(orderly)
      bins == CurveLoaded(orderly)
  IN
  /\ Touch /\ dlNext' = dlNow /\ round' = Idle
  /\ live' = [NoValues EXCEPT !.lt = kept] /\ ltRec' = kept /\ ltSaved' = [lt |-> kept, at |-> dlNow]
  /\ curve' = bins /\ curveRec' = bins /\ dirty' = FALSE /\ curveAt' = dlNow /\ writing' = NobodyWrites
  /\ miss' = [b \in Optional |-> 0] /\ retryAt' = [b \in Optional |-> dlNow]
  /\ eff' = [at |-> NeverRead, p |-> "odd"] /\ since' = [dis |-> dlNow, chg |-> dlNow, full |-> FALSE]
  /\ resetSeen' = FALSE /\ full' = [from |-> NeverRead, done |-> FALSE]
  /\ UNCHANGED << dlNow, busOn, lost >>

LiveClock ==
  /\ dlNow < MaxLive /\ ReadAt("idle") /\ dlNow' = dlNow + 1
  /\ UNCHANGED << dlNext, busOn, live, round, miss, retryAt, eff, Sums, Records, touches, lost >>

LiveNext ==
  \/ \E answer \in BOOLEAN : RoundBegins(answer)
  \/ \E asked, got \in SUBSET Optional : RoundReads(asked, got)
  \/ \E p \in LivePowers, at100 \in BOOLEAN : RoundCounts(p, at100)
  \/ RoundWrites
  \/ \E ok \in BOOLEAN : RoundSaves(ok) \/ (\E w \in {"bus", "page"} : CurveWritten(w, ok))
  \/ ResetEff \/ ResetCurve \/ SetBus \/ (\E orderly \in BOOLEAN : LiveRestart(orderly)) \/ LiveClock
LiveSpec == LiveInit /\ [][LiveNext]_liveVars

----------------------------------------------------------------------------
(* Between rounds, what the page shows of charging and discharging was     *)
(* counted after the start it shows with it: a reset is not undone by the  *)
(* round under way, by a battery that is full or by a round that failed.   *)
SinceStart ==
  ReadAt("idle") =>
  /\ \A t \in live.dis : t >= since.dis
  /\ \A t \in live.chg : t >= since.chg

(* A power cut loses at most the rounds of one saving interval.            *)
LossBounded == lost = 0 => Cardinality(live.lt \ ltRec) <= SaveEvery

(* The sums hold what belongs to them: nothing from before their start, and *)
(* all but one interval of it survives.                                    *)
SumsKept == SinceStart /\ LossBounded
=============================================================================
