---------------------------- MODULE LoadProfile ----------------------------
(***************************************************************************)
(* main/load_profile.c: the house power becomes quarter-hour means, the    *)
(* means become the day being measured, and the day goes into the record   *)
(* of days (FlashRing) when the next one begins. The day survives a         *)
(* software restart in RAM, a power cut takes it. A mean is the slot it     *)
(* belongs to; a tick stands for one time unit.                            *)
(***************************************************************************)
EXTENDS Integers, FiniteSetsExt, SequencesExt

CONSTANTS
  SlotLen, CoverMin,     \* EM_SLOT_S; LP_COVER_MIN of it
  DaySlots, DayMin,      \* LP_SLOTS, LP_DAY_MIN
  TickGap,               \* LP_MAX_GAP_S
  LpSaveEvery, LpRetry,  \* LP_SAVE_EVERY_S, LP_RETRY_S
  MaxLp, MaxMishaps      \* bounds: time; restarts, clock steps, refused writes

ASSUME LoadAssumption ==
  /\ {SlotLen, DaySlots, DayMin, TickGap, LpSaveEvery, LpRetry} \subseteq Nat \ {0}
  /\ CoverMin \in 1 .. SlotLen /\ {MaxLp, MaxMishaps} \subseteq Nat

VARIABLES
  lpNow, lpClock,    \* the time and whether it is known yet
  slotT, cov, lpLast, \* s_slot_t, s_cov, s_last_tick
  dayKey, seen, learned, \* s_day_key, s_day_seen, s_days of all day types
  lpKeep,               \* s_keep: its date and the slots it holds
  prof, profRec, saveDue, \* updates in s_prof and in its NVS record, s_save_due
  filed,              \* the record of days, oldest first
  owed,               \* slots measured and not lost to a mishap
  mishaps             \* what the bound counts
lpVars == << lpNow, lpClock, slotT, cov, lpLast, dayKey, seen, learned, lpKeep, prof, profRec, saveDue, filed, owed, mishaps >>

NoTime == -1
NoDay == [day |-> 0, slots |-> {}]
IdxOf(t) == (t \div SlotLen) % DaySlots
DayOf(t) == t \div (SlotLen * DaySlots) + 1
Mishap == mishaps < MaxMishaps /\ mishaps' = mishaps + 1
Profile == << prof, profRec, saveDue >>

LpInit ==
  /\ lpNow = 0 /\ lpClock = TRUE /\ slotT = NoTime /\ cov = 0 /\ lpLast = NoTime
  /\ dayKey = 0 /\ seen = {} /\ learned = 0 /\ lpKeep = NoDay
  /\ prof = 0 /\ profRec = 0 /\ saveDue = NoTime /\ filed = << >> /\ owed = {} /\ mishaps = 0

----------------------------------------------------------------------------
(* The clock stepped back: the running slot is not trusted.                *)
Running == IF lpLast # NoTime /\ lpNow < lpLast THEN NoTime ELSE slotT

(* close_slot(): enough of the slot was covered.                           *)
Covered(t) == t # NoTime /\ cov >= CoverMin
SeenWith(t) == IF Covered(t) /\ DayOf(t) = dayKey THEN seen \cup {IdxOf(t)} ELSE seen
FiledFirst(t) == lpKeep
KeepWith(t) == IF Covered(t) /\ DayOf(t) = lpKeep.day THEN [lpKeep EXCEPT !.slots = @ \cup {IdxOf(t)}] ELSE lpKeep

(* start_slot(): the day in memory goes on, or is filed and a new one      *)
(* begins. A day that could not be filed is given up.                      *)
Files(old, done) == filed' = (IF old.slots # {} /\ done THEN Append(filed, old) ELSE filed)
StartsSlot(t, old, done) ==
  /\ slotT' = t
  /\ IF old.day = DayOf(t) THEN lpKeep' = old /\ UNCHANGED filed
     ELSE Files(old, done) /\ lpKeep' = [day |-> DayOf(t), slots |-> {}]
  /\ IF DayOf(t) = dayKey THEN seen' = SeenWith(Running) /\ UNCHANGED << dayKey, learned >>
     ELSE /\ learned' = learned + (IF Cardinality(SeenWith(Running)) >= DayMin THEN 1 ELSE 0)
          /\ dayKey' = DayOf(t) /\ seen' = {}

(* save(): when due, and again after a while when NVS refuses.             *)
SavesWhenDue(ok) ==
  LET due == IF saveDue = NoTime THEN lpNow + LpSaveEvery ELSE saveDue
  IN  IF lpNow >= due /\ prof' # profRec
      THEN /\ profRec' = IF ok THEN prof' ELSE profRec
           /\ saveDue' = lpNow + (IF ok THEN LpSaveEvery ELSE LpRetry)
      ELSE profRec' = profRec /\ saveDue' = due

(* load_profile_tick(): good is whether the house power can be trusted,    *)
(* done whether the flash takes the day, ok whether NVS takes the profile. *)
LpTick(good, done, ok) ==
  LET slot == lpNow - (lpNow % SlotLen)
      dt   == IF lpLast # NoTime /\ lpNow > lpLast THEN Min({lpNow - lpLast, TickGap}) ELSE 0
      ends == slot # Running
      old  == KeepWith(Running)
      now  == {<< old.day, i >> : i \in old.slots}
  IN
  /\ lpClock /\ lpLast # lpNow
  /\ IF done /\ ok THEN UNCHANGED mishaps ELSE Mishap
  /\ IF ends THEN StartsSlot(slot, old, done)
     ELSE UNCHANGED << slotT, dayKey, seen, learned, lpKeep, filed >>
  /\ prof' = IF ends /\ Covered(Running) THEN prof + 1 ELSE prof
  /\ cov' = (IF ends THEN 0 ELSE cov) + (IF good THEN dt ELSE 0)
  /\ lpLast' = lpNow
  /\ owed' = IF ~ends THEN owed
             ELSE (owed \cup (IF Covered(Running) THEN {<< DayOf(Running), IdxOf(Running) >>} ELSE {}))
                    \ (IF done \/ old.day = DayOf(slot) THEN {} ELSE now)
  /\ SavesWhenDue(ok)
  /\ UNCHANGED << lpNow, lpClock >>

(* Without a clock the half slot is forgotten.                             *)
NoClock ==
  /\ ~lpClock /\ slotT' = NoTime /\ lpLast' = NoTime
  /\ UNCHANGED << lpNow, lpClock, cov, dayKey, seen, learned, lpKeep, Profile, filed, owed, mishaps >>

(* A restart: orderly with a last save (load_profile_save_now), by a panic, *)
(* or after a power cut, which also takes the day in memory. A panic may    *)
(* come between the flash write and the note that the day was filed.       *)
LpRestart(saved, power, filing) ==
  /\ Mishap /\ ~(saved /\ (power \/ filing))
  /\ profRec' = (IF saved THEN prof ELSE profRec) /\ prof' = profRec' /\ saveDue' = NoTime
  /\ slotT' = NoTime /\ cov' = 0 /\ lpLast' = NoTime /\ dayKey' = 0 /\ seen' = {}
  /\ lpClock' \in BOOLEAN
  /\ filing => lpKeep.slots # {} /\ DayOf(lpNow) # lpKeep.day
  /\ filed' = IF filing THEN Append(filed, lpKeep) ELSE filed
  /\ lpKeep' = IF power THEN NoDay ELSE lpKeep
  /\ owed' = IF power /\ ~filing THEN owed \ {<< lpKeep.day, i >> : i \in lpKeep.slots} ELSE owed
  /\ UNCHANGED << lpNow, learned >>

SntpSets == lpClock' = TRUE /\ ~lpClock /\ UNCHANGED << lpNow, slotT, cov, lpLast, dayKey, seen, learned, lpKeep, Profile, filed, owed, mishaps >>
\* the clock runs, stalls of the task included, or is corrected by a little
LpClock(d) ==
  /\ lpNow + d \in 0 .. MaxLp /\ lpNow' = lpNow + d
  /\ d < 0 => lpNow % SlotLen = 0
  /\ IF d < 0 THEN Mishap ELSE UNCHANGED mishaps
  /\ UNCHANGED << lpClock, slotT, cov, lpLast, dayKey, seen, learned, lpKeep, Profile, filed, owed >>

LpNext ==
  \/ \E good, done, ok \in BOOLEAN : LpTick(good, done, ok)
  \/ \E saved, power, filing \in BOOLEAN : LpRestart(saved, power, filing)
  \/ \E d \in {-1, 1, 2} : LpClock(d)
  \/ NoClock \/ SntpSets
LpSpec == LpInit /\ [][LpNext]_lpVars

----------------------------------------------------------------------------
(* Every quarter hour measured is in the day in memory or in the newest    *)
(* record of its date -- the one the average reads -- whatever restarts and *)
(* clock corrections came between; only a power cut and a refused flash    *)
(* write may cost a day.                                                   *)
LpHolds(d, i) ==
  LET recs == {k \in DOMAIN filed : filed[k].day = d}
  IN  recs # {} /\ i \in filed[Max(recs)].slots
MeasuredIsKept == \A o \in owed : (lpKeep.day = o[1] /\ o[2] \in lpKeep.slots) \/ LpHolds(o[1], o[2])
=============================================================================
