----------------------------- MODULE Net_proofs -----------------------------
(***************************************************************************)
(* What the device says and hears over Modbus: the Deye's lock is in       *)
(* force, no stretch of time is counted twice, what the Deye is told is    *)
(* never old, a client of the server is answered for its own requests in   *)
(* their order, a worker asks a device over a socket to that device, and   *)
(* the export guard keeps the fuse, for any callers, readings, lists,      *)
(* outages, settings and restarts.                                         *)
(***************************************************************************)
EXTENDS FroniusMeter, MeterEmu, BatLock, TcpPoll, Gateway, SlsGuard, TLAPS,
        WellFoundedInduction, SequenceTheorems

(***************************************************************************)
(* The operator's locks.                                                   *)
(***************************************************************************)
LockSet == [Bats -> [on : BOOLEAN, left : Int]]
JobSet  == [pc : {"idle", "copy", "write", "pass"}, which : Bats,
            lock : [on : BOOLEAN, left : Int], rec : LockSet]
MgrSet  == [pc : {"boot", "idle", "expire", "byd"}, copy : LockSet, clk : BOOLEAN, age : 0..TickMax]

LockType ==
  /\ deyeLock \in Nat /\ locks \in LockSet /\ lockNvs \in LockSet
  /\ lockJob \in [Tasks -> JobSet] /\ mgr \in MgrSet
  /\ byd \in BOOLEAN /\ clockOk \in BOOLEAN /\ kept \in Nat

(* Once the Deye's lock is older than a moment, nobody is still putting an *)
(* earlier one in force, and the tick works with the present one.          *)
NoneUnderWay == kept > 0 => \A t \in Tasks : LockIdle(t) \/ lockJob[t].which = "BYD"
CopyCurrent  == mgr.pc = "expire" /\ kept > 0 => mgr.copy["DEYE"].on = locks["DEYE"].on

(* Once a tick has seen the lock, it is renewed for Renew from that tick.  *)
Renewing ==
  locks["DEYE"].on /\ kept > mgr.age => deyeLock >= Renew - mgr.age

LockInv == LockType /\ NoneUnderWay /\ CopyCurrent /\ Renewing /\ LockInForce

LEMMA LockConstants ==
  /\ Renew \in Nat /\ TickMax \in Nat
  /\ Spans \subseteq Nat /\ MaxSets \in Nat /\ MaxBoots \in Nat
BY LockAssumption

LEMMA Opens ==
  /\ Open \in [on : BOOLEAN, left : Int] /\ Unlocked \in LockSet /\ NoLockJob \in JobSet
<1>1. Open \in [on : BOOLEAN, left : Int]
  BY DEF Open
<1>2. Unlocked \in LockSet
  BY <1>1 DEF Unlocked, LockSet
<1> QED
  BY <1>1, <1>2 DEF NoLockJob, JobSet, Bats

LEMMA LockInitInv == LockInit => LockInv
<1> SUFFICES ASSUME LockInit PROVE LockInv
  OBVIOUS
<1>1. LockType
  <2>1. mgr \in MgrSet
    BY LockConstants, Opens DEF LockInit, MgrSet
  <2>2. lockJob \in [Tasks -> JobSet]
    BY Opens DEF LockInit
  <2> QED
    BY <2>1, <2>2, Opens DEF LockInit, LockType
<1> QED
  BY <1>1, LockConstants DEF LockInit, LockInv, NoneUnderWay, CopyCurrent, Renewing, LockInForce

(* bat_lock_set() up to the assignment, called by a task or by the tick. *)
LEMMA Assigned ==
  ASSUME LockType, NEW t \in Tasks, NEW b \in Bats, NEW l \in [on : BOOLEAN, left : Int],
         Assign(t, b, l)
  PROVE  /\ locks' \in LockSet /\ lockJob' \in [Tasks -> JobSet] /\ kept' \in Nat
         /\ b = "DEYE" => kept' = 0
         /\ b = "BYD" => /\ kept' = kept /\ locks'["DEYE"] = locks["DEYE"]
                         /\ \A u \in Tasks : lockJob'[u] = lockJob[u] \/ lockJob'[u].which = "BYD"
<1>1. [pc |-> "copy", which |-> b, lock |-> l, rec |-> Unlocked] \in JobSet
  BY Opens DEF JobSet
<1>2. locks' \in LockSet /\ (b = "BYD" => locks'["DEYE"] = locks["DEYE"])
  BY DEF Assign, LockType, LockSet, Bats
<1>3. lockJob' \in [Tasks -> JobSet]
  BY <1>1 DEF Assign, LockType
<1>4. b = "BYD" => \A u \in Tasks : lockJob'[u] = lockJob[u] \/ lockJob'[u].which = "BYD"
  BY DEF Assign, LockType
<1> QED
  BY <1>2, <1>3, <1>4 DEF Assign, LockType, Bats

(* Steps that change neither the locks in RAM nor what is in force. *)
LEMMA LockUnmoved ==
  ASSUME LockInv, LockType', UNCHANGED << deyeLock, kept, mgr >>,
         locks'["DEYE"] = locks["DEYE"],
         \A t \in Tasks : \/ lockJob'[t] = lockJob[t] \/ lockJob'[t].pc = "idle"
                          \/ lockJob'[t].which = "BYD"
                          \/ lockJob'[t].which = lockJob[t].which /\ lockJob[t].pc # "idle"
  PROVE  LockInv'
<1>1. NoneUnderWay'
  BY DEF LockInv, LockType, NoneUnderWay, LockIdle
<1>2. CopyCurrent' /\ Renewing' /\ LockInForce'
  BY DEF LockInv, CopyCurrent, Renewing, LockInForce
<1> QED
  BY <1>1, <1>2 DEF LockInv

(* Steps after which the age of the Deye's lock starts anew. *)
LEMMA Restarted ==
  ASSUME LockInv, LockType', kept' = 0
  PROVE  LockInv'
BY LockConstants DEF LockInv, LockType, MgrSet, NoneUnderWay, CopyCurrent, Renewing, LockInForce

(* The web page and MQTT, and what is left of their calls and the tick's. *)
LEMMA TaskSteps ==
  ASSUME LockInv, NEW t \in Tasks,
         \/ \E b \in Bats, on \in BOOLEAN, s \in Spans \cup {Unlimited} : SetLock(t, b, on, s)
         \/ Persisting(t)
  PROVE  LockInv'
<1> USE LockConstants
<1>0. LockType
  BY DEF LockInv
<1>1. ASSUME NEW b \in Bats, NEW on \in BOOLEAN, NEW s \in Spans \cup {Unlimited}, SetLock(t, b, on, s)
      PROVE  LockInv'
  <2> DEFINE l == IF on THEN [on |-> TRUE, left |-> s] ELSE Open
  <2>1. l \in [on : BOOLEAN, left : Int]
    BY Opens DEF Unlimited
  <2>2. Assign(t, b, l) /\ UNCHANGED << deyeLock, lockNvs, byd, clockOk, mgr >>
    BY <1>1 DEF SetLock
  <2> HIDE DEF l
  <2>3. LockType'
    BY <1>0, <2>1, <2>2, Assigned DEF LockType
  <2>4. CASE b = "DEYE"
    <3>1. kept' = 0
      BY <1>0, <2>1, <2>2, <2>4, Assigned
    <3> QED BY <2>3, <3>1, Restarted
  <2>5. CASE b = "BYD"
    BY <1>0, <2>1, <2>2, <2>3, <2>5, Assigned, LockUnmoved
  <2> QED
    BY <2>4, <2>5 DEF Bats
<1>2. CASE CopyRecord(t)
  <2>1. lockJob' \in [Tasks -> JobSet]
    BY <1>0, <1>2 DEF CopyRecord, LockType, JobSet
  <2>2. LockType'
    BY <1>0, <1>2, <2>1 DEF CopyRecord, LockType
  <2>3. \A u \in Tasks : lockJob'[u] = lockJob[u] \/ (lockJob'[u].which = lockJob[u].which /\ lockJob[u].pc # "idle")
    BY <1>0, <1>2 DEF CopyRecord, LockType, JobSet
  <2> QED
    BY <1>2, <2>2, <2>3, LockUnmoved DEF CopyRecord
<1>3. CASE WriteRecord(t)
  <2>1. lockJob' \in [Tasks -> JobSet] /\ lockNvs' \in LockSet
    BY <1>0, <1>3 DEF WriteRecord, LockType, JobSet
  <2>2. LockType'
    BY <1>0, <1>3, <2>1 DEF WriteRecord, LockType
  <2>3. \A u \in Tasks : lockJob'[u] = lockJob[u] \/ (lockJob'[u].which = lockJob[u].which /\ lockJob[u].pc # "idle")
    BY <1>0, <1>3 DEF WriteRecord, LockType, JobSet
  <2> QED
    BY <1>3, <2>2, <2>3, LockUnmoved DEF WriteRecord
<1>4. CASE PassOn(t)
  <2>1. lockJob' \in [Tasks -> JobSet] /\ deyeLock' \in Nat /\ byd' \in BOOLEAN
    BY <1>0, <1>4, Opens DEF PassOn, LockType
  <2>2. LockType'
    BY <1>0, <1>4, <2>1 DEF PassOn, LockType
  <2>3. \A u \in Tasks : lockJob'[u] = lockJob[u] \/ lockJob'[u].pc = "idle"
    BY <1>0, <1>4 DEF PassOn, LockType, NoLockJob
  <2>4. CASE kept = 0
    BY <1>4, <2>2, <2>4, Restarted DEF PassOn, LockInv, CopyCurrent
  <2>5. CASE kept > 0
    <3>1. UNCHANGED deyeLock
      BY <1>4, <2>5 DEF PassOn, LockInv, NoneUnderWay, LockIdle
    <3> QED
      BY <1>4, <2>2, <2>3, <3>1, LockUnmoved DEF PassOn
  <2> QED
    BY <1>0, <2>4, <2>5 DEF LockType
<1> QED
  BY <1>1, <1>2, <1>3, <1>4 DEF Persisting

(* The manager's tick. *)
LEMMA TickSteps ==
  ASSUME LockInv, LockTick
  PROVE  LockInv'
<1> USE LockConstants
<1>0. LockType
  BY DEF LockInv
<1>1. CASE LoadLocks
  <2>1. mgr' \in MgrSet
    <3>1. 0 \in 0..TickMax /\ mgr' = [mgr EXCEPT !.pc = "idle", !.age = 0]
      BY <1>1 DEF LoadLocks
    <3> QED BY <1>0, <3>1 DEF LockType, MgrSet
  <2>2. LockType'
    BY <1>0, <1>1, <2>1 DEF LoadLocks, LockType
  <2> QED
    BY <1>0, <1>1, <2>2, Restarted DEF LoadLocks, LockType, MgrSet
<1>2. CASE TickBegin
  <2>1. mgr' \in MgrSet /\ mgr'.age = mgr.age /\ mgr'.copy = locks
    BY <1>0, <1>2 DEF TickBegin, LockType, MgrSet
  <2>2. LockType'
    BY <1>0, <1>2, <2>1 DEF TickBegin, LockType
  <2>3. NoneUnderWay' /\ CopyCurrent' /\ Renewing' /\ LockInForce'
    BY <1>2, <2>1 DEF LockInv, TickBegin, NoneUnderWay, LockIdle, CopyCurrent, Renewing, LockInForce
  <2> QED
    BY <2>2, <2>3 DEF LockInv
<1>3. ASSUME NEW b \in Bats, TickExpire(b) PROVE LockInv'
  <2>1. "mgr" \in Tasks /\ Open \in [on : BOOLEAN, left : Int] /\ Assign("mgr", b, Open)
    BY <1>3, Opens DEF Tasks, TickExpire
  <2>2. /\ mgr' \in MgrSet /\ mgr'.age = mgr.age /\ mgr.pc = "expire" /\ mgr'.pc = "expire"
        /\ (b = "BYD" => mgr'.copy["DEYE"] = mgr.copy["DEYE"])
    BY <1>0, <1>3, Opens DEF TickExpire, LockType, MgrSet, LockSet, Bats
  <2>3. LockType'
    BY <1>0, <1>3, <2>1, <2>2, Assigned DEF TickExpire, LockType
  <2>4. CASE b = "DEYE"
    <3>1. kept' = 0
      BY <1>0, <2>1, <2>4, Assigned
    <3> QED BY <2>3, <3>1, Restarted
  <2>5. CASE b = "BYD"
    <3>1. /\ kept' = kept /\ locks'["DEYE"] = locks["DEYE"] /\ deyeLock' = deyeLock
          /\ \A u \in Tasks : lockJob'[u] = lockJob[u] \/ lockJob'[u].which = "BYD"
      BY <1>0, <1>3, <2>1, <2>5, Assigned DEF TickExpire
    <3>2. NoneUnderWay'
      BY <3>1 DEF LockInv, NoneUnderWay, LockIdle
    <3>3. CopyCurrent' /\ Renewing' /\ LockInForce'
      BY <2>2, <2>5, <3>1 DEF LockInv, CopyCurrent, Renewing, LockInForce
    <3> QED BY <2>3, <3>2, <3>3 DEF LockInv
  <2> QED
    BY <2>4, <2>5 DEF Bats
<1>4. CASE TickRenew
  <2>1. mgr' \in MgrSet /\ mgr'.age = 0 /\ mgr'.pc = "byd"
    <3>1. 0 \in 0..TickMax /\ mgr' = [mgr EXCEPT !.pc = "byd", !.age = 0]
      BY <1>4 DEF TickRenew
    <3> QED BY <1>0, <3>1 DEF LockType, MgrSet
  <2>2. LockType'
    BY <1>0, <1>4, <2>1 DEF TickRenew, Renewed, LockType
  <2>3. locks["DEYE"].on /\ kept > 0 => deyeLock' = Renew
    BY <1>4 DEF LockInv, CopyCurrent, TickRenew, Renewed
  <2>4. NoneUnderWay' /\ CopyCurrent' /\ Renewing' /\ LockInForce'
    BY <1>0, <1>4, <2>1, <2>3
       DEF LockInv, TickRenew, NoneUnderWay, LockIdle, CopyCurrent, Renewing, LockInForce, LockType
  <2> QED
    BY <2>2, <2>4 DEF LockInv
<1>5. ASSUME NEW a \in BOOLEAN, TickByd(a) PROVE LockInv'
  <2>1. mgr' \in MgrSet /\ mgr'.age = mgr.age /\ mgr'.pc = "idle" /\ mgr.pc = "byd" /\ byd' \in BOOLEAN
    BY <1>0, <1>5, Opens DEF TickByd, BydWanted, LockType, MgrSet, LockSet, Bats
  <2>2. LockType'
    BY <1>0, <1>5, <2>1 DEF TickByd, LockType
  <2>3. NoneUnderWay' /\ CopyCurrent' /\ Renewing' /\ LockInForce'
    BY <1>5, <2>1 DEF LockInv, TickByd, NoneUnderWay, LockIdle, CopyCurrent, Renewing, LockInForce
  <2> QED
    BY <2>2, <2>3 DEF LockInv
<1> QED
  BY <1>1, <1>2, <1>3, <1>4, <1>5 DEF LockTick

(* The clock, the passing of time, a restart. *)
LEMMA WorldSteps ==
  ASSUME LockInv, ClockSync \/ Seconds \/ Reboot
  PROVE  LockInv'
<1> USE LockConstants
<1>0. LockType
  BY DEF LockInv
<1>1. CASE ClockSync
  <2>1. LockType'
    BY <1>0, <1>1 DEF ClockSync, LockType
  <2> QED
    BY <1>1, <2>1, LockUnmoved DEF ClockSync
<1>2. CASE Seconds
  <2>1. mgr' \in MgrSet /\ mgr'.age = mgr.age + 1 /\ mgr'.pc = "idle" /\ mgr.pc = "idle" /\ mgr.age \in Nat
        /\ mgr'.age <= TickMax
    BY <1>0, <1>2 DEF Seconds, LockType, MgrSet
  <2>2. deyeLock' \in Nat /\ (deyeLock > 0 => deyeLock' = deyeLock - 1)
    BY <1>0, <1>2 DEF Seconds, Elapsed, LockType
  <2>3. \A l \in [on : BOOLEAN, left : Int] : Aged(l) \in [on : BOOLEAN, left : Int] /\ Aged(l).on = l.on
    BY DEF Aged, Elapsed, Unlimited
  <2>4. locks' \in LockSet /\ lockNvs' \in LockSet /\ locks'["DEYE"].on = locks["DEYE"].on
    BY <1>0, <1>2, <2>3 DEF Seconds, LockType, LockSet, Bats
  <2>5. kept' \in Nat /\ kept' = (IF kept <= TickMax THEN kept + 1 ELSE kept)
    BY <1>0, <1>2 DEF Seconds, LockType
  <2>6. LockType'
    BY <1>0, <1>2, <2>1, <2>2, <2>4, <2>5 DEF Seconds, LockType
  <2>7. NoneUnderWay' /\ CopyCurrent'
    BY <1>2, <2>1 DEF Seconds, NoneUnderWay, LockIdle, CopyCurrent
  <2>8. Renewing'
    <3>1. locks["DEYE"].on /\ kept' > mgr'.age => deyeLock >= Renew - mgr.age
      BY <1>0, <2>1, <2>5 DEF LockInv, Renewing, LockType
    <3> QED BY <1>0, <2>1, <2>2, <2>4, <3>1 DEF Renewing, LockType
  <2>9. LockInForce'
    BY <1>0, <2>1, <2>2, <2>5, <2>8 DEF Renewing, LockInForce, LockType
  <2> QED
    BY <2>6, <2>7, <2>8, <2>9 DEF LockInv
<1>3. CASE Reboot
  <2>1. mgr' \in MgrSet /\ mgr'.pc = "boot"
    BY <1>3, Opens DEF Reboot, MgrSet
  <2>2. lockJob' \in [Tasks -> JobSet]
    BY <1>3, Opens DEF Reboot
  <2>3. LockType'
    BY <1>0, <1>3, <2>1, <2>2, Opens DEF Reboot, LockType
  <2> QED
    BY <1>3, <2>1, <2>3, Restarted DEF Reboot
<1> QED
  BY <1>1, <1>2, <1>3

-----------------------------------------------------------------------------
LEMMA LockStepInv == LockInv /\ [LockNext]_lockVars => LockInv'
<1> SUFFICES ASSUME LockInv, [LockNext]_lockVars PROVE LockInv'
  OBVIOUS
<1>1. CASE LockNext
  BY <1>1, TaskSteps, TickSteps, WorldSteps DEF LockNext, LockPage, Tasks
<1>2. CASE UNCHANGED lockVars
  BY <1>2 DEF lockVars, LockInv, LockType, NoneUnderWay, LockIdle, CopyCurrent, Renewing, LockInForce
<1> QED
  BY <1>1, <1>2

(* bat_lock.c:106: a lock of the Deye that a tick of the manager has seen   *)
(* lapses only while the next tick is later than a renewal lasts, through  *)
(* restarts, expiries and settings in any order and ticks however late.    *)
THEOREM InForce == LockSpec => []LockInForce
<1>1. LockInv => LockInForce
  BY DEF LockInv
<1> QED
  BY <1>1, LockInitInv, LockStepInv, PTL DEF LockSpec

(***************************************************************************)
(* The producer meter.                                                     *)
(***************************************************************************)
FrmType ==
  /\ time \in Nat \ {0} /\ round \in Nat /\ online \in BOOLEAN
  /\ enabled \in BOOLEAN /\ loaded \in BOOLEAN
  /\ lastRound \in Nat /\ energy \in Nat /\ saved \in Nat /\ savedAt \in Nat
  /\ nvsEnergy \in Nat /\ heard \in Nat
  /\ seen \in [kwh : Int, wh : Int] /\ booked \in Nat /\ frmRestarts \in Nat

RoundsInOrder == lastRound <= round /\ round <= time /\ (online => round # 0)

(* What the next tick will add, from the rounds heard so far.              *)
Pending == IF lastRound # 0 /\ round - lastRound <= GapMax THEN round - lastRound ELSE 0
(* What the Symo has yet to read of the counter.                           *)
Unbooked == IF LoadedEnergy > ReadAs(seen) THEN LoadedEnergy - ReadAs(seen) ELSE 0

NvsBehind  == nvsEnergy <= LoadedEnergy /\ (~loaded => energy = 0 /\ lastRound = 0)
EnergyHeard == LoadedEnergy + Pending <= heard
BookedHeard == IF seen = Unread THEN booked = 0 ELSE booked + Unbooked + Pending <= heard

FrmInv == FrmType /\ RoundsInOrder /\ NvsBehind /\ EnergyHeard /\ BookedHeard

LEMMA FrmConstants ==
  /\ Stale \in Nat /\ GapMax \in Nat /\ SaveEvery \in Nat
  /\ PerKwh \in Nat /\ PerKwh > 0 /\ MaxTime \in Nat /\ MaxFrmRestarts \in Nat
BY FrmAssumption

(* The two registers together are the counter. *)
LEMMA PairExact ==
  ASSUME energy \in Nat
  PROVE  Pair \in [kwh : Nat, wh : Nat] /\ ReadAs(Pair) = energy /\ Pair # Unread
<1>1. energy \div PerKwh \in Nat /\ energy % PerKwh \in Nat
  BY FrmConstants
<1>2. (energy \div PerKwh) * PerKwh + (energy % PerKwh) = energy
  BY FrmConstants
<1>3. Pair \in [kwh : Nat, wh : Nat] /\ ReadAs(Pair) = energy
  BY <1>1, <1>2 DEF Pair, ReadAs
<1>4. Pair.kwh # Unread.kwh
  BY <1>1 DEF Pair, Unread
<1> QED
  BY <1>3, <1>4

LEMMA ReadAsInt == \A p \in [kwh : Int, wh : Int] : ReadAs(p) \in Int
BY FrmConstants DEF ReadAs

(* What is pending grows no faster than what was heard. *)
LEMMA Shift == \A l, p, q, g, h \in Nat : l + p <= g /\ q + g <= h + p => l + q <= h
OBVIOUS

LEMMA Drop == \A b, u, v, p, q, h \in Nat : b + u + p <= h /\ v + q <= u + p => b + v + q <= h
OBVIOUS

LEMMA FrmInitInv == FrmInit => FrmInv
<1> SUFFICES ASSUME FrmInit PROVE FrmInv
  OBVIOUS
<1>1. FrmType
  <2>1. seen \in [kwh : Int, wh : Int]
    BY DEF FrmInit, Unread
  <2>2. online \in BOOLEAN /\ loaded \in BOOLEAN
    BY DEF FrmInit
  <2> QED
    BY <2>1, <2>2 DEF FrmInit, FrmType
<1> QED
  BY <1>1 DEF FrmInit, FrmInv, RoundsInOrder, NvsBehind, EnergyHeard, BookedHeard, LoadedEnergy, Pending

(* Steps that change neither a round nor a counter. *)
LEMMA FrmUnmoved ==
  ASSUME FrmInv, FrmType', RoundsInOrder', UNCHANGED << round, counter, nvsEnergy, heard, symoSide >>
  PROVE  FrmInv'
BY DEF FrmInv, NvsBehind, EnergyHeard, BookedHeard, counter, symoSide, LoadedEnergy, Pending, Unbooked, ReadAs

(* A round is heard from the one before, if they are not too far apart. *)
LEMMA RoundSteps ==
  ASSUME FrmInv, DeyeRound \/ DeyeLost
  PROVE  FrmInv'
<1> USE FrmConstants
<1>1. CASE DeyeRound
  <2>1. FrmType' /\ RoundsInOrder'
    BY <1>1 DEF FrmInv, FrmType, RoundsInOrder, DeyeRound, counter, symoSide
  <2>2. LoadedEnergy' = LoadedEnergy /\ LoadedEnergy \in Nat /\ NvsBehind'
    BY <1>1 DEF FrmInv, FrmType, NvsBehind, DeyeRound, counter, LoadedEnergy
  <2>3. /\ Pending \in Nat /\ Pending' \in Nat /\ heard \in Nat /\ heard' \in Nat
        /\ Pending' + heard <= heard' + Pending
    BY <1>1 DEF FrmInv, FrmType, RoundsInOrder, DeyeRound, counter, Pending
  <2>4. Unbooked' = Unbooked /\ Unbooked \in Nat
    BY <1>1, <2>2, ReadAsInt DEF FrmInv, FrmType, DeyeRound, symoSide, Unbooked, ReadAs
  <2>5. booked \in Nat /\ booked' = booked /\ seen' = seen
    BY <1>1 DEF FrmInv, FrmType, DeyeRound, symoSide
  <2>6. EnergyHeard'
    BY <2>2, <2>3, Shift DEF FrmInv, EnergyHeard
  <2>7. BookedHeard'
    <3>1. booked + Unbooked \in Nat /\ (seen # Unread => (booked + Unbooked) + Pending <= heard)
      BY <2>4, <2>5 DEF FrmInv, BookedHeard
    <3> DEFINE l == booked + Unbooked
    <3>2. l \in Nat /\ (seen # Unread => l + Pending <= heard)
      BY <3>1
    <3> HIDE DEF l
    <3>3. seen # Unread => l + Pending' <= heard'
      BY <2>3, <3>2, Shift
    <3>4. seen # Unread => (booked + Unbooked) + Pending' <= heard'
      BY <3>3 DEF l
    <3> QED
      BY <2>4, <2>5, <3>4 DEF FrmInv, BookedHeard
  <2> QED
    BY <2>1, <2>2, <2>6, <2>7 DEF FrmInv
<1>2. CASE DeyeLost
  <2>1. online' \in BOOLEAN /\ ~online'
    BY <1>2 DEF DeyeLost
  <2>2. FrmType' /\ RoundsInOrder'
    BY <1>2, <2>1 DEF FrmInv, FrmType, RoundsInOrder, DeyeLost, counter, symoSide
  <2> QED
    BY <1>2, <2>2, FrmUnmoved DEF DeyeLost
<1> QED
  BY <1>1, <1>2

(* A tick adds no more than what is pending. *)
LEMMA FrmTickStep ==
  ASSUME FrmInv, FrmTick
  PROVE  FrmInv'
<1> USE FrmConstants
<1>0. LoadedEnergy \in Nat /\ Pending \in Nat /\ Integrated \in Nat /\ Integrated <= Pending
  BY DEF FrmInv, FrmType, RoundsInOrder, LoadedEnergy, Pending, Integrated, Counts
<1>1. /\ loaded' = TRUE /\ energy' \in Nat /\ LoadedEnergy' = energy' /\ energy' >= LoadedEnergy
      /\ energy' <= LoadedEnergy + Pending
  BY <1>0 DEF FrmTick, LoadedEnergy
<1>2. lastRound' \in {0, round} /\ round' = round /\ Pending' = 0
  BY <1>0 DEF FrmInv, FrmType, FrmTick, deyeRound, Pending
<1>3. nvsEnergy' \in {nvsEnergy, energy'} /\ saved' \in {saved, nvsEnergy, energy'}
      /\ savedAt' \in {savedAt, time}
  BY DEF FrmTick
<1>4. FrmType' /\ RoundsInOrder'
  BY <1>1, <1>2, <1>3 DEF FrmInv, FrmType, RoundsInOrder, FrmTick, deyeRound, symoSide
<1>5. NvsBehind'
  BY <1>0, <1>1, <1>3 DEF FrmInv, FrmType, NvsBehind
<1>u. heard \in Nat /\ heard' = heard /\ booked \in Nat /\ booked' = booked /\ seen' = seen
  BY DEF FrmInv, FrmType, FrmTick, symoSide
<1>6. EnergyHeard'
  <2>1. energy' + 0 <= heard
    <3>1. \A e, l, p, h \in Nat : e <= l + p /\ l + p <= h => e + 0 <= h
      OBVIOUS
    <3> QED BY <1>0, <1>1, <1>u, <3>1 DEF FrmInv, EnergyHeard
  <2> QED BY <1>1, <1>2, <1>u, <2>1 DEF EnergyHeard
<1>7. BookedHeard'
  <2>1. ReadAs(seen) \in Int /\ ReadAs(seen)' = ReadAs(seen)
    BY ReadAsInt DEF FrmInv, FrmType, FrmTick, symoSide, ReadAs
  <2>2. Unbooked' + 0 <= Unbooked + Pending /\ Unbooked \in Nat /\ Unbooked' \in Nat
    BY <1>0, <1>1, <2>1 DEF Unbooked
  <2>3. seen # Unread => booked + Unbooked' + 0 <= heard
    BY <1>0, <1>u, <2>2, Drop DEF FrmInv, BookedHeard
  <2> QED
    BY <1>2, <1>u, <2>3 DEF FrmInv, BookedHeard
<1> QED
  BY <1>4, <1>5, <1>6, <1>7 DEF FrmInv

(* The Symo books at most what it had yet to read. *)
LEMMA ReadStep ==
  ASSUME FrmInv, SymoReads
  PROVE  FrmInv'
<1> USE FrmConstants
<1>1. /\ Pair \in [kwh : Nat, wh : Nat] /\ ReadAs(Pair) = energy /\ Pair # Unread
      /\ ReadAs(seen) \in Int /\ LoadedEnergy = energy
  BY PairExact, ReadAsInt DEF FrmInv, FrmType, SymoReads, LoadedEnergy
<1>2. seen' = Pair /\ ReadAs(seen)' = energy /\ Pair \in [kwh : Int, wh : Int]
  BY <1>1 DEF SymoReads, ReadAs
<1>3. Gained(Pair) = (IF seen # Unread THEN Unbooked ELSE 0) /\ Gained(Pair) \in Nat
  BY <1>1 DEF FrmInv, FrmType, Gained, Unbooked
<1>4. booked' = booked + Gained(Pair)
  BY DEF SymoReads
<1>5. FrmType'
  BY <1>2, <1>3, <1>4 DEF FrmInv, FrmType, SymoReads, deyeRound, counter
<1>6. LoadedEnergy' = energy /\ energy' = energy /\ Pending' = Pending /\ Unbooked' = 0 /\ Pending \in Nat
  BY <1>1, <1>2 DEF FrmInv, FrmType, RoundsInOrder, SymoReads, deyeRound, counter, LoadedEnergy, Pending, Unbooked
<1>7. RoundsInOrder' /\ NvsBehind' /\ EnergyHeard'
  BY <1>1, <1>6 DEF FrmInv, RoundsInOrder, NvsBehind, EnergyHeard, SymoReads, deyeRound, counter
<1>8. BookedHeard'
  BY <1>1, <1>2, <1>3, <1>4, <1>6 DEF FrmInv, FrmType, EnergyHeard, BookedHeard, SymoReads
<1> QED
  BY <1>5, <1>7, <1>8 DEF FrmInv

(* After a power failure the counter starts from the record again, which   *)
(* is never ahead of it.                                                   *)
LEMMA FrmRestartStep ==
  ASSUME FrmInv, FrmRestart
  PROVE  FrmInv'
<1> USE FrmConstants
<1>1. FrmType' /\ RoundsInOrder'
  <2>1. online' \in BOOLEAN /\ loaded' \in BOOLEAN
    BY DEF FrmRestart
  <2> QED
    BY <2>1 DEF FrmInv, FrmType, RoundsInOrder, FrmRestart, symoSide
<1>2. /\ LoadedEnergy' = nvsEnergy /\ LoadedEnergy \in Nat /\ nvsEnergy <= LoadedEnergy
      /\ Pending' = 0 /\ Pending \in Nat /\ NvsBehind'
  BY DEF FrmInv, FrmType, RoundsInOrder, NvsBehind, FrmRestart, LoadedEnergy, Pending
<1>3. ReadAs(seen) \in Int /\ ReadAs(seen)' = ReadAs(seen)
  BY ReadAsInt DEF FrmInv, FrmType, FrmRestart, symoSide, ReadAs
<1>4. Unbooked' <= Unbooked /\ Unbooked \in Nat /\ Unbooked' \in Nat
  BY <1>2, <1>3 DEF FrmInv, FrmType, Unbooked
<1>u. heard \in Nat /\ heard' = heard /\ booked \in Nat /\ booked' = booked /\ seen' = seen
  BY DEF FrmInv, FrmType, FrmRestart, symoSide
<1>5. EnergyHeard'
  BY <1>2, <1>u DEF FrmInv, FrmType, EnergyHeard
<1>6. BookedHeard'
  <2>1. Unbooked' + 0 <= Unbooked + Pending
    <3>1. \A u, v, p \in Nat : v <= u => v + 0 <= u + p
      OBVIOUS
    <3> QED BY <1>2, <1>4, <3>1
  <2>2. seen # Unread => booked + Unbooked' + 0 <= heard
    BY <1>2, <1>4, <1>u, <2>1, Drop DEF FrmInv, BookedHeard
  <2> QED
    BY <1>2, <1>u, <2>2 DEF FrmInv, BookedHeard
<1> QED
  BY <1>1, <1>2, <1>5, <1>6 DEF FrmInv

LEMMA OtherSteps ==
  ASSUME FrmInv, SwitchMeter \/ FrmClock \/ UNCHANGED frmVars
  PROVE  FrmInv'
<1>1. /\ UNCHANGED << deyeRound, counter, nvsEnergy, heard, symoSide, frmRestarts >>
      /\ time' \in {time, time + 1} /\ enabled' \in {enabled, ~enabled}
  BY DEF SwitchMeter, FrmClock, frmVars
<1>2. enabled' \in BOOLEAN
  BY <1>1 DEF FrmInv, FrmType
<1>3. FrmType' /\ RoundsInOrder'
  BY <1>1, <1>2 DEF FrmInv, FrmType, RoundsInOrder, deyeRound, counter, symoSide
<1> QED
  BY <1>1, <1>3, FrmUnmoved DEF deyeRound

LEMMA FrmStepInv == FrmInv /\ [FrmNext]_frmVars => FrmInv'
BY RoundSteps, FrmTickStep, ReadStep, FrmRestartStep, OtherSteps DEF FrmNext

LEMMA InvCountedOnce == FrmInv => CountedOnce
<1> SUFFICES ASSUME FrmInv PROVE CountedOnce
  OBVIOUS
<1>1. Pending \in Nat /\ LoadedEnergy \in Nat /\ energy <= LoadedEnergy
  BY FrmConstants DEF FrmInv, FrmType, RoundsInOrder, NvsBehind, LoadedEnergy, Pending
<1>2. Unbooked \in Nat
  BY <1>1, ReadAsInt DEF FrmInv, FrmType, Unbooked
<1> QED
  BY <1>1, <1>2 DEF FrmInv, FrmType, EnergyHeard, BookedHeard, CountedOnce

(* fronius_meter_tick(): over any outages, switching, power failures and   *)
(* refused writes, neither the counter nor what the Symo books from it     *)
(* exceeds the time the Deye was heard.                                    *)
THEOREM CountedOnceSound == FrmSpec => []CountedOnce
BY FrmInitInv, FrmStepInv, InvCountedOnce, PTL DEF FrmSpec

(***************************************************************************)
(* The meter the Deye sees.                                                *)
(***************************************************************************)
MeterType ==
  /\ gridRead \in [ok : BOOLEAN, w : Int, age : Nat]
  /\ phases \in [ok : BOOLEAN, w : Int, age : Nat]
  /\ live \in [ok : BOOLEAN, out : Int, age : Nat]
  /\ sp \in Int /\ bridge \in {HoldS, Forever}
  /\ manip = [on |-> manip.on, mode |-> manip.mode, w |-> manip.w, age |-> manip.age]
  /\ manip.on \in BOOLEAN
  /\ wasFresh \in BOOLEAN /\ stale \in Nat /\ pollAge \in 0..PollMax

(* The age of the reading, as far as the polls have followed it: from the  *)
(* last fresh poll, and from the first stale one.                          *)
Followed ==
  /\ wasFresh => gridRead.age <= MaxAge + pollAge
  /\ ~wasFresh /\ stale <= HoldS => gridRead.age <= MaxAge + PollMax + stale

MeterInv == MeterType /\ Followed /\ ToldRight

LEMMA MeterConstants ==
  /\ MaxAge \in Nat /\ HoldS \in Nat /\ PollMax \in Nat /\ PollMax > 0 /\ ClampW \in Nat /\ SpMax \in Nat
  /\ OutAge \in Nat /\ ManipMax \in Nat /\ Watts \subseteq Int /\ Outputs \subseteq Int /\ Setpoints \subseteq Int
  /\ \A m \in Manips : m.w \in Int
BY MeterAssumption

LEMMA WithinInt == \A v \in Int, m \in Nat : Within(v, m) \in Int
BY DEF Within

LEMMA WithinMonotone ==
  \A u, v \in Int : u <= v => Within(u, ClampW) <= Within(v, ClampW)
BY MeterConstants DEF Within

LEMMA MeterInitInv == MeterInit => MeterInv
<1> SUFFICES ASSUME MeterInit PROVE MeterInv
  OBVIOUS
<1> USE MeterConstants
<1>1. MeterType
  <2>1. wasFresh \in BOOLEAN /\ manip.on \in BOOLEAN
    BY Zenon DEF MeterInit
  <2>2. manip = [on |-> manip.on, mode |-> manip.mode, w |-> manip.w, age |-> manip.age]
    BY DEF MeterInit
  <2>3. /\ gridRead \in [ok : BOOLEAN, w : Int, age : Nat] /\ phases \in [ok : BOOLEAN, w : Int, age : Nat]
        /\ live \in [ok : BOOLEAN, out : Int, age : Nat]
    BY DEF MeterInit
  <2>4. sp \in Int /\ bridge \in {HoldS, Forever} /\ stale \in Nat /\ pollAge \in 0..PollMax
    BY DEF MeterInit
  <2> QED
    BY <2>1, <2>2, <2>3, <2>4 DEF MeterType
<1>2. Followed
  BY DEF MeterInit, Followed
<1>3. ToldRight
  BY DEF MeterInit, Nothing, ToldRight, OldNeverServed, HeldNeverDriven
<1> QED
  BY <1>1, <1>2, <1>3 DEF MeterInv

(* Nothing is told between two polls. *)
LEMMA Silent == ASSUME told' = Nothing PROVE ToldRight'
BY DEF Nothing, ToldRight, OldNeverServed, HeldNeverDriven

(* Steps that set something and leave the reading and the polls alone, or  *)
(* bring a new reading.                                                    *)
LEMMA SettingSteps ==
  ASSUME MeterInv, told' = Nothing, MeterType', UNCHANGED << wasFresh, stale, pollAge >>,
         gridRead' = gridRead \/ gridRead'.age = 0
  PROVE  MeterInv'
<1>1. Followed'
  BY MeterConstants DEF MeterInv, MeterType, Followed
<1> QED
  BY <1>1, Silent DEF MeterInv

LEMMA Settings ==
  ASSUME MeterInv,
         \/ \E w \in Watts, p \in OneOrNone(Watts) : ReadGrid(w, p)
         \/ \E o \in OneOrNone(Outputs) : ReadOutput(o)
         \/ \E w \in Setpoints : SetGridSetpoint(w)
         \/ \E on \in BOOLEAN, m \in Manips : SetManip(on, m)
         \/ \E t \in {0, HoldRenew} : SetHold(t) \/ SetMeterLock(t)
  PROVE  MeterInv'
<1> USE MeterConstants
<1>0. MeterType
  BY DEF MeterInv
<1>1. ASSUME NEW w \in Watts, NEW p \in OneOrNone(Watts), ReadGrid(w, p) PROVE MeterInv'
  <2>1. gridRead' \in [ok : BOOLEAN, w : Int, age : Nat] /\ gridRead'.age = 0
    BY <1>1 DEF ReadGrid
  <2>2. phases' \in [ok : BOOLEAN, w : Int, age : Nat]
    <3>1. \A x \in p : [ok |-> TRUE, w |-> x, age |-> 0] \in [ok : BOOLEAN, w : Int, age : Nat]
      BY DEF OneOrNone
    <3> QED BY <1>0, <1>1, <3>1 DEF ReadGrid, MeterType
  <2>3. MeterType'
    BY <1>0, <1>1, <2>1, <2>2 DEF ReadGrid, MeterType
  <2> QED
    BY <1>1, <2>1, <2>3, SettingSteps DEF ReadGrid
<1>2. ASSUME NEW o \in OneOrNone(Outputs), ReadOutput(o) PROVE MeterInv'
  <2>1. live' \in [ok : BOOLEAN, out : Int, age : Nat]
    <3>1. \A x \in o : [ok |-> TRUE, out |-> x, age |-> 0] \in [ok : BOOLEAN, out : Int, age : Nat]
      BY DEF OneOrNone
    <3>2. [ok |-> FALSE, out |-> 0, age |-> 0] \in [ok : BOOLEAN, out : Int, age : Nat]
      OBVIOUS
    <3> QED BY <1>2, <3>1, <3>2 DEF ReadOutput
  <2>2. MeterType'
    BY <1>0, <1>2, <2>1 DEF ReadOutput, MeterType
  <2> QED
    BY <1>2, <2>2, SettingSteps DEF ReadOutput
<1>3. ASSUME NEW w \in Setpoints, SetGridSetpoint(w) PROVE MeterInv'
  <2>1. sp' \in Int
    BY <1>3, WithinInt DEF SetGridSetpoint
  <2>2. MeterType'
    BY <1>0, <1>3, <2>1 DEF SetGridSetpoint, MeterType
  <2> QED
    BY <1>3, <2>2, SettingSteps DEF SetGridSetpoint
<1>4. ASSUME NEW on \in BOOLEAN, NEW m \in Manips, SetManip(on, m) PROVE MeterInv'
  <2>1. /\ manip' = [on |-> manip'.on, mode |-> manip'.mode, w |-> manip'.w, age |-> manip'.age]
        /\ manip'.on = on
    BY <1>4 DEF SetManip
  <2>2. MeterType'
    BY <1>0, <1>4, <2>1 DEF SetManip, MeterType
  <2> QED
    BY <1>4, <2>2, SettingSteps DEF SetManip
<1>5. ASSUME NEW t \in {0, HoldRenew}, SetHold(t) \/ SetMeterLock(t) PROVE MeterInv'
  <2>1. MeterType'
    BY <1>0, <1>5 DEF SetHold, SetMeterLock, MeterType
  <2> QED
    BY <1>5, <2>1, SettingSteps DEF SetHold, SetMeterLock
<1> QED
  BY <1>1, <1>2, <1>3, <1>4, <1>5

(* An answer is about a reading that is fresh or not older than the bridge. *)
LEMMA PollSteps ==
  ASSUME MeterInv, (\E r \in BOOLEAN : AnswerPoll(r)) \/ KeepSilent
  PROVE  MeterInv'
<1> USE MeterConstants
<1>0. MeterType
  BY DEF MeterInv
<1>1. /\ UNCHANGED << gridRead, phases, live, sp, bridge, hold, lock >> /\ pollAge' = 0
      /\ wasFresh' = Fresh(gridRead) /\ stale' = (IF Fresh(gridRead) THEN 0 ELSE StaleNow)
  BY DEF AnswerPoll, KeepSilent, AnsweredOrNot
<1>2. StaleNow \in Nat /\ Fresh(gridRead) \in BOOLEAN
  BY <1>0 DEF StaleNow, Fresh, MeterType
<1>3. ~Fresh(gridRead) /\ StaleNow <= HoldS => gridRead.age <= MaxAge + PollMax + StaleNow
  BY <1>0 DEF MeterInv, MeterType, Followed, StaleNow
<1>4. MeterType'
  <2>1. manip' = manip \/ manip' = [manip EXCEPT !.on = FALSE]
    BY DEF AnswerPoll, KeepSilent
  <2>2. /\ manip' = [on |-> manip'.on, mode |-> manip'.mode, w |-> manip'.w, age |-> manip'.age]
        /\ manip'.on \in BOOLEAN
    BY <1>0, <2>1 DEF MeterType
  <2>3. wasFresh' \in BOOLEAN
    BY <1>1, <1>2
  <2>4. stale' \in Nat /\ pollAge' \in 0..PollMax
    BY <1>1, <1>2
  <2> QED
    BY <1>0, <1>1, <2>2, <2>3, <2>4 DEF MeterType
<1>5. Followed'
  <2>1. CASE Fresh(gridRead)
    <3>1. gridRead.age <= MaxAge + 0
      BY <1>0, <2>1 DEF Fresh, MeterType
    <3> QED BY <1>1, <2>1, <3>1 DEF Followed
  <2>2. CASE ~Fresh(gridRead)
    BY <1>1, <1>3, <2>2 DEF Followed
  <2> QED
    BY <2>1, <2>2
<1>6. ASSUME NEW r \in BOOLEAN, AnswerPoll(r) PROVE ToldRight'
  <2>1. told' # {} => gridRead.age <= MaxAge + PollMax + HoldS \/ bridge = Forever
    BY <1>0, <1>2, <1>3, <1>6 DEF AnswerPoll, BridgeOver, MeterType, Fresh
  <2>2. \A t \in told' : t # 0 => gridRead.ok /\ gridRead.age <= MaxAge
    BY <1>6 DEF AnswerPoll, Served, Nothing, Fresh
  <2>3. OldNeverServed'
    BY <1>1, <2>1, <2>2 DEF OldNeverServed
  <2>4. ASSUME Held, Fresh(gridRead), OutputKnown, ~manip'.on, NEW t \in told'
        PROVE  t <= Within(-live.out, ClampW)
    <3>1. told' = Served(Shifted, r)
      BY <1>0, <1>6, <2>4 DEF AnswerPoll, Bent, MeterType
    <3>2. t = Within(Shifted, ClampW)
      BY <2>4, <3>1 DEF Served, Nothing
    <3>3. Normal \in Int /\ -live.out \in Int
      BY <1>0 DEF Normal, Real, MeterType
    <3>4. Shifted \in Int /\ Shifted <= -live.out
      BY <2>4, <3>3 DEF Shifted, LeastOf
    <3> QED
      BY <3>2, <3>3, <3>4, WithinMonotone
  <2>5. HeldNeverDriven'
    BY <1>1, <2>4 DEF HeldNeverDriven, Held, OutputKnown, Fresh
  <2> QED
    BY <2>3, <2>5 DEF ToldRight
<1> QED
  BY <1>4, <1>5, <1>6, Silent DEF MeterInv, KeepSilent

LEMMA ClockStep ==
  ASSUME MeterInv, MeterClock
  PROVE  MeterInv'
<1> USE MeterConstants
<1>0. MeterType
  BY DEF MeterInv
<1>1. \A a, c \in Nat : GrownTo(a, c) \in Nat /\ GrownTo(a, c) <= a + 1 /\ (a < c => GrownTo(a, c) = a + 1)
  BY DEF GrownTo
<1>2. AgeCap \in Nat
  BY DEF AgeCap
<1>3. gridRead' \in [ok : BOOLEAN, w : Int, age : Nat] /\ gridRead'.age <= gridRead.age + 1
  BY <1>0, <1>1, <1>2 DEF MeterClock, MeterType
<1>4. phases' \in [ok : BOOLEAN, w : Int, age : Nat] /\ live' \in [ok : BOOLEAN, out : Int, age : Nat]
  BY <1>0, <1>1 DEF MeterClock, MeterType
<1>5. /\ manip' = [on |-> manip'.on, mode |-> manip'.mode, w |-> manip'.w, age |-> manip'.age]
      /\ manip'.on = manip.on
  BY <1>0 DEF MeterClock, MeterType
<1>6. stale' \in Nat /\ (~wasFresh /\ stale <= HoldS => stale' = stale + 1)
  BY <1>0, <1>1 DEF MeterClock, MeterType
<1>7. pollAge' = pollAge + 1 /\ pollAge' \in 0..PollMax /\ wasFresh' = wasFresh
  BY <1>0 DEF MeterClock, MeterType
<1>8. MeterType'
  BY <1>0, <1>3, <1>4, <1>5, <1>6, <1>7 DEF MeterClock, MeterType
<1>9. Followed'
  <2>1. \A a, b, m, p \in Nat : a <= m + p /\ b <= a + 1 => b <= m + (p + 1)
    OBVIOUS
  <2>2. gridRead.age \in Nat /\ gridRead'.age \in Nat /\ stale \in Nat /\ pollAge \in Nat /\ MaxAge + PollMax \in Nat
    BY <1>0, <1>3 DEF MeterType
  <2>3. wasFresh => gridRead'.age <= MaxAge + (pollAge + 1)
    BY <1>3, <2>1, <2>2 DEF MeterInv, Followed
  <2>4. ~wasFresh /\ stale <= HoldS => gridRead'.age <= (MaxAge + PollMax) + (stale + 1)
    BY <1>3, <2>1, <2>2 DEF MeterInv, Followed
  <2>5. ~wasFresh /\ stale' <= HoldS => stale <= HoldS
    BY <1>0 DEF MeterClock, MeterType, GrownTo
  <2> QED
    BY <1>6, <1>7, <2>3, <2>4, <2>5 DEF Followed
<1> QED
  BY <1>8, <1>9, Silent DEF MeterInv, MeterClock

LEMMA MeterRestartStep ==
  ASSUME MeterInv, MeterRestart
  PROVE  MeterInv'
<1> USE MeterConstants
<1>0. MeterType
  BY DEF MeterInv
<1>1. /\ gridRead' \in [ok : BOOLEAN, w : Int, age : Nat] /\ phases' \in [ok : BOOLEAN, w : Int, age : Nat]
      /\ live' \in [ok : BOOLEAN, out : Int, age : Nat] /\ gridRead'.age = 0
  BY DEF MeterRestart
<1>2. /\ manip' = [on |-> manip'.on, mode |-> manip'.mode, w |-> manip'.w, age |-> manip'.age]
      /\ manip'.on = FALSE
  BY <1>0 DEF MeterRestart, LoadedManip, MeterType
<1>3. wasFresh' = TRUE
  BY DEF MeterRestart
<1>4. stale' = 0 /\ pollAge' = 0 /\ sp' = sp /\ bridge' = bridge
  BY DEF MeterRestart
<1>5. MeterType'
  <2>1. wasFresh' \in BOOLEAN /\ manip'.on \in BOOLEAN
    BY <1>2, <1>3
  <2>2. stale' \in Nat /\ pollAge' \in 0..PollMax /\ sp' \in Int /\ bridge' \in {HoldS, Forever}
    BY <1>0, <1>4 DEF MeterType
  <2> QED
    BY <1>1, <1>2, <2>1, <2>2 DEF MeterType
<1>6. Followed'
  BY <1>1, <1>3, <1>4 DEF Followed
<1> QED
  BY <1>5, <1>6, Silent DEF MeterInv, MeterRestart

LEMMA MeterStepInv == MeterInv /\ [MeterNext]_meterVars => MeterInv'
<1> SUFFICES ASSUME MeterInv, [MeterNext]_meterVars PROVE MeterInv'
  OBVIOUS
<1>1. CASE UNCHANGED meterVars
  BY <1>1 DEF meterVars, MeterInv, MeterType, Followed, ToldRight, OldNeverServed, HeldNeverDriven, Fresh, OutputKnown
<1> QED
  BY <1>1, Settings, PollSteps, ClockStep, MeterRestartStep DEF MeterNext

(* do_slave(): with any readings, settings, time limits and restarts the   *)
(* Deye is told a power only from a fresh reading, anything at all only    *)
(* within the bridge, and never what would discharge a held battery.       *)
THEOREM ToldRightSound == MeterSpec => []ToldRight
<1>1. MeterInv => ToldRight
  BY DEF MeterInv
<1> QED
  BY <1>1, MeterInitInv, MeterStepInv, PTL DEF MeterSpec

(***************************************************************************)
(* The Modbus-TCP server. What a client has sent and is not yet answered   *)
(* is one stream: the buffer of its slot and the pieces under way, without *)
(* a gap, starting after the last answer.                                  *)
(***************************************************************************)
Piece  == [n : Nat, unit : {"bus", "meter"}, part : {1, 2}]
Answer == [n : Nat, silent : BOOLEAN]
GwStates == {"none", "asking", "open", "left", "gone", "closed"}

GwType ==
  /\ cl \in [Clients -> [fd : Conns \cup {0}, buf : Seq(Piece), idle : Nat]]
  /\ peer \in [Conns -> [st : GwStates, sent : Nat, wire : Seq(Piece), got : Seq(Answer)]]

(* No connection has two slots, and none before it is accepted.            *)
OneSlotEach == \A s, t \in Clients : cl[s].fd # 0 /\ cl[t].fd = cl[s].fd => t = s
Unaccepted(p) == p.st \in {"none", "asking"} => p.sent = 0 /\ p.wire = << >> /\ p.got = << >>
NewOnes ==
  /\ \A c \in Conns : Unaccepted(peer[c])
  /\ \A s \in Clients : cl[s].fd # 0 => peer[cl[s].fd].st \in {"open", "left", "gone"}

(* The stream of a slot: the pieces after the last answer, two a request.  *)
Buffered(b, g) == Len(b) \in {0, 1} /\ (Len(b) = 1 => b[1].n = g + 1)
UnderWay(w, b, g) == \A i \in 1..Len(w) : w[i].n = g + ((b + i + 1) \div 2)
Stream(slot, p) ==
  /\ Buffered(slot.buf, Len(p.got))
  /\ UnderWay(p.wire, Len(slot.buf), Len(p.got))
  /\ Len(slot.buf) + Len(p.wire) = 2 * (p.sent - Len(p.got))
Streams == \A s \in Clients : cl[s].fd # 0 => Stream(cl[s], peer[cl[s].fd])

(* What a read joins to the buffer, and what it leaves under way.          *)
Numbered(all, g) == \A j \in 1..Len(all) : all[j].n = g + ((j + 1) \div 2)
ReadInto(buf, w, k) == buf \o SubSeq(w, 1, k)
LeftOf(w, k) == SubSeq(w, k + 1, Len(w))
Joined(all, b, w, g, n, k) ==
  /\ all \in Seq(Piece) /\ b \in {0, 1} /\ w \in Seq(Piece) /\ g \in Nat /\ n \in Nat /\ k \in 1..Len(w)
  /\ UnderWay(w, b, g) /\ b + Len(w) = 2 * (n - g) /\ Len(all) = b + k /\ Numbered(all, g)
Whole(all) == Len(all) \div 2
AnswersIn(all, silent) == [i \in DOMAIN Frames(all) |-> AnswersTo(Frames(all)[i], silent)]

GwInv == GwType /\ OneSlotEach /\ NewOnes /\ Streams /\ AnsweredInOrder

LEMMA StreamOfNew ==
  ASSUME NEW slot, NEW p, slot.buf = << >>, p.sent = 0, p.wire = << >>, p.got = << >>
  PROVE  Stream(slot, p)
<1>1. Len(slot.buf) = 0 /\ Len(p.wire) = 0 /\ Len(p.got) = 0
  OBVIOUS
<1>2. Buffered(slot.buf, Len(p.got)) /\ UnderWay(p.wire, Len(slot.buf), Len(p.got))
  BY <1>1 DEF Buffered, UnderWay
<1> QED
  BY <1>1, <1>2 DEF Stream

LEMMA NextHalves ==
  ASSUME NEW b \in {0, 1}, NEW l \in Nat, NEW g \in Nat, NEW n \in Nat, b + l = 2 * (n - g)
  PROVE  g + ((b + (l + 1) + 1) \div 2) = n + 1 /\ g + ((b + (l + 2) + 1) \div 2) = n + 1
<1>1. b + (l + 1) + 1 = 2 * ((n - g) + 1) /\ b + (l + 2) + 1 = 2 * ((n - g) + 1) + 1
  OBVIOUS
<1>2. PICK m \in Int : m = (n - g) + 1
  OBVIOUS
<1>3. (2 * m) \div 2 = m /\ (2 * m + 1) \div 2 = m
  OBVIOUS
<1>4. g + m = n + 1
  BY <1>2
<1> QED
  BY <1>1, <1>2, <1>3, <1>4, Zenon

(* A request sent goes on the end of the stream, as its two pieces.        *)
LEMMA SentStream ==
  ASSUME NEW b \in {0, 1}, NEW g \in Nat, NEW n \in Nat, NEW w \in Seq(Piece), NEW two \in Seq(Piece),
         UnderWay(w, b, g), b + Len(w) = 2 * (n - g),
         Len(two) = 2, two[1].n = n + 1, two[2].n = n + 1
  PROVE  UnderWay(w \o two, b, g) /\ b + Len(w \o two) = 2 * ((n + 1) - g)
<1>1. PICK l \in Nat : l = Len(w)
  OBVIOUS
<1>2. /\ Len(w \o two) = l + 2
      /\ \A i \in 1..(l + 2) : (w \o two)[i] = IF i <= l THEN w[i] ELSE two[i - l]
  <2>1. /\ Len(w \o two) = Len(w) + Len(two)
        /\ \A i \in 1..(Len(w) + Len(two)) : (w \o two)[i] = IF i <= Len(w) THEN w[i] ELSE two[i - Len(w)]
    BY ConcatProperties
  <2> QED
    BY <1>1, <2>1, Zenon
<1>3. g + ((b + (l + 1) + 1) \div 2) = n + 1 /\ g + ((b + (l + 2) + 1) \div 2) = n + 1
  <2>1. b + l = 2 * (n - g)
    BY <1>1, Zenon
  <2> QED
    BY <2>1, NextHalves
<1>4. ASSUME NEW i \in 1..(l + 2)
      PROVE  (w \o two)[i].n = g + ((b + i + 1) \div 2)
  <2>1. CASE i \in 1..l
    <3>1. (w \o two)[i] = w[i]
      BY <1>2, <2>1
    <3> QED
      BY <1>1, <2>1, <3>1 DEF UnderWay
  <2>2. CASE i = l + 1
    <3>1. (w \o two)[i] = two[1]
      <4>1. ~(i <= l) /\ i - l = 1
        BY <2>2
      <4>2. (w \o two)[i] = IF i <= l THEN w[i] ELSE two[i - l]
        BY <1>2
      <4> QED
        BY <4>1, <4>2, Zenon
    <3> QED
      BY <1>3, <2>2, <3>1, Zenon
  <2>3. CASE i = l + 2
    <3>1. (w \o two)[i] = two[2]
      <4>1. ~(i <= l) /\ i - l = 2
        BY <2>3
      <4>2. (w \o two)[i] = IF i <= l THEN w[i] ELSE two[i - l]
        BY <1>2
      <4> QED
        BY <4>1, <4>2, Zenon
    <3> QED
      BY <1>3, <2>3, <3>1, Zenon
  <2>4. i \in 1..l \/ i = l + 1 \/ i = l + 2
    OBVIOUS
  <2> QED
    BY <2>1, <2>2, <2>3, <2>4
<1>5. UnderWay(w \o two, b, g)
  <2>1. \A i \in 1..Len(w \o two) : (w \o two)[i].n = g + ((b + i + 1) \div 2)
    BY <1>2, <1>4, Zenon
  <2> QED
    BY <2>1, Zenon DEF UnderWay
<1>6. b + Len(w \o two) = 2 * ((n + 1) - g)
  <2>1. b + l = 2 * (n - g)
    BY <1>1
  <2>2. Len(w \o two) = l + 2
    BY <1>2
  <2> QED
    BY <2>1, <2>2
<1> QED
  BY <1>5, <1>6

(* What a read yields goes on the end of the buffer ...                    *)
LEMMA ReadPieces ==
  ASSUME NEW buf \in Seq(Piece), NEW w \in Seq(Piece), NEW g \in Nat,
         Buffered(buf, g), UnderWay(w, Len(buf), g), NEW k \in 1..Len(w)
  PROVE  /\ ReadInto(buf, w, k) \in Seq(Piece) /\ Len(ReadInto(buf, w, k)) = Len(buf) + k
         /\ Numbered(ReadInto(buf, w, k), g)
<1>1. PICK b \in {0, 1} : b = Len(buf)
  BY DEF Buffered
<1>2. PICK read : read = SubSeq(w, 1, k)
  OBVIOUS
<1>3. read \in Seq(Piece) /\ Len(read) = k /\ \A i \in 1..k : read[i] = w[i]
  BY <1>2
<1>4. PICK all : all = ReadInto(buf, w, k)
  OBVIOUS
<1>5. all = buf \o read
  BY <1>2, <1>4 DEF ReadInto
<1>6. /\ all \in Seq(Piece) /\ Len(all) = b + k
      /\ \A j \in 1..(b + k) : all[j] = IF j <= b THEN buf[j] ELSE read[j - b]
  <2>1. /\ buf \o read \in Seq(Piece) /\ Len(buf \o read) = Len(buf) + Len(read)
        /\ \A j \in 1..(Len(buf) + Len(read)) :
             (buf \o read)[j] = IF j <= Len(buf) THEN buf[j] ELSE read[j - Len(buf)]
    BY <1>3, ConcatProperties
  <2> QED
    BY <1>1, <1>3, <1>5, <2>1, Zenon
<1>7. ASSUME NEW j \in 1..(b + k)
      PROVE  all[j].n = g + ((j + 1) \div 2)
  <2>1. CASE j <= b
    <3>1. j = 1 /\ b = 1
      BY <2>1
    <3>2. all[j] = buf[1] /\ buf[1].n = g + 1
      BY <1>1, <1>6, <3>1 DEF Buffered
    <3>3. (1 + 1) \div 2 = 1
      OBVIOUS
    <3> QED
      BY <3>1, <3>2, <3>3
  <2>2. CASE j > b
    <3>1. PICK i \in 1..k : i = j - b
      BY <2>2
    <3>2. all[j] = read[i] /\ read[i] = w[i]
      BY <1>3, <1>6, <2>2, <3>1
    <3>3. b + i + 1 = j + 1 /\ i \in 1..Len(w)
      BY <3>1
    <3>4. w[i].n = g + ((b + i + 1) \div 2)
      BY <1>1, <3>3 DEF UnderWay
    <3> QED
      BY <3>2, <3>3, <3>4
  <2>3. j <= b \/ j > b
    OBVIOUS
  <2> QED
    BY <2>1, <2>2, <2>3
<1>8. Numbered(all, g)
  BY <1>6, <1>7 DEF Numbered
<1> QED
  BY <1>1, <1>4, <1>6, <1>8

(* ... its frames are answered, two pieces each ...                        *)
LEMMA ServedFrames ==
  ASSUME NEW all \in Seq(Piece), NEW g \in Nat, NEW silent \in BOOLEAN, Numbered(all, g)
  PROVE  /\ AnswersIn(all, silent) \in Seq(Answer) /\ Len(AnswersIn(all, silent)) = Len(all) \div 2
         /\ \A i \in 1..(Len(all) \div 2) : AnswersIn(all, silent)[i].n = g + i
<1>1. PICK q \in Nat : q = Len(all) \div 2
  OBVIOUS
<1>2. DOMAIN Frames(all) = 1..q /\ \A i \in 1..q : Frames(all)[i] = all[2 * i]
  BY <1>1 DEF Frames
<1>3. \A i \in 1..q : 2 * i \in 1..Len(all) /\ (2 * i + 1) \div 2 = i
  BY <1>1
<1>4. ASSUME NEW i \in 1..q
      PROVE  AnswersTo(all[2 * i], silent) \in Answer /\ AnswersTo(all[2 * i], silent).n = g + i
  <2>1. all[2 * i].n = g + i
    BY <1>3 DEF Numbered
  <2>2. AnswersTo(all[2 * i], silent) = [n |-> g + i, silent |-> silent /\ MaySilent(all[2 * i])]
    BY <2>1, Zenon DEF AnswersTo
  <2> QED
    BY <2>2 DEF Answer
<1>5. AnswersIn(all, silent) = [i \in 1..q |-> AnswersTo(all[2 * i], silent)]
  BY <1>2 DEF AnswersIn
<1> QED
  BY <1>1, <1>4, <1>5

(* ... and the rest waits for what is under way.                           *)
LEMMA RestOfStream ==
  ASSUME NEW all, NEW b, NEW w, NEW g, NEW n, NEW k, Joined(all, b, w, g, n, k)
  PROVE  /\ Rest(all) \in Seq(Piece) /\ LeftOf(w, k) \in Seq(Piece)
         /\ Buffered(Rest(all), g + Whole(all)) /\ UnderWay(LeftOf(w, k), Len(Rest(all)), g + Whole(all))
         /\ Len(Rest(all)) + Len(LeftOf(w, k)) = 2 * (n - (g + Whole(all)))
<1> USE DEF Joined
<1>0. PICK q \in Nat : q = Len(all) \div 2 /\ q = Whole(all)
  BY DEF Whole
<1>1. PICK l \in Nat : l = Len(w)
  OBVIOUS
<1>2. PICK left : left = LeftOf(w, k)
  OBVIOUS
<1>3. left \in Seq(Piece) /\ Len(left) = l - k /\ \A i \in 1..(l - k) : left[i] = w[k + i]
  BY <1>1, <1>2 DEF LeftOf
<1>4. PICK r : r = (b + k) % 2
  OBVIOUS
<1>5. r \in {0, 1} /\ b + k = 2 * q + r
  BY <1>0, <1>4
<1>6. PICK rest : rest = Rest(all)
  OBVIOUS
<1>7. rest \in Seq(Piece) /\ Len(rest) = r /\ (r = 1 => rest[1] = all[b + k])
  <2>1. CASE r = 1
    <3>1. rest = << all[b + k] >>
      BY <1>4, <1>6, <2>1 DEF Rest, Last
    <3>2. all[b + k] \in Piece
      OBVIOUS
    <3> QED
      BY <2>1, <3>1, <3>2
  <2>2. CASE r = 0
    <3>1. rest = << >>
      BY <1>4, <1>6, <2>2 DEF Rest
    <3> QED
      BY <2>2, <3>1
  <2> QED
    BY <1>5, <2>1, <2>2
<1>8. r = 1 => all[b + k].n = g + q + 1
  <2>1. r = 1 => (b + k + 1) \div 2 = q + 1
    BY <1>5
  <2>2. b + k \in 1..Len(all)
    OBVIOUS
  <2>3. all[b + k].n = g + ((b + k + 1) \div 2)
    BY <2>2 DEF Numbered
  <2> QED
    BY <1>5, <2>1, <2>3
<1>9. Buffered(rest, g + q)
  BY <1>5, <1>7, <1>8 DEF Buffered
<1>10. ASSUME NEW i \in 1..(l - k)
       PROVE  left[i].n = (g + q) + ((r + i + 1) \div 2)
  <2>1. k + i \in 1..Len(w)
    BY <1>1
  <2>2. left[i].n = g + ((b + (k + i) + 1) \div 2)
    BY <1>3, <2>1 DEF UnderWay
  <2>3. b + (k + i) + 1 = 2 * q + (r + i + 1)
    BY <1>1, <1>5
  <2>4. (2 * q + (r + i + 1)) \div 2 = q + ((r + i + 1) \div 2)
    BY <1>1, <1>5
  <2>5. left[i].n = g + (q + ((r + i + 1) \div 2))
    BY <2>2, <2>3, <2>4
  <2>6. (r + i + 1) \div 2 \in Int
    BY <1>1, <1>5
  <2> QED
    BY <2>5, <2>6
<1>11. UnderWay(left, r, g + q)
  BY <1>3, <1>10 DEF UnderWay
<1>12. r + (l - k) = 2 * (n - (g + q))
  BY <1>1, <1>5
<1> QED
  BY <1>0, <1>2, <1>3, <1>6, <1>7, <1>9, <1>11, <1>12

LEMMA GwInitInv == GwInit => GwInv
<1> SUFFICES ASSUME GwInit PROVE GwInv
  OBVIOUS
<1>1. \A s \in Clients : cl[s] = FreeSlot /\ cl[s].fd = 0
  BY DEF GwInit, FreeSlot
<1>2. \A c \in Conns : peer[c] = NoPeer /\ peer[c].st = "none" /\ peer[c].sent = 0
                       /\ peer[c].wire = << >> /\ peer[c].got = << >>
  BY DEF GwInit, NoPeer
<1>3. GwType
  <2>1. FreeSlot \in [fd : Conns \cup {0}, buf : Seq(Piece), idle : Nat]
    BY DEF FreeSlot
  <2>2. NoPeer \in [st : GwStates, sent : Nat, wire : Seq(Piece), got : Seq(Answer)]
    BY DEF NoPeer, GwStates
  <2> QED
    BY <2>1, <2>2 DEF GwInit, GwType
<1> QED
  BY <1>1, <1>2, <1>3 DEF GwInv, OneSlotEach, NewOnes, Unaccepted, Streams, AnsweredInOrder

(* A step of one connection that has no slot before or after it, or keeps  *)
(* the one it has, leaves the others as they are.                          *)
LEMMA OtherStreams ==
  ASSUME GwInv, NEW c \in Conns, cl' = cl, \A d \in Conns \ {c} : peer'[d] = peer[d],
         Unaccepted(peer'[c]),
         \A s \in Clients : cl[s].fd = c => peer'[c].st \in {"open", "left", "gone"}
                                            /\ Stream(cl[s], peer'[c]),
         \A i \in DOMAIN peer'[c].got : peer'[c].got[i].n = i,
         GwType'
  PROVE  GwInv'
<1>1. OneSlotEach'
  BY DEF GwInv, OneSlotEach
<1>2. NewOnes'
  BY DEF GwInv, GwType, NewOnes
<1>3. Streams'
  BY DEF GwInv, GwType, Streams
<1>4. AnsweredInOrder'
  BY DEF GwInv, AnsweredInOrder
<1> QED
  BY <1>1, <1>2, <1>3, <1>4 DEF GwInv

LEMMA ConnectStep ==
  ASSUME GwInv, NEW c \in Conns, Connect(c)
  PROVE  GwInv'
<1>1. peer[c].st = "none" /\ peer[c].sent = 0 /\ peer[c].wire = << >> /\ peer[c].got = << >>
  BY DEF Connect, NoPeer
<1>2. PICK p : p = [peer[c] EXCEPT !.st = "asking"]
  OBVIOUS
<1>3. peer' = [peer EXCEPT ![c] = p] /\ cl' = cl
  BY <1>2 DEF Connect
<1>4. p = [st |-> "asking", sent |-> 0, wire |-> << >>, got |-> << >>]
  BY <1>1, <1>2 DEF GwInv, GwType
<1>5. p \in [st : GwStates, sent : Nat, wire : Seq(Piece), got : Seq(Answer)]
  BY <1>4 DEF GwStates
<1>6. GwType' /\ peer'[c] = p /\ \A d \in Conns \ {c} : peer'[d] = peer[d]
  BY <1>3, <1>5 DEF GwInv, GwType
<1>7. \A s \in Clients : cl[s].fd # c
  <2> SUFFICES ASSUME NEW s \in Clients, cl[s].fd = c PROVE FALSE
    OBVIOUS
  <2>1. peer[c].st \in {"open", "left", "gone"}
    BY DEF GwInv, NewOnes, Conns
  <2> QED
    BY <1>1, <2>1
<1>8. Unaccepted(p) /\ \A i \in DOMAIN p.got : p.got[i].n = i
  BY <1>4 DEF Unaccepted
<1> QED
  BY <1>3, <1>6, <1>7, <1>8, OtherStreams

LEMMA SendStep ==
  ASSUME GwInv, NEW c \in Conns, NEW u \in {"bus", "meter"}, Send(c, u)
  PROVE  GwInv'
<1>1. PICK n \in Nat : n = peer[c].sent
  BY DEF GwInv, GwType
<1>2. PICK two : two = << [n |-> n + 1, unit |-> u, part |-> 1], [n |-> n + 1, unit |-> u, part |-> 2] >>
  OBVIOUS
<1>3. two \in Seq(Piece) /\ Len(two) = 2 /\ two[1].n = n + 1 /\ two[2].n = n + 1
  BY <1>2 DEF Piece
<1>4. PICK p : p = [peer[c] EXCEPT !.sent = @ + 1, !.wire = @ \o two]
  OBVIOUS
<1>5. peer' = [peer EXCEPT ![c] = p] /\ cl' = cl /\ peer[c].st = "open"
  BY <1>1, <1>2, <1>4 DEF Send
<1>6. p = [st |-> "open", sent |-> n + 1, wire |-> peer[c].wire \o two, got |-> peer[c].got]
  BY <1>1, <1>4, <1>5 DEF GwInv, GwType
<1>7. peer[c].wire \in Seq(Piece) /\ peer[c].got \in Seq(Answer)
  BY DEF GwInv, GwType
<1>8. p \in [st : GwStates, sent : Nat, wire : Seq(Piece), got : Seq(Answer)]
  BY <1>3, <1>6, <1>7 DEF GwStates
<1>9. GwType' /\ peer'[c] = p /\ \A d \in Conns \ {c} : peer'[d] = peer[d]
  BY <1>5, <1>8 DEF GwInv, GwType
<1>10. ASSUME NEW s \in Clients, cl[s].fd = c
       PROVE  Stream(cl[s], p)
  <2>1. Stream(cl[s], peer[c])
    BY <1>10 DEF GwInv, Streams, Conns
  <2>2. PICK b, g : b = Len(cl[s].buf) /\ g = Len(peer[c].got)
    OBVIOUS
  <2>3. b \in {0, 1} /\ g \in Nat /\ UnderWay(peer[c].wire, b, g) /\ b + Len(peer[c].wire) = 2 * (n - g)
    <3>1. UnderWay(peer[c].wire, b, g) /\ b + Len(peer[c].wire) = 2 * (n - g)
      BY <1>1, <2>1, <2>2, Zenon DEF Stream
    <3>2. b \in {0, 1}
      BY <2>1, <2>2, Zenon DEF Stream, Buffered
    <3>3. g \in Nat
      BY <1>7, <2>2
    <3> QED
      BY <3>1, <3>2, <3>3
  <2>4. UnderWay(p.wire, b, g) /\ b + Len(p.wire) = 2 * ((n + 1) - g)
    <3>1. PICK w \in Seq(Piece) : w = peer[c].wire
      BY <1>7, Zenon
    <3>2. UnderWay(w, b, g) /\ b + Len(w) = 2 * (n - g)
      BY <2>3, <3>1, Zenon
    <3>3. UnderWay(w \o two, b, g) /\ b + Len(w \o two) = 2 * ((n + 1) - g)
      <4>1. n \in Nat /\ b \in {0, 1} /\ g \in Nat
        BY <2>3
      <4> QED
        BY <1>3, <3>2, <4>1, SentStream
    <3>4. p.wire = w \o two
      BY <1>6, <3>1
    <3> QED
      BY <3>3, <3>4, Zenon
  <2> QED
    BY <1>6, <2>1, <2>2, <2>4 DEF Stream
<1>11. p.st = "open" /\ p.got = peer[c].got /\ Unaccepted(p)
  BY <1>6 DEF Unaccepted
<1>12. \A i \in DOMAIN p.got : p.got[i].n = i
  BY <1>11 DEF GwInv, AnsweredInOrder
<1> QED
  BY <1>5, <1>9, <1>10, <1>11, <1>12, OtherStreams

LEMMA DepartStep ==
  ASSUME GwInv, NEW c \in Conns, NEW how \in {"left", "gone"}, Depart(c, how)
  PROVE  GwInv'
<1>1. PICK p : p = [peer[c] EXCEPT !.st = how]
  OBVIOUS
<1>2. peer' = [peer EXCEPT ![c] = p] /\ cl' = cl
  BY <1>1 DEF Depart
<1>3. /\ p = [st |-> how, sent |-> peer[c].sent, wire |-> peer[c].wire, got |-> peer[c].got]
      /\ p \in [st : GwStates, sent : Nat, wire : Seq(Piece), got : Seq(Answer)]
  BY <1>1 DEF GwInv, GwType, GwStates
<1>4. GwType' /\ peer'[c] = p /\ \A d \in Conns \ {c} : peer'[d] = peer[d]
  BY <1>2, <1>3 DEF GwInv, GwType
<1>5. ASSUME NEW s \in Clients, cl[s].fd = c
      PROVE  Stream(cl[s], p)
  <2>1. Stream(cl[s], peer[c])
    BY <1>5 DEF GwInv, Streams, Conns
  <2> QED
    BY <1>3, <2>1 DEF Stream
<1>6. p.st \in {"left", "gone"} /\ p.got = peer[c].got /\ Unaccepted(p)
  BY <1>3 DEF Unaccepted
<1>7. \A i \in DOMAIN p.got : p.got[i].n = i
  BY <1>6 DEF GwInv, AnsweredInOrder
<1> QED
  BY <1>2, <1>4, <1>5, <1>6, <1>7, OtherStreams

(* gw_close(): the slot starts over, and its client hears no more.         *)
LEMMA CloseStep ==
  ASSUME GwInv, NEW S \in SUBSET Clients, CloseSlots(S)
  PROVE  GwInv'
<1>1. \A s \in Clients : cl'[s] = IF s \in S THEN FreeSlot ELSE cl[s]
  BY DEF CloseSlots
<1>2. FreeSlot.fd = 0 /\ FreeSlot \in [fd : Conns \cup {0}, buf : Seq(Piece), idle : Nat]
  BY DEF FreeSlot
<1>3. ASSUME NEW c \in Conns, \E s \in S : cl[s].fd = c
      PROVE  /\ peer'[c] = [st |-> "closed", sent |-> peer[c].sent, wire |-> << >>, got |-> peer[c].got]
             /\ peer'[c] \in [st : GwStates, sent : Nat, wire : Seq(Piece), got : Seq(Answer)]
  <2>1. peer'[c] = [peer[c] EXCEPT !.st = "closed", !.wire = << >>]
    BY <1>3 DEF CloseSlots
  <2>2. peer[c] \in [st : GwStates, sent : Nat, wire : Seq(Piece), got : Seq(Answer)]
    BY DEF GwInv, GwType
  <2>3. peer'[c] = [st |-> "closed", sent |-> peer[c].sent, wire |-> << >>, got |-> peer[c].got]
    BY <2>1, <2>2
  <2> QED
    BY <2>2, <2>3 DEF GwStates
<1>4. ASSUME NEW c \in Conns, ~\E s \in S : cl[s].fd = c
      PROVE  peer'[c] = peer[c]
  BY <1>4 DEF CloseSlots
<1>5. GwType'
  <2>1. cl' \in [Clients -> [fd : Conns \cup {0}, buf : Seq(Piece), idle : Nat]]
    BY <1>2 DEF GwInv, GwType, CloseSlots
  <2>2. \A c \in Conns : peer'[c] \in [st : GwStates, sent : Nat, wire : Seq(Piece), got : Seq(Answer)]
    BY <1>3, <1>4 DEF GwInv, GwType
  <2>3. peer' = [c \in Conns |-> peer'[c]]
    BY DEF CloseSlots
  <2> QED
    BY <2>1, <2>2, <2>3 DEF GwType
<1>6. OneSlotEach'
  BY <1>1, <1>2 DEF GwInv, OneSlotEach
<1>7. ASSUME NEW s \in Clients, cl'[s].fd # 0
      PROVE  s \notin S /\ cl'[s] = cl[s] /\ cl[s].fd \in Conns /\ peer'[cl[s].fd] = peer[cl[s].fd]
  <2>1. s \notin S /\ cl'[s] = cl[s] /\ cl[s].fd \in Conns
    BY <1>1, <1>2, <1>7 DEF GwInv, GwType
  <2>2. ~\E t \in S : cl[t].fd = cl[s].fd
    BY <1>7, <2>1 DEF GwInv, OneSlotEach
  <2> QED
    BY <1>4, <2>1, <2>2
<1>8. NewOnes'
  <2>1. \A c \in Conns : Unaccepted(peer[c])
    BY DEF GwInv, NewOnes
  <2>2. ASSUME NEW c \in Conns
        PROVE  Unaccepted(peer'[c])
    <3>1. CASE \E s \in S : cl[s].fd = c
      <4>1. peer'[c] = [st |-> "closed", sent |-> peer[c].sent, wire |-> << >>, got |-> peer[c].got]
        BY <1>3, <3>1, Zenon
      <4>2. peer'[c].st = "closed"
        BY <4>1
      <4> QED
        BY <4>2 DEF Unaccepted
    <3>2. CASE ~\E s \in S : cl[s].fd = c
      BY <1>4, <2>1, <3>2
    <3> QED
      BY <3>1, <3>2
  <2> QED
    BY <1>7, <2>2 DEF GwInv, NewOnes
<1>9. Streams'
  BY <1>7 DEF GwInv, Streams
<1>10. AnsweredInOrder'
  <2>1. ASSUME NEW c \in Conns
        PROVE  peer'[c].got = peer[c].got
    <3>1. CASE \E s \in S : cl[s].fd = c
      <4>1. peer'[c] = [st |-> "closed", sent |-> peer[c].sent, wire |-> << >>, got |-> peer[c].got]
        BY <1>3, <3>1, Zenon
      <4> QED
        BY <4>1
    <3>2. CASE ~\E s \in S : cl[s].fd = c
      BY <1>4, <3>2
    <3> QED
      BY <3>1, <3>2
  <2> QED
    BY <2>1 DEF GwInv, AnsweredInOrder
<1> QED
  BY <1>5, <1>6, <1>8, <1>9, <1>10 DEF GwInv

(* gw_accept() of a client that has sent nothing yet.                      *)
LEMMA AcceptStep ==
  ASSUME GwInv, NEW c \in Conns, Accept(c)
  PROVE  GwInv'
<1>1. /\ peer[c].sent = 0 /\ peer[c].wire = << >> /\ peer[c].got = << >>
      /\ \A t \in Clients : cl[t].fd # c
  <2>1. peer[c].st = "asking"
    BY DEF Accept
  <2>2. Unaccepted(peer[c])
    BY DEF GwInv, NewOnes
  <2>3. \A t \in Clients : cl[t].fd # 0 => cl[t].fd # c
    BY <2>1 DEF GwInv, NewOnes
  <2> QED
    BY <2>1, <2>2, <2>3 DEF Unaccepted, Conns
<1>2. PICK how \in {"open", "closed"} : peer' = [peer EXCEPT ![c].st = how]
  BY DEF Accept
<1>3. PICK p : p = [peer[c] EXCEPT !.st = how]
  OBVIOUS
<1>4. peer' = [peer EXCEPT ![c] = p]
  BY <1>2, <1>3
<1>5. p = [st |-> how, sent |-> 0, wire |-> << >>, got |-> << >>]
  BY <1>1, <1>3 DEF GwInv, GwType
<1>6. p \in [st : GwStates, sent : Nat, wire : Seq(Piece), got : Seq(Answer)]
  BY <1>5 DEF GwStates
<1>7. /\ peer' \in [Conns -> [st : GwStates, sent : Nat, wire : Seq(Piece), got : Seq(Answer)]]
      /\ peer'[c] = p /\ \A d \in Conns \ {c} : peer'[d] = peer[d]
  BY <1>4, <1>6 DEF GwInv, GwType
<1>8. Unaccepted(p) /\ \A i \in DOMAIN p.got : p.got[i].n = i
  BY <1>5 DEF Unaccepted
<1>9. CASE cl' = cl
  <2>1. GwType'
    BY <1>7, <1>9 DEF GwInv, GwType
  <2> QED
    BY <1>1, <1>7, <1>8, <1>9, <2>1, OtherStreams
<1>10. ASSUME NEW s \in Clients \ Used, how = "open",
              cl' = [cl EXCEPT ![s] = [fd |-> c, buf |-> << >>, idle |-> 0]]
       PROVE  GwInv'
  <2>1. /\ cl' \in [Clients -> [fd : Conns \cup {0}, buf : Seq(Piece), idle : Nat]]
        /\ cl'[s] = [fd |-> c, buf |-> << >>, idle |-> 0]
        /\ \A t \in Clients \ {s} : cl'[t] = cl[t]
    BY <1>10 DEF GwInv, GwType
  <2>2. OneSlotEach'
    BY <1>1, <2>1 DEF GwInv, OneSlotEach
  <2>3. NewOnes'
    <3>1. \A d \in Conns : Unaccepted(peer'[d])
      BY <1>7, <1>8 DEF GwInv, NewOnes
    <3>2. peer'[cl'[s].fd].st \in {"open", "left", "gone"}
      BY <1>5, <1>7, <1>10, <2>1
    <3>3. ASSUME NEW t \in Clients \ {s}, cl'[t].fd # 0
          PROVE  peer'[cl'[t].fd].st \in {"open", "left", "gone"}
      <4>1. cl'[t] = cl[t] /\ cl[t].fd # 0 /\ cl[t].fd # c
        BY <1>1, <2>1, <3>3
      <4>2. cl[t].fd \in Conns \ {c} /\ peer[cl[t].fd].st \in {"open", "left", "gone"}
        BY <4>1 DEF GwInv, GwType, NewOnes
      <4> QED
        BY <1>7, <4>1, <4>2
    <3>4. \A t \in Clients : cl'[t].fd # 0 => peer'[cl'[t].fd].st \in {"open", "left", "gone"}
      BY <3>2, <3>3
    <3> QED
      BY <3>1, <3>4, Zenon DEF NewOnes
  <2>4. Streams'
    <3>1. Stream(cl'[s], p)
      <4>1. cl'[s].buf = << >> /\ p.sent = 0 /\ p.wire = << >> /\ p.got = << >>
        BY <1>5, <2>1
      <4> QED
        BY <4>1, StreamOfNew, Zenon
    <3>2. \A t \in Clients \ {s} : cl[t].fd # 0 => Stream(cl[t], peer'[cl[t].fd])
      BY <1>1, <1>7 DEF GwInv, GwType, Streams
    <3>3. peer'[cl'[s].fd] = p
      BY <1>7, <2>1
    <3>4. \A t \in Clients \ {s} : cl'[t].fd # 0 => Stream(cl'[t], peer'[cl'[t].fd])
      BY <2>1, <3>2
    <3> QED
      BY <3>1, <3>3, <3>4 DEF Streams
  <2>5. AnsweredInOrder'
    BY <1>7, <1>8 DEF GwInv, AnsweredInOrder
  <2> QED
    BY <1>7, <2>1, <2>2, <2>3, <2>4, <2>5 DEF GwInv, GwType
<1>11. cl' = cl \/ \E s \in Clients \ Used : cl' = [cl EXCEPT ![s] = [fd |-> c, buf |-> << >>, idle |-> 0]]
                                               /\ peer' = [peer EXCEPT ![c].st = "open"]
  BY DEF Accept
<1>12. CASE \E s \in Clients \ Used : cl' = [cl EXCEPT ![s] = [fd |-> c, buf |-> << >>, idle |-> 0]]
                                       /\ peer' = [peer EXCEPT ![c].st = "open"]
  <2>1. how = "open"
    <3>1. peer'[c].st = "open"
      BY <1>12 DEF GwInv, GwType
    <3> QED
      BY <1>5, <1>7, <3>1
  <2> QED
    BY <1>10, <1>12, <2>1
<1> QED
  BY <1>9, <1>11, <1>12

(* gw_recv(), gw_serve() *)
LEMMA ReceiveStep ==
  ASSUME GwInv, NEW s \in Clients, NEW k, NEW silent \in BOOLEAN, Receive(s, k, silent)
  PROVE  GwInv'
<1>1. PICK c \in Conns : c = cl[s].fd /\ c # 0
  BY DEF Receive, GwInv, GwType
<1>2. /\ peer[c] \in [st : GwStates, sent : Nat, wire : Seq(Piece), got : Seq(Answer)]
      /\ cl[s] \in [fd : Conns \cup {0}, buf : Seq(Piece), idle : Nat]
  BY DEF GwInv, GwType
<1>3. PICK buf, w, got : buf = cl[s].buf /\ w = peer[c].wire /\ got = peer[c].got
  OBVIOUS
<1>4. PICK n \in Nat : n = peer[c].sent
  BY <1>2
<1>5. buf \in Seq(Piece) /\ w \in Seq(Piece) /\ got \in Seq(Answer)
  BY <1>2, <1>3
<1>6. PICK g \in Nat : g = Len(got)
  BY <1>5
<1>7. Stream(cl[s], peer[c])
  BY <1>1 DEF GwInv, Streams
<1>8. Buffered(buf, g) /\ UnderWay(w, Len(buf), g) /\ Len(buf) + Len(w) = 2 * (n - g)
  BY <1>3, <1>4, <1>6, <1>7, Zenon DEF Stream
<1>9. k \in 1..Len(w)
  BY <1>1, <1>3 DEF Receive
<1>10. PICK all : all = ReadInto(buf, w, k)
  OBVIOUS
<1>11. all \in Seq(Piece) /\ Len(all) = Len(buf) + k /\ Numbered(all, g)
  BY <1>5, <1>8, <1>9, <1>10, ReadPieces
<1>12. PICK served : served = AnswersIn(all, silent)
  OBVIOUS
<1>13. PICK q \in Nat : q = Len(all) \div 2 /\ q = Whole(all)
  BY <1>11 DEF Whole
<1>14. served \in Seq(Answer) /\ Len(served) = q /\ \A i \in 1..q : served[i].n = g + i
  BY <1>11, <1>12, <1>13, ServedFrames
<1>15. PICK rest, left : rest = Rest(all) /\ left = LeftOf(w, k)
  OBVIOUS
<1>16. PICK b \in {0, 1} : b = Len(buf)
  BY <1>8 DEF Buffered
<1>17. /\ rest \in Seq(Piece) /\ left \in Seq(Piece)
       /\ Buffered(rest, g + q) /\ UnderWay(left, Len(rest), g + q)
       /\ Len(rest) + Len(left) = 2 * (n - (g + q))
  <2>1. UnderWay(w, b, g) /\ b + Len(w) = 2 * (n - g) /\ Len(all) = b + k
    BY <1>8, <1>11, <1>16
  <2>2. Joined(all, b, w, g, n, k)
    BY <1>5, <1>9, <1>11, <2>1 DEF Joined
  <2> QED
    <3>1. /\ Rest(all) \in Seq(Piece) /\ LeftOf(w, k) \in Seq(Piece)
          /\ Buffered(Rest(all), g + Whole(all)) /\ UnderWay(LeftOf(w, k), Len(Rest(all)), g + Whole(all))
          /\ Len(Rest(all)) + Len(LeftOf(w, k)) = 2 * (n - (g + Whole(all)))
      BY <1>5, <1>9, <1>11, <2>2, RestOfStream
    <3> QED
      BY <1>13, <1>15, <3>1
<1>18. PICK answers : answers = got \o served
  OBVIOUS
<1>19. /\ answers \in Seq(Answer) /\ Len(answers) = g + q
       /\ \A i \in 1..(g + q) : answers[i] = IF i <= g THEN got[i] ELSE served[i - g]
  <2>1. /\ got \o served \in Seq(Answer) /\ Len(got \o served) = Len(got) + Len(served)
        /\ \A i \in 1..(Len(got) + Len(served)) :
             (got \o served)[i] = IF i <= Len(got) THEN got[i] ELSE served[i - Len(got)]
    BY <1>5, <1>14, ConcatProperties
  <2> QED
    BY <1>6, <1>14, <1>18, <2>1, Zenon
<1>20. \A i \in DOMAIN answers : answers[i].n = i
  <2>1. \A i \in 1..g : got[i].n = i
    BY <1>3, <1>5, <1>6 DEF GwInv, AnsweredInOrder
  <2>2. ASSUME NEW i \in 1..(g + q)
        PROVE  answers[i].n = i
    <3>1. CASE i <= g
      BY <1>19, <2>1, <3>1
    <3>2. CASE i > g
      <4>1. i - g \in 1..q /\ answers[i] = served[i - g]
        BY <1>14, <1>19, <3>2
      <4> QED
        BY <1>14, <4>1
    <3> QED
      BY <3>1, <3>2
  <2> QED
    BY <1>19, <2>2
<1>21. PICK p : p = [peer[c] EXCEPT !.wire = left, !.got = answers]
  OBVIOUS
<1>22. PICK slot : slot = [cl[s] EXCEPT !.buf = rest, !.idle = 0]
  OBVIOUS
<1>23. peer' = [peer EXCEPT ![c] = p] /\ cl' = [cl EXCEPT ![s] = slot]
  BY <1>1, <1>3, <1>10, <1>12, <1>15, <1>18, <1>21, <1>22 DEF Receive, ReadInto, LeftOf, AnswersIn
<1>24. p = [st |-> peer[c].st, sent |-> n, wire |-> left, got |-> answers]
  BY <1>2, <1>4, <1>21
<1>25. slot = [fd |-> c, buf |-> rest, idle |-> 0]
  BY <1>1, <1>2, <1>22
<1>26. Stream(slot, p)
  BY <1>17, <1>19, <1>24, <1>25 DEF Stream
<1>27. /\ p \in [st : GwStates, sent : Nat, wire : Seq(Piece), got : Seq(Answer)]
       /\ slot \in [fd : Conns \cup {0}, buf : Seq(Piece), idle : Nat]
  BY <1>2, <1>17, <1>19, <1>24, <1>25
<1>28. GwType' /\ peer'[c] = p /\ cl'[s] = slot /\ (\A d \in Conns \ {c} : peer'[d] = peer[d])
       /\ \A t \in Clients \ {s} : cl'[t] = cl[t]
  BY <1>23, <1>27 DEF GwInv, GwType
<1>29. \A t \in Clients : cl'[t].fd = cl[t].fd
  BY <1>1, <1>25, <1>28
<1>30. \A t \in Clients \ {s} : cl[t].fd # c
  BY <1>1 DEF GwInv, OneSlotEach
<1>31. OneSlotEach'
  BY <1>29 DEF GwInv, OneSlotEach
<1>32. peer[c].st \in {"open", "left", "gone"}
  BY <1>1 DEF GwInv, NewOnes
<1>33. NewOnes'
  <2>1. \A d \in Conns : Unaccepted(peer'[d])
    BY <1>24, <1>28, <1>32 DEF GwInv, NewOnes, Unaccepted
  <2>2. \A d \in Conns : peer'[d].st = peer[d].st
    BY <1>24, <1>28
  <2> QED
    BY <1>29, <2>1, <2>2 DEF GwInv, GwType, NewOnes
<1>34. Streams'
  <2>1. \A t \in Clients \ {s} : cl[t].fd # 0 => Stream(cl[t], peer'[cl[t].fd])
    BY <1>28, <1>30 DEF GwInv, GwType, Streams
  <2> QED
    BY <1>25, <1>26, <1>28, <2>1 DEF Streams
<1>35. AnsweredInOrder'
  BY <1>20, <1>24, <1>28 DEF GwInv, AnsweredInOrder
<1> QED
  BY <1>28, <1>31, <1>33, <1>34, <1>35 DEF GwInv

LEMMA GwClockStep ==
  ASSUME GwInv, GwClock
  PROVE  GwInv'
<1>1. ASSUME NEW s \in Clients
      PROVE  /\ cl'[s].fd = cl[s].fd /\ cl'[s].buf = cl[s].buf
             /\ cl'[s] \in [fd : Conns \cup {0}, buf : Seq(Piece), idle : Nat]
  <2>1. cl[s] \in [fd : Conns \cup {0}, buf : Seq(Piece), idle : Nat]
    BY DEF GwInv, GwType
  <2>2. cl'[s] = cl[s] \/ cl'[s] = [cl[s] EXCEPT !.idle = @ + 1]
    BY DEF GwClock
  <2> QED
    BY <2>1, <2>2
<1>2. peer' = peer /\ cl' = [s \in Clients |-> cl'[s]]
  BY DEF GwClock
<1>3. GwType'
  BY <1>1, <1>2 DEF GwInv, GwType
<1>4. OneSlotEach' /\ NewOnes' /\ AnsweredInOrder'
  BY <1>1, <1>2 DEF GwInv, OneSlotEach, NewOnes, AnsweredInOrder
<1>5. Streams'
  <2>1. ASSUME NEW s \in Clients, cl'[s].fd # 0
        PROVE  Stream(cl'[s], peer[cl'[s].fd])
    BY <1>1, <2>1 DEF GwInv, Streams, Stream
  <2> QED
    BY <1>2, <2>1 DEF Streams
<1> QED
  BY <1>3, <1>4, <1>5 DEF GwInv

LEMMA GwStepInv == GwInv /\ [GwNext]_gwVars => GwInv'
<1> SUFFICES ASSUME GwInv, [GwNext]_gwVars PROVE GwInv'
  OBVIOUS
<1>1. CASE StartListening \/ (\E b, m \in BOOLEAN : SetGwCfg([gwcfg EXCEPT !.bridge = b, !.meter = m]))
           \/ UNCHANGED gwVars
  <2>1. cl' = cl /\ peer' = peer
    BY <1>1 DEF StartListening, SetGwCfg, gwVars
  <2> QED
    BY <2>1 DEF GwInv, GwType, OneSlotEach, NewOnes, Streams, AnsweredInOrder
<1>2. CASE StopListening \/ Rebind
  BY <1>2, CloseStep DEF StopListening, Rebind
<1>3. ASSUME NEW s \in Clients, GwTask(s)
      PROVE  GwInv'
  <2>1. CASE Hangup(s) \/ ReapIdle(s)
    <3>1. CloseSlots({s})
      BY <2>1 DEF Hangup, ReapIdle
    <3> QED
      BY <3>1, CloseStep
  <2>2. CASE \E k \in 1..(2 * MaxReqs), b \in BOOLEAN : Receive(s, k, b)
    BY <2>2, ReceiveStep
  <2> QED
    BY <1>3, <2>1, <2>2 DEF GwTask
<1> QED
  BY <1>1, <1>2, <1>3, AcceptStep, GwClockStep, ConnectStep, SendStep, DepartStep DEF GwNext, Listener

(* modbus_gw.c:202: every client is answered for its own requests, in      *)
(* their order and without a gap, for any number of clients, slots and     *)
(* requests, however the stream is cut and connections come and go.        *)
THEOREM AnswersSound == GwSpec => []AnsweredInOrder
<1>1. GwInv => AnsweredInOrder
  BY DEF GwInv
<1> QED
  BY <1>1, GwInitInv, GwStepInv, PTL DEF GwSpec

(***************************************************************************)
(* The Modbus-TCP workers and the borrower. Whoever is at a socket has its *)
(* lock; a worker polls the devices that share the address of its slot by  *)
(* its own copy of the list, and a socket under way goes to that address.  *)
(***************************************************************************)
DevLists == Lists \cup {[s \in Slots |-> NoDevice]}
Addrs == {d.addr : d \in TcpDevices} \cup Storages \cup {"none"}

TcpType ==
  /\ list \in DevLists /\ stored \in Lists
  /\ wk \in [Slots -> [pc : {"nap", "wait", "poll"}, devs : DevLists, due : SUBSET Slots]]
  /\ sk \in [Slots -> [addr : Addrs, late : {"none", "phases"}]]
  /\ io \in [Slots -> {"free", "worker", "fs"}]
  /\ fs \in [pc : {"idle", "wait", "hold"}, slot : Slots \cup {0}, addr : Addrs]
  /\ fs.pc # "idle" => fs.slot \in Slots

LockHeld ==
  /\ \A s \in Slots : wk[s].pc = "poll" => io[s] = "worker"
  /\ fs.pc = "hold" => io[fs.slot] = "fs"

PollsOwn(w, k, s) ==
  w.pc = "poll" => /\ \A t \in w.due : w.devs[t].addr = w.devs[s].addr
                   /\ k # Closed => k.addr = w.devs[s].addr
AtOwnSocket ==
  /\ \A s \in Slots : PollsOwn(wk[s], sk[s], s)
  /\ fs.pc = "hold" => sk[fs.slot].addr = fs.addr

GridTotal ==
  /\ grid \in [unit : Units \cup {"none"}, of : {"none", "total"}, new : BOOLEAN]
  /\ grid # NoGrid => grid.of = "total"

TcpInv == TcpType /\ LockHeld /\ AtOwnSocket /\ GridTotal

LEMMA TcpInvOwn == TcpInv => OwnAnswer
<1> SUFFICES ASSUME TcpInv PROVE OwnAnswer
  OBVIOUS
<1>1. grid # NoGrid => grid.of = "total"
  BY DEF TcpInv, GridTotal
<1>2. OwnSocket
  BY DEF TcpInv, AtOwnSocket, PollsOwn, OwnSocket
<1> QED
  BY <1>1, <1>2 DEF OwnAnswer

(* The first of a set of slots is one of them.                             *)
LEMMA FirstSlot ==
  ASSUME NEW S, S \subseteq Slots, S # {}
  PROVE  \E s \in S : \A t \in S : s =< t
<1>1. S \subseteq Nat
  BY TcpAssumption
<1>2. \E x \in S : \A y \in S : ~(<< y, x >> \in OpToRel(<, Nat))
  BY <1>1, NatLessThanWellFounded, WFMin
<1>3. \A x, y \in Nat : y < x => << y, x >> \in OpToRel(<, Nat)
  BY Zenon DEF OpToRel
<1>4. PICK x \in S : \A y \in S : ~(y < x)
  BY <1>1, <1>2, <1>3, Zenon
<1> QED
  BY <1>1, <1>4

LEMMA FirstIsDue ==
  ASSUME NEW l, NEW due \in SUBSET Slots, due # {}
  PROVE  First(l, due) \in due
<1>1. PICK S : S = IF {t \in due : CtrlRole(l[t])} # {} THEN {t \in due : CtrlRole(l[t])} ELSE due
  OBVIOUS
<1>2. S \subseteq due /\ S # {} /\ S \subseteq Slots
  BY <1>1
<1>3. Min(S) \in S
  BY <1>2, FirstSlot DEF Min
<1> QED
  BY <1>1, <1>2, <1>3 DEF First

(* The slot of an address, and the socket of a slot.                       *)
LEMMA SlotOfAddress ==
  ASSUME NEW a, At(list, a) # {}
  PROVE  (CHOOSE s \in At(list, a) : Owns(list, s)) \in Slots
<1>1. PICK s \in At(list, a) : \A t \in At(list, a) : s =< t
  BY FirstSlot DEF At
<1>2. Owns(list, s)
  BY <1>1 DEF Owns, At
<1> QED
  BY <1>2 DEF At

LEMMA OwnedAddress ==
  ASSUME NEW l \in DevLists, NEW s \in Slots, l[s] # NoDevice
  PROVE  l[s].addr \in Addrs
<1>1. l \in Lists
  BY DEF DevLists
<1>2. l[s] \in TcpDevices
  BY <1>1 DEF TcpDevices
<1> QED
  BY <1>2 DEF Addrs

LEMMA SocketKept ==
  ASSUME TcpType, NEW s \in Slots, NEW a \in Addrs
  PROVE  /\ Kept(s, a) \in [addr : Addrs, late : {"none", "phases"}]
         /\ Kept(s, a) # Closed => Kept(s, a).addr = a
         /\ Connected(a) \in [addr : Addrs, late : {"none", "phases"}]
         /\ Connected(a) # Closed => Connected(a).addr = a
         /\ Closed \in [addr : Addrs, late : {"none", "phases"}]
<1>1. Closed \in [addr : Addrs, late : {"none", "phases"}]
  BY DEF Closed, Addrs
<1>2. /\ Connected(a) \in [addr : Addrs, late : {"none", "phases"}]
      /\ Connected(a) # Closed => Connected(a).addr = a
  BY <1>1 DEF Connected
<1> QED
  BY <1>1, <1>2 DEF Kept, TcpType

LEMMA TcpInitInv == TcpInit => TcpInv
<1> SUFFICES ASSUME TcpInit PROVE TcpInv
  OBVIOUS
<1>1. Closed \in [addr : Addrs, late : {"none", "phases"}]
  BY DEF Closed, Addrs
<1>2. NoLoan \in [pc : {"idle", "wait", "hold"}, slot : Slots \cup {0}, addr : Addrs] /\ NoLoan.pc = "idle"
  BY DEF NoLoan, Addrs
<1>3. list \in DevLists
  BY DEF TcpInit, DevLists
<1>4. [pc |-> "nap", devs |-> list, due |-> {}]
        \in [pc : {"nap", "wait", "poll"}, devs : DevLists, due : SUBSET Slots]
  BY <1>3
<1>5. TcpType
  BY <1>1, <1>2, <1>3, <1>4 DEF TcpInit, TcpType
<1>6. \A s \in Slots : wk[s].pc = "nap"
  BY DEF TcpInit
<1> QED
  BY <1>2, <1>5, <1>6 DEF TcpInit, TcpInv, LockHeld, AtOwnSocket, PollsOwn, GridTotal, NoGrid

(* A step of the worker of slot s: what it makes of its own record, socket *)
(* and lock; a lock the borrower holds is left alone.                      *)
LEMMA WorkerOf ==
  ASSUME TcpInv, NEW s \in Slots, NEW w, NEW k, NEW h,
         wk' = [wk EXCEPT ![s] = w], sk' = [sk EXCEPT ![s] = k], io' = [io EXCEPT ![s] = h],
         w \in [pc : {"nap", "wait", "poll"}, devs : DevLists, due : SUBSET Slots],
         k \in [addr : Addrs, late : {"none", "phases"}], h \in {"free", "worker", "fs"},
         w.pc = "poll" => h = "worker", PollsOwn(w, k, s),
         io[s] = "fs" => h = "fs" /\ k = sk[s],
         UNCHANGED << devVars, fs >>, GridTotal'
  PROVE  TcpInv'
<1>1. /\ wk'[s] = w /\ sk'[s] = k /\ io'[s] = h
      /\ \A t \in Slots \ {s} : wk'[t] = wk[t] /\ sk'[t] = sk[t] /\ io'[t] = io[t]
  BY DEF TcpInv, TcpType
<1>2. TcpType'
  BY DEF TcpInv, TcpType, devVars
<1>3. LockHeld'
  <2>1. \A t \in Slots : wk'[t].pc = "poll" => io'[t] = "worker"
    BY <1>1 DEF TcpInv, LockHeld
  <2>2. fs.pc = "hold" => io'[fs.slot] = "fs"
    BY <1>1 DEF TcpInv, TcpType, LockHeld
  <2> QED
    BY <2>1, <2>2 DEF LockHeld
<1>4. AtOwnSocket'
  <2>1. \A t \in Slots : PollsOwn(wk'[t], sk'[t], t)
    BY <1>1 DEF TcpInv, AtOwnSocket
  <2>2. fs.pc = "hold" => sk'[fs.slot].addr = fs.addr
    BY <1>1 DEF TcpInv, TcpType, LockHeld, AtOwnSocket
  <2> QED
    BY <2>1, <2>2 DEF AtOwnSocket
<1> QED
  BY <1>2, <1>3, <1>4 DEF TcpInv

LEMMA WorkerWaits ==
  ASSUME TcpInv, NEW s \in Slots, Look(s) \/ Idle(s) \/ NotDue(s)
  PROVE  TcpInv'
<1>1. PICK W : W = [pc : {"nap", "wait", "poll"}, devs : DevLists, due : SUBSET Slots]
  OBVIOUS
<1>2. wk[s] \in W /\ list \in DevLists /\ io[s] \in {"free", "worker", "fs"}
      /\ sk[s] \in [addr : Addrs, late : {"none", "phases"}]
  BY <1>1 DEF TcpInv, TcpType
<1>3. PICK w : w = IF Look(s) THEN [pc |-> "wait", devs |-> list, due |-> {}] ELSE [wk[s] EXCEPT !.pc = "nap"]
  OBVIOUS
<1>4. w \in W /\ w.pc # "poll" /\ wk' = [wk EXCEPT ![s] = w]
  <2>1. CASE Look(s)
    BY <1>1, <1>2, <1>3, <2>1 DEF Look
  <2>2. CASE ~Look(s)
    BY <1>1, <1>2, <1>3, <2>2 DEF Idle, NotDue
  <2> QED
    BY <2>1, <2>2
<1>5. PICK k \in {sk[s], Closed} : sk' = [sk EXCEPT ![s] = k] /\ (io[s] = "fs" => k = sk[s])
  <2>1. CASE Look(s)
    BY <2>1 DEF Look, TcpInv, TcpType
  <2>2. CASE Idle(s) \/ NotDue(s)
    BY <2>2 DEF Idle, NotDue
  <2> QED
    BY <2>1, <2>2
<1>6. io' = [io EXCEPT ![s] = io[s]] /\ UNCHANGED << devVars, fs, grid >>
  BY DEF Look, Idle, NotDue, TcpInv, TcpType
<1>7. k \in [addr : Addrs, late : {"none", "phases"}]
  BY <1>2 DEF Closed, Addrs
<1>8. PollsOwn(w, k, s)
  BY <1>4 DEF PollsOwn
<1>9. GridTotal'
  BY <1>6 DEF TcpInv, GridTotal
<1> QED
  BY <1>1, <1>2, <1>4, <1>5, <1>6, <1>7, <1>8, <1>9, WorkerOf

LEMMA BeginStep ==
  ASSUME TcpInv, NEW s \in Slots, Begin(s)
  PROVE  TcpInv'
<1>1. wk[s] \in [pc : {"nap", "wait", "poll"}, devs : DevLists, due : SUBSET Slots]
  BY DEF TcpInv, TcpType
<1>2. PICK l \in DevLists : l = wk[s].devs /\ l[s] # NoDevice
  BY <1>1 DEF Begin, Owns
<1>3. PICK w : w = [wk[s] EXCEPT !.pc = "poll", !.due = Due(l, s)]
  OBVIOUS
<1>4. PICK k : k = Kept(s, l[s].addr)
  OBVIOUS
<1>5. wk' = [wk EXCEPT ![s] = w] /\ sk' = [sk EXCEPT ![s] = k] /\ io' = [io EXCEPT ![s] = "worker"]
      /\ UNCHANGED << devVars, fs, grid >> /\ io[s] = "free"
  BY <1>2, <1>3, <1>4 DEF Begin
<1>6. w = [pc |-> "poll", devs |-> l, due |-> Due(l, s)]
  BY <1>1, <1>2, <1>3
<1>7. Due(l, s) \in SUBSET Slots /\ \A t \in Due(l, s) : l[t].addr = l[s].addr
  BY DEF Due, At
<1>8. w \in [pc : {"nap", "wait", "poll"}, devs : DevLists, due : SUBSET Slots]
  BY <1>6, <1>7
<1>9. k \in [addr : Addrs, late : {"none", "phases"}] /\ (k # Closed => k.addr = l[s].addr)
  BY <1>2, <1>4, OwnedAddress, SocketKept DEF TcpInv
<1>10. PollsOwn(w, k, s)
  BY <1>6, <1>7, <1>9 DEF PollsOwn
<1>11. GridTotal'
  BY <1>5 DEF TcpInv, GridTotal
<1> QED
  BY <1>5, <1>8, <1>9, <1>10, <1>11, WorkerOf

(* poll_device(): the device that is next shares the address of the slot.  *)
LEMMA PollDeviceSteps ==
  ASSUME TcpInv, NEW s \in Slots, PollAnswered(s) \/ PollFailed(s) \/ PollSkipped(s)
  PROVE  TcpInv'
<1>1. wk[s] \in [pc : {"nap", "wait", "poll"}, devs : DevLists, due : SUBSET Slots]
      /\ sk[s] \in [addr : Addrs, late : {"none", "phases"}]
  BY DEF TcpInv, TcpType
<1>2. PICK l \in DevLists, due \in SUBSET Slots : l = wk[s].devs /\ due = wk[s].due
  BY <1>1
<1>3. wk[s].pc = "poll" /\ due # {}
  BY <1>2 DEF PollAnswered, PollFailed, PollSkipped
<1>4. PICK d : d = l[First(l, due)]
  OBVIOUS
<1>5. d.addr = l[s].addr
  BY <1>2, <1>3, <1>4, FirstIsDue DEF TcpInv, AtOwnSocket, PollsOwn
<1>6. PICK w : w = [wk[s] EXCEPT !.due = Remaining(l, due)]
  OBVIOUS
<1>7. w = [pc |-> "poll", devs |-> l, due |-> Remaining(l, due)] /\ Remaining(l, due) \subseteq due
  BY <1>1, <1>2, <1>3, <1>6 DEF Remaining
<1>8. wk' = [wk EXCEPT ![s] = w]
  BY <1>2, <1>6 DEF PollAnswered, PollFailed, PollSkipped, RestAfterFailure
<1>9. PICK k : /\ sk' = [sk EXCEPT ![s] = k] /\ k \in [addr : Addrs, late : {"none", "phases"}]
               /\ k # Closed => k.addr = l[s].addr
  <2>1. CASE PollAnswered(s)
    <3>1. PICK f \in {"none", "phases"} : sk' = [sk EXCEPT ![s].late = f]
      BY <2>1 DEF PollAnswered
    <3>2. sk[s].addr = l[s].addr
      BY <1>2, <1>3, <2>1 DEF PollAnswered, TcpInv, AtOwnSocket, PollsOwn
    <3>3. [sk[s] EXCEPT !.late = f] = [addr |-> sk[s].addr, late |-> f]
      BY <1>1
    <3> QED
      BY <1>1, <3>1, <3>2, <3>3
  <2>2. CASE PollFailed(s)
    <3>1. sk' = [sk EXCEPT ![s] = Connected(d.addr)] \/ sk' = [sk EXCEPT ![s] = Closed]
      BY <1>2, <1>4, <2>2 DEF PollFailed
    <3>2. sk[s].addr = l[s].addr
      BY <1>2, <1>3, <2>2 DEF PollFailed, TcpInv, AtOwnSocket, PollsOwn
    <3> QED
      BY <1>1, <1>5, <3>1, <3>2, SocketKept DEF TcpInv
  <2>3. CASE PollSkipped(s)
    BY <1>1, <2>3 DEF PollSkipped, TcpInv, TcpType
  <2> QED
    BY <2>1, <2>2, <2>3
<1>10. io' = [io EXCEPT ![s] = "worker"] /\ UNCHANGED << devVars, fs >> /\ io[s] = "worker"
  <2>1. io[s] = "worker"
    BY <1>3 DEF TcpInv, LockHeld
  <2> QED
    BY <2>1 DEF PollAnswered, PollFailed, PollSkipped, TcpInv, TcpType
<1>11. w \in [pc : {"nap", "wait", "poll"}, devs : DevLists, due : SUBSET Slots]
  BY <1>7
<1>12. PollsOwn(w, k, s)
  <2>1. \A t \in due : l[t].addr = l[s].addr
    BY <1>2, <1>3 DEF TcpInv, AtOwnSocket, PollsOwn
  <2> QED
    BY <1>7, <1>9, <2>1 DEF PollsOwn
<1>13. GridTotal'
  <2>1. grid' = grid \/ (d.kind = "grid" /\ grid' = [unit |-> d.unit, of |-> "total", new |-> TRUE])
    BY <1>2, <1>4 DEF PollAnswered, PollFailed, PollSkipped, CommittedGrid, OwnFrame
  <2>2. d.kind = "grid" => d.unit \in Units
    <3>1. First(l, due) \in Slots /\ (d.kind = "grid" => d # NoDevice)
      BY <1>3, FirstIsDue DEF NoDevice
    <3>2. d.kind = "grid" => l \in Lists
      BY <1>4, <3>1 DEF DevLists
    <3> QED
      BY <1>4, <3>1, <3>2 DEF Units, TcpDevices
  <2>3. CASE grid' = grid
    BY <2>3 DEF TcpInv, GridTotal
  <2>4. CASE d.kind = "grid" /\ grid' = [unit |-> d.unit, of |-> "total", new |-> TRUE]
    <3>1. [unit |-> d.unit, of |-> "total", new |-> TRUE]
            \in [unit : Units \cup {"none"}, of : {"none", "total"}, new : BOOLEAN]
      BY <2>2, <2>4
    <3>2. grid'.of = "total"
      BY <2>4
    <3> QED
      BY <2>4, <3>1, <3>2 DEF GridTotal
  <2> QED
    BY <2>1, <2>3, <2>4
<1> QED
  BY <1>8, <1>9, <1>10, <1>11, <1>12, <1>13, WorkerOf

LEMMA EndRoundStep ==
  ASSUME TcpInv, NEW s \in Slots, EndRound(s)
  PROVE  TcpInv'
<1>1. wk[s] \in [pc : {"nap", "wait", "poll"}, devs : DevLists, due : SUBSET Slots]
      /\ sk[s] \in [addr : Addrs, late : {"none", "phases"}]
  BY DEF TcpInv, TcpType
<1>2. PICK w : w = [wk[s] EXCEPT !.pc = "nap"]
  OBVIOUS
<1>3. w \in [pc : {"nap", "wait", "poll"}, devs : DevLists, due : SUBSET Slots] /\ w.pc = "nap"
  BY <1>1, <1>2
<1>4. wk' = [wk EXCEPT ![s] = w] /\ io' = [io EXCEPT ![s] = "free"] /\ UNCHANGED << devVars, fs, grid >>
  BY <1>2 DEF EndRound
<1>5. sk' = [sk EXCEPT ![s] = sk[s]]
  BY DEF EndRound, TcpInv, TcpType
<1>6. io[s] = "worker" /\ PollsOwn(w, sk[s], s)
  BY <1>3 DEF EndRound, TcpInv, LockHeld, PollsOwn
<1>7. GridTotal'
  BY <1>4 DEF TcpInv, GridTotal
<1> QED
  BY <1>1, <1>3, <1>4, <1>5, <1>6, <1>7, WorkerOf

(* modbus_tcp_borrow() and modbus_tcp_give_back()                          *)
LEMMA BorrowerSteps ==
  ASSUME TcpInv, Borrower \/ \E a \in Storages : TcpAsk(a)
  PROVE  TcpInv'
<1>1. wk' = wk /\ UNCHANGED devVars /\ grid' = grid
  BY DEF Borrower, Borrow, GiveUp, GiveBack, TcpAsk
<1>2. GridTotal'
  BY <1>1 DEF TcpInv, GridTotal
<1>3. PICK F : F = [pc : {"idle", "wait", "hold"}, slot : Slots \cup {0}, addr : Addrs]
  OBVIOUS
<1>4. NoLoan \in F /\ NoLoan.pc = "idle" /\ fs \in F
  BY <1>3 DEF NoLoan, Addrs, TcpInv, TcpType
<1>5. CASE GiveUp \/ \E a \in Storages : TcpAsk(a)
  <2>1. sk' = sk /\ io' = io
    BY <1>5 DEF GiveUp, TcpAsk
  <2>2. fs' \in F /\ fs'.pc # "hold" /\ (fs'.pc # "idle" => fs'.slot \in Slots)
    <3>1. CASE GiveUp
      BY <1>4, <3>1 DEF GiveUp
    <3>2. ASSUME NEW a \in Storages, TcpAsk(a)
          PROVE  fs' \in F /\ fs'.pc = "wait" /\ fs'.slot \in Slots
      <4>1. (CHOOSE s \in At(list, a) : Owns(list, s)) \in Slots
        BY <3>2, SlotOfAddress DEF TcpAsk
      <4> QED
        BY <1>3, <3>2, <4>1 DEF TcpAsk, Addrs
    <3> QED
      BY <1>5, <3>1, <3>2
  <2> QED
    BY <1>1, <1>2, <1>3, <2>1, <2>2 DEF TcpInv, TcpType, LockHeld, AtOwnSocket, devVars
<1>6. ASSUME NEW k, NEW h, fs.slot \in Slots, io[fs.slot] # "worker",
             sk' = [sk EXCEPT ![fs.slot] = k], io' = [io EXCEPT ![fs.slot] = h],
             k \in [addr : Addrs, late : {"none", "phases"}], h \in {"free", "fs"},
             fs' \in F, fs'.pc # "idle" => fs' = [fs EXCEPT !.pc = "hold"] /\ h = "fs" /\ k.addr = fs.addr
      PROVE  TcpInv'
  <2>1. /\ sk'[fs.slot] = k /\ io'[fs.slot] = h
        /\ \A t \in Slots \ {fs.slot} : sk'[t] = sk[t] /\ io'[t] = io[t]
    BY <1>6 DEF TcpInv, TcpType
  <2>2. fs'.pc # "idle" => fs'.slot = fs.slot /\ fs'.addr = fs.addr
    BY <1>4, <1>6, <1>3
  <2>3. TcpType'
    BY <1>1, <1>3, <1>6, <2>2 DEF TcpInv, TcpType, devVars
  <2>4. wk[fs.slot].pc # "poll"
    BY <1>6 DEF TcpInv, LockHeld
  <2>5. LockHeld'
    BY <1>1, <1>6, <2>1, <2>2, <2>4 DEF TcpInv, LockHeld
  <2>6. AtOwnSocket'
    <3>1. \A t \in Slots : PollsOwn(wk[t], sk'[t], t)
      BY <2>1, <2>4 DEF TcpInv, AtOwnSocket, PollsOwn
    <3> QED
      BY <1>1, <1>6, <2>1, <2>2, <3>1 DEF AtOwnSocket
  <2> QED
    BY <1>2, <2>3, <2>5, <2>6 DEF TcpInv
<1>7. CASE Borrow
  <2>1. PICK k : k = Kept(fs.slot, fs.addr)
    OBVIOUS
  <2>2. fs.pc = "wait" /\ fs.slot \in Slots /\ io[fs.slot] = "free" /\ fs.addr \in Addrs
    BY <1>3, <1>4, <1>7 DEF Borrow, TcpInv, TcpType
  <2>3. k \in [addr : Addrs, late : {"none", "phases"}] /\ (k # Closed => k.addr = fs.addr)
    BY <2>1, <2>2, SocketKept DEF TcpInv
  <2>4. sk' = [sk EXCEPT ![fs.slot] = k]
    BY <1>7, <2>1 DEF Borrow
  <2>5. CASE k = Closed
    <3>1. io' = [io EXCEPT ![fs.slot] = "free"] /\ fs' = NoLoan
      BY <1>7, <2>1, <2>5 DEF Borrow
    <3> QED
      BY <1>4, <1>6, <2>2, <2>3, <2>4, <3>1
  <2>6. CASE k # Closed
    <3>1. io' = [io EXCEPT ![fs.slot] = "fs"] /\ fs' = [fs EXCEPT !.pc = "hold"]
      BY <1>7, <2>1, <2>6 DEF Borrow
    <3>2. fs' \in F
      BY <1>3, <1>4, <3>1
    <3> QED
      BY <1>6, <2>2, <2>3, <2>4, <2>6, <3>1, <3>2
  <2> QED
    BY <2>5, <2>6
<1>8. ASSUME NEW b \in BOOLEAN, GiveBack(b)
      PROVE  TcpInv'
  <2>1. fs.pc = "hold" /\ fs.slot \in Slots /\ io[fs.slot] = "fs"
    BY <1>8 DEF GiveBack, TcpInv, TcpType, LockHeld
  <2>2. sk[fs.slot] \in [addr : Addrs, late : {"none", "phases"}]
    BY <2>1 DEF TcpInv, TcpType
  <2>3. PICK k : sk' = [sk EXCEPT ![fs.slot] = k] /\ k \in [addr : Addrs, late : {"none", "phases"}]
    <3>1. CASE b
      <4>1. sk' = [sk EXCEPT ![fs.slot] = Closed]
        BY <1>8, <3>1 DEF GiveBack, ReturnedSocket
      <4>2. Closed \in [addr : Addrs, late : {"none", "phases"}]
        BY DEF Closed, Addrs
      <4> QED
        BY <4>1, <4>2
    <3>2. CASE ~b
      <4>1. sk' = [sk EXCEPT ![fs.slot].late = "none"]
        BY <1>8, <3>2 DEF GiveBack, ReturnedSocket
      <4>2. [sk[fs.slot] EXCEPT !.late = "none"] \in [addr : Addrs, late : {"none", "phases"}]
        BY <2>2
      <4> QED
        BY <4>1, <4>2
    <3> QED
      BY <3>1, <3>2
  <2>4. io' = [io EXCEPT ![fs.slot] = "free"] /\ fs' = NoLoan
    BY <1>8 DEF GiveBack
  <2> QED
    BY <1>4, <1>6, <2>1, <2>3, <2>4
<1> QED
  BY <1>5, <1>7, <1>8 DEF Borrower

LEMMA TcpStepInv == TcpInv /\ [TcpNext]_tcpVars => TcpInv'
<1> SUFFICES ASSUME TcpInv, [TcpNext]_tcpVars PROVE TcpInv'
  OBVIOUS
<1>1. CASE ApplyList \/ (\E l \in Lists : SaveList(l)) \/ (\E u \in Units : Change(u)) \/ TcpClock
           \/ UNCHANGED tcpVars
  <2>1. wk' = wk /\ sk' = sk /\ io' = io /\ fs' = fs /\ list' \in {list, stored} /\ stored' \in Lists
    BY <1>1 DEF ApplyList, SaveList, Change, TcpClock, devVars, tcpVars, TcpInv, TcpType
  <2>2. TcpType'
    BY <2>1 DEF TcpInv, TcpType, DevLists
  <2>3. LockHeld' /\ AtOwnSocket'
    BY <2>1 DEF TcpInv, LockHeld, AtOwnSocket
  <2>4. grid' = grid \/ grid' = NoGrid \/ TcpClock
    BY <1>1 DEF ApplyList, SaveList, Change, tcpVars
  <2>5. ASSUME TcpClock
        PROVE  GridTotal'
    <3>1. grid' = [grid EXCEPT !.new = FALSE] /\ grid.of = "total"
      BY <2>5 DEF TcpClock, NoGrid, TcpInv, GridTotal
    <3>2. grid' \in [unit : Units \cup {"none"}, of : {"none", "total"}, new : BOOLEAN] /\ grid'.of = "total"
      BY <3>1 DEF TcpInv, GridTotal
    <3> QED
      BY <3>2 DEF GridTotal
  <2>6. GridTotal'
    <3>1. NoGrid \in [unit : Units \cup {"none"}, of : {"none", "total"}, new : BOOLEAN]
      BY DEF NoGrid
    <3>2. grid' = grid \/ grid' = NoGrid => GridTotal'
      BY <3>1 DEF TcpInv, GridTotal
    <3> QED
      BY <2>4, <2>5, <3>2
  <2> QED
    BY <2>2, <2>3, <2>6 DEF TcpInv
<1>2. ASSUME NEW s \in Slots, Worker(s)
      PROVE  TcpInv'
  BY <1>2, WorkerWaits, BeginStep, PollDeviceSteps, EndRoundStep DEF Worker
<1> QED
  BY <1>1, <1>2, BorrowerSteps DEF TcpNext

(* modbus_tcp.c:942: whatever lists are saved, units fall silent and late  *)
(* answers arrive, a worker and the borrower are never at one socket       *)
(* together, each asks the address it means to ask, and the value that     *)
(* steers the inverter answers a read of the meter's total power.          *)
THEOREM OwnAnswerSound == TcpSpec => []OwnAnswer
BY TcpInvOwn, TcpInitInv, TcpStepInv, PTL DEF TcpSpec

-----------------------------------------------------------------------------
(* SlsGuard. The hysteresis must cover one step and the inverter must       *)
(* follow within the hold for a restore to be safe.                        *)

(* Rounding to a step moves toward zero and never past it. *)
LEMMA RoundBounds ==
  ASSUME NEW t \in Int
  PROVE  /\ RoundToZero(t) \in Int
         /\ t >= 0 => RoundToZero(t) \in 0..t
         /\ t < 0 => RoundToZero(t) \in t..0
<1>1. \A n \in Nat : n % Step \in Nat /\ n % Step <= n
  BY GuardAssumption
<1>2. CASE t >= 0
  BY <1>1, <1>2 DEF RoundToZero
<1>3. CASE t < 0
  <2>1. -t \in Nat /\ (-t) % Step \in Nat /\ (-t) % Step <= -t
    BY <1>1, <1>3
  <2> QED
    BY <1>3, <2>1 DEF RoundToZero
<1> QED
  BY <1>2, <1>3

LEMMA BoundedBounds ==
  ASSUME NEW t \in Int, NEW u \in Nat
  PROVE  /\ Bounded(t, u) \in Nat /\ Bounded(t, u) <= u
         /\ Bounded(t, u) >= PowerMin \/ Bounded(t, u) = u
         /\ Bounded(t, u) <= t \/ Bounded(t, u) <= PowerMin
BY GuardAssumption DEF Bounded

(* What a write of the guard sets: at most what the user asked for, and    *)
(* not more than before while the export is over the limit.                *)
LEMMA TargetBounds ==
  ASSUME NEW e \in Int, NEW a \in Nat, NEW u \in Nat
  PROVE  /\ Target(e, a, u) \in Nat /\ Target(e, a, u) <= u
         /\ Target(e, a, u) >= PowerMin \/ Target(e, a, u) = u
         /\ Excess(e) => Target(e, a, u) <= a \/ Target(e, a, u) <= PowerMin
         /\ Target(e, a, u) <= a + Step \/ Target(e, a, u) <= PowerMin
<1> DEFINE w == Wanted(e, a, u)
<1>1. w \in Int /\ w <= a + Step /\ (Excess(e) => w <= a)
  BY GuardAssumption DEF Wanted, Excess
<1> HIDE DEF w
<1>2. RoundToZero(w) \in Int /\ RoundToZero(w) <= a + Step /\ (Excess(e) => RoundToZero(w) <= a)
  BY <1>1, RoundBounds, GuardAssumption
<1>3. Target(e, a, u) = Bounded(RoundToZero(w), u)
  BY DEF Target, w
<1>4. /\ Target(e, a, u) \in Nat /\ Target(e, a, u) <= u
      /\ Target(e, a, u) >= PowerMin \/ Target(e, a, u) = u
      /\ Target(e, a, u) <= RoundToZero(w) \/ Target(e, a, u) <= PowerMin
  BY <1>2, <1>3, BoundedBounds
<1> QED
  BY <1>2, <1>4, GuardAssumption

-----------------------------------------------------------------------------
LEMMA GuardNumbers ==
  ASSUME TypeOK
  PROVE  /\ load \in Int /\ user \in Nat /\ applied \in Nat /\ output \in Nat /\ Export \in Int
         /\ late \in Nat /\ late <= Lag /\ idle \in Nat /\ idle <= Gap /\ over \in Nat
         /\ Lag \in Nat \ {0} /\ Gap \in Nat \ {0} /\ PowerMin \in Nat \ {0} /\ MaxExport \in Nat
         /\ tick.export \in Int /\ tick.load \in Int /\ tick.power \in Nat /\ tick.target \in Nat
         /\ tick.touched \in SUBSET {"load", "mode", "user"}
         /\ tick.at \in {"idle", "power", "user", "write"}
<1>1. tick \in Ticks
  BY DEF TypeOK
<1>2. /\ tick.export \in Int /\ tick.load \in Int /\ tick.power \in Nat /\ tick.target \in Nat
      /\ tick.touched \in SUBSET {"load", "mode", "user"}
      /\ tick.at \in {"idle", "power", "user", "write"}
  BY <1>1 DEF Ticks
<1> QED
  BY <1>2, GuardAssumption DEF TypeOK, Export

LEMMA IdleTick == NoTick \in Ticks /\ NoTick.at = "idle"
BY DEF NoTick, Ticks

LEMMA InitType == Init => TypeOK
<1> SUFFICES ASSUME Init PROVE TypeOK
  OBVIOUS
<1>1. user \in UserPowers /\ user \in Nat /\ applied = user /\ output = user /\ call = NoCall
  BY GuardAssumption DEF Init
<1>2. idle \in 0..Gap /\ late \in 0..Lag /\ changes \in 0..MaxChanges /\ over \in Nat
  BY GuardAssumption DEF Init
<1>3. active \in BOOLEAN /\ load \in Loads /\ below \in {Off} \cup 0..Hold /\ tick \in Ticks
  BY IdleTick DEF Init
<1> QED
  BY <1>1, <1>2, <1>3 DEF TypeOK

LEMMA FollowType ==
  ASSUME TypeOK, Follow
  PROVE  output' \in Nat /\ late' \in 0..Lag
BY GuardAssumption DEF TypeOK, Follow

LEMMA CountedType ==
  ASSUME TypeOK, Counted
  PROVE  over' \in Nat
BY DEF TypeOK, Counted

LEMMA OlderType ==
  ASSUME NEW n \in Nat, NEW c \in Nat, n <= c
  PROVE  Older(n, c) \in 0..c /\ (n < c => Older(n, c) = n + 1) /\ (n = c => Older(n, c) = c)
BY DEF Older

LEMMA TouchType ==
  ASSUME TypeOK, NEW w \in {"load", "mode", "user"}, Touch(w)
  PROVE  /\ tick' \in Ticks /\ tick'.at = tick.at /\ (tick.at = "idle" => tick' = tick)
         /\ tick'.export = tick.export /\ tick'.load = tick.load /\ tick'.power = tick.power
         /\ tick'.target = tick.target /\ tick.touched \subseteq tick'.touched
         /\ tick.at # "idle" => w \in tick'.touched /\ tick'.touched = tick.touched \cup {w}
<1>1. tick \in Ticks
  BY DEF TypeOK
<1> QED
  BY <1>1 DEF Touch, Ticks

LEMMA StepType == TypeOK /\ [Next]_vars => TypeOK'
<1> SUFFICES ASSUME TypeOK, [Next]_vars PROVE TypeOK'
  OBVIOUS
<1> USE GuardAssumption
<1>1. CASE GuardLooks
  <2>1. tick' \in Ticks
    BY <1>1, GuardNumbers DEF GuardLooks, Ticks
  <2> QED
    BY <1>1, <2>1 DEF GuardLooks, TypeOK
<1>2. CASE GuardReads
  <2>1. tick' \in Ticks
    BY <1>2 DEF GuardReads, Ticks, TypeOK
  <2> QED
    BY <1>2, <2>1 DEF GuardReads, TypeOK
<1>3. CASE GuardWaits
  <2>1. below' \in {Off} \cup 0..Hold
    BY <1>3 DEF GuardWaits, TypeOK, Older, NextBelow, Off
  <2>2. output' \in Nat /\ late' \in 0..Lag /\ over' \in Nat
    BY <1>3, FollowType, CountedType DEF GuardWaits
  <2>3. idle' \in 0..Gap /\ tick' \in Ticks
    BY <1>3, OlderType, IdleTick DEF GuardWaits, TypeOK
  <2> QED
    BY <1>3, <2>1, <2>2, <2>3 DEF GuardWaits, TypeOK
<1>4. CASE GuardDecides
  <2>1. Target(tick.export, tick.power, user) \in Nat
    BY GuardNumbers, TargetBounds
  <2>2. tick' \in Ticks
    BY <1>4, <2>1 DEF GuardDecides, Ticks, TypeOK
  <2> QED
    BY <1>4, <2>2 DEF GuardDecides, TypeOK
<1>5. CASE GuardWrites
  <2>1. applied' \in Nat /\ applied' >= PowerMin
    BY <1>5, GuardNumbers DEF GuardWrites, Throttled
  <2>2. output' \in Nat /\ late' \in 0..Lag
    BY <1>5, GuardNumbers DEF GuardWrites
  <2>3. idle' \in 0..Gap /\ tick' \in Ticks /\ over' \in Nat
    BY <1>5, OlderType, IdleTick, CountedType DEF GuardWrites, TypeOK
  <2> QED
    BY <1>5, <2>1, <2>2, <2>3 DEF GuardWrites, TypeOK
<1>6. CASE GuardSleeps
  <2>1. output' \in Nat /\ late' \in 0..Lag
    BY <1>6, FollowType DEF GuardSleeps
  <2>2. idle' \in 0..Gap
    BY <1>6, OlderType DEF GuardSleeps, TypeOK
  <2> QED
    BY <1>6, <2>1, <2>2 DEF GuardSleeps, TypeOK
<1>7. CASE LoadChanges
  BY <1>7, TouchType DEF LoadChanges, TypeOK
<1>8. CASE MeterOrModeChanges
  BY <1>8, TouchType DEF MeterOrModeChanges, TypeOK
<1>9. CASE UserAsks
  <2>1. call' \in UserPowers /\ applied' = call' /\ call' # NoCall
    BY <1>9 DEF UserAsks, NoCall
  <2> QED
    BY <1>9, <2>1, TouchType DEF UserAsks, TypeOK
<1>10. CASE UserIsHeard
  <2>1. user' = call /\ call \in UserPowers /\ call' = NoCall
    BY <1>10 DEF UserIsHeard, TypeOK
  <2> QED
    BY <1>10, <2>1, TouchType DEF UserIsHeard, TypeOK
<1>11. CASE UNCHANGED vars
  BY <1>11 DEF vars, TypeOK
<1> QED
  BY <1>1, <1>2, <1>3, <1>4, <1>5, <1>6, <1>7, <1>8, <1>9, <1>10, <1>11 DEF Next, Guard

(* The guard sets only powers the inverter accepts, for every measurement. *)
THEOREM PowerSound == Spec => []TypeOK
BY InitType, StepType, PTL DEF Spec

-----------------------------------------------------------------------------
(* What a tick has read is still so unless a change is noted.              *)
Read ==
  tick.at # "idle" =>
    /\ tick.export = output - tick.load
    /\ "load" \notin tick.touched => tick.load = load
    /\ "user" \notin tick.touched =>
         /\ call = NoCall
         /\ tick.at # "power" => tick.power = applied
         /\ tick.at = "write" => tick.target = Target(tick.export, applied, user)

(* While headroom is being held, a pending change of the inverter ages     *)
(* with it; without a pending change the inverter delivers what is applied.*)
Lagging ==
  /\ late = 0 => output = applied
  /\ late > 0 /\ below # Off => late + below <= Lag \/ applied = IF call = NoCall THEN user ELSE call
  /\ tick.at = "write" => below = Off

(* What the guard has decided without a call since its look.               *)
Decided ==
  tick.at = "write" /\ "user" \notin tick.touched =>
    /\ tick.target # applied
    /\ \/ Excess(tick.export)
       \/ applied < user /\ applied - tick.load < MaxExport - Hyst

LagInv == Read /\ Lagging /\ Decided

LEMMA StepRead == TypeOK /\ Read /\ [Next]_vars => Read'
<1> SUFFICES ASSUME TypeOK, Read, [Next]_vars PROVE Read'
  OBVIOUS
<1>1. CASE GuardLooks
  BY <1>1, GuardNumbers DEF GuardLooks, Read, Export
<1>2. CASE GuardReads
  <2>1. /\ tick'.export = tick.export /\ tick'.load = tick.load /\ tick'.touched = tick.touched
        /\ tick'.at = "user" /\ tick'.power = applied
    BY <1>2 DEF GuardReads, TypeOK, Ticks
  <2> QED
    BY <1>2, <2>1 DEF GuardReads, Read
<1>3. CASE GuardWaits \/ GuardWrites \/ GuardSleeps
  <2>1. tick'.at = "idle"
    BY <1>3, IdleTick DEF GuardWaits, GuardWrites, GuardSleeps
  <2> QED
    BY <2>1 DEF Read
<1>4. CASE GuardDecides
  <2>1. /\ tick'.export = tick.export /\ tick'.load = tick.load /\ tick'.touched = tick.touched
        /\ tick'.at = "write" /\ tick'.power = tick.power /\ tick.at = "user"
        /\ tick'.target = Target(tick.export, tick.power, user)
    BY <1>4 DEF GuardDecides, TypeOK, Ticks
  <2>2. UNCHANGED << output, load, applied, user, call >>
    BY <1>4 DEF GuardDecides
  <2>3. "user" \notin tick.touched => tick.power = applied /\ call = NoCall
    BY <2>1 DEF Read
  <2>4. "user" \notin tick.touched => tick'.target = Target(tick.export, applied, user)
    BY <2>1, <2>3
  <2>5. Target(tick'.export, applied', user') = Target(tick.export, applied, user)
    BY <2>1, <2>2
  <2> QED
    BY <2>1, <2>2, <2>3, <2>4, <2>5 DEF Read
<1>5. CASE LoadChanges
  <2>1. Touch("load") /\ UNCHANGED << output, applied, user, call >>
    BY <1>5 DEF LoadChanges
  <2>2. tick.at # "idle" => Target(tick'.export, applied', user') = Target(tick.export, applied, user)
    BY <2>1, TouchType
  <2> QED
    BY <2>1, <2>2, TouchType DEF Read
<1>6. CASE MeterOrModeChanges
  <2>1. Touch("mode") /\ UNCHANGED << output, load, applied, user, call >>
    BY <1>6 DEF MeterOrModeChanges
  <2>2. tick.at # "idle" => Target(tick'.export, applied', user') = Target(tick.export, applied, user)
    BY <2>1, TouchType
  <2> QED
    BY <2>1, <2>2, TouchType DEF Read
<1>7. CASE UserAsks \/ UserIsHeard
  <2>1. Touch("user") /\ UNCHANGED << output, load >>
    BY <1>7 DEF UserAsks, UserIsHeard
  <2> QED
    BY <2>1, TouchType DEF Read
<1>8. CASE UNCHANGED vars
  <2>1. UNCHANGED << tick, output, load, applied, user, call >>
    BY <1>8 DEF vars
  <2>2. Target(tick'.export, applied', user') = Target(tick.export, applied, user)
    BY <2>1
  <2> QED
    BY <2>1, <2>2 DEF Read
<1> QED
  BY <1>1, <1>2, <1>3, <1>4, <1>5, <1>6, <1>7, <1>8 DEF Next, Guard

LEMMA LooksAt ==
  ASSUME TypeOK, GuardLooks \/ GuardReads
  PROVE  tick'.at \in {"power", "user"}
<1>1. tick \in Ticks
  BY DEF TypeOK
<1>2. CASE GuardLooks
  BY <1>2 DEF GuardLooks
<1>3. CASE GuardReads
  BY <1>1, <1>3 DEF GuardReads, Ticks
<1> QED
  BY <1>2, <1>3

LEMMA StepLagging == TypeOK /\ Lagging /\ [Next]_vars => Lagging'
<1> SUFFICES ASSUME TypeOK, Lagging, [Next]_vars PROVE Lagging'
  OBVIOUS
<1> USE GuardAssumption
<1>1. CASE GuardLooks \/ GuardReads
  <2>1. tick'.at # "write"
    BY <1>1, LooksAt
  <2> QED
    BY <1>1, <2>1 DEF GuardLooks, GuardReads, Lagging
<1>2. CASE GuardWaits
  <2>1. applied' = applied /\ user' = user /\ call' = call /\ Follow /\ tick'.at = "idle"
    BY <1>2, IdleTick DEF GuardWaits
  <2>2. below' # Off => below' = Older(NextBelow, Hold)
    BY <1>2 DEF GuardWaits
  <2>3. CASE output' = applied /\ late' = 0
    BY <2>1, <2>3 DEF Lagging
  <2>4. CASE late > 1 /\ late' = late - 1 /\ UNCHANGED output
    BY <2>1, <2>2, <2>4 DEF Lagging, TypeOK, Older, NextBelow, Off
  <2> QED
    BY <2>1, <2>3, <2>4 DEF Follow
<1>3. CASE GuardDecides
  BY <1>3 DEF GuardDecides, Lagging
<1>4. CASE GuardWrites
  <2>1. below' = Off /\ tick'.at = "idle"
    BY <1>4, IdleTick DEF GuardWrites, Lagging
  <2>2. late' # 0
    BY <1>4, GuardNumbers DEF GuardWrites
  <2> QED
    BY <2>1, <2>2 DEF Lagging
<1>5. CASE GuardSleeps
  BY <1>5 DEF GuardSleeps, Follow, Lagging, TypeOK
<1>6. CASE LoadChanges \/ MeterOrModeChanges
  <2>1. tick'.at = tick.at
    BY <1>6, TouchType DEF LoadChanges, MeterOrModeChanges
  <2> QED
    BY <1>6, <2>1 DEF LoadChanges, MeterOrModeChanges, Lagging
<1>7. CASE UserAsks
  <2>1. call' # NoCall /\ late' = Lag /\ applied' = call' /\ tick'.at = tick.at /\ below' = below
    BY <1>7, TouchType DEF UserAsks, NoCall
  <2> QED
    BY <2>1 DEF Lagging
<1>8. CASE UserIsHeard
  <2>1. tick'.at = tick.at
    BY <1>8, TouchType DEF UserIsHeard
  <2> QED
    BY <1>8, <2>1 DEF UserIsHeard, Lagging
<1>9. CASE UNCHANGED vars
  BY <1>9 DEF vars, Lagging
<1> QED
  BY <1>1, <1>2, <1>3, <1>4, <1>5, <1>6, <1>7, <1>8, <1>9 DEF Next, Guard

LEMMA StepDecided ==
  ASSUME Lag <= Hold, TypeOK, LagInv, [Next]_vars
  PROVE  Decided'
<1> USE GuardAssumption
<1>1. CASE GuardDecides
  <2> SUFFICES ASSUME "user" \notin tick.touched
               PROVE  /\ tick'.target # applied
                      /\ \/ Excess(tick.export)
                         \/ applied < user /\ applied - tick.load < MaxExport - Hyst
    <3>1. /\ tick'.export = tick.export /\ tick'.load = tick.load /\ tick'.touched = tick.touched
          /\ UNCHANGED << applied, user >>
      BY <1>1 DEF GuardDecides, TypeOK, Ticks
    <3> QED
      BY <3>1 DEF Decided
  <2>1. /\ tick.export = output - tick.load /\ call = NoCall /\ tick.power = applied
        /\ tick'.target = Target(tick.export, tick.power, user)
    BY <1>1 DEF GuardDecides, LagInv, Read, TypeOK, Ticks
  <2>2. tick'.target # applied /\ Acting(tick.export, applied, user)
    BY <1>1, <2>1 DEF GuardDecides, Writes
  <2>3. CASE ~Excess(tick.export)
    <3>1. Headroom(tick.export, applied, user) /\ HeldLongEnough
      BY <2>2, <2>3 DEF Acting
    <3>2. below # Off /\ below >= Hold /\ applied < user
      BY <3>1 DEF Headroom, HeldLongEnough, NextBelow, Off, TypeOK
    <3>3. output = applied
      BY <2>1, <3>2, GuardNumbers DEF LagInv, Lagging, TypeOK, Off
    <3>4. tick.export < MaxExport - Hyst
      BY <3>1 DEF Headroom
    <3> QED
      BY <2>1, <2>2, <3>2, <3>3, <3>4
  <2> QED
    BY <2>2, <2>3
<1>2. CASE ~GuardDecides /\ Guard
  <2>1. tick'.at # "write"
    <3>1. GuardLooks \/ GuardReads => tick'.at # "write"
      BY LooksAt
    <3>2. GuardWaits \/ GuardWrites \/ GuardSleeps => tick'.at = "idle"
      BY IdleTick DEF GuardWaits, GuardWrites, GuardSleeps
    <3> QED
      BY <1>2, <3>1, <3>2 DEF Guard
  <2> QED
    BY <2>1 DEF Decided
<1>3. CASE LoadChanges \/ MeterOrModeChanges
  <2>1. /\ tick'.at = tick.at /\ tick'.export = tick.export /\ tick'.load = tick.load
        /\ tick'.target = tick.target /\ tick.touched \subseteq tick'.touched
    BY <1>3, TouchType DEF LoadChanges, MeterOrModeChanges
  <2>2. applied' = applied /\ user' = user
    BY <1>3 DEF LoadChanges, MeterOrModeChanges
  <2> QED
    BY <2>1, <2>2 DEF LagInv, Decided, Excess
<1>4. CASE UserAsks \/ UserIsHeard
  <2>1. tick.at # "idle" => "user" \in tick'.touched
    BY <1>4, TouchType DEF UserAsks, UserIsHeard
  <2>2. tick'.at = tick.at
    BY <1>4, TouchType DEF UserAsks, UserIsHeard
  <2> QED
    BY <2>1, <2>2 DEF Decided
<1>5. CASE UNCHANGED vars
  BY <1>5 DEF vars, LagInv, Decided, Excess
<1> QED
  BY <1>1, <1>2, <1>3, <1>4, <1>5 DEF Next

LEMMA StepFits ==
  ASSUME NEW a \in Nat, NEW b \in Nat, NEW l \in Int,
         NEW s \in Nat, NEW h \in Nat, NEW m \in Nat,
         s <= h, b <= a + s, a - l < m - h
  PROVE  b - l <= m
OBVIOUS

(* What a write without a call since the look sets.                        *)
LEMMA WriteStep ==
  ASSUME TypeOK, LagInv, GuardWrites, "user" \notin tick.touched
  PROVE  /\ applied' > applied =>
              applied' <= user /\ applied' <= applied + Step /\ ~Excess(tick.export)
         /\ applied' = tick.target \/ (applied' = PowerMin /\ applied' <= applied)
         /\ applied >= PowerMin
<1>1. /\ call = NoCall /\ tick.target = Target(tick.export, applied, user)
      /\ applied' = Throttled(tick.target) /\ tick.target # applied
      /\ Excess(tick.export) \/ applied < user
  BY DEF GuardWrites, LagInv, Read, Decided
<1> PICK t : t = tick.target
  OBVIOUS
<1>2. /\ t \in Nat /\ t <= user /\ (t >= PowerMin \/ t = user)
      /\ Excess(tick.export) => t <= applied \/ t <= PowerMin
      /\ t <= applied + Step \/ t <= PowerMin
  <2>1. tick.export \in Int /\ applied \in Nat /\ user \in Nat /\ t = Target(tick.export, applied, user)
    BY <1>1, GuardNumbers
  <2> QED
    BY <2>1, TargetBounds
<1>3. applied >= PowerMin \/ applied = user
  BY <1>1 DEF TypeOK
<1>4. applied >= PowerMin
  <2>1. CASE applied = user /\ user < PowerMin
    <3>1. t = applied
      BY <1>2, <2>1, GuardNumbers
    <3> QED
      BY <1>1, <3>1
  <2> QED
    BY <1>3, <2>1, GuardNumbers
<1>5. applied' = IF t < PowerMin THEN PowerMin ELSE t
  BY <1>1 DEF Throttled
<1>6. Step \in Nat
  BY GuardAssumption
<1>7. applied' = t \/ (applied' = PowerMin /\ applied' <= applied)
  BY <1>2, <1>4, <1>5, GuardNumbers
<1>8. ASSUME applied' > applied
      PROVE  applied' <= user /\ applied' <= applied + Step /\ ~Excess(tick.export)
  <2>1. applied' = t
    BY <1>7, <1>8, GuardNumbers
  <2>2. ~(t <= applied) /\ ~(t <= PowerMin)
    BY <1>4, <1>8, <2>1, <1>2, GuardNumbers
  <2> QED
    BY <1>2, <2>1, <2>2
<1> QED
  BY <1>4, <1>7, <1>8

(* No step of the guard raises the power into an excess or above what the  *)
(* user asked for: not while the export is over the limit, and not by      *)
(* giving power back, as long as no call came between its look and its     *)
(* write.                                                                  *)
THEOREM RestoreSound ==
  ASSUME Step <= Hyst, Lag <= Hold
  PROVE  Spec => RestoreSafe
<1>1. Init => LagInv
  BY GuardAssumption, IdleTick DEF Init, LagInv, Read, Lagging, Decided
<1>2. TypeOK /\ LagInv /\ [Next]_vars => LagInv'
  BY StepRead, StepLagging, StepDecided DEF LagInv
<1>3. TypeOK /\ LagInv /\ [Next]_vars
        => [tick.at = "write" /\ tick' = NoTick /\ applied' > applied =>
              \/ "user" \in tick.touched
              \/ applied' <= user /\ applied' - tick.load <= MaxExport]_vars
  <2> SUFFICES ASSUME TypeOK, LagInv, [Next]_vars, tick.at = "write", tick' = NoTick,
                      "user" \notin tick.touched, applied' > applied
               PROVE  applied' <= user /\ applied' - tick.load <= MaxExport
    OBVIOUS
  <2>1. tick'.at # tick.at
    BY IdleTick
  <2>2. GuardWrites
    BY <2>1, TouchType DEF Next, Guard, GuardLooks, GuardReads, GuardWaits, GuardDecides, GuardSleeps,
       LoadChanges, MeterOrModeChanges, UserAsks, UserIsHeard, vars
  <2>3. applied' <= user /\ applied' <= applied + Step /\ ~Excess(tick.export)
    BY <2>2, WriteStep
  <2>4. applied - tick.load < MaxExport - Hyst
    BY <2>3 DEF LagInv, Decided
  <2>5. Step \in Nat /\ Hyst \in Nat /\ applied' \in Nat
    BY StepType, GuardAssumption DEF TypeOK
  <2>6. applied' - tick.load <= MaxExport
    BY <2>3, <2>4, <2>5, GuardNumbers, StepFits
  <2> QED
    BY <2>3, <2>6
<1> QED
  BY <1>1, <1>2, <1>3, InitType, StepType, PTL DEF Spec, RestoreSafe

-----------------------------------------------------------------------------
(* How an excess ends. While the inverter still has a raise before it, the *)
(* excess is as old as its lag allows; then one write, which the rate      *)
(* limit lets through in time, takes off enough, and the inverter follows. *)
(* A tick that a change has overtaken counts for nothing.                  *)
Enough == applied - load <= MaxExport
Waited == IF tick.at = "write" THEN Gap ELSE idle
ShortInv ==
  /\ tick.at # "write" => idle >= 1
  /\ over <= Gap + 2 * Lag
  /\ late = 0 => output = applied
  /\ tick.at = "write" /\ tick.touched = {} => tick.target = Target(Export, applied, user)
  /\ Excess(Export) /\ applied > PowerMin =>
       /\ output < applied => over + late <= Lag
       /\ output >= applied /\ ~Enough => over < Lag + Waited
       /\ Enough => over + late <= Gap + 2 * Lag

(* In a tick that no change has overtaken what was read is still so.       *)
LEMMA Untouched ==
  ASSUME TypeOK, Read, tick.at # "idle", tick.touched = {}
  PROVE  /\ tick.export = Export /\ tick.load = load
         /\ tick.at # "power" => tick.power = applied
<1>1. "load" \notin tick.touched /\ "user" \notin tick.touched
  OBVIOUS
<1> QED
  BY <1>1 DEF Read, Export

(* A write in an excess lowers the power, as far as it takes.              *)
LEMMA CutIsEnough ==
  ASSUME TypeOK, Excess(Export), applied > PowerMin
  PROVE  /\ Target(Export, applied, user) < applied
         /\ output >= applied => \/ Target(Export, applied, user) - load <= MaxExport
                                 \/ Target(Export, applied, user) <= PowerMin
<1> DEFINE w == applied - (Export - MaxExport)
<1>1. w \in Int /\ w < applied /\ (output >= applied => w - load <= MaxExport)
  BY GuardNumbers DEF Excess, Export
<1>2. Wanted(Export, applied, user) = w
  BY DEF Wanted
<1> HIDE DEF w
<1>3. Target(Export, applied, user) = Bounded(RoundToZero(w), user)
  BY <1>2 DEF Target
<1>4. RoundToZero(w) \in Int /\ (w >= 0 => RoundToZero(w) <= w) /\ (w < 0 => RoundToZero(w) <= 0)
  BY <1>1, RoundBounds
<1> PICK r : r = RoundToZero(w)
  OBVIOUS
<1> PICK t : t = Bounded(r, user)
  OBVIOUS
<1>5. t \in Nat /\ (t <= r \/ t <= PowerMin)
  BY <1>4, GuardNumbers, BoundedBounds
<1>6. t = Target(Export, applied, user) /\ r \in Int /\ (w >= 0 => r <= w) /\ (w < 0 => r <= 0)
  BY <1>3, <1>4
<1>7. t < applied /\ (output >= applied => t - load <= MaxExport \/ t <= PowerMin)
  BY <1>1, <1>5, <1>6, GuardNumbers
<1> QED
  BY <1>6, <1>7

LEMMA NothingYet ==
  ASSUME NEW l \in Nat, NEW i \in Nat, NEW a \in Nat \ {0}, NEW g \in Nat, l <= a
  PROVE  0 <= g + 2 * a /\ 0 + l <= a /\ 0 < a + i /\ 0 + l <= g + 2 * a
OBVIOUS

(* Where the count is at its start, everything is still ahead.             *)
LEMMA FreshShort ==
  ASSUME TypeOK', over' = 0, late' = 0 => output' = applied', tick'.at # "write" => idle' >= 1,
         ~(tick'.at = "write" /\ tick'.touched = {})
  PROVE  ShortInv'
<1>1. late' \in Nat /\ late' <= Lag /\ idle' \in Nat /\ Lag \in Nat \ {0} /\ Gap \in Nat \ {0}
  BY GuardAssumption DEF TypeOK
<1>2. Waited' \in Nat
  BY <1>1 DEF Waited
<1>3. 0 <= Gap + 2 * Lag /\ 0 + late' <= Lag /\ 0 < Lag + Waited' /\ 0 + late' <= Gap + 2 * Lag
  BY <1>1, <1>2, NothingYet
<1> QED
  BY <1>3 DEF ShortInv

LEMMA WritesShort ==
  ASSUME TypeOK, Read, ShortInv, GuardWrites, TypeOK'
  PROVE  ShortInv'
<1>1. /\ tick.at = "write" /\ load' = load /\ applied' = Throttled(tick.target)
      /\ \/ output' = applied /\ late' = Lag
         \/ late # 1 /\ output' = output /\ late' = IF late = 0 THEN Lag ELSE late - 1
      /\ over' = IF tick.touched = {} /\ Excess(tick.export) /\ tick.power > PowerMin
                 THEN over + 1 ELSE 0
  BY DEF GuardWrites, Counted
<1>a. idle' >= 1 /\ idle' \in Nat /\ tick'.at = "idle" /\ Waited' = idle'
  BY IdleTick, OlderType, GuardNumbers DEF GuardWrites, Older, Waited
<1>2. late' # 0
  BY <1>1, GuardNumbers
<1>b. tick.touched = {} => tick.export = Export /\ tick.power = applied
  BY <1>1, Untouched
<1>3. CASE ~(tick.touched = {} /\ Excess(Export) /\ applied > PowerMin)
  <2>1. over' = 0
    BY <1>1, <1>3, <1>b
  <2> QED
    BY <1>a, <1>2, <2>1, FreshShort
<1>4. CASE tick.touched = {} /\ Excess(Export) /\ applied > PowerMin
  <2> PICK t : t = applied'
    OBVIOUS
  <2>0. tick.target = Target(Export, applied, user)
    BY <1>1, <1>4 DEF ShortInv
  <2>b. PICK c : c = tick.target
    OBVIOUS
  <2>c. /\ c < applied /\ c \in Nat
        /\ output >= applied => c - load <= MaxExport \/ c <= PowerMin
    BY <1>4, <2>0, <2>b, CutIsEnough, GuardNumbers
  <2>d. t = c \/ t = PowerMin
    BY <1>1, <2>b DEF Throttled
  <2>e. over' = over + 1
    BY <1>1, <1>4, <1>b
  <2>1. /\ t < applied /\ t \in Nat /\ over' = over + 1
        /\ output >= applied => t - load <= MaxExport \/ t <= PowerMin
    <3>1. t < applied /\ t \in Nat
      BY <1>4, <2>c, <2>d, GuardNumbers
    <3> QED
      BY <2>c, <2>d, <2>e, <3>1, GuardNumbers
  <2>2. /\ late = 0 => output = applied
        /\ output < applied => over + late <= Lag
        /\ output >= applied /\ ~Enough => over < Lag + Gap
        /\ Enough => over + late <= Gap + 2 * Lag
    BY <1>1, <1>4 DEF ShortInv, Waited
  <2>3. output - load > MaxExport
    BY <1>4 DEF Excess, Export
  <2>a. over <= Gap + 2 * Lag
    BY DEF ShortInv
  <2>4. CASE output < applied
    \* the raise before it has not come yet
    <3>1. late >= 1 /\ over + late <= Lag
      BY <2>2, <2>4, GuardNumbers
    <3>2. over' + late' <= Gap + 2 * Lag /\ over' <= Lag
      BY <1>1, <2>1, <3>1, GuardNumbers
    <3>3. output' < t => late' = late - 1
      BY <1>1, <2>1, <2>4, <3>1, GuardNumbers
    <3>4. output' < t => over' + late' <= Lag
      BY <2>1, <3>1, <3>3, GuardNumbers
    <3>5. over' < Lag + idle' /\ over' <= Gap + 2 * Lag
      BY <1>a, <2>1, <3>2, GuardNumbers
    <3> QED
      BY <1>1, <1>2, <1>a, <3>2, <3>4, <3>5 DEF ShortInv
  <2>5. CASE output >= applied /\ ~Enough
    <3>1. over + 1 <= Lag + Gap
      BY <2>2, <2>5, GuardNumbers
    <3>2. t - load <= MaxExport \/ t <= PowerMin
      BY <2>1, <2>5
    <3>3. output' >= t
      BY <1>1, <2>1, <2>5, GuardNumbers
    <3>4. late' <= Lag /\ late' \in Nat
      BY GuardAssumption DEF TypeOK
    <3>5. over' + late' <= Gap + 2 * Lag /\ over' <= Gap + 2 * Lag
      BY <2>1, <3>1, <3>4, GuardNumbers
    <3>6. t > PowerMin => Enough'
      <4>1. t > PowerMin => t - load <= MaxExport
        BY <2>1, <3>2, GuardNumbers
      <4> QED
        BY <1>1, <4>1 DEF Enough
    <3>7. ~(output' < t)
      BY <1>1, <2>1, <2>5, <3>3, GuardNumbers
    <3> QED
      BY <1>1, <1>2, <1>a, <3>5, <3>6, <3>7 DEF ShortInv
  <2>6. CASE Enough
    <3>1. output > applied /\ late >= 1
      BY <2>2, <2>3, <2>6, GuardNumbers DEF Enough
    <3>2. Enough' /\ output' >= t
      BY <1>1, <2>1, <2>6, <3>1, GuardNumbers DEF Enough
    <3>3. over + late <= Gap + 2 * Lag
      BY <2>2, <2>6
    <3>4. over' <= Gap + 2 * Lag
      BY <2>1, <3>1, <3>3, GuardNumbers
    <3>5. CASE output' = applied
      <4>1. ~Excess(Export')
        BY <1>1, <2>6, <3>5, GuardNumbers DEF Excess, Export, Enough
      <4> QED
        BY <1>1, <1>2, <1>a, <3>4, <4>1 DEF ShortInv, Excess, Export
    <3>6. CASE output' = output /\ late' = late - 1
      <4>1. over' + late' <= Gap + 2 * Lag
        BY <2>1, <3>1, <3>3, <3>6, GuardNumbers
      <4>2. ~(output' < t)
        BY <2>1, <3>1, <3>6, GuardNumbers
      <4> QED
        BY <1>1, <1>2, <1>a, <3>2, <3>4, <4>1, <4>2 DEF ShortInv
    <3> QED
      BY <1>1, <3>1, <3>5, <3>6
  <2> QED
    BY <2>4, <2>5, <2>6, GuardNumbers
<1> QED
  BY <1>3, <1>4

LEMMA WaitsShort ==
  ASSUME TypeOK, Read, ShortInv, GuardWaits, TypeOK'
  PROVE  ShortInv'
<1>1. /\ idle' = Older(idle, Gap) /\ load' = load /\ applied' = applied
      /\ \/ output' = applied /\ late' = 0
         \/ late > 1 /\ late' = late - 1 /\ output' = output
      /\ over' = IF tick.touched = {} /\ Excess(tick.export) /\ tick.power > PowerMin
                 THEN over + 1 ELSE 0
      /\ tick.at = "user"
  BY DEF GuardWaits, Follow, Counted
<1>2. idle' >= 1 /\ (idle < Gap => idle' = idle + 1)
  BY <1>1, GuardNumbers DEF Older, ShortInv
<1>a. tick'.at = "idle" /\ Waited' = idle' /\ Waited = idle
  BY <1>1, IdleTick DEF GuardWaits, Waited
<1>b. tick.touched = {} => tick.export = Export /\ tick.power = applied
  BY <1>1, Untouched
<1>3. late' = 0 => output' = applied'
  BY <1>1, GuardNumbers
<1>4. CASE ~(tick.touched = {} /\ Excess(Export) /\ applied > PowerMin)
  <2>1. over' = 0
    BY <1>1, <1>4, <1>b
  <2> QED
    BY <1>2, <1>3, <1>a, <2>1, FreshShort
<1>5. CASE tick.touched = {} /\ Excess(Export) /\ applied > PowerMin
  <2>1. /\ late = 0 => output = applied
        /\ output < applied => over + late <= Lag
        /\ output >= applied /\ ~Enough => over < Lag + idle
        /\ Enough => over + late <= Gap + 2 * Lag
    BY <1>5, <1>a DEF ShortInv
  <2>2. output - load > MaxExport /\ over' = over + 1
    BY <1>1, <1>5, <1>b DEF Excess, Export
  <2>3. idle < Gap
    <3>1. ~MayWrite(Export)
      <4>1. Target(Export, applied, user) # applied
        BY <1>5, CutIsEnough, GuardNumbers
      <4> QED
        BY <1>5, <1>b, <4>1 DEF GuardWaits, Writes, Acting
    <3> QED
      BY <3>1, GuardNumbers DEF MayWrite
  <2>4. CASE output < applied
    <3>1. late >= 1 /\ over + late <= Lag
      BY <2>1, <2>4, GuardNumbers
    <3>2. over' + late' <= Lag
      BY <1>1, <2>2, <3>1, GuardNumbers
    <3>3. over' <= Lag /\ late' \in Nat
      BY <2>2, <3>1, GuardNumbers DEF TypeOK
    <3>4. over' < Lag + idle' /\ over' <= Gap + 2 * Lag /\ over' + late' <= Gap + 2 * Lag
      BY <1>2, <2>2, <2>3, <3>2, <3>3, GuardNumbers
    <3> QED
      BY <1>2, <1>3, <1>a, <3>2, <3>4 DEF ShortInv
  <2>5. CASE output >= applied /\ ~Enough
    <3>1. over' < Lag + idle'
      BY <1>2, <2>1, <2>2, <2>3, <2>5, GuardNumbers
    <3>2. over' <= Gap + 2 * Lag
      BY <1>2, <2>3, <2>2, <3>1, GuardNumbers
    <3>3. ~(output' < applied') /\ ~Enough'
      BY <1>1, <2>5, GuardNumbers DEF Enough
    <3> QED
      BY <1>2, <1>3, <1>a, <3>1, <3>2, <3>3 DEF ShortInv
  <2>6. CASE Enough
    <3>1. output > applied /\ late >= 1
      BY <2>1, <2>2, <2>6, GuardNumbers DEF Enough
    <3>2. Enough' /\ ~(output' < applied')
      BY <1>1, <2>6, <3>1, GuardNumbers DEF Enough
    <3>3. over' + late' <= Gap + 2 * Lag /\ over' <= Gap + 2 * Lag
      BY <1>1, <2>1, <2>2, <2>6, <3>1, GuardNumbers
    <3> QED
      BY <1>2, <1>3, <1>a, <3>2, <3>3 DEF ShortInv
  <2> QED
    BY <2>4, <2>5, <2>6, GuardNumbers
<1> QED
  BY <1>4, <1>5

LEMMA DecidesShort ==
  ASSUME TypeOK, Read, ShortInv, GuardDecides
  PROVE  ShortInv'
<1>1. /\ tick.at = "user" /\ UNCHANGED << output, load, applied, user, late, over >>
      /\ tick'.at = "write" /\ tick'.touched = tick.touched
      /\ tick'.target = Target(tick.export, tick.power, user)
  BY DEF GuardDecides, TypeOK, Ticks
<1>2. tick.touched = {} => tick'.target = Target(Export, applied, user)
  BY <1>1, Untouched
<1>3. Waited' = Gap /\ Waited <= Gap /\ Waited \in Nat
  BY <1>1, GuardNumbers DEF Waited
<1>4. Export' = Export /\ Enough' = Enough /\ Target(Export', applied', user') = Target(Export, applied, user)
  BY <1>1 DEF Export, Enough
<1>5. over < Lag + Waited => over < Lag + Gap
  BY <1>3, GuardNumbers
<1>6. /\ over' <= Gap + 2 * Lag
      /\ late' = 0 => output' = applied'
      /\ tick'.at = "write" /\ tick'.touched = {} => tick'.target = Target(Export', applied', user')
  BY <1>1, <1>2, <1>4 DEF ShortInv
<1>7. Excess(Export') /\ applied' > PowerMin =>
        /\ output' < applied' => over' + late' <= Lag
        /\ output' >= applied' /\ ~Enough' => over' < Lag + Waited'
        /\ Enough' => over' + late' <= Gap + 2 * Lag
  BY <1>1, <1>3, <1>4, <1>5 DEF ShortInv
<1> QED
  BY <1>1, <1>6, <1>7 DEF ShortInv

LEMMA StepShort == TypeOK /\ Read /\ ShortInv /\ [Next]_vars => ShortInv'
<1> SUFFICES ASSUME TypeOK, Read, ShortInv, [Next]_vars PROVE ShortInv'
  OBVIOUS
<1>0. TypeOK'
  BY StepType
<1>1. CASE GuardLooks \/ GuardReads
  <2>1. UNCHANGED << output, load, applied, user, late, over, idle >> /\ tick.at # "write"
    BY <1>1 DEF GuardLooks, GuardReads
  <2>2. tick'.at # "write"
    BY <1>1, LooksAt
  <2> QED
    BY <2>1, <2>2 DEF ShortInv, Waited, Enough, Excess, Export
<1>2. CASE GuardWaits
  BY <1>0, <1>2, WaitsShort
<1>3. CASE GuardDecides
  BY <1>3, DecidesShort
<1>4. CASE GuardWrites
  BY <1>0, <1>4, WritesShort
<1>5. CASE GuardSleeps
  <2>1. over' = 0 /\ idle' >= 1 /\ tick'.at # "write"
    BY <1>5, GuardNumbers DEF GuardSleeps, Older, ShortInv
  <2>2. late' = 0 => output' = applied'
    BY <1>5, GuardNumbers DEF GuardSleeps, Follow
  <2> QED
    BY <1>0, <2>1, <2>2, FreshShort
<1>6. CASE LoadChanges \/ MeterOrModeChanges \/ UserAsks \/ UserIsHeard
  <2>1. over' = 0 /\ idle' = idle
    BY <1>6 DEF LoadChanges, MeterOrModeChanges, UserAsks, UserIsHeard
  <2>2. late' = 0 => output' = applied'
    BY <1>6, GuardNumbers DEF LoadChanges, MeterOrModeChanges, UserAsks, UserIsHeard, ShortInv
  <2>3. PICK w \in {"load", "mode", "user"} : Touch(w)
    BY <1>6 DEF LoadChanges, MeterOrModeChanges, UserAsks, UserIsHeard
  <2>4. tick'.at = tick.at /\ (tick.at # "idle" => tick'.touched # {})
    BY <2>3, TouchType
  <2> QED
    BY <1>0, <2>1, <2>2, <2>4, FreshShort DEF ShortInv
<1>7. CASE UNCHANGED vars
  BY <1>7 DEF vars, ShortInv, Waited, Enough, Excess, Export
<1> QED
  BY <1>1, <1>2, <1>3, <1>4, <1>5, <1>6, <1>7 DEF Next, Guard

(* An excess that the guard sees and can take back is over after the rate  *)
(* limit and two lags, whatever the house draws and the user asks for, and *)
(* also where the guard has overruled a call it did not see.               *)
THEOREM ExcessShort == Spec => []OverBounded
<1>1. Init => Read /\ ShortInv
  <2> SUFFICES ASSUME Init PROVE Read /\ ShortInv
    OBVIOUS
  <2>1. TypeOK
    BY InitType
  <2>2. over = 0 /\ idle = Gap /\ output = applied /\ late = 0 /\ tick.at = "idle"
    BY IdleTick DEF Init
  <2> QED
    BY <2>1, <2>2, GuardNumbers DEF Read, ShortInv, Waited
<1>2. ShortInv => OverBounded
  BY DEF ShortInv, OverBounded
<1> QED
  BY <1>1, <1>2, InitType, StepType, StepRead, StepShort, PTL DEF Spec

(* Where the hysteresis covers a step and the inverter follows within the  *)
(* hold, an excess is short and no restore ever makes one.                 *)
THEOREM FuseSound ==
  ASSUME Step <= Hyst, Lag <= Hold
  PROVE  Spec => FuseSafe
<1>1. Spec => RestoreSafe
  BY RestoreSound
<1>2. Spec => [][OverBounded']_vars
  BY ExcessShort, PTL
<1> QED
  BY <1>1, <1>2 DEF FuseSafe
=============================================================================
