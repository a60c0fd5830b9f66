------------------------------ MODULE BatLock ------------------------------
(***************************************************************************)
(* The operator's battery locks of main/bat_lock.c, with the part of the   *)
(* manager's task (main/energy_mgr.c) that keeps them in force. Web server *)
(* and MQTT set and lift locks while the manager's tick works with a copy; *)
(* a set is a RAM write, a copy for the record, the NVS write and the call *)
(* that puts it in force. These take milliseconds, a clock unit is seconds.*)
(***************************************************************************)
EXTENDS Integers

CONSTANTS
  Callers,      \* tasks that set locks: web server, MQTT
  Spans,        \* lengths of timed locks
  Renew,        \* BAT_LOCK_RENEW_S
  TickMax,      \* bound: time between two ticks of the manager
  MaxSets,      \* bound: sets of bat_lock_set()
  MaxBoots      \* bound: boots

ASSUME LockAssumption ==
  /\ Spans \subseteq Nat \ {0} /\ Renew \in Nat /\ TickMax \in Nat \ {0}
  /\ MaxSets \in Nat /\ MaxBoots \in Nat

VARIABLES
  deyeLock,     \* time left of s_lock_until_ms (main/modbus_rtu.c)
  locks, lockNvs,   \* s_lock; the record "em/dlock"
  byd,          \* what fronius_storage_lock_discharge() was last told
  clockOk,      \* the wall clock is set
  lockJob,          \* for each task, the bat_lock_set() it is in
  mgr,          \* where the manager's task is, its copy of the locks, time since it renewed
  kept,         \* ghost: time since the Deye's lock last changed
  sets, boots

lockVars == << deyeLock, locks, lockNvs, byd, clockOk, lockJob, mgr, kept, sets, boots >>

Bats == {"DEYE", "BYD"}
Unlimited == -1
Open == [on |-> FALSE, left |-> 0]
Unlocked == [b \in Bats |-> Open]
Tasks == Callers \cup {"mgr"}
NoLockJob == [pc |-> "idle", which |-> "DEYE", lock |-> Open, rec |-> Unlocked]
LockIdle(t) == lockJob[t].pc = "idle"

-----------------------------------------------------------------------------
LockInit ==
  /\ deyeLock = 0
  /\ locks = Unlocked /\ lockNvs = Unlocked /\ byd = FALSE
  /\ clockOk = FALSE
  /\ lockJob = [t \in Tasks |-> NoLockJob]
  /\ mgr = [pc |-> "boot", copy |-> Unlocked, clk |-> FALSE, age |-> 0]
  /\ kept = 0 /\ sets = 0 /\ boots = 0

(* bat_lock_set() up to the assignment of s_lock. *)
Assign(t, b, l) ==
  /\ locks' = [locks EXCEPT ![b] = l]
  /\ lockJob' = [lockJob EXCEPT ![t] = [pc |-> "copy", which |-> b, lock |-> l, rec |-> Unlocked]]
  /\ kept' = IF b = "DEYE" THEN 0 ELSE kept

(* The web page or an MQTT command; a timed lock needs the clock. *)
SetLock(t, b, on, span) ==
  /\ LockIdle(t) /\ sets < MaxSets
  /\ on /\ span # Unlimited => clockOk
  /\ Assign(t, b, IF on THEN [on |-> TRUE, left |-> span] ELSE Open)
  /\ sets' = sets + 1
  /\ UNCHANGED << deyeLock, lockNvs, byd, clockOk, mgr, boots >>

(* persist(): the copy under the spinlock, then the NVS write, which may   *)
(* be refused.                                                             *)
CopyRecord(t) ==
  /\ lockJob[t].pc = "copy"
  /\ lockJob' = [lockJob EXCEPT ![t].rec = locks, ![t].pc = "write"]
  /\ UNCHANGED << deyeLock, locks, lockNvs, byd, clockOk, mgr, kept, sets, boots >>

WriteRecord(t) ==
  /\ lockJob[t].pc = "write"
  /\ lockNvs' \in {lockJob[t].rec, lockNvs}
  /\ lockJob' = [lockJob EXCEPT ![t].pc = "pass"]
  /\ UNCHANGED << deyeLock, locks, byd, clockOk, mgr, kept, sets, boots >>

(* Put in force: the Deye's hold at once, the BYD's at the next tick, a    *)
(* lifted BYD lock at once.                                                *)
PassOn(t) ==
  /\ lockJob[t].pc = "pass"
  /\ deyeLock' = IF lockJob[t].which = "DEYE"
             THEN IF lockJob[t].lock.on THEN Renew ELSE 0
             ELSE deyeLock
  /\ byd' = (byd /\ ~(lockJob[t].which = "BYD" /\ ~lockJob[t].lock.on))
  /\ lockJob' = [lockJob EXCEPT ![t] = NoLockJob]
  /\ UNCHANGED << locks, lockNvs, clockOk, mgr, kept, sets, boots >>

-----------------------------------------------------------------------------
(* bat_lock_init(): the manager's task reads the record before its loop.   *)
LoadLocks ==
  /\ mgr.pc = "boot"
  /\ locks' = lockNvs
  /\ deyeLock' = IF lockNvs["DEYE"].on THEN Renew ELSE deyeLock
  /\ mgr' = [mgr EXCEPT !.pc = "idle", !.age = 0]
  /\ kept' = 0
  /\ UNCHANGED << lockNvs, byd, clockOk, lockJob, sets, boots >>

(* bat_lock_tick() works with a copy of the locks and with the time the    *)
(* manager's loop has read before it.                                      *)
TickBegin ==
  /\ mgr.pc = "idle"
  /\ mgr' = [mgr EXCEPT !.pc = "expire", !.copy = locks, !.clk = clockOk]
  /\ UNCHANGED << deyeLock, locks, lockNvs, byd, clockOk, lockJob, kept, sets, boots >>

RanOut(l) == l.on /\ l.left = 0 /\ mgr.clk

(* A timed lock that ran out is lifted by the manager itself: by the copy, *)
(* whatever has been set meanwhile.                                        *)
TickExpire(b) ==
  /\ mgr.pc = "expire" /\ LockIdle("mgr") /\ RanOut(mgr.copy[b])
  /\ b = "BYD" => ~RanOut(mgr.copy["DEYE"])
  /\ Assign("mgr", b, Open)
  /\ mgr' = [mgr EXCEPT !.copy[b] = Open]
  /\ UNCHANGED << deyeLock, lockNvs, byd, clockOk, sets, boots >>

NotRenewed == deyeLock                                      \* mutant: no renewal
Renewed == IF mgr.copy["DEYE"].on THEN Renew ELSE deyeLock
TickRenew ==
  /\ mgr.pc = "expire" /\ LockIdle("mgr") /\ \A b \in Bats : ~RanOut(mgr.copy[b])
  /\ deyeLock' = Renewed
  /\ mgr' = [mgr EXCEPT !.pc = "byd", !.age = 0]
  /\ UNCHANGED << locks, lockNvs, byd, clockOk, lockJob, kept, sets, boots >>

BydWanted(allowed) == mgr.copy["BYD"].on /\ allowed
TickByd(allowed) ==
  /\ mgr.pc = "byd"
  /\ byd' = BydWanted(allowed)
  /\ mgr' = [mgr EXCEPT !.pc = "idle", !.copy = Unlocked]
  /\ UNCHANGED << deyeLock, locks, lockNvs, clockOk, lockJob, kept, sets, boots >>

-----------------------------------------------------------------------------
ClockSync ==
  /\ ~clockOk /\ clockOk' = TRUE
  /\ UNCHANGED << deyeLock, locks, lockNvs, byd, lockJob, mgr, kept, sets, boots >>

Elapsed(t) == IF t > 0 THEN t - 1 ELSE 0
Aged(l) == [l EXCEPT !.left = IF @ = Unlimited THEN @ ELSE Elapsed(@)]
Seconds ==
  /\ \A t \in Tasks : LockIdle(t)
  /\ mgr.pc = "idle" /\ mgr.age < TickMax
  /\ mgr' = [mgr EXCEPT !.age = @ + 1]
  /\ deyeLock' = Elapsed(deyeLock)
  /\ locks' = [b \in Bats |-> Aged(locks[b])]
  /\ lockNvs' = [b \in Bats |-> Aged(lockNvs[b])]
  /\ kept' = IF kept <= TickMax THEN kept + 1 ELSE kept
  /\ UNCHANGED << byd, clockOk, lockJob, sets, boots >>

(* A restart at any point; NVS stays. The clock may survive it. The BYD's  *)
(* request starts anew, what the inverter still holds is that module's.    *)
Reboot ==
  /\ boots < MaxBoots /\ boots' = boots + 1
  /\ deyeLock' = 0 /\ locks' = Unlocked /\ byd' = FALSE
  /\ clockOk' \in {FALSE, clockOk}
  /\ lockJob' = [t \in Tasks |-> NoLockJob]
  /\ mgr' = [pc |-> "boot", copy |-> Unlocked, clk |-> FALSE, age |-> 0]
  /\ kept' = 0
  /\ UNCHANGED << lockNvs, sets >>

Persisting(t) == CopyRecord(t) \/ WriteRecord(t) \/ PassOn(t)
LockTick == LoadLocks \/ TickBegin \/ (\E b \in Bats : TickExpire(b)) \/ TickRenew
            \/ (\E a \in BOOLEAN : TickByd(a))

(* The route of the page: the battery, on or off, for how long. A missing  *)
(* time is until lifted.                                                   *)
LockPage(t) ==
  \E b \in Bats, on \in BOOLEAN, s \in Spans \cup {Unlimited} : SetLock(t, b, on, s)

LockNext ==
  \/ LockTick \/ ClockSync \/ Seconds \/ Reboot
  \/ \E t \in Tasks : Persisting(t)
  \/ \E t \in Callers : LockPage(t)

LockSpec == LockInit /\ [][LockNext]_lockVars

-----------------------------------------------------------------------------
(* The task that renews the lock also fetches prices and the forecast, so  *)
(* a tick may come after the lock has run out. This is the only gap: once   *)
(* a tick has come after it, a lock is in force for Renew from every tick;  *)
(* neither the end of a lock before it, nor a restart, nor a tick that     *)
(* works with an old copy leaves it out.                                   *)
LockInForce == locks["DEYE"].on /\ kept > mgr.age /\ mgr.age < Renew => deyeLock > 0
=============================================================================
