--------------------------- MODULE DeyeCtrl_proofs ---------------------------
(***************************************************************************)
(* Proofs about DeyeCtrl for any callers, any powers, any limits and any   *)
(* number of calls and restarts.                                           *)
(***************************************************************************)
EXTENDS DeyeCtrl, TLAPS

(* The NVS value and the undo bookkeeping are typed only together: a round *)
(* of the undo starts only below the limit of tries.                       *)
TypeInv ==
  /\ TypeOK
  /\ undoPending /\ task # "fall" => undoTries < UndoTries

-----------------------------------------------------------------------------
(* The operators the actions are built from. *)

LEMMA PowersAre ==
  /\ PowerMin = 1000 /\ PowerFloor = 250 /\ PowerMax = 20000 /\ PowerBoot = 5000
  /\ PowerFloor \in Nat /\ PowerMax \in Nat
BY DEF PowerMin, PowerFloor, PowerMax, PowerBoot

LEMMA PowerRange == \A p : p \in RealPowers <=> p \in Nat /\ p >= PowerFloor /\ p <= PowerMax
<1>1. PowerFloor \in Nat /\ PowerMax \in Nat
  BY PowersAre
<1> QED
  BY <1>1 DEF RealPowers

LEMMA PowersNat == RealPowers \subseteq Nat
BY PowerRange

(* Whatever power is asked for, the clamp leaves one the inverter takes. *)
LEMMA ClampReal ==
  ASSUME NEW p \in Nat, NEW f \in {PowerMin, PowerFloor}
  PROVE  Clamp(p, f) \in RealPowers
<1>1. f \in Nat /\ f >= PowerFloor /\ f <= PowerMax
  BY PowersAre
<1>2. CASE p < f
  BY <1>1, <1>2, PowerRange DEF Clamp
<1>3. CASE ~(p < f) /\ p > PowerMax
  BY <1>3, PowersAre, PowerRange DEF Clamp
<1>4. CASE ~(p < f) /\ ~(p > PowerMax)
  BY <1>1, <1>4, PowersAre, PowerRange DEF Clamp
<1> QED
  BY <1>2, <1>3, <1>4

LEMMA FloorKind == \A k \in Kinds : FloorOf(k) \in {PowerMin, PowerFloor}
BY DEF FloorOf, Kinds

LEMMA WriteType ==
  ASSUME NEW r \in Regs, NEW v \in Nat
  PROVE  Verified(r, v) \in RegWrites /\ Raw(r, v) \in RegWrites
BY DEF Verified, Raw, RegWrites

LEMMA NormalType == NormalWrites \in Seq(RegWrites) /\ Len(NormalWrites) = 7
BY WriteType DEF NormalWrites, PowerMax, Regs

LEMMA JobType ==
  ASSUME NEW m \in Modes, NEW p \in RealPowers
  PROVE  ModeWrites(m, p) \in Seq(RegWrites) /\ PowerWrites(m, p) \in Seq(RegWrites)
<1>1. p \in Nat /\ p \div 50 \in Nat
  BY PowersNat
<1>2. ChargeWrites(p) \in Seq(RegWrites)
  BY <1>1, WriteType DEF ChargeWrites, Regs, ChargeSoc
<1>3. DischargeWrites(p) \in Seq(RegWrites)
  BY <1>1, WriteType DEF DischargeWrites, Regs
<1>4. PowerWrites(m, p) \in Seq(RegWrites)
  BY <1>1, WriteType DEF PowerWrites, Regs
<1> QED
  BY <1>2, <1>3, <1>4, NormalType DEF ModeWrites, Modes

LEMMA NormalRegsType == NormalRegs \in [Regs -> Nat]
BY DEF NormalRegs, PowerMax, Regs

-----------------------------------------------------------------------------
(* Type correctness. *)

LEMMA InitType == Init => TypeInv
<1> SUFFICES ASSUME Init PROVE TypeInv
  OBVIOUS
<1>1. PowerBoot \in RealPowers
  BY PowersAre, PowerRange
<1>2. job \in Seq(RegWrites) /\ at \in 1..(Len(job) + 1)
  BY DEF Init
<1>3. caller \in [Clients -> Calls]
  BY DEF Init, Idle, Calls, Modes
<1>4. ops \in 0..MaxOps /\ restarts \in 0..MaxRestarts /\ undoTries \in 0..UndoTries
  BY CtrlAssumption DEF Init
<1>5. limit \in AutoLimits \cup {ForceLimit} /\ age \in Nat /\ inv \in [Regs -> Nat]
  BY NormalRegsType DEF Init
<1> QED
  BY <1>1, <1>2, <1>3, <1>4, <1>5, NormalRegsType, CtrlAssumption
  DEF Init, TypeInv, TypeOK, Modes

LEMMA StepType == TypeInv /\ [Next]_vars => TypeInv'
<1> SUFFICES ASSUME TypeInv, [Next]_vars PROVE TypeInv'
  OBVIOUS
<1> USE CtrlAssumption
<1>a. ASSUME NEW c \in Clients, NEW k \in Kinds, NEW m \in Modes, NEW p \in AskedPowers,
             BeginApply(c, k, m, p)
      PROVE  TypeInv'
  <2>1. Clamp(p, FloorOf(k)) \in RealPowers
    BY ClampReal, FloorKind
  <2>2. limit' \in AutoLimits \cup {ForceLimit}
    BY <1>a DEF BeginApply, LimitsOf
  <2>3. caller' \in [Clients -> Calls]
    BY <1>a, <2>1 DEF BeginApply, TypeInv, TypeOK, Calls
  <2> QED
    BY <1>a, <2>1, <2>2, <2>3 DEF BeginApply, TypeInv, TypeOK, undo, nvs, writer
<1>b. ASSUME NEW c \in Clients, FinishApply(c) PROVE TypeInv'
  <2>1. Idle \in Calls
    BY DEF Idle, Calls, Modes
  <2>2. caller[c] \in Calls
    BY DEF TypeInv, TypeOK
  <2> QED
    BY <1>b, <2>1, <2>2
    DEF FinishApply, TypeInv, TypeOK, request, clock, undo, writer, bounds, Calls
<1>c. ASSUME NEW c \in Clients, NEW p \in AskedPowers, BeginRetune(c, p) PROVE TypeInv'
  <2>1. Clamp(p, PowerFloor) \in RealPowers
    BY ClampReal
  <2>2. caller' \in [Clients -> Calls]
    BY <1>c, <2>1 DEF BeginRetune, TypeInv, TypeOK, Calls, Modes
  <2> QED
    BY <1>c, <2>1, <2>2 DEF BeginRetune, TypeInv, TypeOK, clock, undo, nvs, writer
<1>d. ASSUME NEW c \in Clients, FinishRetune(c) PROVE TypeInv'
  <2>1. Idle \in Calls
    BY DEF Idle, Calls, Modes
  <2>2. caller[c] \in Calls
    BY DEF TypeInv, TypeOK
  <2> QED
    BY <1>d, <2>1, <2>2
    DEF FinishRetune, TypeInv, TypeOK, request, clock, undo, writer, bounds, Calls
<1>e. ASSUME NEW p \in GuardPowers, GuardDecide(p) PROVE TypeInv'
  BY <1>e DEF GuardDecide, TypeInv, TypeOK, request, clock, undo, nvs, writer, bounds
<1>f. ASSUME GuardThrottle PROVE TypeInv'
  <2>1. Clamp(guard, PowerMin) \in RealPowers
    BY <1>f, ClampReal DEF GuardThrottle, TypeInv, TypeOK
  <2> QED
    BY <1>f, <2>1 DEF GuardThrottle, TypeInv, TypeOK, clock, undo, nvs, writer, bounds
<1>g. ASSUME FallBack, undoTries' \in 0..UndoTries PROVE TypeInv'
  <2>1. job' \in Seq(RegWrites) /\ at' \in 1..(Len(job') + 1)
    BY <1>g, NormalType DEF FallBack
  <2>2. mode' \in Modes /\ power' \in RealPowers /\ age' \in Nat
    BY <1>g DEF FallBack, TypeInv, TypeOK, Modes
  <2>3. undoPending' \in BOOLEAN /\ failed' \in BOOLEAN /\ notified' \in BOOLEAN
    BY <1>g DEF FallBack, TypeInv, TypeOK
  <2>4. task' = "fall"
    BY <1>g DEF FallBack
  <2> QED
    BY <1>g, <2>1, <2>2, <2>3, <2>4 DEF FallBack, TypeInv, TypeOK, bounds, nvs
<1>h. CASE WakeUndo
  BY <1>h, <1>g DEF WakeUndo, TriesNow, TypeInv, TypeOK
<1>i. CASE WakeExpired
  BY <1>i, <1>g DEF WakeExpired, TypeInv, TypeOK
<1>j. CASE WakePending
  <2>1. job' \in Seq(RegWrites)
    BY <1>j, JobType DEF WakePending, Round, TypeInv, TypeOK
  <2>2. at' \in 1..(Len(job') + 1)
    BY <1>j, <2>1 DEF WakePending
  <2> QED
    BY <1>j, <2>1, <2>2
    DEF WakePending, TypeInv, TypeOK, request, clock, undo, nvs, bounds
<1>k. CASE WriteRegister
  <2>1. job[at] \in RegWrites
    BY <1>k DEF WriteRegister, TypeInv, TypeOK
  <2>2. inv' \in [Regs -> Nat] /\ failed' \in BOOLEAN
    BY <1>k, <2>1 DEF WriteRegister, TypeInv, TypeOK, RegWrites
  <2>3. at' \in 1..(Len(job) + 1)
    BY <1>k DEF WriteRegister, TypeInv, TypeOK
  <2> QED
    BY <1>k, <2>2, <2>3
    DEF WriteRegister, TypeInv, TypeOK, request, clock, undo, nvs, bounds
<1>l. CASE EndWrite
  BY <1>l DEF EndWrite, TypeInv, TypeOK, request, clock, undo, nvs, bounds
<1>m. CASE EndFallBack
  <2>1. nvsMode' \in Modes
    BY <1>m DEF EndFallBack, TypeInv, TypeOK, Modes
  <2>2. undoPending' \in BOOLEAN
    BY <1>m DEF EndFallBack
  <2>3. undoPending' => undoTries' < UndoTries
    <3>1. undoPending' => ~UndoOver /\ undoTries' = undoTries
      BY <1>m, Zenon DEF EndFallBack
    <3> QED
      BY <3>1 DEF UndoOver, TypeInv, TypeOK
  <2>4. job' \in Seq(RegWrites) /\ at' \in 1..(Len(job') + 1) /\ task' = "wait"
    BY <1>m DEF EndFallBack
  <2> QED
    BY <1>m, <2>1, <2>2, <2>3, <2>4
    DEF EndFallBack, TypeInv, TypeOK, request, clock, bounds
<1>n. CASE Tick
  BY <1>n DEF Tick, TypeInv, TypeOK, request, undo, nvs, writer, bounds
<1>o. CASE Restart
  <2>1. PowerBoot \in RealPowers
    BY PowersAre, PowerRange
  <2>2. power' \in RealPowers /\ userPower' \in RealPowers
    <3> DEFINE kept == /\ nvsMode # "Normal"
                       /\ nvsPower >= PowerFloor /\ nvsPower <= PowerMax
    <3>1. kept => nvsPower \in RealPowers
      <4>1. nvsPower \in Nat
        BY PowersNat DEF TypeInv, TypeOK
      <4> QED
        BY <4>1, PowerRange
    <3>2. power' = (IF kept THEN nvsPower ELSE PowerBoot) /\ userPower' = power'
      BY <1>o, Zenon DEF Restart
    <3> QED
      BY <2>1, <3>1, <3>2, Zenon
  <2>3. caller' \in [Clients -> Calls]
    BY <1>o DEF Restart, Idle, Calls, Modes
  <2>4. job' \in Seq(RegWrites) /\ at' \in 1..(Len(job') + 1)
    BY <1>o DEF Restart
  <2>5. undoPending' \in BOOLEAN /\ undoTries' = 0
    BY <1>o DEF Restart
  <2>7. mode' = nvsMode /\ age' = 0 /\ task' = "wait" /\ guard' = 0
    BY <1>o DEF Restart
  <2>8. writeFull' \in BOOLEAN /\ notified' \in BOOLEAN /\ failed' \in BOOLEAN
    BY <1>o DEF Restart
  <2>9. UNCHANGED << nvsMode, nvsPower, inv, ops >>
    BY <1>o DEF Restart, nvs
  <2>6. restarts' \in 0..MaxRestarts /\ limit' \in AutoLimits \cup {ForceLimit}
    BY <1>o DEF Restart, TypeInv, TypeOK
  <2> QED
    BY <2>2, <2>3, <2>4, <2>5, <2>6, <2>7, <2>8, <2>9 DEF TypeInv, TypeOK
<1>p. CASE UNCHANGED vars
  BY <1>p DEF vars, TypeInv, TypeOK
<1> QED
  BY <1>a, <1>b, <1>c, <1>d, <1>e, <1>f, <1>h, <1>i, <1>j, <1>k, <1>l, <1>m, <1>n,
     <1>o, <1>p DEF Next

(* Every state variable of deye_ctrl.c keeps a value of its kind, and no   *)
(* power outside the inverter's range is ever asked for or written.        *)
THEOREM TypeCorrect == Spec => []TypeOK
<1>1. TypeInv => TypeOK
  BY DEF TypeInv
<1> QED
  BY <1>1, InitType, StepType, PTL DEF Spec

-----------------------------------------------------------------------------
(* What a finished fallback has confirmed. *)

(* A fallback runs the Normal writes; as long as no read-back failed, the  *)
(* registers read back so far hold their Normal values.                    *)
FallInv ==
  task = "fall" =>
    /\ job = NormalWrites
    /\ ~failed /\ at > 1 => inv[142] = 2
    /\ ~failed /\ at > 2 => inv[143] = PowerMax

LEMMA NormalEntries ==
  /\ Len(NormalWrites) = 7
  /\ NormalWrites[1] = Verified(142, 2)
  /\ NormalWrites[2] = Verified(143, PowerMax)
  /\ \A i \in 3..7 : NormalWrites[i].reg \notin {142, 143} /\ ~NormalWrites[i].verify
BY DEF NormalWrites, Verified, Raw

LEMMA StepFall == TypeInv /\ FallInv /\ [Next]_vars => FallInv'
<1> SUFFICES ASSUME TypeInv, FallInv, [Next]_vars PROVE FallInv'
  OBVIOUS
<1>1. CASE FallBack
  BY <1>1 DEF FallBack, FallInv
<1>2. CASE WriteRegister
  <2> SUFFICES ASSUME task = "fall" PROVE FallInv'
    BY <1>2 DEF WriteRegister, FallInv
  <2>0. job = NormalWrites /\ at' = at + 1 /\ job' = job /\ at <= Len(job)
    BY <1>2 DEF WriteRegister, FallInv
  <2>1. job = NormalWrites /\ at \in 1..7 /\ at' = at + 1 /\ job' = job
    <3>1. at \in 1..(Len(job) + 1)
      BY DEF TypeInv, TypeOK
    <3> QED
      BY <2>0, <3>1, NormalEntries
  <2>2. /\ inv \in [Regs -> Nat]
        /\ \/ inv' = [inv EXCEPT ![job[at].reg] = job[at].val] /\ failed' = failed
           \/ /\ inv' = inv \/ inv' = [inv EXCEPT ![job[at].reg] = job[at].val]
              /\ failed' = (failed \/ job[at].verify)
    BY <1>2 DEF WriteRegister, TypeInv, TypeOK
  <2>3. CASE at = 1
    <3>1. job[at].reg = 142 /\ job[at].val = 2 /\ job[at].verify
      BY <2>1, <2>3, NormalEntries DEF Verified
    <3>2. ~failed' => inv' = [inv EXCEPT ![job[at].reg] = job[at].val]
      BY <2>2, <3>1, Zenon
    <3>3. ~failed' => inv'[142] = 2
      BY <2>2, <3>1, <3>2 DEF Regs
    <3> QED
      BY <2>1, <2>3, <3>3 DEF FallInv
  <2>4. CASE at = 2
    <3>1. job[at].reg = 143 /\ job[at].val = PowerMax /\ job[at].verify
      BY <2>1, <2>4, NormalEntries DEF Verified
    <3>2. ~failed' => ~failed /\ inv' = [inv EXCEPT ![job[at].reg] = job[at].val]
      BY <2>2, <3>1, Zenon
    <3>3. ~failed' => ~failed /\ inv'[143] = PowerMax /\ inv'[142] = inv[142]
      BY <2>2, <3>1, <3>2 DEF Regs
    <3> QED
      BY <2>1, <2>4, <3>3 DEF FallInv
  <2>5. CASE at \in 3..7
    <3>1. job[at].reg \notin {142, 143} /\ ~job[at].verify
      BY <2>1, <2>5, NormalEntries
    <3>2. inv'[142] = inv[142] /\ inv'[143] = inv[143]
      BY <2>2, <3>1 DEF Regs
    <3>3. ~failed' => ~failed
      BY <2>2
    <3> QED
      BY <2>1, <2>5, <3>2, <3>3 DEF FallInv
  <2> QED
    BY <2>1, <2>3, <2>4, <2>5
<1>3. CASE ~FallBack /\ ~WriteRegister
  <2>1. task' = "fall" => UNCHANGED << task, job, at, failed, inv >>
    BY <1>3 DEF Next, vars, writer, BeginApply, FinishApply, BeginRetune, FinishRetune,
       GuardDecide, GuardThrottle, WakeUndo, WakeExpired, WakePending, EndWrite,
       EndFallBack, Tick, Restart
  <2> QED
    BY <2>1 DEF FallInv
<1> QED
  BY <1>1, <1>2, <1>3

(* The stored mode is forgotten by a fallback only with work mode and sell *)
(* power confirmed, for any loss of writes, races and restarts.            *)
THEOREM FallBackSound == Spec => FallBackConfirmed
<1>1. Init => FallInv
  BY DEF Init, FallInv
<1>2. TypeInv /\ FallInv /\ [Next]_vars
        => [task = "fall" /\ task' = "wait" /\ nvsMode' # nvsMode
              => inv[142] = 2 /\ inv[143] = PowerMax]_vars
  <2> SUFFICES ASSUME TypeInv, FallInv, [Next]_vars,
                      task = "fall", task' = "wait", nvsMode' # nvsMode
               PROVE  inv[142] = 2 /\ inv[143] = PowerMax
    OBVIOUS
  <2>1. EndFallBack
    BY DEF Next, vars, writer, nvs, BeginApply, FinishApply, BeginRetune, FinishRetune,
       GuardDecide, GuardThrottle, WakeUndo, WakeExpired, FallBack, WakePending,
       WriteRegister, EndWrite, Tick, Restart
  <2>2. ~failed /\ at > Len(job)
    BY <2>1 DEF EndFallBack, Confirmed
  <2>3. at \in Nat
    BY DEF TypeInv, TypeOK
  <2>4. job = NormalWrites /\ (at > 1 => inv[142] = 2) /\ (at > 2 => inv[143] = PowerMax)
    BY <2>2 DEF FallInv
  <2> QED
    BY <2>2, <2>3, <2>4, NormalEntries
<1> QED
  BY <1>1, <1>2, InitType, StepType, StepFall, PTL DEF Spec, FallBackConfirmed

-----------------------------------------------------------------------------
(* What the inverter runs when all is quiet, where no write is lost and a  *)
(* restart finds on record what it has to undo.                            *)

(* A restart forgets every request. It starts from the record: a forced    *)
(* mode there is undone, Normal is taken for what the inverter runs.       *)
RestartsRecorded == restarts' # restarts => nvsMode # "Normal" \/ inv = NormalRegs

Applying     == \E c \in Clients : caller[c].pc = "apply"
ModePending  == Applying \/ (writeFull /\ notified)
PowerPending == notified \/ guard # 0 \/ \E c \in Clients : caller[c].pc # "idle"

(* The two halves of Holds. *)
Runs(m) ==
  /\ m = "Normal" => inv = NormalRegs
  /\ m = "Discharge" => inv[142] = 3
  /\ m = "Charge" => inv[127] = ChargeSoc /\ inv[166] = ChargeSoc /\ inv[172] = 1
AtPower(m, p) ==
  /\ m = "Discharge" => inv[143] = p
  /\ m = "Charge" => inv[126] = p /\ inv[128] = p \div 50

FullFor(m)  == \E p \in RealPowers : job = ModeWrites(m, p)
PowerFor(m) == m # "Normal" /\ \E p \in RealPowers : job = PowerWrites(m, p)

(* The task's writes are one of the programs, and those already done have  *)
(* arrived. Unless a mode change is still to be picked up, the inverter    *)
(* runs the mode or is on its way to it; unless a power change is, the     *)
(* same holds of the power. A restart leaves both to the undo, whose first *)
(* round is still to come.                                                 *)
UndoToCome == undoPending /\ task = "wait"
Programs == task # "wait" => \E m \in Modes : FullFor(m) \/ PowerFor(m)
Written  == task # "wait" => \A i \in 1..(at - 1) : inv[job[i].reg] = job[i].val
ModeOnWay ==
  ~ModePending /\ ~UndoToCome =>
    /\ task = "wait" => Runs(mode)
    /\ task # "wait" => FullFor(mode) \/ (PowerFor(mode) /\ Runs(mode))
PowerOnWay ==
  ~ModePending /\ ~PowerPending /\ ~UndoToCome =>
    /\ task = "wait" => AtPower(mode, power)
    /\ task # "wait" => \/ job = ModeWrites(mode, power)
                        \/ mode # "Normal" /\ job = PowerWrites(mode, power)

SettleInv ==
  /\ ~failed /\ (undoPending => task # "write")
  /\ Programs /\ Written /\ ModeOnWay /\ PowerOnWay

Distinct(s) == \A i, j \in 1..Len(s) : i # j => s[i].reg # s[j].reg

(* No program writes a register twice. *)
LEMMA ProgramDistinct ==
  ASSUME NEW m \in Modes, NEW p
  PROVE  Distinct(ModeWrites(m, p)) /\ Distinct(PowerWrites(m, p))
<1>1. Distinct(NormalWrites)
  BY DEF Distinct, NormalWrites, Verified, Raw
<1>2. Distinct(ChargeWrites(p))
  BY DEF Distinct, ChargeWrites, Verified, Raw
<1>3. Distinct(DischargeWrites(p))
  BY DEF Distinct, DischargeWrites, Verified, Raw
<1>4. Distinct(PowerWrites(m, p))
  BY DEF Distinct, PowerWrites, Verified, Raw
<1> QED
  BY <1>1, <1>2, <1>3, <1>4 DEF ModeWrites, Modes

(* A program whose writes have all arrived has set what it is for. *)
LEMMA FullDone ==
  ASSUME NEW m \in Modes, NEW p, job = ModeWrites(m, p), inv \in [Regs -> Nat],
         \A i \in 1..Len(job) : inv[job[i].reg] = job[i].val
  PROVE  Runs(m) /\ AtPower(m, p)
<1>1. CASE m = "Normal"
  <2>1. job = NormalWrites
    BY <1>1 DEF ModeWrites
  <2>2. /\ inv[142] = 2 /\ inv[143] = PowerMax /\ inv[126] = 5000 /\ inv[127] = 10
        /\ inv[128] = 40 /\ inv[166] = 13 /\ inv[172] = 0
    BY <2>1 DEF NormalWrites, Verified, Raw
  <2>3. inv = NormalRegs
    BY <2>2 DEF NormalRegs, Regs
  <2> QED
    BY <1>1, <2>3 DEF Runs, AtPower
<1>2. CASE m = "Charge"
  <2>1. job = ChargeWrites(p)
    BY <1>2 DEF ModeWrites
  <2>2. /\ inv[126] = p /\ inv[127] = ChargeSoc /\ inv[128] = p \div 50
        /\ inv[166] = ChargeSoc /\ inv[172] = 1
    BY <2>1 DEF ChargeWrites, Verified, Raw
  <2> QED
    BY <1>2, <2>2 DEF Runs, AtPower
<1>3. CASE m = "Discharge"
  <2>1. job = DischargeWrites(p)
    BY <1>3 DEF ModeWrites
  <2>2. inv[142] = 3 /\ inv[143] = p
    BY <2>1 DEF DischargeWrites, Verified
  <2> QED
    BY <1>3, <2>2 DEF Runs, AtPower
<1> QED
  BY <1>1, <1>2, <1>3 DEF Modes

LEMMA PowerDone ==
  ASSUME NEW m \in Modes, m # "Normal", NEW p, job = PowerWrites(m, p),
         \A i \in 1..Len(job) : inv[job[i].reg] = job[i].val
  PROVE  AtPower(m, p)
BY DEF PowerWrites, Verified, Raw, AtPower, Modes

(* Steps that leave the task, the registers and the mode alone keep the    *)
(* invariant if they announce what they change.                            *)
LEMMA CallerStep ==
  ASSUME TypeInv, SettleInv, UNCHANGED << writer, undoPending >>,
         ModePending \/ mode' # mode => ModePending',
         ModePending \/ PowerPending \/ mode' # mode \/ power' # power
            => ModePending' \/ PowerPending'
  PROVE  SettleInv'
<1> USE DEF writer
<1>1. Programs' /\ Written'
  BY DEF SettleInv, Programs, FullFor, PowerFor, Written
<1>2. ModeOnWay'
  BY DEF SettleInv, ModeOnWay, FullFor, PowerFor, Runs, UndoToCome
<1>3. PowerOnWay'
  BY DEF SettleInv, PowerOnWay, AtPower, UndoToCome
<1> QED
  BY <1>1, <1>2, <1>3 DEF SettleInv

(* The fallback starts the whole Normal program.                           *)
LEMMA FallBackStep ==
  ASSUME TypeInv, ~failed', FallBack, undoPending' = undoPending
  PROVE  SettleInv'
<1>1. /\ task' = "fall" /\ mode' = "Normal" /\ at' = 1
      /\ job' = NormalWrites
  BY DEF FallBack
<1>2. \A p \in RealPowers : job' = ModeWrites("Normal", p)
  BY <1>1 DEF ModeWrites
<1>3. power' \in RealPowers
  BY DEF FallBack, TypeInv, TypeOK
<1>4. FullFor("Normal")' /\ job' = ModeWrites("Normal", power')
  BY <1>2, <1>3 DEF FullFor
<1>5. Programs' /\ Written'
  BY <1>1, <1>4 DEF Programs, Written, Modes
<1>6. ModeOnWay' /\ PowerOnWay'
  BY <1>1, <1>3, <1>4 DEF ModeOnWay, PowerOnWay, FullFor
<1> QED
  BY <1>1, <1>5, <1>6 DEF SettleInv

LEMMA StepSettle ==
  ASSUME WritesMayFail = FALSE, TypeInv, SettleInv, [Next]_vars, [RestartsRecorded]_vars
  PROVE  SettleInv'
<1>1. ASSUME NEW c \in Clients, NEW k \in Kinds, NEW m \in Modes, NEW p \in AskedPowers,
             BeginApply(c, k, m, p)
      PROVE  SettleInv'
  <2>1. caller'[c].pc = "apply"
    BY <1>1 DEF BeginApply, TypeInv, TypeOK
  <2>2. ModePending'
    BY <2>1 DEF ModePending, Applying
  <2> QED
    BY <1>1, <2>2, CallerStep DEF BeginApply, undo
<1>2. ASSUME NEW c \in Clients, FinishApply(c) PROVE SettleInv'
  BY <1>2, CallerStep DEF FinishApply, undo, ModePending
<1>3. ASSUME NEW c \in Clients, NEW p \in AskedPowers, BeginRetune(c, p) PROVE SettleInv'
  <2>1. caller'[c].pc = "retune" /\ \A d \in Clients : d # c => caller'[d] = caller[d]
    BY <1>3 DEF BeginRetune, TypeInv, TypeOK
  <2>2. caller[c].pc = "idle"
    BY <1>3 DEF BeginRetune
  <2>3. Applying => Applying'
    BY <2>1, <2>2 DEF Applying
  <2>4. ModePending => ModePending'
    BY <1>3, <2>3 DEF BeginRetune, ModePending
  <2>5. PowerPending'
    BY <2>1 DEF PowerPending
  <2> QED
    BY <1>3, <2>4, <2>5, CallerStep DEF BeginRetune, undo
<1>4. ASSUME NEW c \in Clients, FinishRetune(c) PROVE SettleInv'
  <2>1. \A d \in Clients : d # c => caller'[d] = caller[d]
    BY <1>4 DEF FinishRetune, TypeInv, TypeOK
  <2>2. caller[c].pc = "retune"
    BY <1>4 DEF FinishRetune
  <2>3. Applying => Applying'
    BY <2>1, <2>2 DEF Applying
  <2>4. ModePending => ModePending'
    BY <1>4, <2>3 DEF FinishRetune, ModePending
  <2>5. PowerPending'
    BY <1>4 DEF FinishRetune, PowerPending
  <2> QED
    BY <1>4, <2>4, <2>5, CallerStep DEF FinishRetune, request, undo
<1>5. ASSUME NEW p \in GuardPowers, GuardDecide(p) PROVE SettleInv'
  <2>1. guard' # 0
    BY <1>5, CtrlAssumption DEF GuardDecide
  <2>2. PowerPending' /\ (ModePending => ModePending')
    BY <1>5, <2>1 DEF GuardDecide, PowerPending, ModePending, Applying
  <2> QED
    BY <1>5, <2>2, CallerStep DEF GuardDecide, request, undo
<1>6. CASE GuardThrottle
  <2>1. PowerPending' /\ (ModePending => ModePending')
    BY <1>6 DEF GuardThrottle, PowerPending, ModePending, Applying
  <2> QED
    BY <1>6, <2>1, CallerStep DEF GuardThrottle, undo
<1>7. CASE WakeUndo
  BY <1>7, FallBackStep DEF WakeUndo, FallBack
<1>8. CASE WakeExpired
  BY <1>8, FallBackStep DEF WakeExpired, FallBack
<1>9. CASE WakePending
  <2>1. /\ task = "wait" /\ task' = "write" /\ at' = 1 /\ job' = Round
        /\ notified' = FALSE /\ ~undoPending /\ ~failed'
        /\ UNCHANGED << mode, power, inv, undoPending, caller, guard >>
    BY <1>9 DEF WakePending, request, undo
  <2>2. mode \in Modes /\ power \in RealPowers
    BY DEF TypeInv, TypeOK
  <2>3. \/ job' = ModeWrites(mode, power)
        \/ mode # "Normal" /\ job' = PowerWrites(mode, power) /\ ~writeFull
    BY <2>1 DEF Round
  <2>4. FullFor(mode)' \/ (PowerFor(mode)' /\ ~writeFull)
    BY <2>1, <2>2, <2>3 DEF FullFor, PowerFor
  <2>5. Programs' /\ Written'
    BY <2>1, <2>2, <2>4 DEF Programs, Written
  <2>6. ~ModePending' /\ ~writeFull => ~ModePending
    BY <2>1 DEF ModePending, Applying
  <2>7. ModeOnWay'
    BY <2>1, <2>4, <2>6 DEF ModeOnWay, SettleInv, Runs, FullFor, PowerFor, UndoToCome
  <2>8. PowerOnWay'
    <3>1. \/ job' = ModeWrites(mode', power')
          \/ mode' # "Normal" /\ job' = PowerWrites(mode', power')
      BY <2>1, <2>3, Zenon
    <3> QED
      BY <2>1, <3>1 DEF PowerOnWay
  <2> QED
    BY <2>1, <2>5, <2>7, <2>8 DEF SettleInv
<1>10. CASE WriteRegister
  <2>1. /\ task # "wait" /\ at <= Len(job) /\ at' = at + 1
        /\ inv' = [inv EXCEPT ![job[at].reg] = job[at].val]
        /\ UNCHANGED << task, job, mode, power, undoPending, failed >>
        /\ UNCHANGED << writeFull, notified, caller, guard >>
    BY <1>10 DEF WriteRegister, request, undo
  <2>2. at \in 1..Len(job) /\ job[at] \in RegWrites /\ inv \in [Regs -> Nat]
        /\ job \in Seq(RegWrites)
    BY <2>1 DEF TypeInv, TypeOK
  <2>3. job[at].reg \in Regs
    BY <2>2 DEF RegWrites
  <2>4. Distinct(job)
    BY <2>1, ProgramDistinct DEF SettleInv, Programs, FullFor, PowerFor
  <2>5. Written'
    <3> SUFFICES ASSUME NEW i \in 1..at
                 PROVE  inv'[job[i].reg] = job[i].val
      BY <2>1, <2>2 DEF Written
    <3>1. job[i].reg \in Regs
      <4>1. i \in 1..Len(job)
        BY <2>2
      <4>2. job[i] \in RegWrites
        BY <2>2, <4>1
      <4> QED
        BY <4>2 DEF RegWrites
    <3>2. CASE i = at
      BY <2>1, <2>2, <2>3, <3>2
    <3>3. CASE i # at
      <4>1. inv[job[i].reg] = job[i].val /\ job[i].reg # job[at].reg
        BY <2>1, <2>2, <2>4, <3>3 DEF Written, SettleInv, Distinct
      <4> QED
        BY <2>1, <2>2, <3>1, <4>1
    <3> QED
      BY <3>2, <3>3
  <2>6. Programs' /\ PowerOnWay'
    BY <2>1 DEF SettleInv, Programs, PowerOnWay, FullFor, PowerFor, ModePending,
       PowerPending, Applying, UndoToCome
  <2>7. PowerFor(mode) /\ Runs(mode) => Runs(mode)'
    <3> SUFFICES ASSUME PowerFor(mode), Runs(mode) PROVE Runs(mode)'
      OBVIOUS
    <3>1. mode # "Normal" /\ job[at].reg \in {126, 128, 143}
      BY <2>2 DEF PowerFor, PowerWrites, Verified, Raw
    <3>2. \A r \in Regs : r \notin {126, 128, 143} => inv'[r] = inv[r]
      BY <2>1, <2>2, <2>3, <3>1
    <3> QED
      BY <2>1, <3>1, <3>2 DEF Runs, Regs
  <2>8. ModeOnWay'
    BY <2>1, <2>7
    DEF SettleInv, ModeOnWay, FullFor, PowerFor, ModePending, Applying, UndoToCome
  <2> QED
    BY <2>1, <2>5, <2>6, <2>8 DEF SettleInv
<1>11. CASE EndWrite \/ EndFallBack
  <2>1. /\ task # "wait" /\ at > Len(job) /\ task' = "wait"
        /\ UNCHANGED << inv, mode, power, writeFull, notified, caller, guard, failed >>
    BY <1>11 DEF EndWrite, EndFallBack, request
  <2>8. ~undoPending'
    <3>1. CASE EndWrite
      BY <3>1 DEF EndWrite, undo, SettleInv
    <3>2. CASE EndFallBack
      BY <3>2, Zenon DEF EndFallBack, UndoOver, SettleInv
    <3> QED
      BY <1>11, <3>1, <3>2
  <2>2. at = Len(job) + 1 /\ Len(job) \in Nat /\ inv \in [Regs -> Nat]
        /\ mode \in Modes
    BY <2>1 DEF TypeInv, TypeOK
  <2>3. \A i \in 1..Len(job) : inv[job[i].reg] = job[i].val
    BY <2>1, <2>2 DEF SettleInv, Written
  <2>4. \A p : job = ModeWrites(mode, p) => Runs(mode) /\ AtPower(mode, p)
    BY <2>2, <2>3, FullDone
  <2>5. \A p : mode # "Normal" /\ job = PowerWrites(mode, p) => AtPower(mode, p)
    BY <2>2, <2>3, PowerDone
  <2>6. ModeOnWay'
    BY <2>1, <2>4
    DEF SettleInv, ModeOnWay, FullFor, Runs, ModePending, Applying, UndoToCome
  <2>7. PowerOnWay'
    BY <2>1, <2>4, <2>5
    DEF SettleInv, PowerOnWay, AtPower, ModePending, PowerPending, Applying, UndoToCome
  <2> QED
    BY <2>1, <2>6, <2>7, <2>8 DEF SettleInv, Programs, Written
<1>12. CASE Tick
  BY <1>12, CallerStep
  DEF Tick, request, undo, ModePending, PowerPending, Applying
<1>13. CASE Restart
  <2>1. /\ task' = "wait" /\ ~failed' /\ mode' = nvsMode /\ inv' = inv
        /\ undoPending' = (nvsMode # "Normal")
    BY <1>13 DEF Restart
  <2>2. nvsMode # "Normal" \/ inv = NormalRegs
    <3>1. restarts' # restarts
      BY <1>13 DEF Restart, TypeInv, TypeOK
    <3> QED
      BY <3>1 DEF RestartsRecorded, vars
  <2>3. undoPending' \/ Runs(mode)'
    BY <2>1, <2>2 DEF Runs
  <2>4. undoPending' \/ AtPower(mode, power)'
    BY <2>1 DEF AtPower
  <2> QED
    BY <2>1, <2>3, <2>4
    DEF SettleInv, Programs, Written, ModeOnWay, PowerOnWay, UndoToCome
<1>14. CASE UNCHANGED vars
  BY <1>14, CallerStep DEF vars, writer, ModePending, PowerPending, Applying
<1> QED
  BY <1>1, <1>2, <1>3, <1>4, <1>5, <1>6, <1>7, <1>8, <1>9, <1>10, <1>11, <1>12,
     <1>13, <1>14 DEF Next

(* However applies, retunes, throttles, fallbacks and restarts interleave: *)
(* with no write lost, the inverter ends in the mode and at the power      *)
(* deye_ctrl reports whenever the writer has nothing left to do, unless a  *)
(* restart met a forced inverter with Normal on record. So the gap between *)
(* the NVS write and the register writes is the only one.                  *)
THEOREM SettledRecorded ==
  ASSUME WritesMayFail = FALSE
  PROVE  Spec /\ [][RestartsRecorded]_vars => []SettledMatches
<1>1. Init => SettleInv
  BY DEF Init, SettleInv, Programs, Written, ModeOnWay, PowerOnWay, Runs, AtPower
<1>2. TypeInv /\ SettleInv /\ [Next]_vars /\ [RestartsRecorded]_vars => SettleInv'
  BY StepSettle
<1>3. TypeInv /\ SettleInv => SettledMatches
  <2> SUFFICES ASSUME TypeInv, SettleInv, Quiet PROVE Holds(mode, power)
    BY DEF SettledMatches
  <2>1. /\ task = "wait" /\ ~ModePending /\ ~PowerPending /\ ~UndoToCome
        /\ mode \in Modes
    BY DEF Quiet, ModePending, PowerPending, Applying, UndoToCome, TypeInv, TypeOK
  <2>2. Runs(mode) /\ AtPower(mode, power)
    BY <2>1 DEF SettleInv, ModeOnWay, PowerOnWay
  <2>3. CASE mode = "Normal"
    BY <2>2, <2>3 DEF Holds, Runs
  <2>4. CASE mode = "Charge"
    BY <2>2, <2>4 DEF Holds, Runs, AtPower
  <2>5. CASE mode = "Discharge"
    BY <2>2, <2>5 DEF Holds, Runs, AtPower
  <2> QED
    BY <2>1, <2>3, <2>4, <2>5 DEF Modes
<1> QED
  BY <1>1, <1>2, <1>3, InitType, StepType, PTL DEF Spec

(* The same where nothing restarts.                                        *)
THEOREM SettledSound ==
  ASSUME WritesMayFail = FALSE, MaxRestarts = 0
  PROVE  Spec => []SettledMatches
<1>1. TypeInv /\ [Next]_vars => [RestartsRecorded]_vars
  <2> SUFFICES ASSUME TypeInv, [Next]_vars, restarts' # restarts PROVE FALSE
    BY DEF RestartsRecorded
  <2>1. Restart
    BY DEF Next, vars, bounds, BeginApply, FinishApply, BeginRetune, FinishRetune,
       GuardDecide, GuardThrottle, WakeUndo, WakeExpired, FallBack, WakePending,
       WriteRegister, EndWrite, EndFallBack, Tick
  <2> QED
    BY <2>1 DEF Restart, TypeInv, TypeOK
<1>2. Spec => [][RestartsRecorded]_vars
  BY <1>1, InitType, StepType, PTL DEF Spec
<1> QED
  BY <1>2, SettledRecorded, PTL

-----------------------------------------------------------------------------
(* What a round without a failed read-back says, however many writes are   *)
(* lost.                                                                   *)

(* The register a power is read back from, and for Normal the two that end *)
(* an export.                                                              *)
ReadBack(m, p) ==
  /\ m = "Normal" => inv[142] = 2 /\ inv[143] = PowerMax
  /\ m = "Discharge" => inv[143] = p
  /\ m = "Charge" => inv[128] = p \div 50

(* eff_sweep.c:141-148 takes deye_ctrl's count of failed read-backs for    *)
(* the answer to the question whether the inverter took the power.         *)
ReadBackTrue == Quiet /\ ~failed => ReadBack(mode, power)

(* A restart that finds Normal on record finds no export.                  *)
RestartsUnforced ==
  restarts' # restarts => nvsMode # "Normal" \/ ReadBack("Normal", 0)

Current == \/ job = ModeWrites(mode, power)
           \/ mode # "Normal" /\ job = PowerWrites(mode, power)

(* While no read-back of the round has failed, what was read back is so.   *)
(* With no new power under way, the round is for the present one, and when *)
(* it is over and none has failed the inverter has it. A call changes mode *)
(* and power and can end only after it has raised the notification.        *)
ReadInv ==
  /\ undoPending => task # "write"
  /\ task # "wait" => \E m \in Modes : FullFor(m) \/ PowerFor(m)
  /\ task # "wait" /\ ~failed =>
       \A i \in 1..(at - 1) : job[i].verify => inv[job[i].reg] = job[i].val
  /\ ~PowerPending /\ ~UndoToCome =>
       /\ task # "wait" => Current
       /\ task = "wait" /\ ~failed => ReadBack(mode, power)

(* The last round for a mode at a power reads that power back.             *)
LEMMA CurrentRead ==
  ASSUME NEW m \in Modes, NEW p,
         job = ModeWrites(m, p) \/ (m # "Normal" /\ job = PowerWrites(m, p)),
         \A i \in 1..Len(job) : job[i].verify => inv[job[i].reg] = job[i].val
  PROVE  ReadBack(m, p)
<1>1. CASE m = "Normal"
  <2>1. job = NormalWrites
    BY <1>1 DEF ModeWrites
  <2>2. inv[142] = 2 /\ inv[143] = PowerMax
    BY <2>1 DEF NormalWrites, Verified, Raw
  <2> QED
    BY <1>1, <2>2 DEF ReadBack
<1>2. CASE m = "Charge"
  <2>1. job = ChargeWrites(p) \/ job = << Raw(126, p), Verified(128, p \div 50) >>
    BY <1>2 DEF ModeWrites, PowerWrites
  <2>2. CASE job = ChargeWrites(p)
    <3>1. job[3] = Verified(128, p \div 50) /\ 3 \in 1..Len(job)
      BY <2>2 DEF ChargeWrites
    <3>2. inv[128] = p \div 50
      BY <3>1 DEF Verified
    <3> QED
      BY <1>2, <3>2 DEF ReadBack
  <2>3. CASE job = << Raw(126, p), Verified(128, p \div 50) >>
    <3>1. job[2] = Verified(128, p \div 50) /\ 2 \in 1..Len(job)
      BY <2>3
    <3>2. inv[128] = p \div 50
      BY <3>1 DEF Verified
    <3> QED
      BY <1>2, <3>2 DEF ReadBack
  <2> QED
    BY <2>1, <2>2, <2>3
<1>3. CASE m = "Discharge"
  <2>1. job = DischargeWrites(p) \/ job = << Verified(143, p) >>
    BY <1>3 DEF ModeWrites, PowerWrites
  <2>2. inv[143] = p
    BY <2>1 DEF DischargeWrites, Verified
  <2> QED
    BY <1>3, <2>2 DEF ReadBack
<1> QED
  BY <1>1, <1>2, <1>3 DEF Modes

(* Callers, guard and clock: they raise what they change.                  *)
LEMMA CallerRead ==
  ASSUME ReadInv, UNCHANGED << writer, undoPending >>,
         PowerPending \/ mode' # mode \/ power' # power => PowerPending'
  PROVE  ReadInv'
<1> USE DEF writer
<1>1. (undoPending => task # "write")'
  BY DEF ReadInv
<1>2. (task # "wait" => \E m \in Modes : FullFor(m) \/ PowerFor(m))'
  BY DEF ReadInv, FullFor, PowerFor
<1>3. (task # "wait" /\ ~failed =>
         \A i \in 1..(at - 1) : job[i].verify => inv[job[i].reg] = job[i].val)'
  BY DEF ReadInv
<1>4. (~PowerPending /\ ~UndoToCome =>
         /\ task # "wait" => Current
         /\ task = "wait" /\ ~failed => ReadBack(mode, power))'
  BY DEF ReadInv, UndoToCome, Current, ReadBack
<1> QED
  BY <1>1, <1>2, <1>3, <1>4 DEF ReadInv

(* A round starts with nothing read back.                                  *)
LEMMA RoundRead ==
  ASSUME TypeInv, task' # "wait", undoPending' => task' # "write", at' = 1,
         mode' \in Modes, power' \in RealPowers, Current'
  PROVE  ReadInv'
<1>1. (FullFor(mode) \/ PowerFor(mode))'
  BY DEF Current, FullFor, PowerFor
<1> QED
  BY <1>1 DEF ReadInv, UndoToCome

LEMMA StepRead ==
  ASSUME TypeInv, TypeInv', ReadInv, [Next]_vars, [RestartsUnforced]_vars
  PROVE  ReadInv'
<1>0. mode \in Modes /\ power \in RealPowers /\ mode' \in Modes /\ power' \in RealPowers
  BY DEF TypeInv, TypeOK
<1>1. ASSUME NEW c \in Clients, NEW k \in Kinds, NEW m \in Modes, NEW p \in AskedPowers,
             BeginApply(c, k, m, p)
      PROVE  ReadInv'
  <2>1. caller'[c].pc = "apply"
    BY <1>1 DEF BeginApply, TypeInv, TypeOK
  <2>2. PowerPending'
    BY <2>1 DEF PowerPending
  <2> QED
    BY <1>1, <2>2, CallerRead DEF BeginApply, undo
<1>2. ASSUME NEW c \in Clients, FinishApply(c) PROVE ReadInv'
  BY <1>2, CallerRead DEF FinishApply, undo, PowerPending
<1>3. ASSUME NEW c \in Clients, NEW p \in AskedPowers, BeginRetune(c, p) PROVE ReadInv'
  <2>1. caller'[c].pc = "retune"
    BY <1>3 DEF BeginRetune, TypeInv, TypeOK
  <2>2. PowerPending'
    BY <2>1 DEF PowerPending
  <2> QED
    BY <1>3, <2>2, CallerRead DEF BeginRetune, undo
<1>4. ASSUME NEW c \in Clients, FinishRetune(c) PROVE ReadInv'
  BY <1>4, CallerRead DEF FinishRetune, undo, PowerPending
<1>5. ASSUME NEW p \in GuardPowers, GuardDecide(p) PROVE ReadInv'
  <2>1. guard' # 0
    BY <1>5, CtrlAssumption DEF GuardDecide
  <2>2. PowerPending'
    BY <2>1 DEF PowerPending
  <2> QED
    BY <1>5, <2>2, CallerRead DEF GuardDecide, undo
<1>6. CASE GuardThrottle
  BY <1>6, CallerRead DEF GuardThrottle, undo, PowerPending
<1>7. CASE WakeUndo \/ WakeExpired
  <2>1. /\ task' = "fall" /\ at' = 1 /\ mode' = "Normal" /\ job' = NormalWrites
    BY <1>7 DEF WakeUndo, WakeExpired, FallBack
  <2>2. Current'
    BY <2>1 DEF Current, ModeWrites
  <2> QED
    BY <1>0, <2>1, <2>2, RoundRead
<1>8. CASE WakePending
  <2>1. /\ task' = "write" /\ at' = 1 /\ job' = Round /\ ~undoPending'
        /\ UNCHANGED << mode, power >>
    BY <1>8 DEF WakePending, request, undo
  <2>2. Current'
    BY <2>1 DEF Current, Round
  <2> QED
    BY <1>0, <2>1, <2>2, RoundRead
<1>9. CASE WriteRegister
  <2>1. /\ task # "wait" /\ at <= Len(job) /\ at' = at + 1
        /\ UNCHANGED << task, job, mode, power, undoPending >>
        /\ UNCHANGED << notified, caller, guard >>
    BY <1>9 DEF WriteRegister, request, undo
  <2>2. at \in 1..Len(job) /\ job[at] \in RegWrites /\ inv \in [Regs -> Nat]
        /\ job \in Seq(RegWrites)
    BY <2>1 DEF TypeInv, TypeOK
  <2>3. \/ inv' = [inv EXCEPT ![job[at].reg] = job[at].val] /\ failed' = failed
        \/ /\ inv' = inv \/ inv' = [inv EXCEPT ![job[at].reg] = job[at].val]
           /\ failed' = (failed \/ job[at].verify)
    BY <1>9 DEF WriteRegister
  <2>4. job[at].reg \in Regs
    BY <2>2 DEF RegWrites
  <2>5. \A r \in Regs : r # job[at].reg => inv'[r] = inv[r]
    BY <2>2, <2>3
  <2>6. ~failed' => ~failed /\ (job[at].verify => inv'[job[at].reg] = job[at].val)
    <3>1. ~failed' => ~failed
      BY <2>3, Zenon
    <3>2. ~failed' /\ job[at].verify => inv' = [inv EXCEPT ![job[at].reg] = job[at].val]
      BY <2>3, Zenon
    <3> QED
      BY <2>2, <2>4, <3>1, <3>2
  <2>7. Distinct(job)
    BY <2>1, ProgramDistinct DEF ReadInv, FullFor, PowerFor
  <2>8. (task # "wait" /\ ~failed =>
           \A i \in 1..(at - 1) : job[i].verify => inv[job[i].reg] = job[i].val)'
    <3> SUFFICES ASSUME ~failed', NEW i \in 1..at, job[i].verify
                 PROVE  inv'[job[i].reg] = job[i].val
      BY <2>1, <2>2
    <3>1. CASE i = at
      BY <2>6, <3>1
    <3>2. CASE i # at
      <4>1. i \in 1..Len(job) /\ i \in 1..(at - 1)
        BY <2>2, <3>2
      <4>2. job[i] \in RegWrites
        BY <2>2, <4>1
      <4>3. job[i].reg \in Regs
        BY <4>2 DEF RegWrites
      <4>4. job[i].reg # job[at].reg
        BY <2>2, <2>7, <3>2, <4>1 DEF Distinct
      <4>5. inv[job[i].reg] = job[i].val
        BY <2>1, <2>6, <4>1 DEF ReadInv
      <4> QED
        BY <2>5, <4>3, <4>4, <4>5
    <3> QED
      BY <3>1, <3>2
  <2>9. (task # "wait" => \E m \in Modes : FullFor(m) \/ PowerFor(m))'
    BY <2>1 DEF ReadInv, FullFor, PowerFor
  <2>10. PowerPending' \/ Current'
    BY <2>1 DEF ReadInv, PowerPending, UndoToCome, Current
  <2>11. undoPending' => task' # "write"
    BY <2>1 DEF ReadInv
  <2> QED
    BY <2>1, <2>8, <2>9, <2>10, <2>11 DEF ReadInv
<1>10. CASE EndWrite \/ EndFallBack
  <2>1. /\ task # "wait" /\ at > Len(job) /\ task' = "wait"
        /\ UNCHANGED << inv, mode, power, notified, caller, guard, failed >>
    BY <1>10 DEF EndWrite, EndFallBack, request
  <2>2. at = Len(job) + 1 /\ Len(job) \in Nat
    BY <2>1 DEF TypeInv, TypeOK
  <2>3. ~failed => \A i \in 1..Len(job) : job[i].verify => inv[job[i].reg] = job[i].val
    <3>1. \A i \in 1..Len(job) : i \in 1..(at - 1)
      BY <2>2
    <3> QED
      BY <2>1, <3>1 DEF ReadInv
  <2>4. ~failed /\ Current => ReadBack(mode, power)
    BY <1>0, <2>3, CurrentRead DEF Current
  <2>5. ~PowerPending' => Current
    BY <2>1 DEF ReadInv, PowerPending, UndoToCome
  <2>6. ~PowerPending' /\ ~failed' => ReadBack(mode, power)'
    BY <2>1, <2>4, <2>5 DEF ReadBack
  <2> QED
    BY <2>1, <2>6 DEF ReadInv
<1>11. CASE Tick
  BY <1>11, CallerRead DEF Tick, request, undo, PowerPending
<1>12. CASE Restart
  <2>1. /\ task' = "wait" /\ mode' = nvsMode /\ inv' = inv
        /\ undoPending' = (nvsMode # "Normal")
    BY <1>12 DEF Restart
  <2>2. nvsMode # "Normal" \/ ReadBack("Normal", 0)
    <3>1. restarts' # restarts
      BY <1>12 DEF Restart, TypeInv, TypeOK
    <3> QED
      BY <3>1 DEF RestartsUnforced, vars
  <2>3. undoPending' \/ ReadBack(mode, power)'
    BY <2>1, <2>2 DEF ReadBack
  <2> QED
    BY <2>1, <2>3 DEF ReadInv, UndoToCome
<1>13. CASE UNCHANGED vars
  BY <1>13, CallerRead DEF vars, writer, PowerPending
<1> QED
  BY <1>1, <1>2, <1>3, <1>4, <1>5, <1>6, <1>7, <1>8, <1>9, <1>10, <1>11, <1>12,
     <1>13 DEF Next

(* Whatever is lost on the bus and however callers, guard, fallbacks and   *)
(* restarts interleave: when all is quiet and no read-back is counted as   *)
(* failed, the inverter has the power deye_ctrl reports, and in Normal it  *)
(* is back at Zero Export. It is not said that it runs the mode: a retune  *)
(* after a failed mode change clears the count.                            *)
THEOREM ReadBackSound == Spec /\ [][RestartsUnforced]_vars => []ReadBackTrue
<1>1. Init => ReadInv
  BY DEF Init, ReadInv, ReadBack, NormalRegs, Regs
<1>2. TypeInv /\ TypeInv' /\ ReadInv /\ [Next]_vars /\ [RestartsUnforced]_vars => ReadInv'
  BY StepRead
<1>3. ReadInv => ReadBackTrue
  BY DEF ReadInv, ReadBackTrue, Quiet, PowerPending, UndoToCome
<1> QED
  BY <1>1, <1>2, <1>3, InitType, StepType, PTL DEF Spec

-----------------------------------------------------------------------------
(* The abstract specification: a request is accepted at once, the device   *)
(* catches up in the background, and that work is over only with the last  *)
(* request in the device.                                                  *)

(* Only a call, the guard or a fallback changes what is asked for, and     *)
(* each leaves work behind.                                                *)
LEMMA QuietKeepsRequest ==
  ASSUME MaxRestarts = 0, TypeInv, [Next]_vars, Quiet'
  PROVE  mode' = mode /\ power' = power
<1>1. ASSUME NEW c \in Clients, NEW k \in Kinds, NEW m \in Modes, NEW p \in AskedPowers,
             BeginApply(c, k, m, p)
      PROVE  FALSE
  <2>1. caller'[c].pc = "apply"
    BY <1>1 DEF BeginApply, TypeInv, TypeOK
  <2> QED
    BY <2>1 DEF Quiet
<1>2. ASSUME NEW c \in Clients, NEW p \in AskedPowers, BeginRetune(c, p)
      PROVE  FALSE
  <2>1. caller'[c].pc = "retune"
    BY <1>2 DEF BeginRetune, TypeInv, TypeOK
  <2> QED
    BY <2>1 DEF Quiet
<1>3. CASE GuardThrottle \/ WakeUndo \/ WakeExpired \/ WakePending
  BY <1>3 DEF GuardThrottle, WakeUndo, WakeExpired, FallBack, WakePending, Quiet
<1>4. CASE Restart
  BY <1>4 DEF Restart, TypeInv, TypeOK
<1>5. CASE \/ \E c \in Clients : FinishApply(c) \/ FinishRetune(c)
           \/ \E p \in GuardPowers : GuardDecide(p)
           \/ WriteRegister \/ EndWrite \/ EndFallBack \/ Tick \/ UNCHANGED vars
  BY <1>5 DEF FinishApply, FinishRetune, GuardDecide, WriteRegister, EndWrite, EndFallBack,
     Tick, vars, request
<1> QED
  BY <1>1, <1>2, <1>3, <1>4, <1>5 DEF Next

(* With nothing under way only the clock runs, and the inverter stays.     *)
LEMMA QuietStays ==
  ASSUME MaxRestarts = 0, TypeInv, [Next]_vars, Quiet, Quiet'
  PROVE  inv' = inv
<1>1. CASE WakeUndo \/ WakeExpired \/ WakePending \/ WriteRegister \/ EndWrite \/ EndFallBack
  BY <1>1 DEF WakeUndo, WakeExpired, FallBack, WakePending, WriteRegister, EndWrite, EndFallBack, Quiet
<1>2. CASE Restart
  BY <1>2 DEF Restart, TypeInv, TypeOK
<1>3. CASE ~(WakeUndo \/ WakeExpired \/ WakePending \/ WriteRegister \/ EndWrite \/ EndFallBack \/ Restart)
  BY <1>3 DEF Next, BeginApply, FinishApply, BeginRetune, FinishRetune, GuardDecide, GuardThrottle,
     Tick, vars, writer
<1> QED
  BY <1>1, <1>2, <1>3

LEMMA HoldsBoolean == TypeInv => Holds(mode, power) \in BOOLEAN
BY DEF TypeInv, TypeOK, Holds, Modes

LEMMA HoldsBooleanNext == TypeInv' => Holds(mode, power)' \in BOOLEAN
<1>1. (TypeInv => Holds(mode, power) \in BOOLEAN)'
  BY HoldsBoolean, PTL
<1> QED
  BY <1>1

LEMMA InitPromise == Init => Promise!Init
<1> SUFFICES ASSUME Init PROVE Promise!Init
  OBVIOUS
<1>1. Quiet
  BY DEF Init, Quiet, Idle
<1>2. Holds(mode, power)
  BY DEF Init, Holds
<1>3. << mode, power >> \in Modes \X RealPowers
  <2>1. PowerBoot \in RealPowers
    BY PowersAre, PowerRange
  <2>2. mode \in Modes /\ power = PowerBoot
    BY DEF Init, Modes
  <2> QED
    BY <2>1, <2>2
<1> QED
  BY <1>1, <1>2, <1>3, Zenon DEF Promise!Init

LEMMA StepPromise ==
  ASSUME MaxRestarts = 0, TypeInv, TypeInv', SettledMatches', [Next]_vars
  PROVE  [Promise!Next]_(Promise!vars)
<1>1. mode' \in Modes /\ power' \in RealPowers
  BY DEF TypeInv, TypeOK
<1>2. CASE ~Quiet'
  <2>1. << mode, power >>' \in Modes \X RealPowers
    BY <1>1
  <2>2. Holds(mode, power)' \in BOOLEAN
    BY HoldsBooleanNext
  <2>3. (~Quiet)' = TRUE
    BY <1>2, Zenon
  <2> QED
    BY <2>1, <2>2, <2>3, Zenon DEF Promise!Next, Promise!Ask
<1>3. CASE Quiet' /\ ~Quiet
  <2>1. Holds(mode, power)' /\ mode' = mode /\ power' = power
    BY <1>3, QuietKeepsRequest DEF SettledMatches
  <2> QED
    BY <1>3, <2>1, Zenon DEF Promise!Next, Promise!Done
<1>4. CASE Quiet' /\ Quiet
  <2>1. mode' = mode /\ power' = power /\ inv' = inv
    BY <1>4, QuietKeepsRequest, QuietStays
  <2>2. Holds(mode, power)' = Holds(mode, power)
    BY <2>1 DEF Holds
  <2> QED
    BY <1>4, <2>1, <2>2, Zenon DEF Promise!vars
<1> QED
  BY <1>2, <1>3, <1>4

(* Every step of the callers, the guard and the writer is a step of the    *)
(* abstract specification or none of its business, with no write lost and  *)
(* no restart: the safety part of Contract.                                *)
THEOREM ContractSafe ==
  ASSUME WritesMayFail = FALSE, MaxRestarts = 0
  PROVE  Spec => Promise!Init /\ [][Promise!Next]_(Promise!vars)
<1>1. [](TypeInv /\ SettledMatches) /\ [][Next]_vars => [][Promise!Next]_(Promise!vars)
  <2>1. TypeInv /\ SettledMatches /\ (TypeInv /\ SettledMatches)' /\ [Next]_vars
          => [Promise!Next]_(Promise!vars)
    BY StepPromise
  <2> QED
    BY <2>1, PTL
<1>2. Init /\ [][Next]_vars => []TypeInv
  BY InitType, StepType, PTL
<1>3. Spec => []SettledMatches
  BY SettledSound
<1> QED
  BY <1>1, <1>2, <1>3, InitPromise, PTL DEF Spec
=============================================================================
