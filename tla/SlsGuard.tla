------------------------------ MODULE SlsGuard ------------------------------
(***************************************************************************)
(* The SLS export guard of main/sls_guard.h in its loop: sls_guard_tick()  *)
(* of main/modbus_tcp.c measures the export, decides, and lowers or gives  *)
(* back sell power; the inverter follows with a delay; the house load and  *)
(* the user change under it, between its reads and its write as well. Time *)
(* is counted in guard ticks and passes at the end of each.                *)
(***************************************************************************)
EXTENDS Integers

CONSTANTS
  Step, Hyst,      \* SLS_STEP_W, SLS_HYST_W
  Urgent,          \* SLS_URGENT_W
  Hold, Gap,       \* SLS_RESTORE_HOLD_S and SLS_MIN_WRITE_MS, in ticks
  PowerMin,        \* DEYE_POWER_MIN
  MaxExport,       \* what the fuse allows
  UserPowers,      \* sell powers the user asks for
  Loads,           \* what the house takes
  Lag,             \* ticks until the inverter follows a new setting
  MaxChanges       \* bound: changes of load, setting, mode or meter

ASSUME GuardAssumption ==
  /\ Step \in Nat \ {0} /\ Hyst \in Nat /\ Urgent \in Nat
  /\ Hold \in Nat \ {0} /\ Gap \in Nat \ {0} /\ Lag \in Nat \ {0}
  /\ PowerMin \in Nat \ {0} /\ MaxExport \in Nat
  /\ UserPowers \subseteq Nat \ {0} /\ Loads \subseteq Int
  /\ MaxChanges \in Nat

VARIABLES
  active,          \* forced discharge, and the grid reading is fresh
  user, applied,   \* s_user_power_w, s_power_w
  call,            \* the power of a call that has set s_power_w alone, or NoCall
  tick,            \* what the guard has read in this tick
  output, late,    \* what the inverter delivers; ticks it still may lag
  load,            \* house load
  below,           \* ticks since st.below_ms was set, Off when it is 0
  idle,            \* ticks since st.write_ms, at most Gap
  over,            \* ticks that began after the last change and met too much export
                   \* and power to take back
  changes          \* how much of MaxChanges is used

vars == << active, user, applied, call, tick, output, late, load, below, idle, over, changes >>

Off == -1
NoCall == -1
Export == output - load

(* touched is what has changed since the guard looked.                     *)
Ticks ==
  [at : {"idle", "power", "user", "write"}, export : Int, load : Int, power : Nat,
   target : Nat, touched : SUBSET {"load", "mode", "user"}]
NoTick == [at |-> "idle", export |-> 0, load |-> 0, power |-> 0, target |-> 0, touched |-> {}]

-----------------------------------------------------------------------------
(* sls_guard_decide(). C's % truncates toward zero: rounding shrinks the   *)
(* magnitude.                                                              *)
RoundToZero(t) == IF t >= 0 THEN t - (t % Step) ELSE -((-t) - ((-t) % Step))

Bounded(t, u) == LET v == IF t < PowerMin THEN PowerMin ELSE t IN
                 IF v > u THEN u ELSE v

Excess(e) == e > MaxExport

HeadroomAny(e, a, u) == e < MaxExport /\ a < u   \* mutant
Headroom(e, a, u) == e < MaxExport - Hyst /\ a < u

FromUser(e, a, u) == IF Excess(e) THEN u - (e - MaxExport) ELSE a + Step   \* mutant
Wanted(e, a, u) == IF Excess(e) THEN a - (e - MaxExport) ELSE a + Step

Target(e, a, u) == Bounded(RoundToZero(Wanted(e, a, u)), u)

IsUrgent(e) == e - MaxExport > Urgent

-----------------------------------------------------------------------------
Init ==
  /\ active = FALSE /\ load \in Loads
  /\ user \in UserPowers /\ applied = user /\ output = applied /\ late = 0
  /\ call = NoCall /\ tick = NoTick
  /\ below = Off /\ idle = Gap /\ over = 0 /\ changes = 0

(* The inverter follows within Lag ticks of a new setting. *)
Follow ==
  \/ output' = applied /\ late' = 0
  \/ late > 1 /\ late' = late - 1 /\ UNCHANGED output

NextBelow == IF below = Off THEN 0 ELSE below
HeldLongEnough == NextBelow >= Hold

MayWrite(e) == IsUrgent(e) \/ idle >= Gap

Acting(e, a, u) ==
  \/ Excess(e)
  \/ Headroom(e, a, u) /\ HeldLongEnough

Writes(e, a, u) == Acting(e, a, u) /\ Target(e, a, u) # a /\ MayWrite(e)

Older(n, cap) == IF n < cap THEN n + 1 ELSE n

(* deye_ctrl_set_throttled() *)
Throttled(t) == IF t < PowerMin THEN PowerMin ELSE t

(* One tick of the guard in four steps: the mode and the grid reading, the *)
(* power that is set, the user's with the decision, and the write. A tick  *)
(* without a fresh reading, or outside forced discharge, only forgets the  *)
(* headroom. The last step of a tick lets one tick of time pass.           *)
GuardLooks ==
  /\ tick.at = "idle" /\ active
  /\ tick' = [at |-> "power", export |-> Export, load |-> load, power |-> 0, target |-> 0,
              touched |-> IF call = NoCall THEN {} ELSE {"user"}]
  /\ UNCHANGED << active, user, applied, call, output, late, load, below, idle, over, changes >>

GuardReads ==
  /\ tick.at = "power"
  /\ tick' = [tick EXCEPT !.at = "user", !.power = applied]
  /\ UNCHANGED << active, user, applied, call, output, late, load, below, idle, over, changes >>

Counted ==
  over' = IF tick.touched = {} /\ Excess(tick.export) /\ tick.power > PowerMin
          THEN over + 1 ELSE 0

GuardWaits ==
  /\ tick.at = "user" /\ ~Writes(tick.export, tick.power, user)
  /\ Follow /\ Counted /\ tick' = NoTick
  /\ below' = IF Headroom(tick.export, tick.power, user) THEN Older(NextBelow, Hold) ELSE Off
  /\ idle' = Older(idle, Gap)
  /\ UNCHANGED << active, user, applied, call, load, changes >>

GuardDecides ==
  /\ tick.at = "user" /\ Writes(tick.export, tick.power, user)
  /\ tick' = [tick EXCEPT !.at = "write", !.target = Target(tick.export, tick.power, user)]
  /\ below' = Off /\ idle' = 0
  /\ UNCHANGED << active, user, applied, call, output, late, load, over, changes >>

GuardWrites ==
  /\ tick.at = "write"
  /\ applied' = Throttled(tick.target)
  /\ \/ output' = applied /\ late' = Lag          \* the setting before has arrived
     \/ late # 1 /\ UNCHANGED output /\ late' = IF late = 0 THEN Lag ELSE late - 1
  /\ Counted /\ tick' = NoTick
  /\ idle' = Older(idle, Gap)
  /\ UNCHANGED << active, user, call, load, below, changes >>

GuardSleeps ==
  /\ tick.at = "idle" /\ ~active
  /\ Follow
  /\ below' = Off /\ idle' = Older(idle, Gap) /\ over' = 0
  /\ UNCHANGED << active, user, applied, call, tick, load, changes >>

(* The house, the meter and the user.                                      *)
Touch(what) ==
  tick' = IF tick.at = "idle" THEN tick ELSE [tick EXCEPT !.touched = @ \cup {what}]

LoadChanges ==
  /\ changes < MaxChanges /\ changes' = changes + 1 /\ over' = 0 /\ Touch("load")
  /\ load' \in Loads \ {load}
  /\ UNCHANGED << active, user, applied, call, output, late, below, idle >>

MeterOrModeChanges ==
  /\ changes < MaxChanges /\ changes' = changes + 1 /\ over' = 0 /\ Touch("mode")
  /\ active' = ~active
  /\ UNCHANGED << user, applied, call, output, late, load, below, idle >>

(* deye_ctrl_apply() and deye_ctrl_retune() set s_power_w first, then      *)
(* s_user_power_w.                                                         *)
UserAsks ==
  /\ call = NoCall
  /\ changes < MaxChanges /\ changes' = changes + 1 /\ over' = 0 /\ Touch("user")
  /\ call' \in UserPowers /\ applied' = call' /\ late' = Lag
  /\ UNCHANGED << active, user, output, load, below, idle >>

UserIsHeard ==
  /\ call # NoCall
  /\ user' = call /\ call' = NoCall /\ over' = 0 /\ Touch("user")
  /\ UNCHANGED << active, applied, output, late, load, below, idle, changes >>

Guard == GuardLooks \/ GuardReads \/ GuardWaits \/ GuardDecides \/ GuardWrites \/ GuardSleeps
Next == Guard \/ LoadChanges \/ MeterOrModeChanges \/ UserAsks \/ UserIsHeard

(* The aggregator task calls the guard on every tick. *)
Spec == Init /\ [][Next]_vars /\ WF_vars(Guard)

-----------------------------------------------------------------------------
(* Properties *)

(* What the guard has set is a power the inverter accepts.                 *)
TypeOK ==
  /\ active \in BOOLEAN /\ load \in Loads
  /\ user \in UserPowers /\ call \in {NoCall} \cup UserPowers /\ tick \in Ticks
  /\ applied \in Nat /\ output \in Nat
  /\ applied >= PowerMin \/ applied = IF call = NoCall THEN user ELSE call
  /\ late \in 0..Lag /\ below \in {Off} \cup 0..Hold /\ idle \in 0..Gap
  /\ over \in Nat /\ changes \in 0..MaxChanges

(* The guard never raises the power into an excess, nor above what the     *)
(* user asked for: neither while the export is over the limit, nor by a    *)
(* restore step that would push it over once the inverter follows, however *)
(* late it followed the last one. It goes by the load it has measured; a   *)
(* call that comes after its look it cannot know.                          *)
RestoreSafe ==
  [][tick.at = "write" /\ tick' = NoTick /\ applied' > applied =>
       \/ "user" \in tick.touched
       \/ applied' <= user /\ applied' - tick.load <= MaxExport]_vars

(* An excess the guard sees and can correct does not last longer than the  *)
(* rate limit and the lag of a correction, an urgent one twice the lag:    *)
(* also one that the guard made itself, with a figure from before a call.  *)
OverBounded == over <= Gap + 2 * Lag

(* The fuse is safe from both sides: what is too much goes in time, and    *)
(* what is given back is never too much.                                   *)
FuseSafe == RestoreSafe /\ [][OverBounded']_vars

(* The loop converges: with the house and the user left alone the guard    *)
(* stops writing to the EEPROM, under the limit or at the least power.     *)
Rests == <>[](tick.at # "write")
FuseHeld == <>[](active => Export <= MaxExport \/ applied <= PowerMin)
Converges == Rests /\ FuseHeld

(* sls_guard.h:64 says of user_w: what the user asked for -- never         *)
(* exceeded. The guard exceeds it when a call comes between its read of    *)
(* the power and its write.                                                *)
NeverAboveUser == call = NoCall => applied <= user
=============================================================================
