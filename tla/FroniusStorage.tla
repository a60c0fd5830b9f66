--------------------------- MODULE FroniusStorage ---------------------------
(***************************************************************************)
(* The storage module for the BYD behind a Fronius (main/fronius_storage.c): *)
(* it changes registers of the inverter that belong to the operator, and   *)
(* owes him their old values. Modelled are the requests, the batch of the  *)
(* tick with every register write a step of its own, the by-hand settings, *)
(* the record in NVS, which may be refused, restarts, and writes that fail, *)
(* are ignored, or are not confirmed. The inverter is the one of the       *)
(* comments: its revert timer does nothing (no_revert), but its own        *)
(* management may take its limits back. A rate of 0 % is Empty, one of     *)
(* 100 % is Full.                                                          *)
(***************************************************************************)
EXTENDS Integers, Sequences, FiniteSets

CONSTANTS
  Devices,      \* Fronius inverters with a storage model
  HandRates,    \* rates the operator sets by hand
  ForceRates,   \* powers he asks a forced mode for, as rates
  MaxOps,       \* bound: requests, by-hand settings and changes of the device list
  ForceEnds,    \* when they end
  MaxFaults,    \* bound: failed, ignored or unconfirmed accesses, refused saves, limits taken back
  MaxRestarts   \* bound: restarts of the display

Empty == 0
Full  == 2
Rates == -Full..Full
Bits  == {"charge", "discharge"}          \* StorCtl_Mod: which limit is on

ASSUME StorageAssumption ==
  /\ HandRates \subseteq 0..Full /\ ForceRates \subseteq Nat \ {0} /\ "none" \notin Devices
  /\ MaxOps \in Nat /\ MaxFaults \in Nat /\ MaxRestarts \in Nat

Fields == {"ctl", "out", "in"}            \* StorCtl_Mod, OutWRte, InWRte
Regs   == [ctl : SUBSET Bits, out : Rates, in : Rates]
Forced == {"Charge", "Discharge"}
Modes  == Forced \cup {"None", "Block"}

VARIABLES
  inv,        \* the registers of each inverter
  cands,      \* the inverters in the device list
  own, nvs,   \* s_owned, s_orig_*, s_in_*, s_dev.ip, in RAM and as stored
  unsaved,    \* the last fs_persist() was refused: the record is not what is owned
  addr,       \* s_dev.addr is known: the device of own is in use
  active,     \* s_active, and s_applied, s_applied_cap, s_tgt with it
  req,        \* the requests under s_mux: [block, lock, cap, man]
  capWant,    \* s_cap_want
  pc, job,    \* the batch on the connection, and what it works with
  wish,       \* for each inverter and field: values the operator may expect
  orphans,    \* inverters whose values of the operator nobody knows any more
  ops, faults, restarts

vars == << inv, cands, own, nvs, unsaved, addr, active, req, capWant, pc, job, wish, orphans,
           ops, faults, restarts >>

bounds == << ops, faults, restarts >>
world  == << inv, cands, wish, orphans >>
record == << own, nvs, unsaved >>

Free     == [owned |-> FALSE, known |-> FALSE, inKnown |-> FALSE, inTouched |-> FALSE,
             ctl |-> {}, out |-> 0, in |-> 0, dev |-> "none"]
Off      == [mode |-> "Off", w |-> 0, until |-> 0]
NoReq    == [block |-> FALSE, lock |-> FALSE, cap |-> FALSE, man |-> Off]
NoTarget == [ctl |-> {}, out |-> 0, in |-> 0, setIn |-> FALSE]
Setting  == [on |-> FALSE, mode |-> "None", cap |-> FALSE, w |-> 0, tgt |-> NoTarget]
NoJob    == [req |-> NoReq, set |-> Setting, steps |-> <<>>, hand |-> << >>]

Init ==
  /\ inv \in [Devices -> [ctl : {Bits}, out : {1}, in : {Full}]]
  /\ cands = Devices
  /\ own = Free /\ nvs = Free /\ unsaved = FALSE /\ orphans = {} /\ addr = FALSE
  /\ active = Setting /\ req = NoReq /\ capWant = FALSE
  /\ pc = "idle" /\ job = NoJob
  /\ wish = [d \in Devices |-> [f \in Fields |-> {inv[d][f]}]]
  /\ ops = 0 /\ faults = 0 /\ restarts = 0

-----------------------------------------------------------------------------
(* The requests, from the energy manager, bat_lock and the web page. *)
Op == ops < MaxOps /\ ops' = ops + 1

Ask(r) ==
  /\ Op /\ req' = r
  /\ UNCHANGED << world, record, addr, active, capWant, pc, job, faults, restarts >>

AskBlock == Ask([req EXCEPT !.block = ~req.block])
AskLock  == Ask([req EXCEPT !.lock = ~req.lock])
AskCap   == Ask([req EXCEPT !.cap = ~req.cap])
AskForce(m, w, t) == Ask([req EXCEPT !.man = [mode |-> m, w |-> w, until |-> t]])
StopForce   == req.man # Off /\ Ask([req EXCEPT !.man = Off])

ChangeDevices ==
  /\ Op /\ cands' \in SUBSET Devices \ {{}, cands}
  /\ UNCHANGED << inv, wish, orphans, record, addr, active, req, capWant, pc, job, faults, restarts >>

-----------------------------------------------------------------------------
(* fs_session(): the device this batch works on. One that is owned stays.  *)
Pinned    == own.owned                    \* a restore must reach the same inverter

DevicesNow ==
  IF own.dev \in Devices /\ (Pinned \/ (addr /\ own.dev \in cands)) THEN {own.dev}
  ELSE cands

Clamped(w) == IF w < Full THEN w ELSE Full

(* fs_target(): the registers for a mode, given what is owned and read. *)
Target(mode, cap, w, o, m) ==
  LET lifted == [ctl |-> m.ctl \ {"discharge"}, out |-> Full]
      base   == IF o.known THEN [ctl |-> o.ctl, out |-> o.out] ELSE lifted
      baseIn == IF o.known /\ o.inKnown THEN o.in ELSE Full
      blocked == [ctl |-> (IF o.known THEN o.ctl ELSE m.ctl) \cup {"discharge"}, out |-> Empty]
      under  == IF mode = "Block" THEN blocked ELSE base IN
  CASE mode = "Charge"    -> [ctl |-> Bits, out |-> -Clamped(w), in |-> Clamped(w), setIn |-> TRUE]
    [] mode = "Discharge" -> [ctl |-> Bits, out |-> Clamped(w), in |-> -Clamped(w), setIn |-> TRUE]
    [] OTHER -> [ctl   |-> IF cap THEN under.ctl \cup {"charge"} ELSE under.ctl,
                 out   |-> under.out,
                 in    |-> IF cap THEN Empty ELSE baseIn,
                 setIn |-> cap \/ o.inTouched]

(* fs_persist(): the flash may refuse the record, which is only logged.    *)
Fault == faults < MaxFaults /\ faults' = faults + 1

NotSaved == Fault /\ unsaved' = TRUE
Persist(o) == \/ nvs' = o /\ unsaved' = FALSE /\ UNCHANGED faults
              \/ NotSaved /\ UNCHANGED nvs

(* What fs_apply() takes into its own and stores before the first write:   *)
(* the originals once, unless what is read looks like a leftover of ours,  *)
(* and, in a save of its own, that InWRte is driven too.                   *)
Leftover(m) == (m.out = Empty /\ "discharge" \in m.ctl) \/ m.out < 0 \/ m.in < 0

Captured(o) == o.owned

Capture(o, m) ==
  IF Captured(o) THEN o
  ELSE [o EXCEPT !.owned = TRUE, !.known = ~Leftover(m), !.inKnown = ~Leftover(m),
                 !.ctl = m.ctl, !.out = m.out, !.in = m.in]

Taken(mode, cap, o, m) ==
  LET o1 == Capture(o, m) IN
  IF mode \in Forced \/ cap
    THEN [o1 EXCEPT !.in = IF o1.known /\ ~o1.inKnown THEN m.in ELSE o1.in,
                    !.inKnown = o1.known \/ o1.inKnown, !.inTouched = TRUE]
    ELSE o1

TakesOver(mode, cap, o, m) ==
  LET o0 == Capture(o, m)  o1 == Taken(mode, cap, o, m) IN
  /\ own' = o1
  /\ orphans' = IF o0 # o /\ ~o0.known THEN orphans \cup {o.dev} ELSE orphans
  /\ IF o1 = o THEN UNCHANGED << nvs, unsaved, faults >>
     ELSE Persist(o1) \/ (o0 # o /\ o1 # o0 /\ NotSaved /\ nvs' = o0)

(* The order of the writes: of the two rates the one that opens first, read *)
(* back before the other goes, then the enable bits, then a check of all.   *)
OutFirst(t, m) == FALSE                   \* mutant: always OutWRte first
InFirst(t, m) == t.setIn /\ t.in >= m.in /\ t.out < m.out

Write(f, v) == [do |-> "write", field |-> f, val |-> v]
Check(f, v) == [do |-> "check", field |-> f, val |-> v]
Verify      == [do |-> "verify", field |-> "none", val |-> 0]
Steps(t, m) ==
  LET first  == IF InFirst(t, m) THEN "in" ELSE "out"
      second == IF InFirst(t, m) THEN "out" ELSE "in" IN
  IF t.setIn
  THEN << Write(first, t[first]), Check(first, t[first]), Write(second, t[second]),
          Write("ctl", t.ctl), Verify >>
  ELSE << Write("out", t.out), Write("ctl", t.ctl), Verify >>

Intact(m) == /\ m.out = active.tgt.out /\ m.ctl = active.tgt.ctl
             /\ active.tgt.setIn => m.in = active.tgt.in

-----------------------------------------------------------------------------
(* fronius_storage_tick(): the requests are copied, then the connection is *)
(* taken; the connection and the model read may fail.                      *)
TickStart ==
  /\ pc = "idle" /\ pc' = "tick"
  /\ job' = [NoJob EXCEPT !.req = req]
  /\ UNCHANGED << world, record, addr, active, req, capWant, bounds >>

EndAny(man) == TRUE                       \* mutant: whatever is forced now ends
SameForce(man) == req.man.mode = man.mode /\ req.man.until = man.until

(* man_finish(), of the copy the tick took *)
ManFinish == req' = IF SameForce(job.req.man) THEN [req EXCEPT !.man = Off] ELSE req

(* The time limit of a forced mode, before the connection is taken. *)
TickExpires ==
  /\ pc = "tick" /\ job.req.man # Off
  /\ ManFinish /\ job' = [job EXCEPT !.req.man = Off]
  /\ UNCHANGED << world, record, addr, active, capWant, pc, bounds >>

(* The mode to run: [mode, cap, w], when the forced mode is over or not.   *)
Wanted(r, over, hot) ==
  IF ~over /\ r.man # Off THEN [mode |-> r.man.mode, cap |-> FALSE, w |-> r.man.w]
  ELSE [mode |-> IF r.block \/ r.lock THEN "Block" ELSE "None", cap |-> hot, w |-> 0]

InForce(x, m) == /\ active.on /\ Intact(m)
                 /\ x = [mode |-> active.mode, cap |-> active.cap, w |-> active.w]

(* From here on fs_apply(): take, store, then the writes one by one. *)
Apply(x, o, m) ==
  LET ours == x.mode # "None" \/ x.cap
      o1 == IF ours THEN Taken(x.mode, x.cap, o, m) ELSE o
      t  == Target(x.mode, x.cap, x.w, o1, m) IN
  /\ IF ours THEN TakesOver(x.mode, x.cap, o, m)
     ELSE own' = o /\ UNCHANGED << nvs, unsaved, orphans, faults >>
  /\ active' = Setting
  /\ job' = [job EXCEPT !.steps = Steps(t, m),
             !.set = [on |-> ours, mode |-> x.mode, cap |-> x.cap, w |-> x.w, tgt |-> t]]
  /\ pc' = "apply"

OwesActive == active.on                   \* mutant: only what is verified is undone
Owes       == own.owned

(* With the model read: a forced mode whose SoC is reached ends,           *)
(* the mode to run is chosen, and applied unless it is in force as it was  *)
(* written. soc is seen from the hysteresis of the charge cap.             *)
TickDecide ==
  /\ pc = "tick"
  /\ \E d \in DevicesNow, soc \in {"below", "inside", "above"},
        over \in IF job.req.man = Off THEN {FALSE} ELSE BOOLEAN :
       LET hot == job.req.cap /\ (soc = "above" \/ (capWant /\ soc = "inside"))
           x   == Wanted(job.req, over, hot)
           m   == inv[d]
           o   == [own EXCEPT !.dev = d]
           ours == x.mode # "None" \/ x.cap IN
       /\ IF over THEN ManFinish ELSE UNCHANGED req
       /\ capWant' = hot /\ addr' = TRUE
       /\ \/ (IF ours THEN ~InForce(x, m) ELSE Owes) /\ Apply(x, o, m)
          \/ /\ IF ours THEN InForce(x, m) ELSE ~Owes
             /\ pc' = "idle" /\ job' = NoJob /\ own' = o
             /\ UNCHANGED << nvs, unsaved, orphans, faults, active >>
  /\ UNCHANGED << inv, cands, wish, ops, restarts >>

(* fronius_storage_set(): by hand, under the same lock. A register a mode  *)
(* of ours drives is not written: the value becomes the one to restore.    *)
IsBase(f) == own.owned /\ (f # "in" \/ own.inTouched)

Hand(f, v) ==
  /\ Op /\ pc = "idle"
  /\ \E d \in DevicesNow :
       LET o == [own EXCEPT !.dev = d] IN
       /\ addr' = TRUE
       /\ \/ /\ IsBase(f) /\ ~own.known                   \* refused: FS_E_BASE
             /\ own' = o /\ UNCHANGED << wish, nvs, unsaved, active, pc, job, faults >>
          \/ /\ IsBase(f) /\ own.known
             /\ own' = [o EXCEPT ![f] = v] /\ Persist(own') /\ active' = Setting
             /\ wish' = [wish EXCEPT ![d][f] = {v}]
             /\ UNCHANGED << pc, job >>
          \/ /\ ~IsBase(f)
             /\ own' = o /\ pc' = "hand"
             /\ wish' = [wish EXCEPT ![d][f] = @ \cup {v}]
             /\ job' = [NoJob EXCEPT !.steps = << Write(f, v), Check(f, v) >>,
                                     !.hand = << f, v >>]
             /\ UNCHANGED << nvs, unsaved, active, faults >>
  /\ UNCHANGED << inv, cands, orphans, req, capWant, restarts >>

-----------------------------------------------------------------------------
(* One step of a batch on the inverter own.dev, and its end.               *)
Busy == pc \in {"apply", "hand"}
Step == Head(job.steps)
Reg(f) == inv[own.dev][f]

Holds(s) ==
  IF s.do = "check" THEN Reg(s.field) = s.val
  ELSE LET t == job.set.tgt IN
       Reg("out") = t.out /\ Reg("ctl") = t.ctl /\ (t.setIn => Reg("in") = t.in)

Proceed == job' = [job EXCEPT !.steps = Tail(job.steps)]
Abort(io) ==
  /\ pc' = "idle" /\ job' = NoJob /\ addr' = (addr /\ ~io)
  /\ UNCHANGED << record, active >>

WriteReg ==
  /\ Busy /\ job.steps # <<>> /\ Step.do = "write"
  /\ inv' = [inv EXCEPT ![own.dev][Step.field] = Step.val]
  /\ Proceed
  /\ UNCHANGED << cands, wish, orphans, record, addr, active, req, capWant, pc, bounds >>

ReadBack ==
  /\ Busy /\ job.steps # <<>> /\ Step.do # "write"
  /\ IF Holds(Step) THEN Proceed /\ UNCHANGED << record, addr, active, pc >>
     ELSE Abort(FALSE)
  /\ UNCHANGED << world, req, capWant, bounds >>

(* All written and verified: the setting is in force, or the operator's    *)
(* values are back and nothing is owed, or his own setting is in.          *)
Done ==
  /\ Busy /\ job.steps = <<>>
  /\ pc' = "idle" /\ job' = NoJob
  /\ \/ /\ pc = "apply" /\ job.set.on
        /\ active' = job.set /\ UNCHANGED << record, wish, faults >>
     \/ /\ pc = "apply" /\ ~job.set.on
        /\ own' = [Free EXCEPT !.dev = own.dev] /\ Persist(Free)
        /\ UNCHANGED << active, wish >>
     \/ /\ pc = "hand"
        /\ wish' = [wish EXCEPT ![own.dev][job.hand[1]] = {job.hand[2]}]
        /\ IF job.hand[1] = "in" /\ own.owned /\ own.inKnown
           THEN own' = [own EXCEPT !.in = job.hand[2]] /\ Persist(own')
           ELSE UNCHANGED << record, faults >>
        /\ UNCHANGED active
  /\ UNCHANGED << inv, cands, orphans, addr, req, capWant, ops, restarts >>

-----------------------------------------------------------------------------
(* What goes wrong: no connection; a write that fails, is ignored, or whose *)
(* answer is lost; a failed read-back; limits the Fronius took back itself; *)
(* a restart, which forgets all but the record.                             *)
NoConnection ==
  /\ Fault /\ pc \in {"idle", "tick"}
  /\ pc' = "idle" /\ job' = NoJob /\ addr' = FALSE
  /\ active' = IF pc = "tick" THEN Setting ELSE active
  /\ UNCHANGED << world, record, req, capWant, ops, restarts >>

WriteFails ==
  /\ Fault /\ Busy /\ job.steps # <<>> /\ Step.do = "write"
  /\ \/ Proceed /\ UNCHANGED << inv, record, addr, active, pc >>
     \/ /\ \E io \in BOOLEAN : Abort(io)
        /\ \/ UNCHANGED inv
           \/ inv' = [inv EXCEPT ![own.dev][Step.field] = Step.val]
  /\ UNCHANGED << cands, wish, orphans, req, capWant, ops, restarts >>

ReadFails ==
  /\ Fault /\ Busy /\ job.steps # <<>> /\ Step.do # "write"
  /\ Abort(TRUE)
  /\ UNCHANGED << world, req, capWant, ops, restarts >>

TakeBack ==
  /\ Fault /\ active.on                     \* while a setting of ours is in force
  /\ inv' = [inv EXCEPT ![own.dev] =
              [ctl |-> {}, out |-> Full, in |-> IF own.inTouched THEN Full ELSE @.in]]
  /\ UNCHANGED << cands, wish, orphans, record, addr, active, req, capWant, pc, job, ops, restarts >>

Restart ==
  /\ restarts < MaxRestarts /\ restarts' = restarts + 1
  /\ own' = IF nvs.owned THEN nvs ELSE Free                   \* fs_load()
  /\ orphans' = IF unsaved THEN orphans \cup ({own.dev, nvs.dev} \cap Devices) ELSE orphans
  /\ unsaved' = FALSE
  /\ addr' = FALSE /\ active' = Setting /\ req' = NoReq /\ capWant' = FALSE
  /\ pc' = "idle" /\ job' = NoJob
  /\ UNCHANGED << inv, cands, wish, nvs, ops, faults >>

Requests == AskBlock \/ AskLock \/ AskCap \/ ChangeDevices
ByHand == \/ \E f \in {"out", "in"}, v \in HandRates : Hand(f, v)
          \/ \E v \in SUBSET Bits : Hand("ctl", v)

(* What the operator does on the page, once he has allowed the control of  *)
(* the BYD: a forced mode with its power, its end, or a register by hand.  *)
OnThePage == \/ StopForce \/ ByHand
             \/ \E m \in Forced, w \in ForceRates, t \in ForceEnds : AskForce(m, w, t)
Tick == TickStart \/ TickExpires \/ TickDecide \/ WriteReg \/ ReadBack \/ Done
Faults == NoConnection \/ WriteFails \/ ReadFails \/ TakeBack \/ Restart

Next == Requests \/ OnThePage \/ Tick \/ Faults

Spec == Init /\ [][Next]_vars /\ WF_vars(Tick)

-----------------------------------------------------------------------------
(* The battery's window [-InWRte, +OutWRte] is never empty: not between two *)
(* writes, not after a sequence that broke off, not after a restart.        *)
WindowOpen == \A d \in Devices \ orphans : inv[d].in + inv[d].out >= 0

(* Whenever an inverter holds something other than the operator's values,  *)
(* the module knows them for every register that differs, and its record   *)
(* in NVS holds them unless it was refused: the display may restart at any *)
(* moment.                                                                 *)
Covers(o, d, f) ==
  /\ o.owned /\ o.dev = d /\ o.known /\ o[f] \in wish[d][f]
  /\ f = "in" => o.inKnown /\ o.inTouched

RecordCovers ==
  \A d \in Devices \ orphans, f \in Fields :
    inv[d][f] \notin wish[d][f] => Covers(own, d, f) /\ (unsaved \/ Covers(nvs, d, f))

(* Both at any moment: whatever breaks off, the battery can work and the    *)
(* operator's limits are known. An inverter is an orphan when the display   *)
(* restarts after a refused save, and when the operator had shut its        *)
(* discharge by hand himself, which is taken for a leftover.                *)
LimitsKept == WindowOpen /\ RecordCovers

(* A forced mode the operator asks for is not ended by the end of the one  *)
(* before it, unless both have the same mode and end at the same second.   *)
NewForceSurvives ==
  [][/\ req.man # Off /\ req'.man = Off /\ UNCHANGED << ops, restarts >>
     => req.man.mode = job.req.man.mode /\ req.man.until = job.req.man.until]_vars

(* When nobody wants anything any more, the operator's values come back in *)
(* every inverter but the orphans, nothing stays owed, and no record says   *)
(* otherwise but one that could not be deleted.                            *)
GivesBack ==
  <>[](req = NoReq) =>
    <>[](/\ ~own.owned /\ (nvs.owned => unsaved)
         /\ \A d \in Devices \ orphans, f \in Fields : inv[d][f] \in wish[d][f])
=============================================================================
