---------------------------- MODULE Store_proofs ----------------------------
(***************************************************************************)
(* Proofs about what the device must not lose (the parts of MCStore).      *)
(***************************************************************************)
EXTENDS FroniusStorage, LoadProfile, DeyeLive, FlashRing, Counters, TLAPS,
        SlotInduction, FiniteSetTheorems

-----------------------------------------------------------------------------
(* FroniusStorage. An orphan stays one, and nothing is claimed      *)
(* of it; for all other inverters the record and the batch are followed.   *)
Window(i) == i.in + i.out >= 0

OwnType == [owned : BOOLEAN, known : BOOLEAN, inKnown : BOOLEAN, inTouched : BOOLEAN,
            ctl : SUBSET Bits, out : Rates, in : Rates, dev : Devices \cup {"none"}]
ManType == [mode : Forced, w : ForceRates, until : ForceEnds] \cup {Off}
ReqType == [block : BOOLEAN, lock : BOOLEAN, cap : BOOLEAN, man : ManType]
WishType == [ctl : SUBSET SUBSET Bits, out : SUBSET (0..Full), in : SUBSET (0..Full)]
StepType ==
  {Write("ctl", v) : v \in SUBSET Bits} \cup {Write("out", v) : v \in Rates}
    \cup {Write("in", v) : v \in Rates} \cup {Verify}
    \cup {Check(f, v) : f \in Fields, v \in Rates \cup SUBSET Bits}
HandType(f, v) == f \in Fields /\ v \in (IF f = "ctl" THEN SUBSET Bits ELSE 0..Full)

StorageType ==
  /\ inv \in [Devices -> Regs] /\ cands \subseteq Devices /\ orphans \subseteq Devices
  /\ own \in OwnType /\ nvs \in OwnType /\ unsaved \in BOOLEAN
  /\ own.owned => own.dev \in Devices
  /\ nvs.owned => nvs.dev \in Devices
  /\ wish \in [Devices -> WishType]
  /\ req \in ReqType /\ job.req \in ReqType /\ job.steps \in Seq(StepType)
  /\ DOMAIN job = {"req", "set", "steps", "hand"}
  /\ pc \in {"idle", "tick", "apply", "hand"}
  /\ pc \in {"apply", "hand"} => own.dev \in Devices
  /\ pc = "hand" => HandType(job.hand[1], job.hand[2])

(* What is owed is complete and the operator's, unless it is orphans, and in  *)
(* NVS as it is in RAM, unless the last save was refused.                  *)
Recorded ==
  /\ own.owned => unsaved \/ nvs = own
  /\ own.owned /\ own.dev \notin orphans =>
       /\ own.known /\ own.inKnown
       /\ \A f \in Fields : own[f] \in wish[own.dev][f]
  /\ ~own.owned => ~own.inTouched /\ (unsaved \/ ~nvs.owned)
  /\ active.on => own.owned

(* Only registers that are owed differ from what the operator expects.     *)
Ours(d, f) == own.owned /\ d = own.dev /\ (f = "in" => own.inTouched)
Elsewhere == \A d \in Devices \ orphans, f \in Fields : Ours(d, f) \/ inv[d][f] \in wish[d][f]
Unforced == own.owned /\ ~own.inTouched /\ own.dev \notin orphans => inv[own.dev].out >= 0

(* The setting that fs_apply() is writing, and how far it has come: the    *)
(* next write leaves the window open, and after the check of all the       *)
(* registers hold what was to be written.                                  *)
Goal(t, o) ==
  /\ t.ctl \subseteq Bits /\ t.out \in Rates /\ t.in \in Rates /\ t.setIn \in BOOLEAN
  /\ t.setIn => o.inTouched /\ Window(t)
  /\ ~t.setIn => ~o.inTouched /\ t.out >= 0
Restores(t) ==
  t.out = own.out /\ t.ctl = own.ctl /\ (own.inTouched => t.setIn /\ t.in = own.in)
Reached(t, i) == i.out = t.out /\ i.ctl = t.ctl /\ (t.setIn => i.in = t.in)
BitsLeft(t)    == << Write("ctl", t.ctl), Verify >>
OutLeft(t)     == << Write("out", t.out), Write("ctl", t.ctl), Verify >>
InLeft(t)      == << Write("in", t.in), Write("ctl", t.ctl), Verify >>
InFirstGoes(t, i, s) ==
  /\ t.setIn /\ t.in + i.out >= 0
  /\ s = << Write("in", t.in), Check("in", t.in), Write("out", t.out), Write("ctl", t.ctl), Verify >>
InAsked(t, s) ==
  t.setIn /\ s = << Check("in", t.in), Write("out", t.out), Write("ctl", t.ctl), Verify >>
OutGoes(t, i, s) == t.setIn /\ i.in = t.in /\ s = OutLeft(t)
OutFirstGoes(t, i, s) ==
  /\ t.setIn /\ i.in + t.out >= 0
  /\ s = << Write("out", t.out), Check("out", t.out), Write("in", t.in), Write("ctl", t.ctl), Verify >>
OutAsked(t, s) ==
  t.setIn /\ s = << Check("out", t.out), Write("in", t.in), Write("ctl", t.ctl), Verify >>
InGoes(t, i, s) == t.setIn /\ i.out = t.out /\ s = InLeft(t)
OutOnly(t, s)   == ~t.setIn /\ s = OutLeft(t)
Ahead(t, i, s) ==
  \/ InFirstGoes(t, i, s) \/ InAsked(t, s) \/ OutGoes(t, i, s)
  \/ OutFirstGoes(t, i, s) \/ OutAsked(t, s) \/ InGoes(t, i, s)
  \/ OutOnly(t, s) \/ s = BitsLeft(t) \/ s = << Verify >>
  \/ s = << >> /\ Reached(t, i)
Applying ==
  pc = "apply" =>
    /\ own.owned /\ ~active.on /\ job.set.on \in BOOLEAN
    /\ own.dev \notin orphans =>
         /\ Goal(job.set.tgt, own)
         /\ Ahead(job.set.tgt, inv[own.dev], job.steps)
         /\ ~job.set.on => Restores(job.set.tgt)

(* A register set by hand is none of those a mode of ours drives. *)
Setting1(f, v) ==
  /\ f \in Fields /\ own.dev \in Devices /\ v \in wish[own.dev][f] /\ ~IsBase(f)
  /\ \/ job.steps = << Write(f, v), Check(f, v) >>
     \/ job.steps = << Check(f, v) >>
     \/ job.steps = << >> /\ inv[own.dev][f] = v
HandGoes == pc = "hand" => Setting1(job.hand[1], job.hand[2])

Sound ==
  Recorded /\ Elsewhere /\ Unforced /\ WindowOpen /\ Applying /\ HandGoes
FsInv == StorageType /\ Sound

LEMMA FsConstants ==
  /\ Full = 2 /\ Empty = 0 /\ Rates = -2..2 /\ Bits # {}
  /\ HandRates \subseteq 0..2 /\ ForceRates \subseteq Nat \ {0} /\ "none" \notin Devices
BY StorageAssumption DEF Full, Empty, Rates, Bits

(* Types. The steps of a batch write values the registers can hold.        *)
LEMMA WriteTyped ==
  ASSUME NEW s \in StepType, s.do = "write"
  PROVE  s.field \in Fields /\ s.val \in (IF s.field = "ctl" THEN SUBSET Bits ELSE Rates)
<1>1. CASE s \in {Write("ctl", v) : v \in SUBSET Bits}
  BY <1>1 DEF Write, Fields
<1>2. CASE s \in {Write("out", v) : v \in Rates} \cup {Write("in", v) : v \in Rates}
  BY <1>2 DEF Write, Fields
<1>3. CASE s = Verify \/ s \in {Check(f, v) : f \in Fields, v \in Rates \cup SUBSET Bits}
  BY <1>3 DEF Verify, Check
<1> QED
  BY <1>1, <1>2, <1>3 DEF StepType

LEMMA StepsTyped ==
  ASSUME NEW t, t.ctl \subseteq Bits, t.out \in Rates, t.in \in Rates, NEW m
  PROVE  Steps(t, m) \in Seq(StepType)
<1>1. /\ Write("ctl", t.ctl) \in StepType /\ Write("out", t.out) \in StepType
      /\ Write("in", t.in) \in StepType /\ Verify \in StepType
  BY DEF StepType
<1>2. Check("out", t.out) \in StepType /\ Check("in", t.in) \in StepType
  BY DEF StepType, Fields
<1>3. CASE ~t.setIn
  <2>1. Steps(t, m) = << Write("out", t.out), Write("ctl", t.ctl), Verify >>
    BY <1>3 DEF Steps
  <2> QED
    BY <1>1, <2>1
<1>4. CASE t.setIn /\ InFirst(t, m)
  <2>1. Steps(t, m) = << Write("in", t.in), Check("in", t.in), Write("out", t.out),
                         Write("ctl", t.ctl), Verify >>
    BY <1>4 DEF Steps
  <2> QED
    BY <1>1, <1>2, <2>1
<1>5. CASE t.setIn /\ ~InFirst(t, m)
  <2>1. Steps(t, m) = << Write("out", t.out), Check("out", t.out), Write("in", t.in),
                         Write("ctl", t.ctl), Verify >>
    BY <1>5 DEF Steps
  <2> QED
    BY <1>1, <1>2, <2>1
<1> QED
  BY <1>3, <1>4, <1>5

LEMMA TargetTyped ==
  ASSUME NEW mode, NEW cap, NEW w \in Nat, NEW o \in OwnType, NEW m \in Regs,
         NEW t, t = Target(mode, cap, w, o, m)
  PROVE  t.ctl \subseteq Bits /\ t.out \in Rates /\ t.in \in Rates
<1>1. Clamped(w) \in 0..2
  BY FsConstants DEF Clamped
<1>2. CASE mode = "Charge"
  <2>1. t = [ctl |-> Bits, out |-> -Clamped(w), in |-> Clamped(w), setIn |-> TRUE]
    BY <1>2, Zenon DEF Target
  <2>2. t.ctl = Bits /\ t.out = -Clamped(w) /\ t.in = Clamped(w)
    BY <2>1
  <2> QED
    BY <1>1, <2>2, FsConstants
<1>3. CASE mode = "Discharge"
  <2>1. t = [ctl |-> Bits, out |-> Clamped(w), in |-> -Clamped(w), setIn |-> TRUE]
    BY <1>3, Zenon DEF Target
  <2>2. t.ctl = Bits /\ t.out = Clamped(w) /\ t.in = -Clamped(w)
    BY <2>1
  <2> QED
    BY <1>1, <2>2, FsConstants
<1>4. CASE mode \notin Forced
  <2> DEFINE bits == IF o.known THEN o.ctl ELSE m.ctl \ {"discharge"}
             under == IF mode = "Block" THEN (IF o.known THEN o.ctl ELSE m.ctl) \cup {"discharge"} ELSE bits
  <2>1. t = [ctl |-> IF cap THEN under \cup {"charge"} ELSE under,
             out |-> IF mode = "Block" THEN Empty ELSE (IF o.known THEN o.out ELSE Full),
             in |-> IF cap THEN Empty ELSE (IF o.known /\ o.inKnown THEN o.in ELSE Full),
             setIn |-> cap \/ o.inTouched]
    <3>1. mode # "Charge" /\ mode # "Discharge"
      BY <1>4 DEF Forced
    <3>2. CASE mode = "Block" /\ o.known
      BY <3>1, <3>2 DEF Target
    <3>3. CASE mode = "Block" /\ ~o.known
      BY <3>1, <3>3 DEF Target
    <3>4. CASE mode # "Block" /\ o.known
      BY <3>1, <3>4 DEF Target
    <3>5. CASE mode # "Block" /\ ~o.known
      BY <3>1, <3>5 DEF Target
    <3> QED
      BY <3>2, <3>3, <3>4, <3>5
  <2>2. o.out \in Rates /\ o.in \in Rates /\ o.ctl \subseteq Bits /\ m.ctl \subseteq Bits
    BY DEF OwnType, Regs
  <2>3. under \subseteq Bits
    BY <2>2 DEF Bits
  <2>4. t.ctl = (IF cap THEN under \cup {"charge"} ELSE under)
        /\ t.out = (IF mode = "Block" THEN Empty ELSE (IF o.known THEN o.out ELSE Full))
        /\ t.in = (IF cap THEN Empty ELSE (IF o.known /\ o.inKnown THEN o.in ELSE Full))
    BY <2>1
  <2> HIDE DEF under
  <2>5. t.ctl \subseteq Bits
    BY <2>3, <2>4 DEF Bits
  <2> QED
    BY <2>2, <2>4, <2>5, FsConstants
<1> QED
  BY <1>2, <1>3, <1>4 DEF Forced

LEMMA TakenTyped ==
  ASSUME NEW o \in OwnType, NEW m \in Regs, NEW mode, NEW cap
  PROVE  /\ Capture(o, m) \in OwnType /\ Capture(o, m).dev = o.dev /\ Capture(o, m).owned
         /\ Taken(mode, cap, o, m) \in OwnType
         /\ Taken(mode, cap, o, m).dev = o.dev /\ Taken(mode, cap, o, m).owned
<1> PICK c : c = Capture(o, m)
  OBVIOUS
<1>1. c \in OwnType /\ c.dev = o.dev /\ c.owned
  <2>1. CASE o.owned
    BY <2>1 DEF Capture, Captured
  <2>2. CASE ~o.owned
    <3>1. c = [o EXCEPT !.owned = TRUE, !.known = ~Leftover(m), !.inKnown = ~Leftover(m),
                        !.ctl = m.ctl, !.out = m.out, !.in = m.in]
      BY <2>2 DEF Capture, Captured
    <3>2. Leftover(m) \in BOOLEAN
      BY DEF Leftover
    <3> QED
      BY <3>1, <3>2 DEF OwnType, Regs
  <2> QED
    BY <2>1, <2>2
<1>2. Taken(mode, cap, o, m) =
        IF mode \in Forced \/ cap
        THEN [c EXCEPT !.in = IF c.known /\ ~c.inKnown THEN m.in ELSE c.in,
                       !.inKnown = c.known \/ c.inKnown, !.inTouched = TRUE]
        ELSE c
  BY DEF Taken
<1>3. PICK a, b : /\ a = (IF c.known /\ ~c.inKnown THEN m.in ELSE c.in)
                  /\ b = (c.known \/ c.inKnown)
  OBVIOUS
<1>4. a \in Rates /\ b \in BOOLEAN
  BY <1>1, <1>3 DEF OwnType, Regs
<1>5. PICK u : u = [c EXCEPT !.in = a, !.inKnown = b, !.inTouched = TRUE]
  OBVIOUS
<1>6. u \in OwnType /\ u.dev = c.dev /\ u.owned = c.owned
  BY <1>1, <1>4, <1>5 DEF OwnType
<1>7. Taken(mode, cap, o, m) = u \/ Taken(mode, cap, o, m) = c
  BY <1>2, <1>3, <1>5
<1> QED
  BY <1>1, <1>6, <1>7

LEMMA NothingTyped ==
  /\ Free \in OwnType /\ ~Free.owned /\ ~Free.inTouched
  /\ NoReq \in ReqType /\ NoJob.req \in ReqType /\ NoJob.steps \in Seq(StepType)
  /\ NoJob.steps = << >> /\ Off \in ManType
  /\ DOMAIN NoJob = {"req", "set", "steps", "hand"}
BY FsConstants DEF Free, OwnType, NoReq, NoJob, ReqType, ManType

LEMMA DeviceNamed ==
  ASSUME StorageType, NEW d \in DevicesNow,
         NEW o, o = [own EXCEPT !.dev = d]
  PROVE  /\ d \in Devices /\ (own.owned => d = own.dev) /\ (own.owned => o = own)
         /\ o \in OwnType /\ o.dev = d /\ o.owned = own.owned /\ o.inTouched = own.inTouched
         /\ o.known = own.known /\ o.inKnown = own.inKnown
         /\ o.ctl = own.ctl /\ o.out = own.out /\ o.in = own.in
<1>1. d \in Devices /\ (own.owned => d = own.dev)
  BY DEF DevicesNow, Pinned, StorageType
<1> QED
  BY <1>1 DEF StorageType, OwnType

(* What a save leaves in NVS. *)
LEMMA PersistTyped ==
  ASSUME NEW o \in OwnType, o.owned => o.dev \in Devices, StorageType, Persist(o)
  PROVE  /\ nvs' \in OwnType /\ unsaved' \in BOOLEAN /\ (nvs'.owned => nvs'.dev \in Devices)
         /\ unsaved' \/ nvs' = o
BY DEF Persist, NotSaved, StorageType

(* What the record and the inverter may expect of it, by hand. *)
Expect(d, f, V) == wish' = [wish EXCEPT ![d][f] = V]

LEMMA WishTyped ==
  ASSUME StorageType, NEW d \in Devices, NEW f \in Fields, NEW V,
         V \subseteq (IF f = "ctl" THEN SUBSET Bits ELSE 0..Full),
         Expect(d, f, V)
  PROVE  /\ wish' \in [Devices -> WishType] /\ wish'[d][f] = V
         /\ \A e \in Devices, g \in Fields : e # d \/ g # f => wish'[e][g] = wish[e][g]
<1> PICK W : W = [wish[d] EXCEPT ![f] = V]
  OBVIOUS
<1>1. wish \in [Devices -> WishType] /\ wish[d] \in WishType
  BY DEF StorageType
<1>2. wish' = [wish EXCEPT ![d] = W]
  BY <1>1 DEF Expect
<1>3. wish' \in [Devices -> (WishType \cup {W})] /\ wish'[d] = W
      /\ \A e \in Devices : e # d => wish'[e] = wish[e]
  BY <1>1, <1>2
<1>4. W \in WishType
  BY <1>1 DEF WishType, Fields
<1>5. W[f] = V /\ \A g \in Fields : g # f => W[g] = wish[d][g]
  BY <1>1 DEF WishType, Fields
<1> QED
  BY <1>3, <1>4, <1>5

LEMMA StartTyped == Init => StorageType
<1> SUFFICES ASSUME Init PROVE StorageType
  OBVIOUS
<1>1. inv \in [Devices -> Regs] /\ \A d \in Devices : inv[d].ctl = Bits /\ inv[d].out = 1 /\ inv[d].in = 2
  BY FsConstants DEF Init, Regs
<1>2. wish \in [Devices -> WishType]
  <2>1. ASSUME NEW d \in Devices PROVE [f \in Fields |-> {inv[d][f]}] \in WishType
    BY <1>1, FsConstants DEF WishType, Fields, Regs
  <2> QED
    BY <2>1 DEF Init
<1> QED
  BY <1>1, <1>2, NothingTyped DEF Init, StorageType

LEMMA ApplyTyped ==
  ASSUME StorageType, NEW d \in Devices, own.owned => d = own.dev,
         NEW o \in OwnType, o.dev = d, own.owned => o = own, o.owned = own.owned,
         NEW mode, NEW cap, NEW w \in Nat,
         Apply([mode |-> mode, cap |-> cap, w |-> w], o, inv[d]),
         req' \in ReqType, UNCHANGED << inv, cands, wish >>
  PROVE  StorageType' /\ own'.dev = d
<1> PICK m : m = inv[d]
  OBVIOUS
<1>1. m \in Regs
  BY DEF StorageType
<1>2. PICK o0, o1, ours : /\ o0 = Capture(o, m) /\ o1 = Taken(mode, cap, o, m)
                          /\ ours = (mode # "None" \/ cap)
  OBVIOUS
<1>3. o0 \in OwnType /\ o0.dev = d /\ o1 \in OwnType /\ o1.dev = d /\ o1.owned /\ o0.owned
  BY <1>1, <1>2, TakenTyped
<1>4. own' = (IF ours THEN o1 ELSE o) /\ own' \in OwnType /\ own'.dev = d
  BY <1>2, <1>3 DEF Apply, TakesOver
<1>5. PICK t : t = Target(mode, cap, w, own', m)
  OBVIOUS
<1>6. /\ job'.steps = Steps(t, m) /\ job'.req = job.req /\ pc' = "apply"
      /\ DOMAIN job' = DOMAIN job
  <2> PICK st, goal : /\ st = Steps(t, m)
                      /\ goal = [on |-> ours, mode |-> mode, cap |-> cap, w |-> w, tgt |-> t]
    OBVIOUS
  <2>1. job' = [job EXCEPT !.steps = st, !.set = goal]
    BY <1>2, <1>4, <1>5 DEF Apply
  <2>2. pc' = "apply"
    BY DEF Apply
  <2> QED
    BY <2>1, <2>2 DEF StorageType
<1>7. job'.steps \in Seq(StepType)
  <2>1. t.ctl \subseteq Bits /\ t.out \in Rates /\ t.in \in Rates
    BY <1>1, <1>4, <1>5, TargetTyped
  <2> QED
    BY <1>6, <2>1, StepsTyped
<1>8. /\ nvs' \in OwnType /\ unsaved' \in BOOLEAN /\ (nvs'.owned => nvs'.dev \in Devices)
      /\ orphans' \subseteq Devices
  <2>1. CASE ours
    <3>1. TakesOver(mode, cap, o, m)
      BY <1>2, <2>1 DEF Apply
    <3>2. orphans' \subseteq Devices
      BY <3>1 DEF TakesOver, StorageType
    <3>3. CASE o1 = o
      BY <1>2, <3>1, <3>2, <3>3 DEF TakesOver, StorageType
    <3>4. CASE o1 # o
      <4>1. Persist(o1) \/ (NotSaved /\ nvs' = o0)
        BY <1>2, <3>1, <3>4 DEF TakesOver
      <4>2. CASE Persist(o1)
        BY <1>3, <3>2, <4>2, PersistTyped
      <4> QED
        BY <1>3, <3>2, <4>1, <4>2 DEF NotSaved
    <3> QED
      BY <3>3, <3>4
  <2>2. CASE ~ours
    BY <1>2, <2>2 DEF Apply, StorageType
  <2> QED
    BY <2>1, <2>2
<1> QED
  BY <1>4, <1>6, <1>7, <1>8 DEF StorageType

LEMMA RequestsTyped ==
  ASSUME StorageType,
         \/ Requests \/ StopForce
         \/ \E m \in Forced, w \in ForceRates, t \in ForceEnds : AskForce(m, w, t)
  PROVE  StorageType' /\ UNCHANGED << inv, wish, orphans, record, active, pc, job >>
<1>1. ASSUME NEW r \in ReqType, Ask(r)
      PROVE  StorageType' /\ UNCHANGED << inv, wish, orphans, record, active, pc, job >>
  BY <1>1 DEF StorageType, Ask, world, record
<1>2. req \in ReqType
  BY DEF StorageType
<1>3. CASE AskBlock \/ AskLock \/ AskCap
  BY <1>1, <1>2, <1>3 DEF AskBlock, AskLock, AskCap, ReqType
<1>4. CASE StopForce
  BY <1>1, <1>2, <1>4 DEF StopForce, ReqType, ManType
<1>5. CASE \E m \in Forced, w \in ForceRates, t \in ForceEnds : AskForce(m, w, t)
  <2> PICK m \in Forced, w \in ForceRates, t \in ForceEnds : AskForce(m, w, t)
    BY <1>5
  <2> DEFINE force == [mode |-> m, w |-> w, until |-> t]
  <2>1. force \in ManType
    BY <1>2 DEF ManType
  <2> HIDE DEF force
  <2>2. [req EXCEPT !.man = force] \in ReqType
    BY <1>2, <2>1 DEF ReqType
  <2> QED
    BY <1>1, <2>2 DEF AskForce, force
<1>6. CASE ChangeDevices
  BY <1>6 DEF StorageType, ChangeDevices, record
<1> QED
  BY <1>3, <1>4, <1>5, <1>6 DEF Requests

(* man_finish() and the two steps of a tick that may come to it. *)
LEMMA FinishTyped ==
  ASSUME StorageType, ManFinish PROVE req' \in ReqType
BY DEF ManFinish, StorageType, ReqType, ManType

LEMMA TickBeginsTyped ==
  ASSUME StorageType, TickStart \/ TickExpires
  PROVE  /\ StorageType' /\ pc' = "tick" /\ UNCHANGED << inv, wish, orphans, record, active >>
<1>1. CASE TickStart
  <2>1. job'.req = req /\ job'.steps = << >> /\ DOMAIN job' = DOMAIN NoJob
    BY <1>1 DEF TickStart, NoJob
  <2>2. << >> \in Seq(StepType)
    OBVIOUS
  <2> QED
    BY <1>1, <2>1, <2>2, NothingTyped DEF StorageType, TickStart, world, bounds, record
<1>2. CASE TickExpires
  <2>1. job' = [job EXCEPT !.req = [job.req EXCEPT !.man = Off]]
    BY <1>2 DEF TickExpires
  <2>2. job'.req \in ReqType /\ job'.steps = job.steps /\ DOMAIN job' = DOMAIN job
    BY <2>1 DEF StorageType, ReqType, ManType
  <2>3. req' \in ReqType
    BY <1>2, FinishTyped DEF TickExpires
  <2> QED
    BY <1>2, <2>2, <2>3 DEF StorageType, TickExpires, world, bounds, record
<1> QED
  BY <1>1, <1>2
(* What a tick decides: a mode to write on a device, or that all is as it  *)
(* should be.                                                              *)
LEMMA TickDecides ==
  ASSUME StorageType, TickDecide
  PROVE  \E d \in DevicesNow, mode \in Modes, cap \in BOOLEAN, w \in Nat, o \in OwnType :
           /\ o = [own EXCEPT !.dev = d] /\ (mode \in Forced => ~cap)
           /\ \/ /\ mode # "None" \/ cap \/ own.owned
                 /\ Apply([mode |-> mode, cap |-> cap, w |-> w], o, inv[d])
              \/ /\ pc' = "idle" /\ job' = NoJob /\ own' = o
                 /\ UNCHANGED << nvs, unsaved, orphans, active >>
           /\ req' \in ReqType /\ UNCHANGED << inv, cands, wish >>
<1> PICK d \in DevicesNow, soc \in {"below", "inside", "above"},
         over \in (IF job.req.man = Off THEN {FALSE} ELSE BOOLEAN) :
      LET hot == job.req.cap /\ (soc = "above" \/ (capWant /\ soc = "inside"))
          x   == Wanted(job.req, over, hot)
          m   == inv[d]
          o   == [own EXCEPT !.dev = d]
          ours == x.mode # "None" \/ x.cap IN
      /\ IF over THEN ManFinish ELSE UNCHANGED req
      /\ capWant' = hot /\ addr' = TRUE
      /\ \/ (IF ours THEN ~InForce(x, m) ELSE Owes) /\ Apply(x, o, m)
         \/ /\ IF ours THEN InForce(x, m) ELSE ~Owes
            /\ pc' = "idle" /\ job' = NoJob /\ own' = o
            /\ UNCHANGED << nvs, unsaved, orphans, faults, active >>
  BY DEF TickDecide
<1> PICK hot \in BOOLEAN :
      hot = (job.req.cap /\ (soc = "above" \/ (capWant /\ soc = "inside")))
  OBVIOUS
<1> PICK x : x = Wanted(job.req, over, hot)
  OBVIOUS
<1> PICK o : o = [own EXCEPT !.dev = d]
  OBVIOUS
<1>1. \/ /\ IF x.mode # "None" \/ x.cap THEN ~InForce(x, inv[d]) ELSE Owes
         /\ Apply(x, o, inv[d])
      \/ /\ pc' = "idle" /\ job' = NoJob /\ own' = o
         /\ UNCHANGED << nvs, unsaved, orphans, active >>
  OBVIOUS
<1>2. req' \in ReqType /\ o \in OwnType
  BY FinishTyped, DeviceNamed DEF StorageType
<1>3. UNCHANGED << inv, cands, wish >>
  BY DEF TickDecide
<1>4. \E mode \in Modes, cap \in BOOLEAN, w \in Nat :
        x = [mode |-> mode, cap |-> cap, w |-> w] /\ (mode \in Forced => ~cap)
  <2>1. job.req \in ReqType
    BY DEF StorageType
  <2>2. CASE ~over /\ job.req.man # Off
    <3>1. job.req.man.mode \in Forced /\ job.req.man.w \in Nat
      BY <2>1, <2>2, FsConstants DEF ReqType, ManType
    <3>2. x = [mode |-> job.req.man.mode, cap |-> FALSE, w |-> job.req.man.w]
      BY <2>2 DEF Wanted
    <3> QED
      BY <3>1, <3>2 DEF Modes
  <2>3. CASE ~(~over /\ job.req.man # Off)
    <3>1. x = [mode |-> IF job.req.block \/ job.req.lock THEN "Block" ELSE "None",
               cap |-> hot, w |-> 0]
      BY <2>3 DEF Wanted
    <3> QED
      BY <3>1 DEF Modes, Forced
  <2> QED
    BY <2>2, <2>3
<1> PICK mode \in Modes, cap \in BOOLEAN, w \in Nat :
        x = [mode |-> mode, cap |-> cap, w |-> w] /\ (mode \in Forced => ~cap)
  BY <1>4
<1>5. CASE /\ IF x.mode # "None" \/ x.cap THEN ~InForce(x, inv[d]) ELSE Owes
           /\ Apply(x, o, inv[d])
  <2>1. mode # "None" \/ cap \/ own.owned
    BY <1>5 DEF Owes
  <2>2. Apply([mode |-> mode, cap |-> cap, w |-> w], o, inv[d])
    <3>1. Apply(x, o, inv[d])
      BY <1>5, Zenon
    <3> QED
      BY <3>1, Zenon
  <2> QED
    BY <1>2, <1>3, <2>1, <2>2, Zenon
<1>6. CASE pc' = "idle" /\ job' = NoJob /\ own' = o /\ UNCHANGED << nvs, unsaved, orphans, active >>
  BY <1>2, <1>3, <1>6, Zenon
<1> QED
  BY <1>1, <1>5, <1>6

LEMMA TickDecideTyped ==
  ASSUME StorageType, TickDecide PROVE StorageType'
<1> PICK d \in DevicesNow, mode \in Modes, cap \in BOOLEAN, w \in Nat, o \in OwnType :
      /\ o = [own EXCEPT !.dev = d]
      /\ \/ Apply([mode |-> mode, cap |-> cap, w |-> w], o, inv[d])
         \/ /\ pc' = "idle" /\ job' = NoJob /\ own' = o
            /\ UNCHANGED << nvs, unsaved, orphans, active >>
      /\ req' \in ReqType /\ UNCHANGED << inv, cands, wish >>
  BY TickDecides, Zenon
<1>1. /\ d \in Devices /\ (own.owned => d = own.dev /\ o = own)
      /\ o \in OwnType /\ o.dev = d /\ o.owned = own.owned
  BY DeviceNamed
<1>2. CASE Apply([mode |-> mode, cap |-> cap, w |-> w], o, inv[d])
  BY <1>1, <1>2, ApplyTyped
<1>3. CASE /\ pc' = "idle" /\ job' = NoJob /\ own' = o
           /\ UNCHANGED << nvs, unsaved, orphans, active >>
  BY <1>1, <1>3, NothingTyped DEF StorageType
<1> QED
  BY <1>2, <1>3

LEMMA HandTyped ==
  ASSUME StorageType, NEW f \in Fields, NEW v,
         v \in (IF f = "ctl" THEN SUBSET Bits ELSE HandRates), Hand(f, v)
  PROVE  StorageType'
<1> PICK d \in DevicesNow :
      LET o == [own EXCEPT !.dev = d] IN
       \/ own' = o /\ UNCHANGED << wish, nvs, unsaved, pc, job >>
       \/ /\ own.owned /\ own' = [o EXCEPT ![f] = v] /\ Persist(own')
          /\ wish' = [wish EXCEPT ![d][f] = {v}]
          /\ UNCHANGED << pc, job >>
       \/ /\ own' = o /\ pc' = "hand"
          /\ wish' = [wish EXCEPT ![d][f] = @ \cup {v}]
          /\ job' = [NoJob EXCEPT !.steps = << Write(f, v), Check(f, v) >>,
                                  !.hand = << f, v >>]
          /\ UNCHANGED << nvs, unsaved >>
  BY DEF Hand, IsBase
<1> PICK o : o = [own EXCEPT !.dev = d]
  OBVIOUS
<1>1. /\ d \in Devices /\ (own.owned => d = own.dev) /\ (own.owned => o = own)
      /\ o \in OwnType /\ o.dev = d /\ o.owned = own.owned
  BY DeviceNamed
<1>2. /\ pc = "idle" /\ UNCHANGED << inv, cands, orphans, req >>
  BY DEF Hand
<1>3. v \in (IF f = "ctl" THEN SUBSET Bits ELSE 0..Full)
  BY FsConstants
<1>4. wish[d] \in WishType /\ wish[d][f] \subseteq (IF f = "ctl" THEN SUBSET Bits ELSE 0..Full)
  BY <1>1 DEF StorageType, WishType, Fields
<1>5. CASE own' = o /\ UNCHANGED << wish, nvs, unsaved, pc, job >>
  BY <1>1, <1>2, <1>5 DEF StorageType
<1>6. CASE /\ own.owned /\ own' = [o EXCEPT ![f] = v] /\ Persist(own')
           /\ wish' = [wish EXCEPT ![d][f] = {v}] /\ UNCHANGED << pc, job >>
  <2>1. own' \in OwnType /\ own'.dev = d
    <3>1. CASE f = "ctl"
      BY <1>1, <1>3, <1>6, <3>1 DEF OwnType
    <3>2. CASE f # "ctl"
      <4>1. v \in Rates
        BY <1>3, <3>2, FsConstants
      <4> QED
        BY <1>1, <1>6, <3>2, <4>1 DEF OwnType, Fields
    <3> QED
      BY <3>1, <3>2
  <2>2. /\ nvs' \in OwnType /\ unsaved' \in BOOLEAN /\ (nvs'.owned => nvs'.dev \in Devices)
    BY <1>1, <1>6, <2>1, PersistTyped
  <2>3. wish' \in [Devices -> WishType]
    <3>1. {v} \subseteq (IF f = "ctl" THEN SUBSET Bits ELSE 0..Full)
      BY <1>3
    <3>2. Expect(d, f, {v})
      BY <1>6 DEF Expect
    <3> QED
      BY <1>1, <3>1, <3>2, WishTyped
  <2> QED
    BY <1>1, <1>2, <1>6, <2>1, <2>2, <2>3 DEF StorageType
<1>7. CASE /\ own' = o /\ pc' = "hand"
           /\ wish' = [wish EXCEPT ![d][f] = wish[d][f] \cup {v}]
           /\ job' = [NoJob EXCEPT !.steps = << Write(f, v), Check(f, v) >>, !.hand = << f, v >>]
           /\ UNCHANGED << nvs, unsaved >>
  <2>1. wish' \in [Devices -> WishType]
    <3>1. wish[d][f] \cup {v} \subseteq (IF f = "ctl" THEN SUBSET Bits ELSE 0..Full)
      BY <1>3, <1>4
    <3>2. Expect(d, f, wish[d][f] \cup {v})
      BY <1>7 DEF Expect
    <3> QED
      BY <1>1, <3>1, <3>2, WishTyped
  <2>2. /\ job'.steps = << Write(f, v), Check(f, v) >> /\ job'.hand = << f, v >>
        /\ job'.req = NoJob.req /\ DOMAIN job' = DOMAIN NoJob
    BY <1>7 DEF NoJob
  <2>3. Write(f, v) \in StepType /\ Check(f, v) \in StepType
    <3>1. v \in (IF f = "ctl" THEN SUBSET Bits ELSE Rates)
      BY <1>3, FsConstants
    <3> QED
      BY <3>1 DEF StepType, Fields
  <2>4. HandType(job'.hand[1], job'.hand[2])
    BY <1>3, <2>2 DEF HandType
  <2> QED
    BY <1>1, <1>2, <1>7, <2>1, <2>2, <2>3, <2>4, NothingTyped DEF StorageType
<1> QED
  BY <1>5, <1>6, <1>7

(* A step of the batch, done or broken off; its end; and a restart. *)
LEMMA BatchTyped ==
  ASSUME StorageType, WriteReg \/ WriteFails \/ ReadBack \/ ReadFails
  PROVE  StorageType'
<1>1. Busy /\ own.dev \in Devices /\ job.steps # << >> /\ job.steps \in Seq(StepType)
  BY DEF StorageType, WriteReg, WriteFails, ReadBack, ReadFails, Busy
<1>2. Head(job.steps) \in StepType /\ Tail(job.steps) \in Seq(StepType)
  BY <1>1
<1>3. UNCHANGED << cands, wish, orphans, record, req >>
  BY DEF WriteReg, WriteFails, ReadBack, ReadFails, Abort, world, record
<1>4. inv' \in [Devices -> Regs]
  <2>1. CASE inv' = inv
    BY <2>1 DEF StorageType
  <2>2. CASE Step.do = "write" /\ inv' = [inv EXCEPT ![own.dev][Step.field] = Step.val]
    <3> PICK f, v, i : f = Step.field /\ v = Step.val /\ i = inv[own.dev]
      OBVIOUS
    <3>1. f \in Fields /\ v \in (IF f = "ctl" THEN SUBSET Bits ELSE Rates)
      BY <1>2, <2>2, WriteTyped DEF Step
    <3> PICK j : j = [i EXCEPT ![f] = v]
      OBVIOUS
    <3>2. j \in Regs
      BY <1>1, <3>1 DEF StorageType, Regs, Fields
    <3>3. inv' = [inv EXCEPT ![own.dev] = j]
      BY <1>1, <2>2 DEF StorageType
    <3> QED
      BY <1>1, <3>2, <3>3 DEF StorageType
  <2> QED
    BY <2>1, <2>2 DEF WriteReg, WriteFails, ReadBack, ReadFails, world
<1>5. \/ pc' = "idle" /\ job' = NoJob
      \/ pc' = pc /\ job' = [job EXCEPT !.steps = Tail(job.steps)]
  BY DEF WriteReg, WriteFails, ReadBack, ReadFails, Abort, Proceed
<1>6. CASE pc' = "idle" /\ job' = NoJob
  BY <1>3, <1>4, <1>6, NothingTyped DEF StorageType, record
<1>7. CASE pc' = pc /\ job' = [job EXCEPT !.steps = Tail(job.steps)]
  <2>1. /\ job'.steps = Tail(job.steps) /\ job'.req = job.req /\ job'.hand = job.hand
        /\ DOMAIN job' = DOMAIN job
    BY <1>7 DEF StorageType
  <2> QED
    BY <1>2, <1>3, <1>4, <1>7, <2>1 DEF StorageType, record
<1> QED
  BY <1>5, <1>6, <1>7

LEMMA DoneTyped ==
  ASSUME StorageType, Done PROVE StorageType'
<1>1. /\ pc' = "idle" /\ job' = NoJob /\ Busy /\ own.dev \in Devices
      /\ UNCHANGED << inv, cands, orphans, req >>
  BY DEF Done, Busy, StorageType
<1>2. CASE UNCHANGED << record, wish >>
  BY <1>1, <1>2, NothingTyped DEF StorageType, record
<1>3. CASE own' = [Free EXCEPT !.dev = own.dev] /\ Persist(Free) /\ UNCHANGED wish
  <2>1. own' \in OwnType /\ ~own'.owned
    BY <1>1, <1>3, NothingTyped DEF OwnType
  <2>2. /\ nvs' \in OwnType /\ unsaved' \in BOOLEAN /\ (nvs'.owned => nvs'.dev \in Devices)
    BY <1>3, NothingTyped, PersistTyped
  <2> QED
    BY <1>1, <1>3, <2>1, <2>2, NothingTyped DEF StorageType
<1>4. CASE /\ pc = "hand" /\ wish' = [wish EXCEPT ![own.dev][job.hand[1]] = {job.hand[2]}]
           /\ IF job.hand[1] = "in" /\ own.owned /\ own.inKnown
              THEN own' = [own EXCEPT !.in = job.hand[2]] /\ Persist(own')
              ELSE UNCHANGED record
  <2> PICK d \in Devices : d = own.dev
    BY <1>1
  <2> PICK f, v : f = job.hand[1] /\ v = job.hand[2]
    OBVIOUS
  <2>1. f \in Fields /\ v \in (IF f = "ctl" THEN SUBSET Bits ELSE 0..Full)
    BY <1>4 DEF StorageType, HandType
  <2>2. wish' \in [Devices -> WishType]
    <3>1. {v} \subseteq (IF f = "ctl" THEN SUBSET Bits ELSE 0..Full)
      BY <2>1
    <3>2. Expect(d, f, {v})
      BY <1>4 DEF Expect
    <3> QED
      BY <2>1, <3>1, <3>2, WishTyped
  <2>3. CASE UNCHANGED record
    BY <1>1, <2>2, <2>3, NothingTyped DEF StorageType, record
  <2>4. CASE f = "in" /\ own.owned /\ own' = [own EXCEPT !.in = v] /\ Persist(own')
    <3>1. own' \in OwnType /\ own'.dev = own.dev
      BY <1>1, <2>1, <2>4, FsConstants DEF StorageType, OwnType
    <3>2. /\ nvs' \in OwnType /\ unsaved' \in BOOLEAN /\ (nvs'.owned => nvs'.dev \in Devices)
      BY <1>1, <2>4, <3>1, PersistTyped
    <3> QED
      BY <1>1, <2>2, <3>1, <3>2, NothingTyped DEF StorageType
  <2> QED
    BY <1>4, <2>3, <2>4
<1> QED
  BY <1>2, <1>3, <1>4 DEF Done

LEMMA FaultsTyped ==
  ASSUME StorageType, (NoConnection \/ TakeBack \/ Restart)
  PROVE  StorageType'
<1>1. CASE NoConnection
  BY <1>1, NothingTyped DEF StorageType, NoConnection, world, record
<1>2. CASE TakeBack
  <2> PICK i : i = inv[own.dev]
    OBVIOUS
  <2> PICK j : j = [ctl |-> {}, out |-> Full, in |-> IF own.inTouched THEN Full ELSE i.in]
    OBVIOUS
  <2>1. inv' = [inv EXCEPT ![own.dev] = j]
    BY <1>2 DEF TakeBack
  <2>2. own.dev \in Devices => j \in Regs
    BY FsConstants DEF StorageType, Regs
  <2>3. inv' \in [Devices -> Regs]
    BY <2>1, <2>2 DEF StorageType
  <2> QED
    BY <1>2, <2>3 DEF StorageType, TakeBack, record
<1>3. CASE Restart
  <2>1. /\ own' = (IF nvs.owned THEN nvs ELSE Free) /\ req' = NoReq /\ pc' = "idle" /\ job' = NoJob
        /\ unsaved' = FALSE /\ UNCHANGED << inv, cands, wish, nvs >>
        /\ orphans' \subseteq Devices
    BY <1>3 DEF Restart, StorageType
  <2> QED
    BY <2>1, NothingTyped DEF StorageType
<1> QED
  BY <1>1, <1>2, <1>3

LEMMA FsTyped == StorageType /\ [Next]_vars => StorageType'
<1> SUFFICES ASSUME StorageType, [Next]_vars PROVE StorageType'
  OBVIOUS
<1>1. CASE \/ Requests \/ StopForce
           \/ \E m \in Forced, w \in ForceRates, t \in ForceEnds : AskForce(m, w, t)
  BY <1>1, RequestsTyped
<1>2. CASE ByHand
  <2>1. ASSUME NEW f \in {"out", "in"}, NEW v \in HandRates, Hand(f, v) PROVE StorageType'
    BY <2>1, HandTyped DEF Fields
  <2>2. ASSUME NEW v \in SUBSET Bits, Hand("ctl", v) PROVE StorageType'
    BY <2>2, HandTyped DEF Fields
  <2> QED
    BY <1>2, <2>1, <2>2 DEF ByHand
<1>3. CASE Tick
  BY <1>3, TickBeginsTyped, TickDecideTyped, BatchTyped, DoneTyped DEF Tick
<1>4. CASE Faults
  BY <1>4, BatchTyped, FaultsTyped DEF Faults
<1>5. CASE UNCHANGED vars
  BY <1>5 DEF vars, StorageType
<1> QED
  BY <1>1, <1>2, <1>3, <1>4, <1>5 DEF Next, OnThePage

(* fs_target(): the window is open in what a mode drives, and what is not *)
(* touched stays as the operator left it.                                  *)
LEMMA TargetGoal ==
  ASSUME NEW mode \in Modes, NEW cap \in BOOLEAN, NEW w \in Nat, NEW o \in OwnType, NEW m,
         o.known, o.inKnown, o.out >= 0, o.in >= 0,
         mode \in Forced => ~cap, mode \in Forced \/ cap => o.inTouched,
         NEW t, t = Target(mode, cap, w, o, m)
  PROVE  /\ t.ctl \subseteq Bits /\ t.out \in Rates /\ t.in \in Rates
         /\ t.setIn \in BOOLEAN /\ t.setIn = o.inTouched
         /\ Window(t) /\ (~t.setIn => t.out >= 0)
         /\ mode = "None" /\ ~cap => t.out = o.out /\ t.ctl = o.ctl /\ t.in = o.in
<1>1. Clamped(w) \in 0..2
  BY FsConstants DEF Clamped
<1>2. CASE mode = "Charge"
  <2>1. t = [ctl |-> Bits, out |-> -Clamped(w), in |-> Clamped(w), setIn |-> TRUE]
    BY <1>2, Zenon DEF Target
  <2>2. t.ctl = Bits /\ t.out = -Clamped(w) /\ t.in = Clamped(w) /\ t.setIn
    BY <2>1
  <2>3. t.out \in Rates /\ t.in \in Rates /\ Window(t)
    BY <1>1, <2>2, FsConstants DEF Window
  <2>4. o.inTouched \in BOOLEAN /\ t.setIn \in BOOLEAN
    BY <2>1 DEF OwnType
  <2> QED
    BY <1>2, <2>2, <2>3, <2>4 DEF Forced
<1>3. CASE mode = "Discharge"
  <2>1. t = [ctl |-> Bits, out |-> Clamped(w), in |-> -Clamped(w), setIn |-> TRUE]
    BY <1>3, Zenon DEF Target
  <2>2. t.ctl = Bits /\ t.out = Clamped(w) /\ t.in = -Clamped(w) /\ t.setIn
    BY <2>1
  <2>3. t.out \in Rates /\ t.in \in Rates /\ Window(t)
    BY <1>1, <2>2, FsConstants DEF Window
  <2>4. o.inTouched \in BOOLEAN /\ t.setIn \in BOOLEAN
    BY <2>1 DEF OwnType
  <2> QED
    BY <1>3, <2>2, <2>3, <2>4 DEF Forced
<1>4. CASE mode \notin Forced
  <2> DEFINE under == IF mode = "Block" THEN o.ctl \cup {"discharge"} ELSE o.ctl
  <2>1. t = [ctl |-> IF cap THEN under \cup {"charge"} ELSE under,
             out |-> IF mode = "Block" THEN Empty ELSE o.out,
             in |-> IF cap THEN Empty ELSE o.in, setIn |-> cap \/ o.inTouched]
    BY <1>4, Zenon DEF Target, Forced
  <2>2. /\ t.ctl = IF cap THEN under \cup {"charge"} ELSE under
        /\ t.out = IF mode = "Block" THEN Empty ELSE o.out
        /\ t.in = IF cap THEN Empty ELSE o.in
    BY <2>1
  <2>3. o.out \in Rates /\ o.in \in Rates /\ o.ctl \subseteq Bits /\ o.inTouched \in BOOLEAN
    BY DEF OwnType
  <2>4. t.ctl \subseteq Bits
    BY <2>2, <2>3 DEF Bits
  <2>5. t.out \in Rates /\ t.in \in Rates /\ t.out >= 0 /\ t.in >= 0
    BY <2>2, <2>3, FsConstants
  <2>6. Window(t)
    BY <2>5, FsConstants DEF Window
  <2>7. t.setIn = (cap \/ o.inTouched)
    BY <2>1
  <2>8. t.setIn = o.inTouched /\ t.setIn \in BOOLEAN
    BY <2>3, <2>7
  <2>9. mode = "None" /\ ~cap => t.out = o.out /\ t.ctl = o.ctl /\ t.in = o.in
    BY <2>2
  <2> QED
    BY <2>4, <2>5, <2>6, <2>8, <2>9
<1> QED
  BY <1>2, <1>3, <1>4 DEF Forced

LEMMA StepsAhead ==
  ASSUME NEW t, NEW o, Goal(t, o), NEW m \in Regs, Window(m)
  PROVE  Ahead(t, m, Steps(t, m))
<1>1. t.in \in -2..2 /\ t.out \in -2..2 /\ m.in \in -2..2 /\ m.out \in -2..2
  BY FsConstants DEF Goal, Regs
<1>2. CASE t.setIn /\ InFirst(t, m)
  <2>1. t.in + m.out >= 0
    BY <1>1, <1>2 DEF InFirst, Window
  <2>2. Steps(t, m) = << Write("in", t.in), Check("in", t.in), Write("out", t.out),
                         Write("ctl", t.ctl), Verify >>
    BY <1>2 DEF Steps
  <2> QED
    BY <1>2, <2>1, <2>2 DEF Ahead, InFirstGoes, OutFirstGoes
<1>3. CASE t.setIn /\ ~InFirst(t, m)
  <2>1. m.in + t.out >= 0
    BY <1>1, <1>3 DEF InFirst, Window, Goal
  <2>2. Steps(t, m) = << Write("out", t.out), Check("out", t.out), Write("in", t.in),
                         Write("ctl", t.ctl), Verify >>
    BY <1>3 DEF Steps
  <2> QED
    BY <1>3, <2>1, <2>2 DEF Ahead, InFirstGoes, OutFirstGoes
<1>4. CASE ~t.setIn
  <2>1. Steps(t, m) = << Write("out", t.out), Write("ctl", t.ctl), Verify >>
    BY <1>4 DEF Steps
  <2> QED
    BY <1>4, <2>1 DEF Ahead, OutOnly, OutLeft
<1> QED
  BY <1>2, <1>3, <1>4

LEMMA FsInit == Init => FsInv
<1> SUFFICES ASSUME Init PROVE FsInv
  OBVIOUS
<1>1. StorageType
  BY StartTyped
<1>2. \A d \in Devices : inv[d].ctl = Bits /\ inv[d].out = 1 /\ inv[d].in = 2
  BY FsConstants DEF Init, Regs
<1>3. Recorded /\ Unforced /\ Applying /\ HandGoes
  BY NothingTyped DEF Init, Recorded, Unforced, Applying, HandGoes, Setting
<1>4. Elsewhere
  BY <1>2 DEF Init, Elsewhere, Ours, Fields, Regs
<1>5. WindowOpen
  BY <1>2 DEF WindowOpen
<1> QED
  BY <1>1, <1>3, <1>4, <1>5 DEF FsInv, Sound

LEMMA FsSame ==
  ASSUME FsInv, UNCHANGED << inv, wish, orphans, record, active, pc, job >>
  PROVE  Sound'
BY DEF FsInv, Sound, record, Recorded, Elsewhere, Ours, Unforced, WindowOpen, Applying, HandGoes,
       Goal, Ahead, Restores, Reached, Setting1, IsBase

(* Between two batches nothing is under way. *)
LEMMA FsResting ==
  ASSUME FsInv, UNCHANGED << inv, wish, orphans, record >>, active'.on => active.on,
         pc' \notin {"apply", "hand"}
  PROVE  Sound'
<1>1. Elsewhere' /\ Unforced' /\ WindowOpen'
  BY DEF FsInv, Sound, Elsewhere, Ours, Unforced, WindowOpen, record
<1>2. Recorded'
  BY DEF FsInv, Sound, Recorded, record
<1> QED
  BY <1>1, <1>2 DEF Sound, Applying, HandGoes

(* fs_apply(): the originals are known before the first write, unless the   *)
(* inverter becomes an orphan, and on record, unless the save was refused.  *)
LEMMA FsApply ==
  ASSUME FsInv, StorageType', NEW d \in Devices, own.owned => d = own.dev,
         NEW o \in OwnType, o.dev = d, o.owned = own.owned, o.inTouched = own.inTouched,
         own.owned => o = own,
         NEW mode \in Modes, NEW cap \in BOOLEAN, NEW w \in Nat, mode \in Forced => ~cap,
         mode # "None" \/ cap \/ own.owned,
         Apply([mode |-> mode, cap |-> cap, w |-> w], o, inv[d]),
         UNCHANGED << inv, cands, wish >>
  PROVE  Sound'
<1> PICK m : m = inv[d]
  OBVIOUS
<1> PICK ours \in BOOLEAN : ours = (mode # "None" \/ cap)
  OBVIOUS
<1> PICK o0, o1 : o0 = Capture(o, m) /\ o1 = Taken(mode, cap, o, m)
  OBVIOUS
<1> PICK t : t = Target(mode, cap, w, own', m)
  OBVIOUS
<1>1. /\ m \in Regs /\ wish[d] \in WishType
      /\ d \notin orphans => Window(m) /\ (own.owned \/ \A f \in Fields : m[f] \in wish[d][f])
  BY DEF FsInv, Sound, StorageType, WindowOpen, Window, Elsewhere, Ours
<1>2. own' = (IF ours THEN o1 ELSE o) /\ active' = Setting
  BY DEF Apply, TakesOver
<1>3. /\ job'.set = [on |-> ours, mode |-> mode, cap |-> cap, w |-> w, tgt |-> t]
      /\ job'.steps = Steps(t, m) /\ pc' = "apply"
  <2> PICK st, goal : /\ st = Steps(t, m)
                      /\ goal = [on |-> ours, mode |-> mode, cap |-> cap, w |-> w, tgt |-> t]
    OBVIOUS
  <2>1. job' = [job EXCEPT !.steps = st, !.set = goal]
    BY <1>2 DEF Apply
  <2>2. pc' = "apply"
    BY DEF Apply
  <2> QED
    BY <2>1, <2>2 DEF FsInv, StorageType
<1>4. /\ o0 \in OwnType /\ o0.owned /\ o1 \in OwnType /\ o1.owned /\ o1.dev = d
      /\ own' \in OwnType /\ own'.dev = d /\ own'.owned
  <2>1. o0 \in OwnType /\ o0.owned /\ o1 \in OwnType /\ o1.owned /\ o1.dev = d
    BY <1>1, TakenTyped
  <2> QED
    BY <1>2, <2>1
<1>5. /\ unsaved' \/ nvs' = own'
      /\ orphans \subseteq orphans' /\ orphans' \subseteq orphans \cup {d}
      /\ d \notin orphans' => d \notin orphans /\ (own.owned \/ ~Leftover(m))
  <2>1. own.owned => unsaved \/ nvs = o
    BY DEF FsInv, Sound, Recorded
  <2>2. CASE ours
    <3>1. TakesOver(mode, cap, o, m)
      BY <2>2 DEF Apply
    <3>2. orphans' = IF o0 # o /\ ~o0.known THEN orphans \cup {d} ELSE orphans
      BY <3>1 DEF TakesOver
    <3>3. ~own.owned => o0 # o /\ (o0.known <=> ~Leftover(m))
      BY <1>4 DEF Capture, Captured, OwnType
    <3>4. o1 # o => unsaved' \/ nvs' = o1
      BY <3>1 DEF TakesOver, Persist, NotSaved
    <3>5. o1 = o => own.owned /\ UNCHANGED << nvs, unsaved >>
      BY <1>4, <3>1 DEF TakesOver
    <3> QED
      BY <1>2, <2>1, <2>2, <3>2, <3>3, <3>4, <3>5
  <2>3. CASE ~ours
    <3>1. own.owned /\ UNCHANGED << nvs, unsaved, orphans >>
      BY <2>3 DEF Apply
    <3> QED
      BY <1>2, <2>1, <2>3, <3>1
  <2> QED
    BY <2>2, <2>3
<1>6. own'.inTouched <=> (o.inTouched \/ mode \in Forced \/ cap)
  <2>1. o0.inTouched = o.inTouched
    BY DEF Capture, Captured, OwnType
  <2>2. o1.inTouched <=> (o0.inTouched \/ mode \in Forced \/ cap)
    <3>1. CASE mode \in Forced \/ cap
      <4>1. \E a, b : o1 = [o0 EXCEPT !.in = a, !.inKnown = b, !.inTouched = TRUE]
        BY <3>1, Zenon DEF Taken
      <4> QED
        BY <1>4, <3>1, <4>1 DEF OwnType
    <3>2. CASE ~(mode \in Forced \/ cap)
      BY <3>2 DEF Taken
    <3> QED
      BY <3>1, <3>2
  <2> QED
    BY <1>2, <2>1, <2>2 DEF Forced
<1>7. ASSUME d \notin orphans'
      PROVE  /\ own'.known /\ own'.inKnown
             /\ own.owned => own'.ctl = o.ctl /\ own'.out = o.out /\ own'.in = o.in
             /\ ~own.owned => own'.ctl = m.ctl /\ own'.out = m.out /\ own'.in = m.in
  <2>1. own.owned => o.known /\ o.inKnown
    BY <1>5, <1>7 DEF FsInv, Sound, Recorded
  <2>2. CASE own.owned
    <3>1. o0 = o
      BY <2>2 DEF Capture, Captured
    <3>2. o1 = o \/ o1 = [o EXCEPT !.in = o.in, !.inKnown = TRUE, !.inTouched = TRUE]
      BY <2>1, <2>2, <3>1 DEF Taken
    <3>3. o1.known /\ o1.inKnown /\ o1.ctl = o.ctl /\ o1.out = o.out /\ o1.in = o.in
      <4>1. CASE o1 = o
        BY <2>1, <2>2, <4>1
      <4>2. CASE o1 = [o EXCEPT !.in = o.in, !.inKnown = TRUE, !.inTouched = TRUE]
        BY <2>1, <2>2, <4>2 DEF OwnType
      <4> QED
        BY <3>2, <4>1, <4>2
    <3> QED
      BY <1>2, <2>1, <2>2, <3>3
  <2>3. CASE ~own.owned
    <3>1. ours /\ ~Leftover(m)
      BY <1>5, <1>7, <2>3
    <3>2. o0 = [o EXCEPT !.owned = TRUE, !.known = TRUE, !.inKnown = TRUE,
                         !.ctl = m.ctl, !.out = m.out, !.in = m.in]
      BY <2>3, <3>1 DEF Capture, Captured
    <3>3. o0.known /\ o0.inKnown /\ o0.ctl = m.ctl /\ o0.out = m.out /\ o0.in = m.in
      BY <3>2 DEF OwnType
    <3>4. o1 = o0 \/ o1 = [o0 EXCEPT !.in = o0.in, !.inKnown = TRUE, !.inTouched = TRUE]
      BY <3>3 DEF Taken
    <3>5. o1.known /\ o1.inKnown /\ o1.ctl = m.ctl /\ o1.out = m.out /\ o1.in = m.in
      <4>1. CASE o1 = o0
        BY <3>3, <4>1
      <4>2. CASE o1 = [o0 EXCEPT !.in = o0.in, !.inKnown = TRUE, !.inTouched = TRUE]
        BY <1>4, <3>3, <4>2 DEF OwnType
      <4> QED
        BY <3>4, <4>1, <4>2
    <3> QED
      BY <1>2, <2>3, <3>1, <3>5
  <2> QED
    BY <2>2, <2>3
<1>8. ASSUME d \notin orphans'
      PROVE  /\ \A f \in Fields : own'[f] \in wish[d][f]
             /\ own'.out >= 0 /\ own'.in >= 0
  <2>1. own'.ctl \in wish[d].ctl /\ own'.out \in wish[d].out /\ own'.in \in wish[d].in
    <3>1. CASE own.owned
      <4>1. \A f \in Fields : o[f] \in wish[d][f]
        BY <1>5, <1>8, <3>1 DEF FsInv, Sound, Recorded
      <4> QED
        BY <1>7, <1>8, <3>1, <4>1 DEF Fields
    <3>2. CASE ~own.owned
      BY <1>1, <1>5, <1>7, <1>8, <3>2 DEF Fields
    <3> QED
      BY <3>1, <3>2
  <2>2. wish[d].out \subseteq 0..2 /\ wish[d].in \subseteq 0..2
    BY <1>1, FsConstants DEF WishType
  <2> QED
    BY <2>1, <2>2 DEF Fields
<1>9. ASSUME d \notin orphans'
      PROVE  /\ t.ctl \subseteq Bits /\ t.out \in Rates /\ t.in \in Rates
             /\ t.setIn \in BOOLEAN /\ t.setIn = own'.inTouched
             /\ Window(t) /\ (~t.setIn => t.out >= 0)
             /\ ~ours => t.out = own'.out /\ t.ctl = own'.ctl /\ t.in = own'.in
  <2>1. mode \in Forced \/ cap => own'.inTouched
    BY <1>6
  <2>2. own'.known /\ own'.inKnown /\ own'.out >= 0 /\ own'.in >= 0
    BY <1>7, <1>8, <1>9
  <2>3. ~ours => mode = "None" /\ ~cap
    OBVIOUS
  <2>4. /\ t.ctl \subseteq Bits /\ t.out \in Rates /\ t.in \in Rates
        /\ t.setIn \in BOOLEAN /\ t.setIn = own'.inTouched
        /\ Window(t) /\ (~t.setIn => t.out >= 0)
        /\ mode = "None" /\ ~cap => t.out = own'.out /\ t.ctl = own'.ctl /\ t.in = own'.in
    BY <1>4, <2>1, <2>2, TargetGoal
  <2> QED
    BY <2>3, <2>4
<1>10. Recorded'
  BY <1>2, <1>4, <1>5, <1>7, <1>8 DEF Recorded, Setting
<1>11. Elsewhere'
  <2> SUFFICES ASSUME NEW e \in Devices \ orphans', NEW f \in Fields, Ours(e, f)
               PROVE  Ours(e, f)'
    BY <1>5 DEF Elsewhere, FsInv, Sound
  <2> QED
    BY <1>4, <1>6 DEF Ours
<1>12. Unforced'
  <2> SUFFICES ASSUME ~own'.inTouched, d \notin orphans' PROVE m.out >= 0
    BY <1>4 DEF Unforced
  <2>1. own.owned => m.out >= 0
    BY <1>5, <1>6 DEF FsInv, Sound, Unforced
  <2> QED
    BY <1>7, <1>8, <2>1
<1>13. WindowOpen'
  BY <1>5 DEF FsInv, Sound, WindowOpen
<1>14. Applying'
  <2>1. own'.owned /\ ~active'.on /\ job'.set.on = ours /\ job'.set.tgt = t
    BY <1>2, <1>3, <1>4 DEF Setting
  <2>2. ASSUME d \notin orphans'
        PROVE  /\ Goal(t, own') /\ Ahead(t, m, job'.steps)
               /\ ~ours => Restores(t)'
    <3>1. Goal(t, own')
      BY <1>9, <2>2 DEF Goal
    <3>2. Window(m)
      BY <1>1, <1>5, <2>2
    <3>3. Ahead(t, m, job'.steps)
      BY <1>1, <1>3, <3>1, <3>2, StepsAhead
    <3>4. ~ours => Restores(t)'
      BY <1>9, <2>2 DEF Restores
    <3> QED
      BY <3>1, <3>3, <3>4
  <2> QED
    BY <1>4, <2>1, <2>2 DEF Applying
<1> QED
  BY <1>3, <1>10, <1>11, <1>12, <1>13, <1>14 DEF Sound, HandGoes

(* fronius_storage_tick() with the model read: the mode to run is applied, *)
(* or left as it is.                                                       *)
LEMMA FsTickDecide ==
  ASSUME FsInv, StorageType', TickDecide PROVE Sound'
<1> PICK d \in DevicesNow, mode \in Modes, cap \in BOOLEAN, w \in Nat, o \in OwnType :
      /\ o = [own EXCEPT !.dev = d] /\ (mode \in Forced => ~cap)
      /\ \/ /\ mode # "None" \/ cap \/ own.owned
            /\ Apply([mode |-> mode, cap |-> cap, w |-> w], o, inv[d])
         \/ /\ pc' = "idle" /\ job' = NoJob /\ own' = o
            /\ UNCHANGED << nvs, unsaved, orphans, active >>
      /\ UNCHANGED << inv, cands, wish >>
  BY TickDecides, Zenon DEF FsInv
<1>1. /\ d \in Devices /\ (own.owned => d = own.dev) /\ (own.owned => o = own)
      /\ o.dev = d /\ o.owned = own.owned /\ o.inTouched = own.inTouched
  BY DeviceNamed DEF FsInv
<1>2. CASE /\ mode # "None" \/ cap \/ own.owned
           /\ Apply([mode |-> mode, cap |-> cap, w |-> w], o, inv[d])
  BY <1>1, <1>2, FsApply
<1>3. CASE /\ pc' = "idle" /\ job' = NoJob /\ own' = o
           /\ UNCHANGED << nvs, unsaved, orphans, active >>
  <2>1. Recorded'
    BY <1>1, <1>3 DEF FsInv, Sound, Recorded
  <2>2. Elsewhere' /\ Unforced' /\ WindowOpen'
    BY <1>1, <1>3 DEF FsInv, Sound, Elsewhere, Ours, Unforced, WindowOpen
  <2> QED
    BY <1>3, <2>1, <2>2 DEF Sound, Applying, HandGoes
<1> QED
  BY <1>2, <1>3

With(i, f, v) == [i EXCEPT ![f] = v]

(* A write of the sequence: the window stays open with it, and what comes  *)
(* next may come, whether the inverter took it ...                         *)
LEMMA AheadWrite ==
  ASSUME NEW t, NEW o, Goal(t, o), NEW i \in Regs, Window(i), o.inTouched \/ i.in >= 0,
         NEW s, Ahead(t, i, s), s # << >>, Head(s).do = "write", NEW j, j = With(i, Head(s).field, Head(s).val)
  PROVE  /\ j \in Regs /\ Window(j) /\ Ahead(t, j, Tail(s))
         /\ Head(s).field \in Fields /\ (o.inTouched \/ Head(s).field # "in")
<1>1. /\ t.ctl \subseteq Bits /\ t.out \in -2..2 /\ t.in \in -2..2 /\ i.ctl \subseteq Bits
      /\ i.out \in -2..2 /\ i.in \in -2..2 /\ Rates = -2..2 /\ i.in + i.out >= 0
      /\ (t.setIn => o.inTouched /\ t.in + t.out >= 0) /\ (~t.setIn => ~o.inTouched /\ t.out >= 0 /\ i.in >= 0)
  BY FsConstants DEF Goal, Regs, Window
<1>2. ASSUME Head(s) = Write("out", t.out), i.in + t.out >= 0
      PROVE  /\ j \in Regs /\ Window(j) /\ j.in = i.in /\ j.out = t.out
             /\ Head(s).field = "out"
  BY <1>1, <1>2 DEF Write, Regs, Window, With
<1>3. ASSUME Head(s) = Write("in", t.in), t.in + i.out >= 0
      PROVE  /\ j \in Regs /\ Window(j) /\ j.in = t.in /\ j.out = i.out
             /\ Head(s).field = "in"
  BY <1>1, <1>3 DEF Write, Regs, Window, With
<1>4. ASSUME Head(s) = Write("ctl", t.ctl)
      PROVE  /\ j \in Regs /\ Window(j) /\ Head(s).field = "ctl"
  BY <1>1, <1>4 DEF Write, Regs, Window, With
<1>5. CASE InFirstGoes(t, i, s)
  <2>1. /\ Head(s) = Write("in", t.in) /\ t.setIn
        /\ Tail(s) = << Check("in", t.in), Write("out", t.out), Write("ctl", t.ctl), Verify >>
    BY <1>5 DEF InFirstGoes
  <2>2. Ahead(t, j, Tail(s))
    BY <2>1 DEF Ahead, InAsked
  <2> QED
    BY <1>1, <1>3, <1>5, <2>1, <2>2 DEF InFirstGoes, Fields
<1>6. CASE OutGoes(t, i, s)
  <2>1. Head(s) = Write("out", t.out) /\ t.setIn /\ Tail(s) = BitsLeft(t) /\ i.in = t.in
    BY <1>6 DEF OutGoes, OutLeft, BitsLeft
  <2>2. i.in + t.out >= 0 /\ Ahead(t, j, Tail(s))
    BY <1>1, <2>1 DEF Ahead
  <2> QED
    BY <1>1, <1>2, <2>1, <2>2 DEF Fields
<1>7. CASE OutFirstGoes(t, i, s)
  <2>1. /\ Head(s) = Write("out", t.out) /\ t.setIn
        /\ Tail(s) = << Check("out", t.out), Write("in", t.in), Write("ctl", t.ctl), Verify >>
    BY <1>7 DEF OutFirstGoes
  <2>2. Ahead(t, j, Tail(s))
    BY <2>1 DEF Ahead, OutAsked
  <2> QED
    BY <1>1, <1>2, <1>7, <2>1, <2>2 DEF OutFirstGoes, Fields
<1>8. CASE InGoes(t, i, s)
  <2>1. Head(s) = Write("in", t.in) /\ t.setIn /\ Tail(s) = BitsLeft(t) /\ i.out = t.out
    BY <1>8 DEF InGoes, InLeft, BitsLeft
  <2>2. t.in + i.out >= 0 /\ Ahead(t, j, Tail(s))
    BY <1>1, <2>1 DEF Ahead
  <2>3. j \in Regs /\ Window(j) /\ Head(s).field = "in"
    BY <1>3, <2>1, <2>2
  <2>4. o.inTouched
    BY <1>1, <2>1
  <2> QED
    BY <2>2, <2>3, <2>4 DEF Fields
<1>9. CASE OutOnly(t, s)
  <2>1. Head(s) = Write("out", t.out) /\ ~t.setIn /\ Tail(s) = BitsLeft(t)
    BY <1>9 DEF OutOnly, OutLeft, BitsLeft
  <2>2. Ahead(t, j, Tail(s))
    BY <2>1 DEF Ahead
  <2>3. j \in Regs /\ Window(j) /\ Head(s).field = "out" /\ j.out >= 0
    BY <1>1, <1>2, <2>1, <2>2
  <2> QED
    BY <2>2, <2>3 DEF Fields
<1>10. CASE s = BitsLeft(t)
  <2>1. Head(s) = Write("ctl", t.ctl) /\ Tail(s) = << Verify >>
    BY <1>10 DEF BitsLeft
  <2>2. Ahead(t, j, Tail(s))
    BY <2>1 DEF Ahead
  <2>3. j \in Regs /\ Window(j) /\ Head(s).field = "ctl"
    BY <1>4, <2>1
  <2> QED
    BY <2>2, <2>3 DEF Fields
<1>11. CASE InAsked(t, s) \/ OutAsked(t, s) \/ s = << Verify >>
  BY <1>11 DEF InAsked, OutAsked, Verify, Check
<1> QED
  BY <1>5, <1>6, <1>7, <1>8, <1>9, <1>10, <1>11 DEF Ahead

LEMMA AheadOut ==
  ASSUME NEW t, NEW o, Goal(t, o), ~o.inTouched, NEW i, NEW s, Ahead(t, i, s),
         s # << >>, Head(s).do = "write", Head(s).field = "out"
  PROVE  Head(s).val \in Rates /\ Head(s).val >= 0
<1>1. ~t.setIn /\ t.out \in Rates /\ t.out >= 0
  BY DEF Goal
<1>2. CASE OutOnly(t, s)
  <2>1. Head(s) = Write("out", t.out)
    BY <1>2 DEF OutOnly, OutLeft
  <2> QED
    BY <1>1, <2>1 DEF Write
<1>3. CASE s = BitsLeft(t) \/ s = << Verify >>
  BY <1>3 DEF BitsLeft, Write, Verify
<1> QED
  BY <1>1, <1>2, <1>3 DEF Ahead, InFirstGoes, InAsked, OutGoes, OutFirstGoes, OutAsked, InGoes

(* ... or not. *)
LEMMA AheadIgnored ==
  ASSUME NEW t, NEW i, NEW s, Ahead(t, i, s), s # << >>, Head(s).do = "write"
  PROVE  Ahead(t, i, Tail(s))
<1>1. CASE InFirstGoes(t, i, s)
  BY <1>1 DEF InFirstGoes, InAsked, Ahead
<1>2. CASE OutFirstGoes(t, i, s)
  BY <1>2 DEF OutFirstGoes, OutAsked, Ahead
<1>3. CASE OutGoes(t, i, s) \/ InGoes(t, i, s) \/ OutOnly(t, s)
  <2>1. s = OutLeft(t) => Tail(s) = BitsLeft(t)
    BY DEF OutLeft, BitsLeft
  <2>2. s = InLeft(t) => Tail(s) = BitsLeft(t)
    BY DEF InLeft, BitsLeft
  <2>3. Tail(s) = BitsLeft(t)
    BY <1>3, <2>1, <2>2 DEF OutGoes, InGoes, OutOnly
  <2> QED
    BY <2>3 DEF Ahead
<1>4. CASE s = BitsLeft(t)
  <2>1. Tail(s) = << Verify >>
    BY <1>4 DEF BitsLeft
  <2> QED
    BY <2>1 DEF Ahead
<1>5. CASE InAsked(t, s) \/ OutAsked(t, s) \/ s = << Verify >>
  BY <1>5 DEF InAsked, OutAsked, Verify, Check
<1> QED
  BY <1>1, <1>2, <1>3, <1>4, <1>5 DEF Ahead

(* A read-back that shows what was written lets the next one go.           *)
LEMMA AheadCheck ==
  ASSUME NEW t, NEW i, NEW s, Ahead(t, i, s), s # << >>, Head(s).do # "write",
         Head(s).do = "check" => i[Head(s).field] = Head(s).val,
         Head(s).do # "check" => Reached(t, i)
  PROVE  Ahead(t, i, Tail(s))
<1>1. CASE InAsked(t, s)
  <2>1. Head(s) = Check("in", t.in) /\ Tail(s) = OutLeft(t) /\ t.setIn
    BY <1>1 DEF InAsked, OutLeft
  <2>2. i.in = t.in
    BY <2>1 DEF Check
  <2> QED
    BY <2>1, <2>2 DEF Ahead, OutGoes
<1>2. CASE OutAsked(t, s)
  <2>1. Head(s) = Check("out", t.out) /\ Tail(s) = InLeft(t) /\ t.setIn
    BY <1>2 DEF OutAsked, InLeft
  <2>2. i.out = t.out
    BY <2>1 DEF Check
  <2> QED
    BY <2>1, <2>2 DEF Ahead, InGoes
<1>3. CASE s = << Verify >>
  <2>1. Head(s) = Verify /\ Tail(s) = << >>
    BY <1>3
  <2>2. Reached(t, i)
    BY <2>1 DEF Verify
  <2> QED
    BY <2>1, <2>2 DEF Ahead
<1>4. CASE \/ InFirstGoes(t, i, s) \/ OutGoes(t, i, s) \/ OutFirstGoes(t, i, s)
           \/ InGoes(t, i, s) \/ OutOnly(t, s) \/ s = BitsLeft(t)
  BY <1>4 DEF InFirstGoes, OutGoes, OutFirstGoes, InGoes, OutOnly, OutLeft, InLeft, BitsLeft, Write
<1> QED
  BY <1>1, <1>2, <1>3, <1>4 DEF Ahead

(* A register that is not owed holds what the operator may expect of it.   *)
LEMMA NotOwed ==
  ASSUME FsInv, NEW d \in Devices \ orphans
  PROVE  /\ ~(own.owned /\ d = own.dev) => inv[d].out >= 0 /\ inv[d].in >= 0
         /\ ~(own.owned /\ d = own.dev /\ own.inTouched) => inv[d].in >= 0
         /\ ~(own.owned /\ d = own.dev /\ own.inTouched) => inv[d].out >= 0
<1>1. /\ Ours(d, "out") \/ inv[d].out \in wish[d].out
      /\ Ours(d, "in") \/ inv[d].in \in wish[d].in
  BY DEF FsInv, Sound, Elsewhere, Fields
<1>2. wish[d].out \subseteq 0..2 /\ wish[d].in \subseteq 0..2
  BY FsConstants DEF FsInv, StorageType, WishType
<1>3. own.owned /\ d = own.dev /\ ~own.inTouched => inv[d].out >= 0
  BY DEF FsInv, Sound, Unforced
<1> QED
  BY <1>1, <1>2, <1>3 DEF Ours

(* What a write leaves in the inverter, and that the rest of the batch may *)
(* follow whether it was taken or not.                                     *)
LEMMA WriteGood ==
  ASSUME FsInv, Busy, own.dev \notin orphans, job.steps # << >>, Step.do = "write",
         NEW f, f = Step.field, NEW v, v = Step.val, NEW i, i = inv[own.dev],
         NEW j, j = [i EXCEPT ![f] = v]
  PROVE  /\ own.dev \in Devices /\ f \in Fields /\ i \in Regs /\ j \in Regs /\ Window(j)
         /\ Ours(own.dev, f) \/ v \in wish[own.dev][f]
         /\ own.owned /\ ~own.inTouched => j.out >= 0
         /\ pc = "apply" => /\ Ahead(job.set.tgt, j, Tail(job.steps))
                            /\ Ahead(job.set.tgt, i, Tail(job.steps))
<1> PICK s : s = job.steps
  OBVIOUS
<1>0. /\ s # << >> /\ Head(s).do = "write" /\ f = Head(s).field /\ v = Head(s).val
      /\ own.dev \in Devices
  BY DEF Step, Busy, FsInv, StorageType
<1>1. CASE pc = "apply"
  <2> PICK t : t = job.set.tgt
    OBVIOUS
  <2>1. own.owned /\ Goal(t, own) /\ Ahead(t, i, s)
    BY <1>1 DEF FsInv, Sound, Applying
  <2>2. i \in Regs /\ Window(i)
    BY <1>0 DEF FsInv, Sound, StorageType, WindowOpen, Window
  <2>3. own.inTouched \/ i.in >= 0
    BY <1>0, <2>1, NotOwed
  <2>4. j = With(i, Head(s).field, Head(s).val)
    BY <1>0 DEF With
  <2>5. /\ j \in Regs /\ Window(j) /\ Ahead(t, j, Tail(s))
        /\ Head(s).field \in Fields /\ (own.inTouched \/ Head(s).field # "in")
    BY <1>0, <2>1, <2>2, <2>3, <2>4, AheadWrite
  <2>6. Ahead(t, i, Tail(s))
    BY <1>0, <2>1, AheadIgnored
  <2>7. Ours(own.dev, f)
    BY <1>0, <2>1, <2>5 DEF Ours
  <2>8. ~own.inTouched => j.out >= 0
    <3>1. ASSUME ~own.inTouched, Head(s).field = "out" PROVE j.out >= 0
      <4>1. v >= 0
        BY <1>0, <2>1, <3>1, AheadOut
      <4> QED
        BY <1>0, <2>2, <3>1, <4>1 DEF Regs
    <3>2. CASE Head(s).field # "out"
      <4>1. j.out = i.out
        BY <1>0, <2>2, <2>5, <3>2 DEF Regs, Fields
      <4> QED
        BY <2>1, <4>1 DEF FsInv, Sound, Unforced
    <3> QED
      BY <3>1, <3>2
  <2> QED
    BY <1>0, <1>1, <2>1, <2>2, <2>5, <2>6, <2>7, <2>8
<1>2. CASE pc = "hand"
  <2>1. Setting1(job.hand[1], job.hand[2])
    BY <1>2 DEF FsInv, Sound, HandGoes
  <2>2. s = << Write(job.hand[1], job.hand[2]), Check(job.hand[1], job.hand[2]) >>
    BY <1>0, <2>1 DEF Setting1, Check
  <2>3. f = job.hand[1] /\ v = job.hand[2]
    BY <1>0, <2>2 DEF Write
  <2>4. /\ f \in Fields /\ v \in wish[own.dev][f]
        /\ ~own.owned \/ (f = "in" /\ ~own.inTouched)
    BY <2>1, <2>3 DEF Setting1, IsBase
  <2>5. i \in Regs /\ wish[own.dev] \in WishType
    BY <1>0 DEF FsInv, StorageType
  <2>6. i.in \in -2..2 /\ i.out \in -2..2
    BY <2>5, FsConstants DEF Regs
  <2>7. /\ f = "out" => v \in 0..2 /\ i.in >= 0
        /\ f = "in" => v \in 0..2 /\ i.out >= 0
        /\ f = "ctl" => v \subseteq Bits /\ i.in >= 0 /\ i.out >= 0
    <3>1. i.in >= 0 /\ i.out >= 0
      BY <1>0, <2>4, NotOwed
    <3> QED
      BY <2>4, <2>5, <3>1, FsConstants DEF WishType
  <2>8. j \in Regs /\ Window(j) /\ (own.owned => j.out >= 0)
    <3>1. CASE f = "out"
      BY <2>4, <2>5, <2>6, <2>7, <3>1, FsConstants DEF Regs, Window
    <3>2. CASE f = "in"
      BY <2>4, <2>5, <2>6, <2>7, <3>2, FsConstants DEF Regs, Window
    <3>3. CASE f = "ctl"
      BY <2>4, <2>5, <2>6, <2>7, <3>3, FsConstants DEF Regs, Window
    <3> QED
      BY <2>4, <3>1, <3>2, <3>3 DEF Fields
  <2> QED
    BY <1>0, <1>2, <2>4, <2>5, <2>8
<1> QED
  BY <1>1, <1>2 DEF Busy

(* The registers after a write that was taken. *)
LEMMA WriteTaken ==
  ASSUME FsInv, StorageType', Busy, job.steps # << >>, Step.do = "write",
         UNCHANGED << own, wish, orphans >>,
         inv' = [inv EXCEPT ![own.dev][Step.field] = Step.val]
  PROVE  Elsewhere' /\ Unforced' /\ WindowOpen'
<1> PICK f, v, i : f = Step.field /\ v = Step.val /\ i = inv[own.dev]
  OBVIOUS
<1> PICK j : j = [i EXCEPT ![f] = v]
  OBVIOUS
<1>1. own.dev \notin orphans =>
        /\ f \in Fields /\ i \in Regs /\ j \in Regs /\ Window(j)
        /\ Ours(own.dev, f) \/ v \in wish[own.dev][f]
        /\ own.owned /\ ~own.inTouched => j.out >= 0
  BY WriteGood
<1>2. inv \in [Devices -> Regs] /\ own.dev \in Devices
  BY DEF FsInv, StorageType, Busy
<1>3. inv' = [inv EXCEPT ![own.dev] = j]
  BY <1>2
<1>4. inv'[own.dev] = j /\ \A d \in Devices : d # own.dev => inv'[d] = inv[d]
  BY <1>2, <1>3
<1>5. own.dev \notin orphans => j[f] = v /\ \A g \in Fields : g # f => j[g] = i[g]
  BY <1>1 DEF Regs, Fields
<1>6. Elsewhere'
  <2> SUFFICES ASSUME NEW d \in Devices \ orphans, NEW g \in Fields
               PROVE  Ours(d, g) \/ inv'[d][g] \in wish[d][g]
    BY DEF Elsewhere, Ours
  <2>1. Ours(d, g) \/ inv[d][g] \in wish[d][g]
    BY DEF FsInv, Sound, Elsewhere
  <2>2. CASE d = own.dev /\ g = f
    BY <1>1, <1>4, <1>5, <2>2
  <2>3. CASE d = own.dev /\ g # f
    BY <1>4, <1>5, <2>1, <2>3
  <2>4. CASE d # own.dev
    BY <1>4, <2>1, <2>4
  <2> QED
    BY <2>2, <2>3, <2>4
<1>7. Unforced'
  BY <1>1, <1>4 DEF Unforced
<1>8. WindowOpen'
  BY <1>1, <1>4 DEF FsInv, Sound, WindowOpen, Window
<1> QED
  BY <1>6, <1>7, <1>8

(* A write: taken, taken but not confirmed, refused, or silently ignored.  *)
LEMMA FsWriteReg ==
  ASSUME FsInv, StorageType', WriteReg \/ WriteFails PROVE Sound'
<1> PICK f, v, i : f = Step.field /\ v = Step.val /\ i = inv[own.dev]
  OBVIOUS
<1> PICK j : j = [i EXCEPT ![f] = v]
  OBVIOUS
<1>1. /\ Busy /\ job.steps # << >> /\ Step.do = "write" /\ own.dev \in Devices
      /\ inv \in [Devices -> Regs]
      /\ UNCHANGED << wish, cands, orphans, req, own, nvs, unsaved >>
  BY DEF WriteReg, WriteFails, Abort, record, bounds, Busy, FsInv, StorageType
<1>2. pc = "apply" /\ own.dev \notin orphans =>
        Ahead(job.set.tgt, j, Tail(job.steps)) /\ Ahead(job.set.tgt, i, Tail(job.steps))
  BY <1>1, WriteGood
<1>3. inv' = inv \/ inv' = [inv EXCEPT ![own.dev][Step.field] = Step.val]
  BY DEF WriteReg, WriteFails
<1>4. Elsewhere' /\ Unforced' /\ WindowOpen'
  <2>1. CASE inv' = inv
    BY <1>1, <2>1 DEF FsInv, Sound, Elsewhere, Ours, Unforced, WindowOpen
  <2> QED
    BY <1>1, <1>3, <2>1, WriteTaken
<1>5. Recorded'
  <2>1. active' = active
    BY DEF WriteReg, WriteFails, Abort
  <2> QED
    BY <1>1, <2>1 DEF FsInv, Sound, Recorded
<1>6. \/ pc' = "idle"
      \/ Proceed /\ UNCHANGED << active, pc >>
  BY DEF WriteReg, WriteFails, Abort
<1>7. CASE pc' = "idle"
  BY <1>4, <1>5, <1>7 DEF Sound, Applying, HandGoes
<1>8. CASE Proceed /\ UNCHANGED << active, pc >>
  <2>1. inv'[own.dev] = j \/ inv'[own.dev] = i
    BY <1>1, <1>3
  <2>2. /\ job'.set = job.set /\ job'.hand = job.hand /\ job'.steps = Tail(job.steps)
    BY <1>8 DEF Proceed, FsInv, StorageType
  <2>3. Applying'
    BY <1>1, <1>2, <1>8, <2>1, <2>2 DEF FsInv, Sound, Applying, Restores
  <2>4. HandGoes'
    <3> SUFFICES ASSUME pc = "hand"
                 PROVE  Tail(job.steps) = << Check(job.hand[1], job.hand[2]) >>
                        /\ Setting1(job.hand[1], job.hand[2])
      BY <1>1, <1>8, <2>2 DEF HandGoes, Setting1, IsBase
    <3>1. Setting1(job.hand[1], job.hand[2])
      BY DEF FsInv, Sound, HandGoes
    <3>2. job.steps = << Write(job.hand[1], job.hand[2]), Check(job.hand[1], job.hand[2]) >>
      BY <1>1, <3>1 DEF Setting1, Check, Step
    <3> QED
      BY <3>1, <3>2
  <2> QED
    BY <1>4, <1>5, <2>3, <2>4 DEF Sound
<1> QED
  BY <1>6, <1>7, <1>8

(* A read-back, and one that fails. *)
LEMMA FsReadBack ==
  ASSUME FsInv, StorageType', ReadBack \/ ReadFails PROVE Sound'
<1>1. /\ Busy /\ job.steps # << >> /\ Step.do # "write" /\ own.dev \in Devices
      /\ UNCHANGED << inv, wish, orphans, record, active >>
  BY DEF ReadBack, ReadFails, Abort, Busy, Proceed, world, record, FsInv, StorageType
<1>2. CASE pc' = "idle"
  BY <1>1, <1>2, FsResting
<1>3. CASE ReadBack /\ Holds(Step)
  <2> PICK t, i, s : t = job.set.tgt /\ i = inv[own.dev] /\ s = job.steps
    OBVIOUS
  <2>1. /\ Proceed /\ UNCHANGED pc
        /\ Head(s).do = "check" => i[Head(s).field] = Head(s).val
        /\ Head(s).do # "check" => Reached(t, i)
    BY <1>3 DEF ReadBack, Holds, Step, Reg, Reached
  <2>2. pc = "apply" /\ own.dev \notin orphans => Ahead(t, i, Tail(s))
    <3> SUFFICES ASSUME pc = "apply", own.dev \notin orphans PROVE Ahead(t, i, Tail(s))
      OBVIOUS
    <3>1. Ahead(t, i, s) /\ s # << >> /\ Head(s).do # "write"
      BY <1>1 DEF FsInv, Sound, Applying, Step
    <3> QED
      BY <2>1, <3>1, AheadCheck
  <2>3. ASSUME pc = "hand"
        PROVE  Tail(s) = << >> /\ i[job.hand[1]] = job.hand[2]
    <3>1. Setting1(job.hand[1], job.hand[2]) /\ s # << >> /\ Head(s).do # "write"
      BY <1>1, <2>3 DEF FsInv, Sound, HandGoes, Step
    <3>2. s = << Check(job.hand[1], job.hand[2]) >>
      BY <3>1 DEF Setting1, Write
    <3>3. Head(s) = Check(job.hand[1], job.hand[2]) /\ Tail(s) = << >>
      BY <3>2
    <3> QED
      BY <2>1, <3>3 DEF Check
  <2>4. /\ job'.set = job.set /\ job'.hand = job.hand /\ job'.steps = Tail(s)
    BY <2>1 DEF Proceed, FsInv, StorageType
  <2>5. Recorded' /\ Elsewhere' /\ Unforced' /\ WindowOpen'
    BY <1>1 DEF FsInv, Sound, Recorded, Elsewhere, Ours, Unforced, WindowOpen, record
  <2>6. Applying'
    BY <1>1, <2>1, <2>2, <2>4 DEF FsInv, Sound, Applying, Restores, record
  <2>7. HandGoes'
    BY <1>1, <2>1, <2>3, <2>4 DEF FsInv, Sound, HandGoes, Setting1, IsBase, record
  <2> QED
    BY <2>5, <2>6, <2>7 DEF Sound
<1> QED
  BY <1>2, <1>3 DEF ReadBack, ReadFails, Abort

LEMMA FsDone ==
  ASSUME FsInv, StorageType', Done PROVE Sound'
<1>1. /\ pc' = "idle" /\ job.steps = << >> /\ own.dev \in Devices
      /\ UNCHANGED << inv, cands, orphans, req >>
  BY DEF Done, Busy, FsInv, StorageType
<1>2. CASE pc = "apply"
  <2>1. own.owned /\ ~active.on
    BY <1>2 DEF FsInv, Sound, Applying
  <2>2. own.dev \notin orphans => Reached(job.set.tgt, inv[own.dev])
    <3>1. own.dev \notin orphans => Ahead(job.set.tgt, inv[own.dev], << >>)
      BY <1>1, <1>2 DEF FsInv, Sound, Applying
    <3> QED
      BY <3>1 DEF Ahead, InFirstGoes, InAsked, OutGoes, OutFirstGoes, OutAsked, InGoes, OutOnly,
                  OutLeft, InLeft, BitsLeft
  <2>3. CASE job.set.on
    <3>1. active' = job.set /\ UNCHANGED << record, wish >>
      BY <1>2, <2>3 DEF Done
    <3>2. Recorded'
      BY <1>1, <2>1, <3>1 DEF FsInv, Sound, Recorded, record
    <3> QED
      BY <1>1, <3>1, <3>2
         DEF FsInv, Sound, Elsewhere, Ours, Unforced, WindowOpen, Applying, HandGoes, record
  <2>4. CASE ~job.set.on
    <3>1. own' = [Free EXCEPT !.dev = own.dev] /\ Persist(Free) /\ UNCHANGED << active, wish >>
      BY <1>2, <2>4 DEF Done
    <3>2. ~own'.owned /\ ~own'.inTouched /\ (unsaved' \/ ~nvs'.owned)
      BY <3>1 DEF Free, Persist, NotSaved
    <3>3. Recorded' /\ Unforced' /\ WindowOpen'
      BY <1>1, <2>1, <3>1, <3>2 DEF FsInv, Sound, Recorded, Unforced, WindowOpen
    <3>4. own.dev \notin orphans => \A f \in Fields : inv[own.dev][f] \in wish[own.dev][f]
      <4> SUFFICES ASSUME own.dev \notin orphans
                   PROVE  \A f \in Fields : inv[own.dev][f] \in wish[own.dev][f]
        OBVIOUS
      <4>1. \A f \in Fields : own[f] \in wish[own.dev][f]
        BY <2>1 DEF FsInv, Sound, Recorded
      <4>2. inv[own.dev].out = own.out /\ inv[own.dev].ctl = own.ctl
            /\ (own.inTouched => inv[own.dev].in = own.in)
        BY <1>2, <2>2, <2>4 DEF Restores, Reached, FsInv, Sound, Applying
      <4>3. ~own.inTouched => inv[own.dev].in \in wish[own.dev].in
        BY <1>1 DEF FsInv, Sound, Elsewhere, Ours, Fields
      <4> QED
        BY <4>1, <4>2, <4>3 DEF Fields
    <3>5. Elsewhere'
      BY <1>1, <3>1, <3>4 DEF FsInv, Sound, Elsewhere, Ours
    <3> QED
      BY <1>1, <3>3, <3>5 DEF Sound, Applying, HandGoes
  <2> QED
    BY <2>3, <2>4
<1>3. CASE pc = "hand"
  <2> PICK d \in Devices : d = own.dev
    BY <1>1
  <2> PICK f, v : f = job.hand[1] /\ v = job.hand[2]
    OBVIOUS
  <2>1. /\ f \in Fields /\ v \in wish[d][f]
        /\ (~own.owned \/ (f = "in" /\ ~own.inTouched)) /\ inv[d][f] = v
    BY <1>1, <1>3 DEF FsInv, Sound, HandGoes, Setting1, IsBase
  <2>2. /\ wish' = [wish EXCEPT ![d][f] = {v}] /\ UNCHANGED active
        /\ IF f = "in" /\ own.owned /\ own.inKnown
           THEN own' = [own EXCEPT !.in = v] /\ Persist(own') ELSE UNCHANGED record
    BY <1>3 DEF Done
  <2>3. /\ wish' \in [Devices -> WishType] /\ wish'[d][f] = {v}
        /\ \A e \in Devices, g \in Fields : e # d \/ g # f => wish'[e][g] = wish[e][g]
    <3>1. {v} \subseteq (IF f = "ctl" THEN SUBSET Bits ELSE 0..Full)
      BY <1>3 DEF FsInv, StorageType, HandType
    <3>2. StorageType /\ Expect(d, f, {v})
      BY <2>2 DEF FsInv, Expect
    <3> QED
      BY <2>1, <3>1, <3>2, WishTyped
  <2>4. /\ own'.owned = own.owned /\ own'.dev = own.dev
        /\ own'.known = own.known /\ own'.inKnown = own.inKnown /\ own'.inTouched = own.inTouched
        /\ own'.ctl = own.ctl /\ own'.out = own.out
        /\ own.owned /\ own.inKnown => own'.in = v
    BY <2>1, <2>2 DEF FsInv, StorageType, OwnType, record
  <2>5. /\ own.owned => unsaved' \/ nvs' = own'
        /\ ~own.owned => UNCHANGED << nvs, unsaved >>
    BY <2>2 DEF FsInv, Sound, Recorded, Persist, NotSaved, record
  <2>6. Recorded'
    <3>1. own.owned /\ own.dev \notin orphans => \A g \in Fields : own'[g] \in wish'[d][g]
      BY <2>1, <2>3, <2>4 DEF Fields, FsInv, Sound, Recorded
    <3> QED
      BY <1>1, <2>2, <2>4, <2>5, <3>1 DEF FsInv, Sound, Recorded
  <2>7. Elsewhere'
    <3> SUFFICES ASSUME NEW e \in Devices \ orphans, NEW g \in Fields
                 PROVE  Ours(e, g)' \/ inv[e][g] \in wish'[e][g]
      BY <1>1 DEF Elsewhere
    <3>1. Ours(e, g) \/ inv[e][g] \in wish[e][g]
      BY DEF FsInv, Sound, Elsewhere
    <3>2. Ours(e, g) => Ours(e, g)'
      BY <2>4 DEF Ours
    <3>3. CASE e = d /\ g = f
      BY <2>1, <2>3, <3>3
    <3>4. CASE ~(e = d /\ g = f)
      BY <2>3, <3>1, <3>2, <3>4
    <3> QED
      BY <3>3, <3>4
  <2>8. Unforced' /\ WindowOpen'
    BY <1>1, <2>4 DEF FsInv, Sound, Unforced, WindowOpen
  <2> QED
    BY <1>1, <2>6, <2>7, <2>8 DEF Sound, Applying, HandGoes
<1> QED
  BY <1>2, <1>3 DEF Done, Busy

(* fronius_storage_set(): refused, taken for what is owed, or written. *)
LEMMA FsHand ==
  ASSUME FsInv, StorageType', NEW f \in Fields, NEW v,
         v \in (IF f = "ctl" THEN SUBSET Bits ELSE HandRates), Hand(f, v)
  PROVE  Sound'
<1> PICK d \in DevicesNow :
      LET o == [own EXCEPT !.dev = d] IN
       \/ /\ IsBase(f) /\ ~own.known
          /\ own' = o /\ UNCHANGED << wish, nvs, unsaved, active, pc, job, faults >>
       \/ /\ IsBase(f) /\ own.known
          /\ own' = [o EXCEPT ![f] = v] /\ Persist(own') /\ active' = Setting
          /\ wish' = [wish EXCEPT ![d][f] = {v}]
          /\ UNCHANGED << pc, job >>
       \/ /\ ~IsBase(f)
          /\ own' = o /\ pc' = "hand"
          /\ wish' = [wish EXCEPT ![d][f] = @ \cup {v}]
          /\ job' = [NoJob EXCEPT !.steps = << Write(f, v), Check(f, v) >>,
                                  !.hand = << f, v >>]
          /\ UNCHANGED << nvs, unsaved, active, faults >>
  BY DEF Hand
<1> PICK o : o = [own EXCEPT !.dev = d]
  OBVIOUS
<1>0. StorageType
  BY DEF FsInv
<1>1. pc = "idle" /\ UNCHANGED << inv, cands, orphans, req >>
  BY DEF Hand
<1>2. /\ d \in Devices /\ (own.owned => d = own.dev) /\ (own.owned => o = own)
      /\ o \in OwnType /\ o.dev = d /\ o.owned = own.owned /\ o.inTouched = own.inTouched
  BY DeviceNamed DEF FsInv
<1>3. v \in (IF f = "ctl" THEN SUBSET Bits ELSE 0..Full)
  BY FsConstants
<1>4. wish[d] \in WishType /\ wish[d][f] \subseteq (IF f = "ctl" THEN SUBSET Bits ELSE 0..Full)
  BY <1>2 DEF FsInv, StorageType, WishType, Fields
<1>5. own.owned /\ own.dev \notin orphans => \A g \in Fields : own[g] \in wish[own.dev][g]
  BY DEF FsInv, Sound, Recorded
<1>6. CASE IsBase(f) /\ ~own.known
  <2>1. own' = own /\ UNCHANGED << wish, nvs, unsaved, active, pc, job >>
    BY <1>2, <1>6 DEF IsBase
  <2> QED
    BY <1>1, <2>1, FsSame DEF record
<1>7. CASE IsBase(f) /\ own.known
  <2>1. /\ own.owned /\ own.dev = d /\ (f = "in" => own.inTouched)
        /\ own' = [own EXCEPT ![f] = v] /\ Persist(own') /\ active' = Setting
        /\ wish' = [wish EXCEPT ![d][f] = {v}] /\ UNCHANGED << pc, job >>
    BY <1>2, <1>7 DEF IsBase
  <2>2. /\ own'.owned /\ own'.dev = d /\ own'.known = own.known /\ own'.inKnown = own.inKnown
        /\ own'.inTouched = own.inTouched /\ own'[f] = v
        /\ \A g \in Fields : g # f => own'[g] = own[g]
    <3>1. own \in OwnType
      BY DEF FsInv, StorageType
    <3> QED
      BY <2>1, <3>1 DEF OwnType, Fields
  <2>3. /\ wish' \in [Devices -> WishType] /\ wish'[d][f] = {v}
        /\ \A e \in Devices, g \in Fields : e # d \/ g # f => wish'[e][g] = wish[e][g]
    <3>1. {v} \subseteq (IF f = "ctl" THEN SUBSET Bits ELSE 0..Full)
      BY <1>3
    <3>2. Expect(d, f, {v})
      BY <2>1 DEF Expect
    <3> QED
      BY <1>0, <1>2, <3>1, <3>2, WishTyped
  <2>4. Recorded'
    <3>1. d \notin orphans => \A g \in Fields : own'[g] \in wish'[d][g]
      BY <1>2, <1>5, <2>1, <2>2, <2>3
    <3>2. unsaved' \/ nvs' = own'
      BY <2>1 DEF Persist, NotSaved
    <3>3. d \notin orphans => own'.known /\ own'.inKnown
      BY <2>1, <2>2 DEF FsInv, Sound, Recorded
    <3> QED
      BY <1>1, <2>1, <2>2, <3>1, <3>2, <3>3 DEF Recorded
  <2>5. Elsewhere'
    <3> SUFFICES ASSUME NEW e \in Devices \ orphans, NEW g \in Fields
                 PROVE  Ours(e, g)' \/ inv[e][g] \in wish'[e][g]
      BY <1>1 DEF Elsewhere
    <3>1. Ours(e, g) \/ inv[e][g] \in wish[e][g]
      BY DEF FsInv, Sound, Elsewhere
    <3>2. Ours(e, g)' <=> Ours(e, g)
      BY <2>1, <2>2 DEF Ours
    <3>3. e = d /\ g = f => Ours(e, g)
      BY <2>1 DEF Ours
    <3> QED
      BY <1>2, <2>3, <3>1, <3>2, <3>3
  <2>6. Unforced' /\ WindowOpen'
    BY <1>1, <2>1, <2>2 DEF FsInv, Sound, Unforced, WindowOpen
  <2> QED
    BY <1>1, <2>1, <2>4, <2>5, <2>6 DEF Sound, Applying, HandGoes
<1>8. CASE ~IsBase(f)
  <2>1. /\ own' = o /\ pc' = "hand" /\ UNCHANGED << nvs, unsaved, active >>
        /\ wish' = [wish EXCEPT ![d][f] = wish[d][f] \cup {v}]
        /\ job' = [NoJob EXCEPT !.steps = << Write(f, v), Check(f, v) >>, !.hand = << f, v >>]
    BY <1>8
  <2>2. /\ wish' \in [Devices -> WishType] /\ wish'[d][f] = wish[d][f] \cup {v}
        /\ \A e \in Devices, g \in Fields : e # d \/ g # f => wish'[e][g] = wish[e][g]
    <3>1. wish[d][f] \cup {v} \subseteq (IF f = "ctl" THEN SUBSET Bits ELSE 0..Full)
      BY <1>3, <1>4
    <3>2. Expect(d, f, wish[d][f] \cup {v})
      BY <2>1 DEF Expect
    <3> QED
      BY <1>0, <1>2, <3>1, <3>2, WishTyped
  <2>3. job'.steps = << Write(f, v), Check(f, v) >> /\ job'.hand = << f, v >>
    BY <2>1 DEF NoJob
  <2>4. Recorded'
    <3>1. own.owned /\ d \notin orphans => \A g \in Fields : own[g] \in wish'[d][g]
      BY <1>2, <1>5, <2>2
    <3> QED
      BY <1>1, <1>2, <2>1, <3>1 DEF FsInv, Sound, Recorded
  <2>5. Elsewhere'
    <3> SUFFICES ASSUME NEW e \in Devices \ orphans, NEW g \in Fields
                 PROVE  Ours(e, g)' \/ inv[e][g] \in wish'[e][g]
      BY <1>1 DEF Elsewhere
    <3>1. Ours(e, g) \/ inv[e][g] \in wish[e][g]
      BY DEF FsInv, Sound, Elsewhere
    <3>2. Ours(e, g)' <=> Ours(e, g)
      BY <1>2, <2>1 DEF Ours
    <3> QED
      BY <1>2, <2>2, <3>1, <3>2
  <2>6. Unforced' /\ WindowOpen'
    BY <1>1, <1>2, <2>1 DEF FsInv, Sound, Unforced, WindowOpen
  <2>7. HandGoes'
    <3>1. job'.hand[1] = f /\ job'.hand[2] = v
      BY <2>3
    <3>2. ~IsBase(f)'
      BY <1>2, <1>8, <2>1 DEF IsBase
    <3>3. Setting1(f, v)'
      BY <1>2, <2>1, <2>2, <2>3, <3>2 DEF Setting1
    <3> QED
      BY <3>1, <3>3 DEF HandGoes
  <2> QED
    BY <1>1, <2>1, <2>4, <2>5, <2>6, <2>7 DEF Sound, Applying
<1> QED
  BY <1>6, <1>7, <1>8

(* The Fronius takes its limits back: they are open, and owed.             *)
LEMMA FsTakeBack ==
  ASSUME FsInv, StorageType', TakeBack PROVE Sound'
<1> PICK i : i = inv[own.dev]
  OBVIOUS
<1> PICK j : j = [ctl |-> {}, out |-> Full, in |-> IF own.inTouched THEN Full ELSE i.in]
  OBVIOUS
<1>1. /\ active.on /\ UNCHANGED << cands, wish, orphans, own, nvs, unsaved, active, req, pc, job >>
      /\ inv' = [inv EXCEPT ![own.dev] = j]
  BY DEF TakeBack, record
<1>2. own.owned /\ own.dev \in Devices /\ inv \in [Devices -> Regs] /\ i \in Regs
  BY <1>1 DEF FsInv, Sound, Recorded, StorageType
<1>3. Window(j) /\ j.out = 2 /\ (~own.inTouched => j.in = i.in)
  BY <1>2, FsConstants DEF Regs, Window
<1>4. inv'[own.dev] = j /\ \A d \in Devices : d # own.dev => inv'[d] = inv[d]
  BY <1>1, <1>2
<1>5. Recorded'
  BY <1>1 DEF FsInv, Sound, Recorded
<1>6. Elsewhere'
  <2> SUFFICES ASSUME NEW d \in Devices \ orphans, NEW g \in Fields
               PROVE  Ours(d, g) \/ inv'[d][g] \in wish[d][g]
    BY <1>1 DEF Elsewhere, Ours
  <2>1. Ours(d, g) \/ inv[d][g] \in wish[d][g]
    BY DEF FsInv, Sound, Elsewhere
  <2>2. CASE d # own.dev
    BY <1>4, <2>1, <2>2
  <2>3. CASE d = own.dev
    <3>1. CASE Ours(d, g)
      BY <3>1
    <3>2. CASE ~Ours(d, g)
      <4>1. g = "in" /\ ~own.inTouched
        BY <1>2, <2>3, <3>2 DEF Ours
      <4> QED
        BY <1>3, <1>4, <2>1, <2>3, <3>2, <4>1
    <3> QED
      BY <3>1, <3>2
  <2> QED
    BY <2>2, <2>3
<1>7. Unforced' /\ WindowOpen'
  BY <1>1, <1>3, <1>4 DEF FsInv, Sound, Unforced, WindowOpen, Window
<1>8. Applying'
  BY <1>1 DEF FsInv, Sound, Applying
<1>9. HandGoes'
  <2> SUFFICES ASSUME pc = "hand" PROVE Setting1(job.hand[1], job.hand[2])'
    BY <1>1 DEF HandGoes
  <2>1. Setting1(job.hand[1], job.hand[2])
    BY DEF FsInv, Sound, HandGoes
  <2>2. job.hand[1] = "in" /\ ~own.inTouched
    BY <1>2, <2>1 DEF Setting1, IsBase
  <2>3. inv'[own.dev][job.hand[1]] = inv[own.dev][job.hand[1]]
    BY <1>3, <1>4, <2>2
  <2> QED
    BY <1>1, <2>1, <2>3 DEF Setting1, IsBase
<1> QED
  BY <1>5, <1>6, <1>7, <1>8, <1>9 DEF Sound

(* After a restart the record says what is owed; if it was refused, the    *)
(* inverter of the record and the one that is owed are orphans.            *)
LEMMA FsRestart ==
  ASSUME FsInv, StorageType', Restart PROVE Sound'
<1>1. /\ own' = (IF nvs.owned THEN nvs ELSE Free) /\ active' = Setting
      /\ orphans' = (IF unsaved THEN orphans \cup ({own.dev, nvs.dev} \cap Devices) ELSE orphans)
      /\ unsaved' = FALSE /\ pc' = "idle" /\ UNCHANGED << inv, cands, wish, nvs >>
  BY DEF Restart, Zenon
<1>2. orphans \subseteq orphans'
  BY <1>1
<1>3. /\ own'.owned => nvs' = own' /\ (unsaved => own'.dev \in orphans')
      /\ ~own'.owned => ~own'.inTouched /\ ~nvs'.owned
  BY <1>1, NothingTyped DEF FsInv, StorageType
<1>4. ~unsaved => IF own.owned THEN own' = own ELSE ~own'.owned
  BY <1>1, NothingTyped DEF FsInv, Sound, Recorded
<1>5. unsaved /\ own.owned => own.dev \in orphans'
  BY <1>1 DEF FsInv, StorageType
<1>6. Recorded'
  BY <1>1, <1>2, <1>3, <1>4 DEF FsInv, Sound, Recorded, Setting
<1>7. Elsewhere'
  <2> SUFFICES ASSUME NEW d \in Devices \ orphans', NEW f \in Fields
               PROVE  Ours(d, f)' \/ inv[d][f] \in wish[d][f]
    BY <1>1 DEF Elsewhere
  <2>1. Ours(d, f) \/ inv[d][f] \in wish[d][f]
    BY <1>2 DEF FsInv, Sound, Elsewhere
  <2>2. Ours(d, f) => Ours(d, f)'
    BY <1>4, <1>5 DEF Ours
  <2> QED
    BY <2>1, <2>2
<1>8. Unforced'
  BY <1>1, <1>2, <1>3, <1>4 DEF FsInv, Sound, Unforced
<1>9. WindowOpen'
  BY <1>1, <1>2 DEF FsInv, Sound, WindowOpen
<1> QED
  BY <1>1, <1>6, <1>7, <1>8, <1>9 DEF Sound, Applying, HandGoes

LEMMA FsStep == FsInv /\ [Next]_vars => FsInv'
<1> SUFFICES ASSUME FsInv, [Next]_vars PROVE Sound'
  BY FsTyped DEF FsInv
<1>0. StorageType'
  BY FsTyped DEF FsInv
<1>1. CASE \/ Requests \/ StopForce
           \/ \E m \in Forced, w \in ForceRates, t \in ForceEnds : AskForce(m, w, t)
  BY <1>1, RequestsTyped, FsSame DEF FsInv
<1>2. CASE ByHand
  <2>1. ASSUME NEW f \in {"out", "in"}, NEW v \in HandRates, Hand(f, v) PROVE Sound'
    BY <1>0, <2>1, FsHand DEF Fields
  <2>2. ASSUME NEW v \in SUBSET Bits, Hand("ctl", v) PROVE Sound'
    BY <1>0, <2>2, FsHand DEF Fields
  <2> QED
    BY <1>2, <2>1, <2>2 DEF ByHand
<1>3. CASE TickStart \/ TickExpires
  BY <1>3, TickBeginsTyped, FsResting DEF FsInv
<1>4. CASE TickDecide \/ WriteReg \/ ReadBack \/ Done
  BY <1>0, <1>4, FsTickDecide, FsWriteReg, FsReadBack, FsDone
<1>5. CASE NoConnection
  BY <1>5, FsResting DEF NoConnection, world, Setting
<1>6. CASE WriteFails \/ ReadFails \/ TakeBack \/ Restart
  BY <1>0, <1>6, FsWriteReg, FsReadBack, FsTakeBack, FsRestart
<1>7. CASE UNCHANGED vars
  BY <1>7, FsSame DEF vars, record
<1> QED
  BY <1>1, <1>2, <1>3, <1>4, <1>5, <1>6, <1>7 DEF Next, OnThePage, Tick, Faults

(* Whatever breaks off, whatever rate is set by hand, whatever save is      *)
(* refused and whenever the display restarts: in every inverter but the     *)
(* orphans the battery can work and the operator's limits are known, and in *)
(* NVS unless the last save was refused. fs_apply() may lose nothing.       *)
THEOREM LimitsSound == Spec => []LimitsKept
<1>1. FsInv => LimitsKept
  <2> SUFFICES ASSUME FsInv PROVE RecordCovers
    BY DEF LimitsKept, FsInv, Sound
  <2> SUFFICES ASSUME NEW d \in Devices \ orphans, NEW f \in Fields, inv[d][f] \notin wish[d][f]
               PROVE  Covers(own, d, f) /\ (unsaved \/ nvs = own)
    BY DEF RecordCovers
  <2>1. Ours(d, f)
    BY DEF FsInv, Sound, Elsewhere
  <2> QED
    BY <2>1 DEF Covers, Ours, FsInv, Sound, Recorded
<1> QED
  BY FsInit, FsStep, <1>1, PTL DEF Spec

(* Only a request and a restart change the request otherwise than by the   *)
(* end of the forced mode the tick has copied, and both are counted.       *)
CountedInv == ops \in Nat /\ restarts \in Nat

LEMMA CountedStarts == Init => CountedInv
BY DEF Init, CountedInv

LEMMA AskedCounts ==
  ASSUME Requests \/ OnThePage
  PROVE  ops' = ops + 1 /\ restarts' = restarts
<1>1. ASSUME NEW f, NEW v, Hand(f, v) PROVE ops' = ops + 1 /\ restarts' = restarts
  BY <1>1 DEF Hand, Op
<1>2. ASSUME ByHand PROVE ops' = ops + 1 /\ restarts' = restarts
  BY <1>1, <1>2 DEF ByHand
<1>3. ASSUME NEW r, Ask(r) PROVE ops' = ops + 1 /\ restarts' = restarts
  BY <1>3 DEF Ask, Op
<1>4. ASSUME ChangeDevices PROVE ops' = ops + 1 /\ restarts' = restarts
  BY <1>4 DEF ChangeDevices, Op
<1> QED
  BY <1>2, <1>3, <1>4 DEF Requests, AskBlock, AskLock, AskCap, StopForce, AskForce, OnThePage

LEMMA TickCounts ==
  ASSUME Tick \/ NoConnection \/ WriteFails \/ ReadFails \/ TakeBack \/ UNCHANGED vars
  PROVE  ops' = ops /\ restarts' = restarts
BY DEF Tick, TickStart, TickExpires, TickDecide, WriteReg, ReadBack, Done,
   NoConnection, WriteFails, ReadFails, TakeBack, vars, bounds

LEMMA CountedSteps == CountedInv /\ [Next]_vars => CountedInv'
<1>1. Restart => ops' = ops /\ restarts' = restarts + 1
  BY DEF Restart
<1> QED
  BY <1>1, AskedCounts, TickCounts DEF CountedInv, Next, Faults

LEMMA ForceKept ==
  ASSUME CountedInv, [Next]_vars,
         req.man # Off, req'.man = Off, UNCHANGED << ops, restarts >>
  PROVE  req.man.mode = job.req.man.mode /\ req.man.until = job.req.man.until
<1>1. CASE TickExpires \/ TickDecide
  <2>1. ManFinish \/ UNCHANGED req
    BY <1>1 DEF TickExpires, TickDecide
  <2> QED
    BY <2>1 DEF ManFinish, SameForce
<1>2. CASE Requests \/ OnThePage
  BY <1>2, AskedCounts DEF CountedInv
<1>3. CASE Restart
  BY <1>3 DEF CountedInv, Restart
<1>4. CASE TickStart \/ WriteReg \/ ReadBack \/ Done \/ UNCHANGED vars
  BY <1>4 DEF TickStart, WriteReg, ReadBack, Done, vars, bounds, world
<1>5. CASE NoConnection \/ WriteFails \/ ReadFails \/ TakeBack
  BY <1>5 DEF NoConnection, WriteFails, ReadFails, TakeBack, world
<1> QED
  BY <1>1, <1>2, <1>3, <1>4, <1>5 DEF Next, Tick, Faults

(* fronius_storage.c, man_finish(): a forced mode asked for while the tick *)
(* ends the one before it stays, for any devices, requests and faults,     *)
(* unless it has the mode and the end of that one.                         *)
THEOREM NewForceSound == Spec => NewForceSurvives
<1>1. CountedInv /\ [Next]_vars
        => [/\ req.man # Off /\ req'.man = Off /\ UNCHANGED << ops, restarts >>
            => req.man.mode = job.req.man.mode /\ req.man.until = job.req.man.until]_vars
  BY ForceKept
<1> QED
  BY <1>1, CountedStarts, CountedSteps, PTL DEF Spec, NewForceSurvives

-----------------------------------------------------------------------------
(* DeyeLive. Two sums of the page and their start, over the copy of a round: *)
(* a reset in the middle is either seen by the write-back or came before    *)
(* the copy. And what is not in NVS yet: the rounds since the last save,    *)
(* with the one that is about to be saved.                                 *)
LiveValues == [online : BOOLEAN, blocks : SUBSET (Optional \cup {"bat"}),
               dis : SUBSET Nat, chg : SUBSET Nat, lt : SUBSET Nat]
LiveType ==
  /\ dlNow \in Nat /\ dlNext \in 0..(dlNow + 1) /\ live \in LiveValues
  /\ round \in [at : {"idle", "read", "count", "write", "save"}, l : LiveValues]
  /\ since \in [dis : 0..dlNow, chg : 0..dlNow, full : BOOLEAN] /\ resetSeen \in BOOLEAN
  /\ eff \in [at : Nat \cup {NeverRead}, p : LivePowers]
  /\ ltSaved \in [lt : SUBSET Nat, at : 0..dlNow] /\ ltRec = ltSaved.lt /\ lost \in Nat

AfterStart(l) == (\A t \in l.dis : t >= since.dis) /\ (\A t \in l.chg : t >= since.chg)
SumsFresh ==
  /\ ~ReadAt("write") => AfterStart(live)
  /\ round.at \in {"read", "count", "write"} => resetSeen \/ AfterStart(round.l)

Uncounted == eff.at = NeverRead    \* the round before this one does not count
RoundsInStep ==
  /\ round.at # "idle" => dlNext = dlNow + 1
  /\ ltSaved.at < dlNext \/ Uncounted
  /\ round.at \in {"read", "count"} => /\ ltSaved.at < dlNow \/ Uncounted
                                       /\ round.l.lt = live.lt
  /\ ReadAt("write") => \A t \in round.l.lt \ live.lt : t = dlNow /\ t > ltSaved.at
SavedSoon ==
  lost = 0 => \A t \in live.lt \ ltRec :
    t > ltSaved.at /\ (t < ltSaved.at + SaveEvery \/ (t = dlNow /\ ReadAt("save")))

LiveInv == LiveType /\ SumsFresh /\ RoundsInStep /\ SavedSoon

LEMMA LiveStarts == LiveInit => LiveInv
<1> SUFFICES ASSUME LiveInit PROVE LiveInv
  OBVIOUS
<1>1. NoValues \in LiveValues /\ NoValues.dis = {} /\ NoValues.chg = {} /\ NoValues.lt = {}
  BY DEF NoValues, LiveValues
<1>2. LiveType
  <2>1. Idle \in [at : {"idle", "read", "count", "write", "save"}, l : LiveValues]
    BY <1>1 DEF Idle
  <2>2. eff \in [at : Nat \cup {NeverRead}, p : LivePowers]
    BY DEF LiveInit, LivePowers
  <2>3. dlNow = 0 /\ dlNext = 0 /\ live = NoValues /\ round = Idle /\ resetSeen = FALSE /\ lost = 0 /\ ltRec = {}
    BY DEF LiveInit
  <2>4. ltSaved = [lt |-> {}, at |-> 0] /\ since = [dis |-> 0, chg |-> 0, full |-> FALSE]
    BY DEF LiveInit
  <2>5. ltSaved \in [lt : SUBSET Nat, at : 0..dlNow] /\ since \in [dis : 0..dlNow, chg : 0..dlNow, full : BOOLEAN]
        /\ ltRec = ltSaved.lt
    BY <2>3, <2>4
  <2>6. dlNow \in Nat /\ dlNext \in 0..(dlNow + 1) /\ lost \in Nat
    BY <2>3
  <2>7. resetSeen \in BOOLEAN /\ live \in LiveValues
        /\ round \in [at : {"idle", "read", "count", "write", "save"}, l : LiveValues]
    BY <1>1, <2>1, <2>3
  <2> QED
    BY <2>2, <2>5, <2>6, <2>7 DEF LiveType
<1>3. SumsFresh
  BY <1>1 DEF LiveInit, SumsFresh, AfterStart, Idle, ReadAt
<1>4. RoundsInStep /\ SavedSoon
  BY <1>1 DEF LiveInit, RoundsInStep, SavedSoon, Uncounted, Idle, ReadAt
<1> QED
  BY <1>2, <1>3, <1>4 DEF LiveInv

(* Steps that leave the sums, the round and the record alone.               *)
LEMMA LiveElsewhere ==
  ASSUME LiveInv, live' \in LiveValues,
         live'.dis = live.dis, live'.chg = live.chg, live'.lt = live.lt,
         UNCHANGED << dlNow, dlNext, round, since, resetSeen, eff, ltRec, ltSaved >>,
         lost' \in Nat, lost' = 0 => lost = 0
  PROVE  LiveInv'
<1>1. LiveType'
  BY DEF LiveInv, LiveType
<1>2. SumsFresh'
  BY DEF LiveInv, SumsFresh, AfterStart, ReadAt
<1>3. RoundsInStep'
  BY DEF LiveInv, RoundsInStep, Uncounted, ReadAt
<1>4. SavedSoon'
  BY DEF LiveInv, SavedSoon, ReadAt
<1> QED
  BY <1>1, <1>2, <1>3, <1>4 DEF LiveInv

LEMMA LiveBegins ==
  ASSUME LiveInv, NEW answer \in BOOLEAN, RoundBegins(answer)
  PROVE  LiveInv'
<1>1. /\ ReadAt("idle") /\ dlNow >= dlNext /\ dlNext' = dlNow + 1 /\ dlNow \in Nat /\ live \in LiveValues
      /\ AfterStart(live)
  BY DEF RoundBegins, LiveInv, LiveType, SumsFresh, ReadAt
<1>2. UNCHANGED << dlNow, eff, since, resetSeen, ltRec, ltSaved, lost >>
  BY DEF RoundBegins, Sums, Records
<1>3. /\ live' \in LiveValues /\ live'.dis = live.dis /\ live'.chg = live.chg /\ live'.lt = live.lt
      /\ \/ round'.at = "save"
         \/ /\ round'.at = "read" /\ round'.l.dis = live.dis /\ round'.l.chg = live.chg
            /\ round'.l.lt = live.lt
      /\ round' \in [at : {"idle", "read", "count", "write", "save"}, l : LiveValues]
  <2>1. CASE answer
    <3>1. live' = live /\ round' = [at |-> "read", l |-> [live EXCEPT !.online = TRUE, !.blocks = {"bat"}]]
      BY <2>1 DEF RoundBegins
    <3> QED
      BY <1>1, <3>1 DEF LiveValues
  <2>2. CASE ~answer
    <3>1. live' = [live EXCEPT !.online = FALSE, !.blocks = {}] /\ round' = [Idle EXCEPT !.at = "save"]
      BY <2>2 DEF RoundBegins
    <3>2. Idle \in [at : {"idle", "read", "count", "write", "save"}, l : LiveValues]
      BY DEF Idle, NoValues, LiveValues
    <3> QED
      BY <1>1, <3>1, <3>2 DEF LiveValues
  <2> QED
    BY <2>1, <2>2
<1>4. LiveType'
  BY <1>1, <1>2, <1>3 DEF LiveInv, LiveType
<1>5. SumsFresh'
  BY <1>1, <1>2, <1>3 DEF SumsFresh, AfterStart, ReadAt
<1>6. ltSaved.at \in 0..dlNow /\ dlNext \in 0..(dlNow + 1) /\ (ltSaved.at < dlNext \/ Uncounted)
  BY DEF LiveInv, LiveType, RoundsInStep
<1>7. RoundsInStep'
  <2>1. ltSaved'.at < dlNext' \/ Uncounted'
    BY <1>1, <1>2, <1>6 DEF Uncounted
  <2>2. ltSaved'.at < dlNow' \/ Uncounted'
    BY <1>1, <1>2, <1>6 DEF Uncounted
  <2> QED
    BY <2>1, <2>2, <1>1, <1>2, <1>3 DEF RoundsInStep, ReadAt
<1>8. SavedSoon'
  BY <1>1, <1>2, <1>3 DEF LiveInv, SavedSoon, ReadAt
<1> QED
  BY <1>4, <1>5, <1>7, <1>8 DEF LiveInv

LEMMA LiveReads ==
  ASSUME LiveInv, NEW asked \in SUBSET Optional, NEW got \in SUBSET Optional, RoundReads(asked, got)
  PROVE  LiveInv'
<1>1. /\ ReadAt("read") /\ round' = [at |-> "count", l |-> [round.l EXCEPT !.blocks = @ \cup got]]
      /\ UNCHANGED << dlNow, dlNext, live, eff, since, resetSeen, ltRec, ltSaved, lost >>
  BY DEF RoundReads, Sums, Records
<1>2. round.l \in LiveValues
  BY DEF LiveInv, LiveType
<1>3. /\ round'.l \in LiveValues /\ round'.at = "count"
      /\ round'.l.dis = round.l.dis /\ round'.l.chg = round.l.chg /\ round'.l.lt = round.l.lt
  BY <1>1, <1>2 DEF LiveValues
<1>4. LiveType'
  BY <1>1, <1>3 DEF LiveInv, LiveType
<1>5. SumsFresh'
  BY <1>1, <1>3 DEF LiveInv, SumsFresh, AfterStart, ReadAt
<1>6. RoundsInStep'
  BY <1>1, <1>3 DEF LiveInv, RoundsInStep, Uncounted, ReadAt
<1>7. SavedSoon'
  BY <1>1, <1>3 DEF LiveInv, SavedSoon, ReadAt
<1> QED
  BY <1>4, <1>5, <1>6, <1>7 DEF LiveInv

LEMMA LiveCounts ==
  ASSUME LiveInv, NEW p \in LivePowers, NEW at100 \in BOOLEAN, RoundCounts(p, at100)
  PROVE  LiveInv'
<1> PICK new : new = IF Counts(p) THEN {dlNow} ELSE {}
  OBVIOUS
<1> PICK dis : dis = IF Restarts(at100) THEN {} ELSE round.l.dis
  OBVIOUS
<1>1. /\ ReadAt("count") /\ round.l \in LiveValues /\ dlNow \in Nat /\ round.l.lt = live.lt
      /\ dlNext = dlNow + 1 /\ ltSaved.at \in 0..dlNow /\ (ltSaved.at < dlNow \/ Uncounted)
      /\ since \in [dis : 0..dlNow, chg : 0..dlNow, full : BOOLEAN]
  BY DEF RoundCounts, LiveInv, LiveType, RoundsInStep, ReadAt
<1>2. /\ since' = IF Restarts(at100) THEN [since EXCEPT !.dis = dlNow, !.full = TRUE] ELSE since
      /\ round' = [at |-> "write",
                   l |-> [round.l EXCEPT !.dis = IF p = "dis" THEN dis \cup new ELSE dis,
                                         !.chg = IF p = "chg" THEN @ \cup new ELSE @,
                                         !.lt = @ \cup new]]
      /\ eff' = IF Complete THEN [at |-> dlNow, p |-> p] ELSE [eff EXCEPT !.at = NeverRead]
      /\ UNCHANGED << dlNow, dlNext, live, resetSeen, ltRec, ltSaved, lost >>
  BY DEF RoundCounts
<1>3. new \subseteq {dlNow} /\ new \subseteq Nat
  BY <1>1
<1>4. new # {} => ltSaved.at < dlNow
  BY <1>1 DEF Counts, Uncounted
<1>5. dis \subseteq round.l.dis /\ round.l.dis \subseteq Nat /\ round.l.chg \subseteq Nat /\ round.l.lt \subseteq Nat
  BY <1>1 DEF LiveValues
<1>6. /\ round'.l \in LiveValues /\ round'.at = "write"
      /\ round'.l.dis \subseteq dis \cup new /\ round'.l.chg \subseteq round.l.chg \cup new
      /\ round'.l.lt = round.l.lt \cup new
  <2>1. PICK l : l = round.l
    OBVIOUS
  <2>2. PICK chg : chg = IF p = "chg" THEN l.chg \cup new ELSE l.chg
    OBVIOUS
  <2>3. PICK out : out = IF p = "dis" THEN dis \cup new ELSE dis
    OBVIOUS
  <2>4. /\ l \in LiveValues /\ dis \subseteq Nat /\ l.chg \subseteq Nat /\ l.lt \subseteq Nat
        /\ round' = [at |-> "write", l |-> [l EXCEPT !.dis = out, !.chg = chg, !.lt = @ \cup new]]
    BY <1>1, <1>2, <1>5, <2>1, <2>2, <2>3
  <2>5. out \subseteq dis \cup new /\ chg \subseteq l.chg \cup new
    BY <2>2, <2>3
  <2>6. out \subseteq Nat /\ chg \subseteq Nat /\ l.lt \cup new \subseteq Nat
    BY <1>3, <2>4, <2>5
  <2>7. round'.l = [online |-> l.online, blocks |-> l.blocks, dis |-> out, chg |-> chg, lt |-> l.lt \cup new]
    BY <2>4 DEF LiveValues
  <2>8. round'.l \in LiveValues /\ round'.at = "write"
    BY <2>4, <2>6, <2>7 DEF LiveValues
  <2> QED
    BY <2>1, <2>5, <2>7, <2>8
<1>7. /\ since' \in [dis : 0..dlNow, chg : 0..dlNow, full : BOOLEAN] /\ since'.chg = since.chg
      /\ since'.dis = IF Restarts(at100) THEN dlNow ELSE since.dis
  <2>1. CASE Restarts(at100)
    <3>1. since' = [since EXCEPT !.dis = dlNow, !.full = TRUE]
      BY <1>2, <2>1
    <3>2. /\ since' \in [dis : 0..dlNow, chg : 0..dlNow, full : BOOLEAN]
          /\ since'.chg = since.chg /\ since'.dis = dlNow
      <4>1. since' = [dis |-> dlNow, chg |-> since.chg, full |-> TRUE]
        BY <1>1, <3>1
      <4>2. since.chg \in 0..dlNow /\ dlNow \in 0..dlNow
        BY <1>1
      <4> QED
        BY <4>1, <4>2
    <3> QED
      BY <2>1, <3>2
  <2>2. CASE ~Restarts(at100)
    BY <1>1, <1>2, <2>2
  <2> QED
    BY <2>1, <2>2
<1>8. eff' \in [at : Nat \cup {NeverRead}, p : LivePowers]
  <2>1. eff \in [at : Nat \cup {NeverRead}, p : LivePowers]
    BY DEF LiveInv, LiveType
  <2> QED
    BY <1>1, <1>2, <2>1
<1>9. LiveType'
  BY <1>1, <1>2, <1>6, <1>7, <1>8 DEF LiveInv, LiveType
<1>10. SumsFresh'
  <2>1. resetSeen \/ AfterStart(round.l)
    BY <1>1 DEF LiveInv, SumsFresh, ReadAt
  <2>2. CASE AfterStart(round.l)
    <3>1. ASSUME NEW t \in round'.l.chg PROVE t >= since'.chg
      BY <1>1, <1>3, <1>6, <1>7, <2>2, <3>1 DEF AfterStart
    <3>2. ASSUME NEW t \in round'.l.dis PROVE t >= since'.dis
      BY <1>1, <1>3, <1>5, <1>6, <1>7, <2>2, <3>2 DEF AfterStart
    <3> QED
      BY <3>1, <3>2, <1>6 DEF SumsFresh, AfterStart, ReadAt
  <2>3. CASE resetSeen
    BY <1>2, <1>6, <2>3 DEF SumsFresh, ReadAt
  <2> QED
    BY <2>1, <2>2, <2>3
<1>11. RoundsInStep'
  BY <1>1, <1>2, <1>3, <1>4, <1>6 DEF RoundsInStep, ReadAt
<1>12. SavedSoon'
  BY <1>1, <1>2, <1>6 DEF LiveInv, SavedSoon, ReadAt
<1> QED
  BY <1>9, <1>10, <1>11, <1>12 DEF LiveInv

LEMMA LiveWrites ==
  ASSUME LiveInv, RoundWrites
  PROVE  LiveInv'
<1>1. /\ ReadAt("write") /\ round.l \in LiveValues /\ live' = NotUndone(round.l) /\ resetSeen' = FALSE
      /\ round' = [Idle EXCEPT !.at = "save"] /\ dlNow \in Nat
      /\ UNCHANGED << dlNow, dlNext, eff, since, ltRec, ltSaved, lost >>
  BY DEF RoundWrites, Records, LiveInv, LiveType
<1>2. Idle \in [at : {"idle", "read", "count", "write", "save"}, l : LiveValues]
  BY DEF Idle, NoValues, LiveValues
<1>3. /\ round' \in [at : {"idle", "read", "count", "write", "save"}, l : LiveValues] /\ round'.at = "save"
  BY <1>1, <1>2
<1>4. /\ live' \in LiveValues /\ live'.lt = round.l.lt
      /\ resetSeen => live'.dis = {} /\ live'.chg = {}
      /\ ~resetSeen => live'.dis = round.l.dis /\ live'.chg = round.l.chg
  BY <1>1 DEF NotUndone, LiveValues
<1>5. LiveType'
  BY <1>1, <1>3, <1>4 DEF LiveInv, LiveType
<1>6. SumsFresh'
  <2>1. resetSeen \/ AfterStart(round.l)
    BY <1>1 DEF LiveInv, SumsFresh, ReadAt
  <2> QED
    BY <1>1, <1>3, <1>4, <2>1 DEF SumsFresh, AfterStart, ReadAt
<1>7. RoundsInStep'
  BY <1>1, <1>3 DEF LiveInv, RoundsInStep, Uncounted, ReadAt
<1>8. SavedSoon'
  BY <1>1, <1>3, <1>4 DEF LiveInv, SavedSoon, RoundsInStep, ReadAt
<1> QED
  BY <1>5, <1>6, <1>7, <1>8 DEF LiveInv

LEMMA LiveSaves ==
  ASSUME LiveInv, NEW ok \in BOOLEAN, RoundSaves(ok)
  PROVE  LiveInv'
<1>1. /\ ReadAt("save") /\ (LtDue(FALSE) \/ ok) /\ LtWritten(FALSE, ok) /\ round' = Idle
      /\ UNCHANGED << dlNow, dlNext, live, eff, since, resetSeen >>
      /\ ok => lost' = lost
      /\ ~ok => lost' = lost + 1
  BY DEF RoundSaves, Sums, Failing
<1>2. /\ dlNow \in Nat /\ dlNext = dlNow + 1 /\ ltSaved \in [lt : SUBSET Nat, at : 0..dlNow]
      /\ ltRec = ltSaved.lt /\ live \in LiveValues /\ lost \in Nat /\ SaveEvery \in Nat \ {0}
      /\ AfterStart(live)
  BY <1>1, LiveAssumption DEF LiveInv, LiveType, RoundsInStep, ReadAt, SumsFresh
<1>3. Idle \in [at : {"idle", "read", "count", "write", "save"}, l : LiveValues] /\ Idle.at = "idle"
  BY DEF Idle, NoValues, LiveValues
<1>4. \/ ltRec' = live.lt /\ ltSaved' = [lt |-> live.lt, at |-> dlNow]
      \/ ~(LtDue(FALSE) /\ ok) /\ UNCHANGED << ltRec, ltSaved >>
  BY <1>1 DEF LtWritten
<1>5. lost' \in Nat /\ (lost' = 0 => ok /\ lost = 0)
  BY <1>1, <1>2
<1>6. /\ ltSaved' \in [lt : SUBSET Nat, at : 0..dlNow] /\ ltRec' = ltSaved'.lt
      /\ ltSaved'.at < dlNext
  <2>1. ltSaved.at < dlNow + 1 /\ dlNow < dlNow + 1 /\ dlNow \in 0..dlNow /\ live.lt \in SUBSET Nat
    BY <1>2 DEF LiveValues
  <2>2. CASE ltRec' = live.lt /\ ltSaved' = [lt |-> live.lt, at |-> dlNow]
    BY <1>2, <2>1, <2>2
  <2>3. CASE UNCHANGED << ltRec, ltSaved >>
    BY <1>2, <2>1, <2>3
  <2> QED
    BY <1>4, <2>2, <2>3
<1>7. LiveType'
  BY <1>1, <1>3, <1>5, <1>6 DEF LiveInv, LiveType
<1>8. SumsFresh'
  BY <1>1, <1>2, <1>3 DEF SumsFresh, AfterStart, ReadAt
<1>9. RoundsInStep'
  BY <1>1, <1>3, <1>6 DEF RoundsInStep, ReadAt
<1>10. SavedSoon'
  <2> SUFFICES ASSUME lost' = 0, NEW t \in live'.lt \ ltRec'
               PROVE  t > ltSaved'.at /\ t < ltSaved'.at + SaveEvery
    BY DEF SavedSoon
  <2>1. ~(LtDue(FALSE) /\ ok) /\ UNCHANGED << ltRec, ltSaved >>
    BY <1>1, <1>4
  <2>2. ~LtDue(FALSE) /\ live.lt # ltSaved.lt /\ t \in live.lt \ ltRec /\ t \in Nat
    BY <1>1, <1>2, <1>5, <2>1 DEF LiveValues
  <2>3. dlNow - ltSaved.at < SaveEvery
    BY <1>2, <2>2 DEF LtDue
  <2>4. t > ltSaved.at /\ (t < ltSaved.at + SaveEvery \/ t = dlNow)
    BY <1>5, <2>2 DEF LiveInv, SavedSoon
  <2> QED
    BY <1>2, <2>1, <2>2, <2>3, <2>4
<1> QED
  BY <1>7, <1>8, <1>9, <1>10 DEF LiveInv

LEMMA LiveResets ==
  ASSUME LiveInv, ResetEff
  PROVE  LiveInv'
<1>1. /\ live' = [live EXCEPT !.dis = {}, !.chg = {}] /\ resetSeen' = TRUE
      /\ since' = [dis |-> dlNow, chg |-> dlNow, full |-> FALSE]
      /\ UNCHANGED << dlNow, dlNext, round, eff, ltRec, ltSaved, lost >>
  BY DEF ResetEff, Records
<1>2. dlNow \in Nat /\ live \in LiveValues
  BY DEF LiveInv, LiveType
<1>3. live' \in LiveValues /\ live'.dis = {} /\ live'.chg = {} /\ live'.lt = live.lt
  BY <1>1, <1>2 DEF LiveValues
<1>4. since' \in [dis : 0..dlNow, chg : 0..dlNow, full : BOOLEAN]
  BY <1>1, <1>2
<1>5. LiveType'
  BY <1>1, <1>3, <1>4 DEF LiveInv, LiveType
<1>6. SumsFresh'
  BY <1>1, <1>3 DEF SumsFresh, AfterStart
<1>7. RoundsInStep' /\ SavedSoon'
  BY <1>1, <1>3 DEF LiveInv, RoundsInStep, SavedSoon, Uncounted, ReadAt
<1> QED
  BY <1>5, <1>6, <1>7 DEF LiveInv

LEMMA LiveRestarts ==
  ASSUME LiveInv, NEW orderly \in BOOLEAN, LiveRestart(orderly)
  PROVE  LiveInv'
<1> PICK survived : survived = LtLoaded(orderly)
  OBVIOUS
<1>1. /\ dlNext' = dlNow /\ round' = Idle /\ live' = [NoValues EXCEPT !.lt = survived]
      /\ ltRec' = survived /\ ltSaved' = [lt |-> survived, at |-> dlNow]
      /\ eff' = [at |-> NeverRead, p |-> "odd"]
      /\ since' = [dis |-> dlNow, chg |-> dlNow, full |-> FALSE] /\ resetSeen' = FALSE
      /\ UNCHANGED << dlNow, lost >>
  BY DEF LiveRestart
<1>2. dlNow \in Nat /\ survived \subseteq Nat /\ lost \in Nat
  BY DEF LiveInv, LiveType, LiveValues, LtLoaded
<1>3. live' \in LiveValues /\ live'.dis = {} /\ live'.chg = {} /\ live'.lt = survived
  BY <1>1, <1>2 DEF LiveValues, NoValues
<1>4. Idle \in [at : {"idle", "read", "count", "write", "save"}, l : LiveValues] /\ Idle.at = "idle"
  BY DEF Idle, NoValues, LiveValues
<1>5. LiveType'
  <2>1. /\ since' \in [dis : 0..dlNow, chg : 0..dlNow, full : BOOLEAN]
        /\ ltSaved' \in [lt : SUBSET Nat, at : 0..dlNow] /\ ltRec' = ltSaved'.lt
    BY <1>1, <1>2
  <2>2. eff' \in [at : Nat \cup {NeverRead}, p : LivePowers]
    BY <1>1 DEF LivePowers
  <2>3. dlNext' \in 0..(dlNow' + 1) /\ dlNow' \in Nat /\ lost' \in Nat
    <3>1. dlNow' = dlNow /\ dlNext' = dlNow /\ lost' = lost
      BY <1>1
    <3> QED
      BY <1>2, <3>1
  <2>4. round' \in [at : {"idle", "read", "count", "write", "save"}, l : LiveValues] /\ dlNow' = dlNow
    BY <1>1, <1>4
  <2> QED
    <3>1. resetSeen' \in BOOLEAN
      BY <1>1
    <3> QED
      BY <1>3, <2>1, <2>2, <2>3, <2>4, <3>1 DEF LiveType
<1>6. SumsFresh'
  BY <1>1, <1>3, <1>4 DEF SumsFresh, AfterStart, ReadAt
<1>7. RoundsInStep' /\ SavedSoon'
  BY <1>1, <1>3, <1>4 DEF RoundsInStep, SavedSoon, Uncounted, ReadAt
<1> QED
  BY <1>5, <1>6, <1>7 DEF LiveInv

LEMMA LiveTicks ==
  ASSUME LiveInv, LiveClock
  PROVE  LiveInv'
<1>1. /\ ReadAt("idle") /\ dlNow' = dlNow + 1 /\ dlNow \in Nat
      /\ UNCHANGED << dlNext, live, round, eff, since, resetSeen, ltRec, ltSaved, lost >>
  BY DEF LiveClock, Sums, Records, LiveInv, LiveType
<1>2. LiveType'
  BY <1>1 DEF LiveInv, LiveType
<1>3. SumsFresh'
  BY <1>1 DEF LiveInv, SumsFresh, AfterStart, ReadAt
<1>4. RoundsInStep'
  BY <1>1 DEF LiveInv, RoundsInStep, Uncounted, ReadAt
<1>5. SavedSoon'
  BY <1>1 DEF LiveInv, SavedSoon, ReadAt
<1> QED
  BY <1>2, <1>3, <1>4, <1>5 DEF LiveInv

LEMMA LiveSteps == LiveInv /\ [LiveNext]_liveVars => LiveInv'
<1> SUFFICES ASSUME LiveInv, [LiveNext]_liveVars PROVE LiveInv'
  OBVIOUS
<1>t. live \in LiveValues /\ lost \in Nat
  BY DEF LiveInv, LiveType
<1>1. CASE UNCHANGED liveVars
  BY <1>1, <1>t, LiveElsewhere DEF liveVars
<1>2. ASSUME NEW answer \in BOOLEAN, RoundBegins(answer) PROVE LiveInv'
  BY <1>2, LiveBegins
<1>3. ASSUME NEW asked \in SUBSET Optional, NEW got \in SUBSET Optional, RoundReads(asked, got) PROVE LiveInv'
  BY <1>3, LiveReads
<1>4. ASSUME NEW p \in LivePowers, NEW at100 \in BOOLEAN, RoundCounts(p, at100) PROVE LiveInv'
  BY <1>4, LiveCounts
<1>5. CASE RoundWrites
  BY <1>5, LiveWrites
<1>6. ASSUME NEW ok \in BOOLEAN, RoundSaves(ok) PROVE LiveInv'
  BY <1>6, LiveSaves
<1>7. ASSUME NEW ok \in BOOLEAN, NEW w \in {"bus", "page"}, CurveWritten(w, ok) PROVE LiveInv'
  <2>1. /\ UNCHANGED << dlNow, dlNext, live, round, since, resetSeen, eff, ltRec, ltSaved >>
        /\ lost' = lost \/ lost' = lost + 1
    BY <1>7 DEF CurveWritten, Failing, Sums
  <2> QED
    BY <1>t, <2>1, LiveElsewhere
<1>8. CASE ResetEff
  BY <1>8, LiveResets
<1>9. CASE ResetCurve
  BY <1>9, <1>t, LiveElsewhere DEF ResetCurve, Sums
<1>10. CASE SetBus
  <2>1. /\ live' = [live EXCEPT !.online = FALSE, !.blocks = {}]
        /\ UNCHANGED << dlNow, dlNext, round, since, resetSeen, eff, ltRec, ltSaved, lost >>
    BY <1>10 DEF SetBus, Sums, Records
  <2>2. live' \in LiveValues /\ live'.dis = live.dis /\ live'.chg = live.chg /\ live'.lt = live.lt
    BY <1>t, <2>1 DEF LiveValues
  <2> QED
    BY <1>t, <2>1, <2>2, LiveElsewhere
<1>11. ASSUME NEW orderly \in BOOLEAN, LiveRestart(orderly) PROVE LiveInv'
  BY <1>11, LiveRestarts
<1>12. CASE LiveClock
  BY <1>12, LiveTicks
<1> QED
  BY <1>1, <1>2, <1>3, <1>4, <1>5, <1>6, <1>7, <1>8, <1>9, <1>10, <1>11, <1>12 DEF LiveNext

(* What one interval can hold.                                              *)
LEMMA FewUnsaved ==
  ASSUME LiveInv, lost = 0
  PROVE  Cardinality(live.lt \ ltRec) <= SaveEvery
<1> PICK a, b : a = ltSaved.at + 1 /\ b = ltSaved.at + SaveEvery - 1
  OBVIOUS
<1>1. /\ ltSaved.at \in Nat /\ SaveEvery \in Nat \ {0} /\ live.lt \subseteq Nat
      /\ a \in Int /\ b \in Int /\ dlNow \in Nat
  BY LiveAssumption DEF LiveInv, LiveType, LiveValues
<1>2. /\ IsFiniteSet(a..b)
      /\ Cardinality(a..b) = IF a > b THEN 0 ELSE b - a + 1
  BY <1>1, FS_Interval
<1>3. Cardinality(a..b) <= SaveEvery - 1 /\ Cardinality(a..b) \in Nat
  <2>1. CASE a > b
    BY <1>1, <1>2, <2>1
  <2>2. CASE ~(a > b)
    <3>1. b - a + 1 = SaveEvery - 1 /\ b - a + 1 \in Nat
      BY <1>1, <2>2
    <3> QED
      BY <1>1, <1>2, <2>2, <3>1
  <2> QED
    BY <2>1, <2>2
<1>4. /\ IsFiniteSet((a..b) \cup {dlNow})
      /\ Cardinality((a..b) \cup {dlNow}) =
           IF dlNow \in a..b THEN Cardinality(a..b) ELSE Cardinality(a..b) + 1
  BY <1>2, FS_AddElement
<1>5. Cardinality((a..b) \cup {dlNow}) <= SaveEvery /\ Cardinality((a..b) \cup {dlNow}) \in Nat
  BY <1>1, <1>3, <1>4
<1>6. live.lt \ ltRec \in SUBSET ((a..b) \cup {dlNow})
  BY <1>1 DEF LiveInv, SavedSoon
<1>7. /\ IsFiniteSet(live.lt \ ltRec)
      /\ Cardinality(live.lt \ ltRec) <= Cardinality((a..b) \cup {dlNow})
  BY <1>4, <1>6, FS_Subset
<1>8. Cardinality(live.lt \ ltRec) \in Nat
  BY <1>7, FS_CardinalityType
<1> QED
  BY <1>1, <1>5, <1>7, <1>8

(* modbus_rtu.c, poll_deye(), eff_lt_save(): a reset of the sums is not      *)
(* undone by the round under way, a full battery or a failed round, and a   *)
(* power cut loses at most one interval of the long-term sum, over any      *)
(* time and any number of resets, set-ups and restarts.                     *)
THEOREM SumsSound == LiveSpec => []SumsKept
<1>1. LiveInv => SumsKept
  <2>1. LiveInv => SinceStart
    BY DEF LiveInv, SumsFresh, AfterStart, SinceStart, ReadAt
  <2>2. LiveInv => LossBounded
    BY FewUnsaved DEF LossBounded
  <2> QED
    BY <2>1, <2>2 DEF SumsKept
<1> QED
  BY <1>1, LiveStarts, LiveSteps, PTL DEF LiveSpec

-----------------------------------------------------------------------------
(* LoadProfile. A day that is in the flash is over, or its last tick is: the *)
(* clock may step back over the end of a slot, by a tick and no further, as *)
(* a slot is longer than that (900 s in the code). Nothing can be measured  *)
(* in that tick, so a day begun again stays empty and never replaces the    *)
(* record that holds more.                                                 *)
LongSlots == SlotLen >= 2
SlotOf(t) == t - (t % SlotLen)

DayRecord == [day : Nat, slots : SUBSET Nat]
InNewest(list, d, i) ==
  \E k \in DOMAIN list : /\ list[k].day = d /\ i \in list[k].slots
                         /\ \A m \in DOMAIN list : m > k => list[m].day # d
Held(o) == (lpKeep.day = o[1] /\ o[2] \in lpKeep.slots) \/ InNewest(filed, o[1], o[2])

LoadType ==
  /\ lpNow \in Nat /\ cov \in Nat /\ {slotT, lpLast} \subseteq Nat \cup {NoTime}
  /\ lpKeep \in DayRecord /\ filed \in Seq(DayRecord) /\ owed \subseteq Nat \X Nat
RunningSlot ==
  slotT # NoTime => lpLast # NoTime /\ slotT = SlotOf(lpLast) /\ lpKeep.day = DayOf(slotT)
DaysOver ==
  \A k \in DOMAIN filed : /\ filed[k].day < DayOf(lpNow + 1)
                          /\ lpLast # NoTime => filed[k].day < DayOf(lpLast + 1)
DayBegun == lpKeep.slots # {} => lpNow >= 1 /\ lpKeep.day <= DayOf(lpNow - 1)
NothingTaken == lpKeep.slots = {} /\ (slotT = NoTime \/ cov = 0)
NoneSmaller ==
  \A k \in DOMAIN filed :
    filed[k].day = lpKeep.day => filed[k].slots \subseteq lpKeep.slots \/ NothingTaken
AllHeld == \A o \in owed : Held(o)

LoadInv == LoadType /\ RunningSlot /\ DaysOver /\ DayBegun /\ NoneSmaller /\ AllHeld

(* Division, for the days and slots of a time.                             *)
LEMMA Quotient ==
  ASSUME NEW n \in Nat \ {0}, NEW t \in Nat
  PROVE  /\ t \div n \in Nat /\ t % n \in Nat /\ t % n < n
         /\ t = n * (t \div n) + (t % n)
OBVIOUS

LEMMA QuotientBounds ==
  ASSUME NEW n \in Nat \ {0}, NEW t \in Nat
  PROVE  /\ t \div n \in Nat /\ n * (t \div n) \in Nat
         /\ n * (t \div n) <= t /\ t < n * (t \div n) + n
<1> PICK m : m = n * (t \div n)
  OBVIOUS
<1>1. t \div n \in Nat /\ t % n \in Nat /\ t % n < n /\ t = m + (t % n)
  BY Quotient
<1>2. m \in Nat
  BY <1>1
<1> QED
  BY <1>1, <1>2

LEMMA TimesMono ==
  ASSUME NEW n \in Nat, NEW a \in Nat, NEW b \in Nat, a <= b
  PROVE  n * a <= n * b /\ n * a \in Nat /\ n * b \in Nat /\ n * (a + 1) = n * a + n
OBVIOUS

LEMMA QuotientIs ==
  ASSUME NEW n \in Nat \ {0}, NEW t \in Nat, NEW q \in Nat, n * q <= t, t < n * q + n
  PROVE  t \div n = q
<1> PICK p, r : p = t \div n /\ r = t % n
  OBVIOUS
<1>1. p \in Nat /\ r \in Nat /\ r < n /\ t = n * p + r
  BY Quotient
<1>2. CASE p < q
  <2>1. p + 1 <= q
    BY <1>1, <1>2
  <2>2. n * (p + 1) <= n * q
    BY <1>1, <2>1
  <2>3. n * (p + 1) = n * p + n
    BY <1>1
  <2> QED
    BY <1>1, <2>2, <2>3
<1>3. CASE p > q
  <2>1. n * (q + 1) <= n * p
    BY <1>1, <1>3
  <2>2. n * (q + 1) = n * q + n
    OBVIOUS
  <2> QED
    BY <1>1, <2>1, <2>2
<1> QED
  BY <1>1, <1>2, <1>3

(* Days do not go back, and a slot lies within one.                        *)
LEMMA Days ==
  ASSUME NEW t \in Nat, NEW u \in Nat, t <= u
  PROVE  DayOf(t) \in Nat /\ DayOf(u) \in Nat /\ DayOf(t) <= DayOf(u)
<1> PICK n : n = SlotLen * DaySlots
  OBVIOUS
<1>1. n \in Nat \ {0}
  BY LoadAssumption
<1> PICK p, q : p = t \div n /\ q = u \div n
  OBVIOUS
<1>2. /\ p \in Nat /\ q \in Nat /\ n * p <= t /\ u < n * q + n
  BY <1>1, QuotientBounds
<1>3. p <= q
  <2>1. CASE p > q
    <3>1. q + 1 \in Nat /\ q + 1 <= p /\ q <= q + 1
      BY <1>2, <2>1
    <3>2. n * (q + 1) <= n * p /\ n * p \in Nat
      BY <1>1, <1>2, <3>1, TimesMono
    <3>3. n * (q + 1) = n * q + n /\ n * q \in Nat
      BY <1>1, <1>2, <3>1, TimesMono
    <3> QED
      BY <1>1, <1>2, <3>2, <3>3
  <2> QED
    BY <1>2, <2>1
<1> QED
  BY <1>2, <1>3 DEF DayOf

LEMMA SlotInDay ==
  ASSUME NEW t \in Nat, NEW u \in Nat, SlotOf(t) <= u, u < SlotOf(t) + SlotLen
  PROVE  DayOf(u) = DayOf(t)
<1> PICK s, r, q : s = t \div SlotLen /\ r = t % SlotLen /\ q = s \div DaySlots
  OBVIOUS
<1> PICK n : n = SlotLen * DaySlots
  OBVIOUS
<1>1. n \in Nat \ {0} /\ SlotLen \in Nat \ {0} /\ DaySlots \in Nat \ {0}
  BY LoadAssumption
<1>2. s \in Nat /\ r \in Nat /\ r < SlotLen /\ t = SlotLen * s + r
  BY <1>1, Quotient
<1>3. q \in Nat /\ DaySlots * q <= s /\ s + 1 <= DaySlots * q + DaySlots
  <2>1. q \in Nat /\ DaySlots * q \in Nat /\ DaySlots * q <= s /\ s < DaySlots * q + DaySlots
    BY <1>1, <1>2, QuotientBounds
  <2> QED
    BY <1>1, <1>2, <2>1
<1>4. n * q = SlotLen * (DaySlots * q) /\ n * q + n = SlotLen * (DaySlots * q + DaySlots)
  BY <1>1, <1>3
<1>5. SlotLen * (DaySlots * q) <= SlotLen * s
  <2> PICK a : a = DaySlots * q
    OBVIOUS
  <2> QED
    BY <1>1, <1>2, <1>3
<1>6. SlotLen * (s + 1) <= SlotLen * (DaySlots * q + DaySlots)
  <2> PICK a : a = DaySlots * q + DaySlots
    OBVIOUS
  <2>1. a \in Nat /\ s + 1 <= a
    BY <1>1, <1>3
  <2> QED
    BY <1>1, <1>2, <2>1
<1>7. SlotLen * (s + 1) = SlotLen * s + SlotLen /\ SlotLen * s \in Nat
  BY <1>1, <1>2
<1>8. ASSUME NEW v \in Nat, SlotLen * s <= v, v < SlotLen * s + SlotLen
      PROVE  v \div n = q
  <2>1. n * q <= v /\ v < n * q + n
    BY <1>1, <1>3, <1>4, <1>5, <1>6, <1>7, <1>8
  <2> QED
    BY <1>1, <1>3, <2>1, QuotientIs
<1>9. SlotOf(t) = SlotLen * s
  BY <1>1, <1>2, <1>7 DEF SlotOf
<1>10. u \div n = q /\ t \div n = q
  BY <1>1, <1>2, <1>7, <1>8, <1>9
<1> QED
  BY <1>10 DEF DayOf

LEMMA SlotStart ==
  ASSUME NEW t \in Nat
  PROVE  /\ SlotOf(t) \in Nat /\ SlotOf(t) <= t /\ t < SlotOf(t) + SlotLen
         /\ DayOf(SlotOf(t)) = DayOf(t)
<1>1. SlotLen \in Nat \ {0}
  BY LoadAssumption
<1> PICK m : m = SlotLen * (t \div SlotLen)
  OBVIOUS
<1>2. t % SlotLen \in Nat /\ t % SlotLen < SlotLen /\ t = m + (t % SlotLen) /\ m \in Nat
  BY <1>1, Quotient, QuotientBounds
<1>3. SlotOf(t) \in Nat /\ SlotOf(t) <= t /\ t < SlotOf(t) + SlotLen
  BY <1>1, <1>2 DEF SlotOf
<1>4. SlotOf(t) < SlotOf(t) + SlotLen
  BY <1>1, <1>3
<1>5. DayOf(SlotOf(t)) = DayOf(t)
  BY <1>3, <1>4, SlotInDay
<1> QED
  BY <1>3, <1>5

(* One tick on either side of the end of a slot.                            *)
LEMMA SlotEdge ==
  ASSUME LongSlots, NEW t \in Nat, t % SlotLen = 0
  PROVE  DayOf(t + 1) = DayOf(t) /\ (t >= 1 => t >= 2 /\ DayOf(t - 2) = DayOf(t - 1))
<1>1. SlotLen \in Nat \ {0} /\ SlotLen >= 2
  BY LoadAssumption DEF LongSlots
<1>2. SlotOf(t) = t
  BY <1>1 DEF SlotOf
<1>3. DayOf(t + 1) = DayOf(t)
  BY <1>1, <1>2, SlotInDay
<1>4. ASSUME t >= 1 PROVE t >= 2 /\ DayOf(t - 2) = DayOf(t - 1)
  <2> PICK s, q : s = SlotOf(t - 1) /\ q = t \div SlotLen
    OBVIOUS
  <2>1. t - 1 \in Nat /\ s \in Nat /\ s <= t - 1 /\ t - 1 < s + SlotLen
    BY <1>4, SlotStart
  <2>2. q \in Nat /\ t = SlotLen * q
    BY <1>1, Quotient
  <2>3. q >= 1
    BY <1>1, <1>4, <2>2
  <2>4. q - 1 \in Nat /\ SlotLen * ((q - 1) + 1) = SlotLen * (q - 1) + SlotLen /\ SlotLen * (q - 1) \in Nat
    <3>1. q - 1 \in Nat
      BY <2>2, <2>3
    <3> QED
      BY <1>1, <3>1, TimesMono
  <2>5. (q - 1) + 1 = q
    BY <2>2
  <2> PICK m : m = SlotLen * (q - 1)
    OBVIOUS
  <2>6. m \in Nat /\ t = m + SlotLen
    BY <2>2, <2>4, <2>5
  <2>7. (t - 1) \div SlotLen = q - 1
    <3>1. m <= t - 1 /\ t - 1 < m + SlotLen
      BY <1>1, <2>6
    <3> QED
      BY <1>1, <2>1, <2>4, <3>1, QuotientIs
  <2>8. s = m
    <3> PICK u, r : u = t - 1 /\ r = (t - 1) % SlotLen
      OBVIOUS
    <3>1. u = m + r /\ r \in Nat
      <4>1. u \in Nat /\ u \div SlotLen = q - 1 /\ r = u % SlotLen
        BY <2>1, <2>7
      <4>2. u = SlotLen * (u \div SlotLen) + r /\ r \in Nat
        BY <1>1, <4>1, Quotient
      <4> QED
        BY <4>1, <4>2, Zenon
    <3>2. s = u - r
      BY Zenon DEF SlotOf
    <3> QED
      BY <2>6, <3>1, <3>2
  <2>9. t - 2 \in Nat /\ s <= t - 2 /\ t - 2 < s + SlotLen /\ t >= 2
    BY <1>1, <2>6, <2>8
  <2> QED
    BY <2>1, <2>9, SlotInDay
<1> QED
  BY <1>3, <1>4

LEMMA NewestIsMax ==
  ASSUME filed \in Seq(DayRecord), NEW d, NEW i, InNewest(filed, d, i)
  PROVE  LpHolds(d, i)
<1> PICK recs : recs = {k \in DOMAIN filed : filed[k].day = d}
  OBVIOUS
<1>1. DOMAIN filed \subseteq Nat
  OBVIOUS
<1>2. PICK k \in DOMAIN filed : /\ filed[k].day = d /\ i \in filed[k].slots
                                /\ \A m \in DOMAIN filed : m > k => filed[m].day # d
  BY DEF InNewest
<1>3. k \in recs /\ \A m \in recs : k >= m
  BY <1>1, <1>2
<1>4. \A x \in recs : (\A m \in recs : x >= m) => x = k
  <2> SUFFICES ASSUME NEW x \in recs, \A m \in recs : x >= m PROVE x = k
    OBVIOUS
  <2>1. x >= k /\ k >= x /\ x \in Nat /\ k \in Nat
    BY <1>1, <1>3
  <2> QED
    BY <2>1
<1>5. Max(recs) = k
  BY <1>3, <1>4 DEF Max
<1> QED
  BY <1>2, <1>3, <1>5 DEF LpHolds

LEMMA SmallerOf == ASSUME NEW a \in Int, NEW b \in Int PROVE Min({a, b}) \in {a, b}
<1>1. \E x \in {a, b} : \A y \in {a, b} : x <= y
  <2>1. CASE a <= b
    BY <2>1
  <2>2. CASE b <= a
    BY <2>2
  <2> QED
    BY <2>1, <2>2
<1> QED
  BY <1>1 DEF Min

(* The day that is filed holds all of any record it takes the place of.     *)
Replaces(list, old) ==
  \A k \in DOMAIN list : list[k].day = old.day => list[k].slots \subseteq old.slots
FiledWith(list, old) == Append(list, old)
Filed(list, old, longer) ==
  /\ longer \in Seq(DayRecord) /\ DOMAIN longer = DOMAIN list \cup {Len(list) + 1}
  /\ \A k \in DOMAIN list : longer[k] = list[k]
  /\ longer[Len(list) + 1] = old
  /\ \A d, i : InNewest(list, d, i) => InNewest(longer, d, i)
  /\ \A i \in old.slots : InNewest(longer, old.day, i)

LEMMA Filing ==
  ASSUME NEW list \in Seq(DayRecord), NEW old \in DayRecord, Replaces(list, old)
  PROVE  Filed(list, old, FiledWith(list, old))
<1> PICK longer : longer = Append(list, old)
  OBVIOUS
<1> PICK n : n = Len(list) + 1
  OBVIOUS
<1>1. /\ longer \in Seq(DayRecord) /\ n \in Nat /\ DOMAIN list = 1..(n - 1) /\ DOMAIN longer = 1..n
      /\ longer[n] = old /\ \A k \in 1..(n - 1) : longer[k] = list[k]
  OBVIOUS
<1>2. DOMAIN longer = DOMAIN list \cup {n}
  BY <1>1
<1>3. ASSUME NEW i \in old.slots PROVE InNewest(longer, old.day, i)
  <2>1. n \in DOMAIN longer /\ \A m \in DOMAIN longer : ~(m > n)
    BY <1>1
  <2> QED
    BY <1>1, <1>3, <2>1 DEF InNewest
<1>4. ASSUME NEW d, NEW i, InNewest(list, d, i) PROVE InNewest(longer, d, i)
  <2>1. PICK k \in DOMAIN list : /\ list[k].day = d /\ i \in list[k].slots
                                  /\ \A m \in DOMAIN list : m > k => list[m].day # d
    BY <1>4 DEF InNewest
  <2>2. CASE d = old.day
    BY <1>3, <2>1, <2>2 DEF Replaces
  <2>3. CASE d # old.day
    <3>1. k \in DOMAIN longer /\ longer[k] = list[k]
      BY <1>1, <2>1
    <3>2. ASSUME NEW m \in DOMAIN longer, m > k PROVE longer[m].day # d
      <4>1. CASE m = n
        BY <1>1, <2>3, <4>1
      <4>2. CASE m # n
        <5>1. m \in DOMAIN list /\ longer[m] = list[m]
          BY <1>1, <4>2
        <5> QED
          BY <2>1, <3>2, <5>1
      <4> QED
        BY <4>1, <4>2
    <3> QED
      BY <2>1, <3>1, <3>2 DEF InNewest
  <2> QED
    BY <2>2, <2>3
<1> QED
  BY <1>1, <1>2, <1>3, <1>4 DEF Filed, FiledWith

LEMMA LoadStarts == LpInit => LoadInv
<1> SUFFICES ASSUME LpInit PROVE LoadInv
  OBVIOUS
<1>1. LoadType
  BY DEF LpInit, LoadType, NoTime, NoDay, DayRecord
<1>2. DOMAIN filed = {}
  BY DEF LpInit
<1> QED
  BY <1>1, <1>2 DEF LpInit, LoadInv, RunningSlot, DaysOver, DayBegun, NoneSmaller, AllHeld, NoDay

LEMMA LoadElsewhere ==
  ASSUME LoadInv, UNCHANGED << lpNow, slotT, cov, lpLast, lpKeep, filed, owed >>
  PROVE  LoadInv'
<1>1. LoadType' /\ RunningSlot' /\ DaysOver' /\ DayBegun'
  BY DEF LoadInv, LoadType, RunningSlot, DaysOver, DayBegun
<1>2. NoneSmaller' /\ AllHeld'
  BY DEF LoadInv, NoneSmaller, NothingTaken, AllHeld, Held, InNewest
<1> QED
  BY <1>1, <1>2 DEF LoadInv

LEMMA LoadNoClock ==
  ASSUME LoadInv, NoClock
  PROVE  LoadInv'
<1>1. slotT' = NoTime /\ lpLast' = NoTime /\ UNCHANGED << lpNow, cov, lpKeep, filed, owed >>
  BY DEF NoClock
<1>2. LoadType'
  BY <1>1 DEF LoadInv, LoadType
<1>3. RunningSlot' /\ DaysOver' /\ DayBegun'
  BY <1>1 DEF LoadInv, RunningSlot, DaysOver, DayBegun
<1>4. NoneSmaller' /\ AllHeld'
  BY <1>1 DEF LoadInv, NoneSmaller, NothingTaken, AllHeld, Held, InNewest
<1> QED
  BY <1>2, <1>3, <1>4 DEF LoadInv

LEMMA LoadClock ==
  ASSUME LongSlots, LoadInv, NEW d \in {-1, 1, 2}, LpClock(d)
  PROVE  LoadInv'
<1>1. /\ lpNow' = lpNow + d /\ lpNow' \in Nat /\ lpNow \in Nat
      /\ d < 0 => lpNow % SlotLen = 0
      /\ UNCHANGED << slotT, cov, lpLast, lpKeep, filed, owed >>
  BY LoadAssumption DEF LpClock, LoadInv, LoadType
<1>2. LoadType' /\ RunningSlot' /\ NoneSmaller' /\ AllHeld'
  BY <1>1 DEF LoadInv, LoadType, RunningSlot, NoneSmaller, NothingTaken, AllHeld, Held, InNewest
<1>3. DayOf(lpNow + 1) <= DayOf(lpNow' + 1) /\ DayOf(lpNow + 1) \in Nat /\ DayOf(lpNow' + 1) \in Nat
  <2>1. CASE d = -1
    <3>1. DayOf(lpNow + 1) = DayOf(lpNow) /\ lpNow' + 1 = lpNow
      BY <1>1, <2>1, SlotEdge
    <3>2. DayOf(lpNow) \in Nat /\ DayOf(lpNow) <= DayOf(lpNow)
      BY <1>1, Days
    <3> QED
      BY <3>1, <3>2
  <2>2. CASE d # -1
    <3>1. lpNow + 1 \in Nat /\ lpNow' + 1 \in Nat /\ lpNow + 1 <= lpNow' + 1
      BY <1>1, <2>2
    <3> QED
      BY <3>1, Days
  <2> QED
    BY <2>1, <2>2
<1>4. DaysOver'
  <2> SUFFICES ASSUME NEW k \in DOMAIN filed
               PROVE  /\ filed[k].day < DayOf(lpNow' + 1)
                      /\ lpLast # NoTime => filed[k].day < DayOf(lpLast + 1)
    BY <1>1 DEF DaysOver
  <2>1. /\ filed[k].day < DayOf(lpNow + 1) /\ filed[k].day \in Nat
        /\ lpLast # NoTime => filed[k].day < DayOf(lpLast + 1)
    <3>1. filed[k] \in DayRecord
      BY DEF LoadInv, LoadType
    <3> QED
      BY <3>1 DEF LoadInv, DaysOver, DayRecord
  <2> QED
    BY <1>3, <2>1
<1>5. DayBegun'
  <2> SUFFICES ASSUME lpKeep.slots # {}
               PROVE  lpNow' >= 1 /\ lpKeep.day <= DayOf(lpNow' - 1)
    BY <1>1 DEF DayBegun
  <2>1. lpNow >= 1 /\ lpKeep.day <= DayOf(lpNow - 1) /\ lpKeep.day \in Nat
    BY DEF LoadInv, LoadType, DayBegun, DayRecord
  <2>2. CASE d = -1
    <3>1. lpNow >= 2 /\ DayOf(lpNow - 2) = DayOf(lpNow - 1)
      BY <1>1, <2>1, <2>2, SlotEdge
    <3>2. lpNow' - 1 = lpNow - 2 /\ lpNow' >= 1
      BY <1>1, <2>2, <3>1
    <3> QED
      BY <2>1, <3>1, <3>2
  <2>3. CASE d # -1
    <3>1. lpNow - 1 \in Nat /\ lpNow' - 1 \in Nat /\ lpNow - 1 <= lpNow' - 1
      BY <1>1, <2>1, <2>3
    <3>2. DayOf(lpNow - 1) <= DayOf(lpNow' - 1) /\ DayOf(lpNow - 1) \in Nat /\ DayOf(lpNow' - 1) \in Nat
      BY <3>1, Days
    <3> QED
      BY <1>1, <2>1, <3>1, <3>2
  <2> QED
    BY <2>2, <2>3
<1> QED
  BY <1>2, <1>4, <1>5 DEF LoadInv

LEMMA LoadRestarts ==
  ASSUME LoadInv, NEW saved \in BOOLEAN, NEW power \in BOOLEAN, NEW filing \in BOOLEAN,
         LpRestart(saved, power, filing)
  PROVE  LoadInv'
<1>1. /\ slotT' = NoTime /\ cov' = 0 /\ lpLast' = NoTime /\ lpNow' = lpNow
      /\ filing => lpKeep.slots # {} /\ DayOf(lpNow) # lpKeep.day
      /\ filed' = IF filing THEN Append(filed, lpKeep) ELSE filed
      /\ lpKeep' = IF power THEN NoDay ELSE lpKeep
      /\ owed' = IF power /\ ~filing THEN owed \ {<< lpKeep.day, i >> : i \in lpKeep.slots} ELSE owed
  BY DEF LpRestart
<1>2. /\ lpNow \in Nat /\ lpKeep \in DayRecord /\ filed \in Seq(DayRecord) /\ owed \subseteq Nat \X Nat
      /\ DOMAIN filed \subseteq Nat /\ lpKeep.day \in Nat
      /\ \A k \in DOMAIN filed : filed[k].day < DayOf(lpNow + 1)
  <2>1. lpKeep \in DayRecord /\ filed \in Seq(DayRecord) /\ lpNow \in Nat /\ owed \subseteq Nat \X Nat
    BY DEF LoadInv, LoadType
  <2>2. DOMAIN filed \subseteq Nat /\ lpKeep.day \in Nat
    BY <2>1 DEF DayRecord
  <2> QED
    BY <2>1, <2>2 DEF LoadInv, DaysOver
<1>3. NoDay \in DayRecord /\ NoDay.slots = {} /\ lpKeep' \in DayRecord
  BY <1>1, <1>2 DEF NoDay, DayRecord
<1>4. CASE filing
  <2>1. /\ lpKeep.slots # {} /\ DayOf(lpNow) # lpKeep.day /\ filed' = Append(filed, lpKeep) /\ owed' = owed
    BY <1>1, <1>4
  <2>2. \A k \in DOMAIN filed : filed[k].day = lpKeep.day => filed[k].slots \subseteq lpKeep.slots
    BY <2>1 DEF LoadInv, NoneSmaller, NothingTaken
  <2>3. /\ filed' \in Seq(DayRecord) /\ DOMAIN filed' = DOMAIN filed \cup {Len(filed) + 1}
        /\ \A k \in DOMAIN filed : filed'[k] = filed[k]
        /\ filed'[Len(filed) + 1] = lpKeep
        /\ \A d, i : InNewest(filed, d, i) => InNewest(filed', d, i)
        /\ \A i \in lpKeep.slots : InNewest(filed', lpKeep.day, i)
    <3>1. Replaces(filed, lpKeep)
      BY <2>2 DEF Replaces
    <3>2. Filed(filed, lpKeep, FiledWith(filed, lpKeep))
      BY <1>2, <3>1, Filing
    <3>3. filed' = FiledWith(filed, lpKeep)
      BY <2>1 DEF FiledWith
    <3> QED
      BY <3>2, <3>3 DEF Filed
  <2>4. lpKeep.day < DayOf(lpNow + 1)
    <3>1. lpNow >= 1 /\ lpKeep.day <= DayOf(lpNow - 1)
      BY <2>1 DEF LoadInv, DayBegun
    <3>2. lpNow - 1 \in Nat /\ lpNow + 1 \in Nat /\ lpNow - 1 <= lpNow /\ lpNow <= lpNow + 1
      BY <1>2, <3>1
    <3>3. /\ DayOf(lpNow - 1) <= DayOf(lpNow) /\ DayOf(lpNow) <= DayOf(lpNow + 1)
          /\ DayOf(lpNow - 1) \in Nat /\ DayOf(lpNow) \in Nat /\ DayOf(lpNow + 1) \in Nat
      BY <1>2, <3>2, Days
    <3> QED
      BY <1>2, <2>1, <3>1, <3>3
  <2>5. LoadType'
    BY <1>1, <1>2, <1>3, <2>1, <2>3 DEF LoadType
  <2>6. RunningSlot' /\ DaysOver'
    BY <1>1, <1>2, <2>3, <2>4 DEF RunningSlot, DaysOver
  <2>7. DayBegun'
    BY <1>1, <1>3 DEF LoadInv, DayBegun
  <2>8. NoneSmaller'
    <3>1. CASE power
      BY <1>1, <1>3, <3>1 DEF NoneSmaller, NothingTaken
    <3>2. CASE ~power
      BY <1>1, <2>2, <2>3, <3>2 DEF NoneSmaller
    <3> QED
      BY <3>1, <3>2
  <2>9. AllHeld'
    <3> SUFFICES ASSUME NEW o \in owed PROVE InNewest(filed', o[1], o[2])
      BY <2>1 DEF AllHeld, Held
    <3>1. (lpKeep.day = o[1] /\ o[2] \in lpKeep.slots) \/ InNewest(filed, o[1], o[2])
      BY DEF LoadInv, AllHeld, Held
    <3> QED
      BY <2>3, <3>1
  <2> QED
    BY <2>5, <2>6, <2>7, <2>8, <2>9 DEF LoadInv
<1>5. CASE ~filing
  <2>1. filed' = filed /\ owed' \subseteq owed
    BY <1>1, <1>5
  <2>2. LoadType'
    BY <1>1, <1>2, <1>3, <2>1 DEF LoadType
  <2>3. RunningSlot' /\ DaysOver'
    BY <1>1, <2>1 DEF LoadInv, RunningSlot, DaysOver
  <2>4. DayBegun'
    BY <1>1, <1>3 DEF LoadInv, DayBegun
  <2>5. NoneSmaller'
    <3>1. CASE power
      BY <1>1, <1>3, <3>1 DEF NoneSmaller, NothingTaken
    <3>2. CASE ~power
      BY <1>1, <2>1, <3>2 DEF LoadInv, NoneSmaller, NothingTaken
    <3> QED
      BY <3>1, <3>2
  <2>6. AllHeld'
    <3> SUFFICES ASSUME NEW o \in owed' PROVE Held(o)'
      BY DEF AllHeld
    <3>1. o \in Nat \X Nat /\ ((lpKeep.day = o[1] /\ o[2] \in lpKeep.slots) \/ InNewest(filed, o[1], o[2]))
      BY <1>2, <2>1 DEF LoadInv, AllHeld, Held
    <3>2. CASE InNewest(filed, o[1], o[2])
      BY <2>1, <3>2 DEF Held, InNewest
    <3>3. CASE ~InNewest(filed, o[1], o[2])
      <4>1. lpKeep.day = o[1] /\ o[2] \in lpKeep.slots /\ o = << o[1], o[2] >>
        BY <3>1, <3>3
      <4>2. ~power
        <5>1. CASE power
          <6>1. o \in {<< lpKeep.day, i >> : i \in lpKeep.slots}
            BY <4>1
          <6>2. o \notin owed'
            BY <1>1, <1>5, <5>1, <6>1
          <6> QED
            BY <6>2
        <5> QED
          BY <5>1
      <4>3. lpKeep' = lpKeep
        BY <1>1, <4>2
      <4> QED
        BY <4>1, <4>3 DEF Held
    <3> QED
      BY <3>2, <3>3
  <2> QED
    BY <2>2, <2>3, <2>4, <2>5, <2>6 DEF LoadInv
<1> QED
  BY <1>4, <1>5

(* What a tick finds: the slot of now, the day in memory with the slot that *)
(* has ended, and the time since the last tick.                            *)
Elapsed == IF lpLast # NoTime /\ lpNow > lpLast THEN Min({lpNow - lpLast, TickGap}) ELSE 0
Finds(slot, old, dt) ==
  /\ slot \in Nat /\ DayOf(slot) = DayOf(lpNow) /\ dt \in Nat
  /\ old \in DayRecord /\ old.day = lpKeep.day /\ lpKeep.slots \subseteq old.slots
  /\ Running = NoTime \/ (Running = slotT /\ slotT # NoTime)
  /\ Covered(Running) => old.day = DayOf(Running) /\ IdxOf(Running) \in old.slots /\ IdxOf(Running) \in Nat
  /\ old.slots # {} => lpNow >= 1 /\ old.day <= DayOf(lpNow - 1)
  /\ \A k \in DOMAIN filed : filed[k].day = DayOf(lpNow) => dt = 0 /\ Running = NoTime
  /\ \A k \in DOMAIN filed : filed[k].day = old.day => filed[k].slots \subseteq old.slots \/ old.slots = {}

LEMMA TickFinds ==
  ASSUME LoadInv, lpLast # lpNow
  PROVE  Finds(SlotOf(lpNow), KeepWith(Running), Elapsed)
<1> PICK slot, old, dt : slot = SlotOf(lpNow) /\ old = KeepWith(Running) /\ dt = Elapsed
  OBVIOUS
<1>1. /\ lpNow \in Nat /\ cov \in Nat /\ slotT \in Nat \cup {NoTime} /\ lpLast \in Nat \cup {NoTime}
      /\ lpKeep \in DayRecord /\ filed \in Seq(DayRecord) /\ lpKeep.day \in Nat /\ lpKeep.slots \subseteq Nat
      /\ NoTime = -1 /\ TickGap \in Nat /\ CoverMin \in Nat \ {0}
  BY LoadAssumption DEF LoadInv, LoadType, NoTime, DayRecord
<1>2. slot \in Nat /\ DayOf(slot) = DayOf(lpNow)
  BY <1>1, SlotStart
<1>3. dt \in Nat /\ (dt # 0 => lpLast # NoTime /\ lpLast < lpNow)
  <2>1. CASE lpLast # NoTime /\ lpNow > lpLast
    <3>1. lpNow - lpLast \in Nat
      BY <1>1, <2>1
    <3>2. Min({lpNow - lpLast, TickGap}) \in {lpNow - lpLast, TickGap}
      BY <1>1, <3>1, SmallerOf
    <3> QED
      BY <1>1, <2>1, <3>1, <3>2 DEF Elapsed
  <2>2. CASE ~(lpLast # NoTime /\ lpNow > lpLast)
    BY <2>2 DEF Elapsed
  <2> QED
    BY <2>1, <2>2
<1>4. \/ Running = NoTime
      \/ /\ Running = slotT /\ slotT \in Nat /\ lpLast \in Nat /\ lpLast < lpNow
         /\ slotT = SlotOf(lpLast) /\ lpKeep.day = DayOf(slotT) /\ slotT # NoTime
  <2>1. CASE Running = NoTime
    BY <2>1
  <2>2. CASE Running # NoTime
    <3>1. Running = slotT /\ ~(lpLast # NoTime /\ lpNow < lpLast)
      BY <2>2 DEF Running
    <3>2. lpLast # NoTime /\ slotT = SlotOf(lpLast) /\ lpKeep.day = DayOf(slotT)
      BY <2>2, <3>1 DEF LoadInv, RunningSlot
    <3> QED
      BY <1>1, <2>2, <3>1, <3>2
  <2> QED
    BY <2>1, <2>2
<1>5. CASE ~Covered(Running)
  <2>1. old = lpKeep
    BY <1>5 DEF KeepWith
  <2>2. old.slots # {} => lpNow >= 1 /\ old.day <= DayOf(lpNow - 1)
    BY <2>1 DEF LoadInv, DayBegun
  <2>3. \A k \in DOMAIN filed : filed[k].day = old.day => filed[k].slots \subseteq old.slots \/ old.slots = {}
    BY <2>1 DEF LoadInv, NoneSmaller, NothingTaken
  <2>4. \A k \in DOMAIN filed : filed[k].day = DayOf(lpNow) => dt = 0 /\ Running = NoTime
    <3> SUFFICES ASSUME NEW k \in DOMAIN filed, filed[k].day = DayOf(lpNow),
                        lpLast \in Nat, lpLast < lpNow
                 PROVE  FALSE
      BY <1>1, <1>3, <1>4
    <3>1. filed[k].day < DayOf(lpLast + 1)
      BY <1>1 DEF LoadInv, DaysOver
    <3>2. lpLast + 1 \in Nat /\ lpLast + 1 <= lpNow
      BY <1>1
    <3>3. DayOf(lpLast + 1) <= DayOf(lpNow) /\ DayOf(lpLast + 1) \in Nat /\ DayOf(lpNow) \in Nat
      BY <1>1, <3>2, Days
    <3> QED
      BY <3>1, <3>3
  <2> QED
    BY <1>1, <1>2, <1>3, <1>4, <1>5, <2>1, <2>2, <2>3, <2>4 DEF Finds
<1>6. CASE Covered(Running)
  <2>1. Running # NoTime /\ cov >= CoverMin
    BY <1>6 DEF Covered
  <2>2. /\ Running = slotT /\ slotT \in Nat /\ lpLast \in Nat /\ lpLast < lpNow
        /\ slotT = SlotOf(lpLast) /\ lpKeep.day = DayOf(slotT) /\ slotT # NoTime
    BY <1>4, <2>1
  <2>3. old = [lpKeep EXCEPT !.slots = @ \cup {IdxOf(slotT)}]
    BY <1>6, <2>2 DEF KeepWith
  <2>4. IdxOf(slotT) \in Nat
    <3>1. slotT \div SlotLen \in Nat /\ DaySlots \in Nat \ {0}
      BY <2>2, LoadAssumption, Quotient
    <3>2. (slotT \div SlotLen) % DaySlots \in Nat
      BY <3>1, Quotient
    <3> QED
      BY <3>2 DEF IdxOf
  <2>5. old \in DayRecord /\ old.day = lpKeep.day /\ old.slots = lpKeep.slots \cup {IdxOf(slotT)}
    BY <1>1, <2>3, <2>4 DEF DayRecord
  <2>6. lpNow >= 1 /\ old.day <= DayOf(lpNow - 1)
    <3>1. slotT <= lpLast /\ lpLast <= lpNow - 1 /\ slotT <= lpNow - 1 /\ lpNow - 1 \in Nat
      <4>1. SlotOf(lpLast) <= lpLast
        BY <2>2, SlotStart
      <4> QED
        BY <1>1, <2>2, <4>1
    <3>2. DayOf(slotT) <= DayOf(lpNow - 1)
      BY <2>2, <3>1, Days
    <3> QED
      BY <1>1, <2>2, <2>5, <3>1, <3>2
  <2>7. \A k \in DOMAIN filed : filed[k].day = old.day => filed[k].slots \subseteq old.slots
    <3>1. ~NothingTaken
      BY <1>1, <2>1, <2>2 DEF NothingTaken
    <3> QED
      BY <2>5, <3>1 DEF LoadInv, NoneSmaller
  <2>8. \A k \in DOMAIN filed : filed[k].day # DayOf(lpNow)
    <3> SUFFICES ASSUME NEW k \in DOMAIN filed, filed[k].day = DayOf(lpNow)
                 PROVE  FALSE
      OBVIOUS
    <3>1. filed[k].day < DayOf(lpLast + 1)
      BY <1>1, <2>2 DEF LoadInv, DaysOver
    <3>2. lpLast + 1 \in Nat /\ lpLast + 1 <= lpNow
      BY <1>1, <2>2
    <3>3. DayOf(lpLast + 1) <= DayOf(lpNow) /\ DayOf(lpLast + 1) \in Nat /\ DayOf(lpNow) \in Nat
      BY <1>1, <3>2, Days
    <3> QED
      BY <3>1, <3>3
  <2> QED
    BY <1>1, <1>2, <1>3, <2>2, <2>4, <2>5, <2>6, <2>7, <2>8 DEF Finds
<1> QED
  BY <1>5, <1>6

LEMMA LoadTicks ==
  ASSUME LoadInv, NEW good \in BOOLEAN, NEW done \in BOOLEAN, NEW ok \in BOOLEAN,
         LpTick(good, done, ok)
  PROVE  LoadInv'
<1> PICK slot, old, dt, add :
      /\ slot = SlotOf(lpNow) /\ old = KeepWith(Running)
      /\ dt = Elapsed
      /\ add = IF good THEN dt ELSE 0
  OBVIOUS
<1>1. lpLast # lpNow /\ lpLast' = lpNow /\ lpNow' = lpNow
  BY DEF LpTick
<1>2. /\ slot \in Nat /\ DayOf(slot) = DayOf(lpNow) /\ dt \in Nat
      /\ old \in DayRecord /\ old.day = lpKeep.day /\ lpKeep.slots \subseteq old.slots
      /\ Running = NoTime \/ (Running = slotT /\ slotT # NoTime)
      /\ Covered(Running) => old.day = DayOf(Running) /\ IdxOf(Running) \in old.slots /\ IdxOf(Running) \in Nat
      /\ old.slots # {} => lpNow >= 1 /\ old.day <= DayOf(lpNow - 1)
      /\ \A k \in DOMAIN filed : filed[k].day = DayOf(lpNow) => dt = 0 /\ Running = NoTime
      /\ \A k \in DOMAIN filed : filed[k].day = old.day => filed[k].slots \subseteq old.slots \/ old.slots = {}
  <2>1. Finds(SlotOf(lpNow), KeepWith(Running), Elapsed)
    BY <1>1, TickFinds
  <2> QED
    BY <2>1 DEF Finds
<1>3. /\ lpNow \in Nat /\ cov \in Nat /\ slotT \in Nat \cup {NoTime} /\ filed \in Seq(DayRecord)
      /\ owed \subseteq Nat \X Nat /\ add \in Nat /\ NoTime = -1 /\ DOMAIN filed \subseteq Nat
      /\ lpKeep \in DayRecord /\ old.day \in Nat /\ DayOf(lpNow) \in Nat
      /\ dt = 0 => add = 0
  <2>1. lpKeep \in DayRecord /\ filed \in Seq(DayRecord) /\ lpNow \in Nat
    BY DEF LoadInv, LoadType
  <2>2. old.day \in Nat /\ DayOf(lpNow) \in Nat
    BY <1>2, <2>1, Days DEF DayRecord
  <2>3. DOMAIN filed \subseteq Nat /\ add \in Nat /\ (dt = 0 => add = 0)
    BY <1>2, <2>1
  <2> QED
    BY <2>1, <2>2, <2>3 DEF LoadInv, LoadType, NoTime
<1>4. CASE slot = Running
  <2>1. /\ UNCHANGED << slotT, lpKeep, filed, owed >> /\ cov' = cov + add
    BY <1>4 DEF LpTick, SlotOf, Elapsed
  <2>2. slotT = slot /\ slotT # NoTime /\ Running # NoTime
    BY <1>2, <1>3, <1>4
  <2>3. \A k \in DOMAIN filed : filed[k].day # lpKeep.day
    BY <1>2, <2>2 DEF LoadInv, RunningSlot
  <2>4. LoadType'
    BY <1>1, <1>3, <2>1 DEF LoadInv, LoadType
  <2>5. RunningSlot'
    BY <1>1, <1>3, <2>1, <2>2 DEF LoadInv, RunningSlot
  <2>6. DaysOver' /\ DayBegun'
    BY <1>1, <2>1 DEF LoadInv, DaysOver, DayBegun
  <2>7. NoneSmaller' /\ AllHeld'
    BY <2>1, <2>3 DEF LoadInv, NoneSmaller, AllHeld, Held
  <2> QED
    BY <2>4, <2>5, <2>6, <2>7 DEF LoadInv
<1>5. CASE slot # Running
  <2>1. StartsSlot(slot, old, done) /\ cov' = 0 + add
    BY <1>5 DEF LpTick, SlotOf, Elapsed
  <2> PICK closed : closed = IF Covered(Running) THEN {<< DayOf(Running), IdxOf(Running) >>} ELSE {}
    OBVIOUS
  <2>2. owed' = (owed \cup closed) \ (IF done \/ old.day = DayOf(slot) THEN {} ELSE {<< old.day, i >> : i \in old.slots})
    BY <1>5 DEF LpTick, SlotOf, Elapsed
  <2>3. closed \subseteq Nat \X Nat /\ \A o \in closed : o[1] = old.day /\ o[2] \in old.slots
    BY <1>2, <1>3
  <2>4. owed' \subseteq Nat \X Nat /\ owed' \subseteq owed \cup closed /\ cov' \in Nat /\ cov' = add
    BY <1>3, <2>1, <2>2, <2>3
  <2>5. slotT' = slot
    BY <2>1 DEF StartsSlot
  <2>6. \A o \in owed' : (old.day = o[1] /\ o[2] \in old.slots) \/ InNewest(filed, o[1], o[2])
    BY <1>2, <2>3, <2>4 DEF LoadInv, AllHeld, Held
  <2>7. CASE old.day = DayOf(slot)
    <3>1. lpKeep' = old /\ filed' = filed
      BY <2>1, <2>7 DEF StartsSlot
    <3>2. LoadType'
      BY <1>1, <1>2, <1>3, <2>4, <2>5, <3>1 DEF LoadType
    <3>3. RunningSlot'
      BY <1>1, <1>3, <2>5, <2>7, <3>1 DEF RunningSlot
    <3>4. DaysOver' /\ DayBegun'
      BY <1>1, <1>2, <3>1 DEF LoadInv, DaysOver, DayBegun
    <3>5. NoneSmaller'
      BY <1>2, <1>3, <2>4, <2>7, <3>1 DEF NoneSmaller, NothingTaken
    <3>6. AllHeld'
      BY <2>6, <3>1 DEF AllHeld, Held
    <3> QED
      BY <3>2, <3>3, <3>4, <3>5, <3>6 DEF LoadInv
  <2>8. CASE old.day # DayOf(slot)
    <3>1. /\ lpKeep' = [day |-> DayOf(slot), slots |-> {}]
          /\ filed' = IF old.slots # {} /\ done THEN Append(filed, old) ELSE filed
      BY <2>1, <2>8 DEF StartsSlot, Files
    <3>2. lpKeep' \in DayRecord /\ lpKeep'.day = DayOf(lpNow) /\ lpKeep'.slots = {}
      BY <1>2, <1>3, <3>1 DEF DayRecord
    <3>3. RunningSlot'
      BY <1>1, <1>2, <1>3, <2>5, <3>2 DEF RunningSlot
    <3>4. DayBegun'
      BY <3>2 DEF DayBegun
    <3>5. CASE old.slots # {} /\ done
      <4>1. Replaces(filed, old)
        BY <1>2, <3>5 DEF Replaces
      <4>2. Filed(filed, old, FiledWith(filed, old))
        BY <1>2, <1>3, <4>1, Filing
      <4>3. filed' = FiledWith(filed, old)
        BY <3>1, <3>5 DEF FiledWith
      <4>4. /\ filed' \in Seq(DayRecord) /\ DOMAIN filed' = DOMAIN filed \cup {Len(filed) + 1}
            /\ \A k \in DOMAIN filed : filed'[k] = filed[k]
            /\ filed'[Len(filed) + 1] = old
            /\ \A d, i : InNewest(filed, d, i) => InNewest(filed', d, i)
            /\ \A i \in old.slots : InNewest(filed', old.day, i)
        BY <4>2, <4>3 DEF Filed
      <4>5. old.day < DayOf(lpNow + 1)
        <5>1. lpNow >= 1 /\ old.day <= DayOf(lpNow - 1)
          BY <1>2, <3>5
        <5>2. lpNow - 1 \in Nat /\ lpNow + 1 \in Nat /\ lpNow - 1 <= lpNow /\ lpNow <= lpNow + 1
          BY <1>3, <5>1
        <5>3. /\ DayOf(lpNow - 1) <= DayOf(lpNow) /\ DayOf(lpNow) <= DayOf(lpNow + 1)
              /\ DayOf(lpNow - 1) \in Nat /\ DayOf(lpNow + 1) \in Nat
          BY <1>3, <5>2, Days
        <5> QED
          BY <1>2, <1>3, <2>8, <5>1, <5>3
      <4>6. LoadType'
        BY <1>1, <1>3, <2>4, <2>5, <1>2, <3>2, <4>4 DEF LoadType
      <4>7. DaysOver'
        BY <1>1, <4>4, <4>5 DEF LoadInv, DaysOver
      <4>8. NoneSmaller'
        BY <1>2, <1>3, <2>4, <2>8, <3>2, <4>4 DEF NoneSmaller, NothingTaken
      <4>9. AllHeld'
        BY <2>6, <4>4 DEF AllHeld, Held
      <4> QED
        BY <3>3, <3>4, <4>6, <4>7, <4>8, <4>9 DEF LoadInv
    <3>6. CASE ~(old.slots # {} /\ done)
      <4>1. filed' = filed
        BY <3>1, <3>6
      <4>2. LoadType'
        BY <1>1, <1>2, <1>3, <2>4, <2>5, <3>2, <4>1 DEF LoadType
      <4>3. DaysOver'
        BY <1>1, <4>1 DEF LoadInv, DaysOver
      <4>4. NoneSmaller'
        BY <1>2, <1>3, <2>4, <3>2, <4>1 DEF NoneSmaller, NothingTaken
      <4>5. AllHeld'
        <5> SUFFICES ASSUME NEW o \in owed' PROVE InNewest(filed, o[1], o[2])
          BY <4>1 DEF AllHeld, Held
        <5>1. CASE old.day = o[1] /\ o[2] \in old.slots
          <6>1. ~done
            BY <3>6, <5>1
          <6>2. o = << o[1], o[2] >>
            BY <2>4
          <6>3. o \in {<< old.day, i >> : i \in old.slots}
            BY <5>1, <6>2
          <6>4. owed' = (owed \cup closed) \ {<< old.day, i >> : i \in old.slots}
            BY <2>2, <2>8, <6>1
          <6> QED
            BY <6>3, <6>4
        <5> QED
          BY <2>6, <5>1
      <4> QED
        BY <3>3, <3>4, <4>2, <4>3, <4>4, <4>5 DEF LoadInv
    <3> QED
      BY <3>5, <3>6
  <2> QED
    BY <2>7, <2>8
<1> QED
  BY <1>4, <1>5

LEMMA LoadSteps ==
  ASSUME LongSlots, LoadInv, [LpNext]_lpVars
  PROVE  LoadInv'
<1>1. CASE UNCHANGED lpVars
  BY <1>1, LoadElsewhere DEF lpVars
<1>2. ASSUME NEW good \in BOOLEAN, NEW done \in BOOLEAN, NEW ok \in BOOLEAN, LpTick(good, done, ok)
      PROVE  LoadInv'
  BY <1>2, LoadTicks
<1>3. ASSUME NEW saved \in BOOLEAN, NEW power \in BOOLEAN, NEW filing \in BOOLEAN,
             LpRestart(saved, power, filing)
      PROVE  LoadInv'
  BY <1>3, LoadRestarts
<1>4. ASSUME NEW d \in {-1, 1, 2}, LpClock(d) PROVE LoadInv'
  BY <1>4, LoadClock
<1>5. CASE NoClock
  BY <1>5, LoadNoClock
<1>6. CASE SntpSets
  BY <1>6, LoadElsewhere DEF SntpSets
<1> QED
  BY <1>1, <1>2, <1>3, <1>4, <1>5, <1>6 DEF LpNext

(* load_profile.c: every quarter hour measured is in the day in memory or in *)
(* the newest record of its date, over any number of days, restarts,        *)
(* stalls and corrections of the clock, for every length of a slot and of a *)
(* day; only a power cut and a refused flash write cost a day.              *)
THEOREM MeasuredSound ==
  ASSUME LongSlots
  PROVE  LpSpec => []MeasuredIsKept
<1>1. LpInit => LoadInv
  BY LoadStarts
<1>2. LoadInv /\ [LpNext]_lpVars => LoadInv'
  BY LoadSteps
<1>3. LoadInv => MeasuredIsKept
  <2> SUFFICES ASSUME LoadInv, NEW o \in owed
               PROVE  (lpKeep.day = o[1] /\ o[2] \in lpKeep.slots) \/ LpHolds(o[1], o[2])
    BY DEF MeasuredIsKept
  <2>1. Held(o) /\ filed \in Seq(DayRecord)
    BY DEF LoadInv, LoadType, AllHeld
  <2>2. InNewest(filed, o[1], o[2]) => LpHolds(o[1], o[2])
    BY <2>1, NewestIsMax
  <2> QED
    BY <2>1, <2>2 DEF Held
<1> QED
  BY <1>1, <1>2, <1>3, PTL DEF LpSpec
-----------------------------------------------------------------------------
(* FlashRing. From the newest record onwards the ring holds, in the order  *)
(* of its cells, the records from the oldest to the newest, and of the     *)
(* sector of the newest what comes after it holds none.                    *)
RecordSet == [seq : Int, t : Times \cup {0}]
PutSet == [at : {"erase", "write"}, slot : Cells, t : Times]

Holding(c) == {i \in Cells : c[i] \notin {Blank, Torn}}
Contents(c) == {c[i] : i \in Holding(c)}
Base(i) == i - (i % PerSector)
AfterSector(b) == IF b + PerSector = NRec THEN 0 ELSE b + PerSector
Place(n, i) == IF i > n THEN i - n ELSE i - n + NRec

LastIs(c, n, s) == IF n = -1 THEN s = 0 ELSE n \in Holding(c) /\ c[n].seq = s
InOrder(c, n) == \A i, j \in Holding(c) : Place(n, i) < Place(n, j) => c[i].seq < c[j].seq
RestFree(c, n) == \A j \in Cells : n < j /\ j < Base(n) + PerSector => j \notin Holding(c)

(* The cells c, whose newest record is in the cell n and has the number s. *)
RingOf(c, n, s) ==
  /\ c \in [Cells -> RecordSet] /\ n \in Cells \cup {-1} /\ s \in Nat
  /\ \A i \in Holding(c) : c[i].seq \in 1..s
  /\ LastIs(c, n, s)
  /\ n # -1 => InOrder(c, n) /\ RestFree(c, n)

(* A cell the next record may go to, and the sector it may have to enter.  *)
NextSector(n) == IF n = -1 THEN 0 ELSE AfterSector(Base(n))
Following(n, i) == n # -1 /\ n < i /\ i < Base(n) + PerSector
Takes(c, n, i) ==
  /\ i \in Cells /\ c[i] = Blank
  /\ Following(n, i) \/ (i = NextSector(n) /\ \A j \in SectorOf(i) : j \notin Holding(c))

PutReady ==
  put # NoPut => /\ put \in PutSet
                 /\ put.at = "erase" => put.slot = NextSector(newest)
                 /\ put.at = "write" => Takes(cell, newest, put.slot)

RingInv ==
  /\ RingOf(cell, newest, seq) /\ count = Cardinality(Valid)
  /\ put \in PutSet \cup {NoPut} /\ PutReady

LEMMA SmallMod ==
  ASSUME NEW n \in Nat \ {0}
  PROVE  n % n = 0 /\ \A t \in Nat : t < n => t % n = t
<1>1. ASSUME NEW t \in Nat, t < n PROVE t % n = t
  <2>1. n * 0 = 0
    OBVIOUS
  <2>2. t \div n = 0
    BY <1>1, <2>1, QuotientIs
  <2> PICK q, r : q = t \div n /\ r = t % n
    OBVIOUS
  <2>3. q = 0 /\ r \in Nat /\ t = n * q + r
    BY <2>2, Quotient
  <2> QED
    BY <2>1, <2>3
<1>2. n % n = 0
  <2>1. n * 1 = n
    OBVIOUS
  <2>2. n \div n = 1
    BY <2>1, QuotientIs
  <2> PICK q, r : q = n \div n /\ r = n % n
    OBVIOUS
  <2>3. q = 1 /\ r \in Nat /\ n = n * q + r
    BY <2>2, Quotient
  <2> QED
    BY <2>1, <2>3
<1> QED
  BY <1>1, <1>2

LEMMA RingSizes == /\ PerSector \in Nat \ {0} /\ NRec \in Nat /\ NRec >= PerSector + PerSector
                   /\ Sectors \in Nat /\ NRec = PerSector * Sectors
<1>1. Sectors \in Nat /\ PerSector \in Nat \ {0} /\ 2 <= Sectors
  BY RingAssumption
<1>2. PerSector * 2 <= PerSector * Sectors
  BY <1>1, TimesMono
<1>3. PerSector * 2 = PerSector + PerSector /\ PerSector * Sectors \in Nat
      /\ PerSector * Sectors = Sectors * PerSector
  BY <1>1
<1> QED
  BY <1>1, <1>2, <1>3 DEF NRec

(* The cells of a sector.                                                  *)
SectorStarts == {b \in Cells : EntersSector(b)}

LEMMA Multiples ==
  ASSUME NEW q \in Nat
  PROVE  PerSector * q \in Nat /\ (PerSector * q) % PerSector = 0
<1>1. PerSector \in Nat \ {0}
  BY RingSizes
<1>2. PerSector * q \in Nat
  BY <1>1
<1>3. (PerSector * q) \div PerSector = q
  BY <1>1, <1>2, QuotientIs
<1>4. PerSector * q = PerSector * ((PerSector * q) \div PerSector) + ((PerSector * q) % PerSector)
      /\ (PerSector * q) % PerSector \in Nat
  BY <1>1, <1>2, Quotient
<1> PICK m : m = PerSector * q
  OBVIOUS
<1> QED
  BY <1>2, <1>3, <1>4

LEMMA StartIs ==
  ASSUME NEW b \in SectorStarts
  PROVE  b \div PerSector \in Nat /\ b = PerSector * (b \div PerSector)
BY RingSizes, Quotient DEF SectorStarts, EntersSector, Cells

(* One sector ends where the next one starts.                              *)
LEMMA SectorGap ==
  ASSUME NEW b \in SectorStarts
  PROVE  /\ b \in Nat /\ b + PerSector <= NRec
         /\ b + PerSector < NRec => b + PerSector \in SectorStarts
         /\ 0 \in SectorStarts
         /\ \A c \in SectorStarts : b < c => b + PerSector <= c
<1> PICK q : q = b \div PerSector
  OBVIOUS
<1>1. PerSector \in Nat \ {0} /\ NRec \in Nat /\ Sectors \in Nat /\ NRec = PerSector * Sectors
  BY RingSizes
<1>2. b \in Nat /\ b < NRec /\ q \in Nat /\ b = PerSector * q
  BY <1>1, StartIs DEF SectorStarts, Cells
<1>3. PerSector * (q + 1) = b + PerSector
  BY <1>1, <1>2
<1>4. \A r \in Nat : b < PerSector * r => b + PerSector <= PerSector * r
  <2> SUFFICES ASSUME NEW r \in Nat, b < PerSector * r PROVE b + PerSector <= PerSector * r
    OBVIOUS
  <2>1. q < r
    <3>1. CASE r <= q
      <4>1. PerSector * r <= PerSector * q
        BY <1>1, <1>2, <3>1, TimesMono
      <4> QED
        BY <1>1, <1>2, <4>1
    <3> QED
      BY <1>2, <3>1
  <2>2. PerSector * (q + 1) <= PerSector * r
    BY <1>1, <1>2, <2>1, TimesMono
  <2> QED
    BY <1>3, <2>2
<1>5. b + PerSector <= NRec
  BY <1>1, <1>2, <1>4
<1>6. (b + PerSector) % PerSector = 0
  BY <1>2, <1>3, Multiples
<1>7. 0 % PerSector = 0
  <2>1. PerSector * 0 = 0
    BY <1>1
  <2> QED
    BY <2>1, Multiples
<1>8. \A c \in SectorStarts : b < c => b + PerSector <= c
  BY <1>4, StartIs
<1> QED
  BY <1>1, <1>2, <1>5, <1>6, <1>7, <1>8 DEF SectorStarts, EntersSector, Cells

LEMMA ZeroStarts == 0 \in SectorStarts
<1>1. PerSector * 0 = 0 /\ PerSector \in Nat \ {0}
  BY RingSizes
<1>2. 0 % PerSector = 0
  BY <1>1, Multiples
<1> QED
  BY <1>2, RingSizes DEF SectorStarts, EntersSector, Cells

(* Every cell lies in one sector.                                          *)
LEMMA BaseStarts ==
  ASSUME NEW i \in Cells
  PROVE  Base(i) \in SectorStarts /\ Base(i) <= i /\ i < Base(i) + PerSector
<1> PICK q, r : q = i \div PerSector /\ r = i % PerSector
  OBVIOUS
<1>1. i \in Nat /\ PerSector \in Nat \ {0} /\ NRec \in Nat /\ i < NRec
  BY RingSizes DEF Cells
<1>2. q \in Nat /\ r \in Nat /\ r < PerSector /\ i = PerSector * q + r
  BY <1>1, Quotient
<1>3. Base(i) = PerSector * q /\ PerSector * q \in Nat
  BY <1>1, <1>2 DEF Base
<1>4. Base(i) % PerSector = 0
  BY <1>2, <1>3, Multiples
<1> PICK b : b = Base(i)
  OBVIOUS
<1>5. b \in Nat /\ i = b + r
  BY <1>2, <1>3
<1> QED
  BY <1>1, <1>2, <1>4, <1>5 DEF SectorStarts, EntersSector, Cells

LEMMA StartIsBase == ASSUME NEW b \in SectorStarts PROVE Base(b) = b
BY DEF SectorStarts, EntersSector, Base, Cells

(* Within a sector no other one starts.                                    *)
LEMMA NoStartWithin ==
  ASSUME NEW i \in Cells, NEW j \in Cells, Base(i) < j, j < Base(i) + PerSector
  PROVE  ~EntersSector(j) /\ Base(j) = Base(i)
<1>1. Base(i) \in SectorStarts /\ Base(j) \in SectorStarts /\ Base(j) <= j /\ j < Base(j) + PerSector
  BY BaseStarts
<1>2. Base(i) \in Nat /\ Base(j) \in Nat /\ j \in Nat /\ PerSector \in Nat \ {0}
  BY <1>1, SectorGap, RingSizes DEF Cells
<1>3. j \notin SectorStarts
  <2>1. j \in SectorStarts => Base(i) + PerSector <= j
    BY <1>1, SectorGap
  <2> QED
    BY <1>2, <2>1
<1>4. Base(i) < Base(j) => Base(i) + PerSector <= Base(j)
  BY <1>1, SectorGap
<1>5. Base(j) < Base(i) => Base(j) + PerSector <= Base(i)
  BY <1>1, SectorGap
<1> QED
  BY <1>1, <1>2, <1>3, <1>4, <1>5 DEF SectorStarts

(* Where the ring goes on: the next sector is another one than the newest  *)
(* record's, and the cells between are of the newest's own.                *)
LEMMA NextSectorIs ==
  ASSUME NEW n \in Cells \cup {-1}
  PROVE  /\ NextSector(n) \in SectorStarts
         /\ n # -1 => \/ NextSector(n) = Base(n) + PerSector /\ Base(n) + PerSector < NRec
                      \/ NextSector(n) = 0 /\ Base(n) + PerSector = NRec
         /\ n # -1 => n \notin SectorOf(NextSector(n))
<1>1. CASE n = -1
  BY <1>1, ZeroStarts DEF NextSector
<1>2. CASE n # -1
  <2> DEFINE b == Base(n)
  <2>1. n \in Cells /\ b \in SectorStarts /\ b <= n /\ n < b + PerSector
    BY <1>2, BaseStarts
  <2>2. /\ b \in Nat /\ b + PerSector <= NRec /\ PerSector \in Nat \ {0} /\ NRec \in Nat
        /\ NRec >= PerSector + PerSector /\ n \in Nat
        /\ b + PerSector < NRec => b + PerSector \in SectorStarts
    BY <2>1, SectorGap, RingSizes DEF Cells
  <2>3. NextSector(n) = IF b + PerSector = NRec THEN 0 ELSE b + PerSector
    BY <1>2 DEF NextSector, AfterSector
  <2> HIDE DEF b
  <2>4. NextSector(n) \in SectorStarts
    BY <2>2, <2>3, ZeroStarts
  <2>5. n \notin SectorOf(NextSector(n))
    BY <2>1, <2>2, <2>3 DEF SectorOf
  <2> QED
    BY <2>2, <2>3, <2>4, <2>5 DEF b
<1> QED
  BY <1>1, <1>2

LEMMA SectorCells ==
  ASSUME NEW b \in SectorStarts
  PROVE  SectorOf(b) \subseteq Cells /\ b \in SectorOf(b)
BY SectorGap, RingSizes DEF SectorOf, Cells

(* The least of a set of naturals.                                         *)
LEMMA MinIs ==
  ASSUME NEW S, S \subseteq Nat, S # {}
  PROVE  Min(S) \in S /\ \A y \in S : Min(S) <= y
<1>1. \E x \in S : \A y \in S : ~(<< y, x >> \in OpToRel(<, Nat))
  BY NatLessThanWellFounded, WFMin
<1>2. \A x, y \in Nat : y < x => << y, x >> \in OpToRel(<, Nat)
  BY Zenon DEF OpToRel
<1>3. PICK x \in S : \A y \in S : ~(y < x)
  BY <1>1, <1>2, Zenon
<1>4. \A y \in S : x <= y
  BY <1>3
<1> QED
  BY <1>4 DEF Min

(* load_hist_put(): the cell it comes to.                                  *)
LEMMA RoomIs ==
  ASSUME NEW r, r = Room(Next1), newest \in Cells \cup {-1}
  PROVE  \/ EntersSector(r) /\ r = NextSector(newest)
         \/ ~EntersSector(r) /\ r \in Cells /\ cell[r] = Blank /\ Following(newest, r)
<1> DEFINE takes(k) == EntersSector((Next1 + k) % NRec) \/ cell[(Next1 + k) % NRec] = Blank
           ks == {k \in 0 .. PerSector - 1 : takes(k)}
<1>1. r = (Next1 + Min(ks)) % NRec
  BY DEF Room
<1>0. PerSector \in Nat \ {0} /\ NRec \in Nat \ {0} /\ NRec >= PerSector + PerSector
  BY RingSizes
<1>2. ks \subseteq Nat
  OBVIOUS
<1>3. ASSUME NEW x \in Cells PROVE x % NRec = x
  <2>1. x \in Nat /\ x < NRec
    BY <1>0, <1>3 DEF Cells
  <2> QED
    BY <1>0, <2>1, SmallMod
<1>4. ASSUME Next1 \in SectorStarts
      PROVE  r = Next1
  <2>1. Next1 \in Cells /\ EntersSector(Next1) /\ Next1 + 0 = Next1
    BY <1>4 DEF SectorStarts, Cells
  <2>2. takes(0) /\ 0 \in 0 .. PerSector - 1
    BY <1>0, <1>3, <2>1
  <2>3. 0 \in ks
    BY <2>2
  <2>4. Min(ks) \in ks /\ Min(ks) <= 0
    BY <1>2, <2>3, MinIs
  <2>5. Min(ks) = 0
    BY <1>2, <2>4
  <2> QED
    BY <1>1, <1>3, <2>1, <2>5
<1>5. CASE newest = -1
  <2>1. Next1 = 0
    BY <1>5 DEF Next1
  <2> QED
    BY <1>4, <1>5, <2>1, ZeroStarts DEF NextSector, SectorStarts
<1>6. CASE newest # -1
  <2> DEFINE b == Base(newest)
  <2>1. newest \in Cells /\ b \in SectorStarts /\ b <= newest /\ newest < b + PerSector
    BY <1>6, BaseStarts
  <2>2. b \in Nat /\ newest \in Nat /\ newest < NRec /\ b + PerSector <= NRec
    BY <1>0, <2>1, SectorGap DEF Cells
  <2>3. Next1 = (newest + 1) % NRec
    BY <2>2 DEF Next1
  <2>4. NextSector(newest) \in SectorStarts /\ NextSector(newest) \in Cells
    BY NextSectorIs DEF SectorStarts
  <2>a. (b + PerSector) % NRec = NextSector(newest)
    <3>1. NextSector(newest) = IF b + PerSector = NRec THEN 0 ELSE b + PerSector
      BY <1>6 DEF NextSector, AfterSector
    <3>2. CASE b + PerSector = NRec
      BY <1>0, <3>1, <3>2, SmallMod
    <3>3. CASE b + PerSector # NRec
      BY <1>3, <2>4, <3>1, <3>3
    <3> QED
      BY <3>2, <3>3
  <2>5. CASE newest + 1 = b + PerSector
    BY <1>4, <2>3, <2>4, <2>5, <2>a DEF SectorStarts
  <2>6. CASE newest + 1 # b + PerSector
    <3>1. newest + 1 < b + PerSector /\ newest + 1 \in Cells /\ Next1 = newest + 1
      BY <1>0, <1>3, <2>1, <2>2, <2>3, <2>6 DEF Cells
    <3> DEFINE k0 == b + PerSector - (newest + 1)
    <3>2. k0 \in 0 .. PerSector - 1 /\ Next1 + k0 = b + PerSector
      BY <1>0, <2>1, <2>2, <3>1
    <3>3. k0 \in ks
      <4>1. EntersSector((Next1 + k0) % NRec)
        BY <2>4, <2>a, <3>2 DEF SectorStarts
      <4> QED
        BY <3>2, <4>1
    <3> PICK k : k = Min(ks)
      OBVIOUS
    <3>4. k \in ks /\ k <= k0
      BY <1>2, <3>3, MinIs
    <3>5. k \in Nat /\ k0 \in Nat
      BY <1>2, <3>2, <3>4
    <3> HIDE DEF k0
    <3>6. CASE k = k0
      BY <1>1, <2>4, <2>a, <3>2, <3>6 DEF SectorStarts
    <3>7. CASE k # k0
      <4>1. newest < Next1 + k /\ Next1 + k < b + PerSector /\ Next1 + k \in Cells
        BY <1>0, <2>2, <3>1, <3>2, <3>4, <3>5, <3>7 DEF Cells
      <4>2. r = Next1 + k
        BY <1>1, <1>3, <4>1
      <4>3. ~EntersSector(r)
        BY <2>1, <2>2, <4>1, <4>2, NoStartWithin DEF Cells
      <4>4. cell[r] = Blank
        BY <1>3, <3>4, <4>1, <4>2, <4>3
      <4> QED
        BY <1>6, <4>1, <4>2, <4>3, <4>4 DEF Following
    <3> QED
      BY <3>6, <3>7
  <2> QED
    BY <2>5, <2>6
<1> QED
  BY <1>5, <1>6

(* The records of a ring have different numbers.                           *)
LEMMA PlacesDiffer ==
  ASSUME NEW n \in Cells, NEW i \in Cells, NEW j \in Cells, i # j
  PROVE  Place(n, i) \in Nat /\ Place(n, j) \in Nat /\ (Place(n, i) < Place(n, j) \/ Place(n, j) < Place(n, i))
<1>1. NRec \in Nat /\ i \in Nat /\ j \in Nat /\ n \in Nat /\ i < NRec /\ j < NRec /\ n < NRec
  BY RingSizes DEF Cells
<1> QED
  BY <1>1 DEF Place

LEMMA NumbersDiffer ==
  ASSUME NEW c, NEW n, NEW s, RingOf(c, n, s), NEW i \in Holding(c), NEW j \in Holding(c), i # j
  PROVE  n \in Cells /\ (c[i].seq < c[j].seq \/ c[j].seq < c[i].seq)
<1>1. i \in Cells /\ j \in Cells
  BY DEF Holding
<1>2. n # -1
  <2>1. CASE n = -1
    <3>1. s = 0 /\ c[i].seq \in 1..s
      BY <2>1 DEF RingOf, LastIs
    <3> QED
      BY <3>1
  <2> QED
    BY <2>1
<1>3. n \in Cells /\ InOrder(c, n)
  BY <1>2 DEF RingOf
<1> QED
  BY <1>1, <1>3, PlacesDiffer DEF InOrder

(* load_hist_init(): the scan finds what the memory knew.                  *)
LEMMA ScanFinds ==
  ASSUME NEW c, NEW n, NEW s, RingOf(c, n, s)
  PROVE  Scan(c) = [newest |-> n, seq |-> s, count |-> Cardinality(Holding(c))]
<1> DEFINE last == {i \in Holding(c) : \A j \in Holding(c) : c[j].seq <= c[i].seq}
<1>1. Scan(c) = IF Holding(c) = {} THEN [newest |-> -1, seq |-> 0, count |-> 0]
                ELSE [newest |-> Min(last), seq |-> c[Min(last)].seq, count |-> Cardinality(Holding(c))]
  BY Zenon DEF Scan, Holding
<1>2. CASE n = -1
  <2>1. s = 0 /\ Holding(c) = {}
    BY <1>2 DEF RingOf, LastIs
  <2> QED
    BY <1>1, <1>2, <2>1, FS_EmptySet
<1>3. CASE n # -1
  <2>1. n \in Holding(c) /\ c[n].seq = s /\ s \in Nat /\ \A i \in Holding(c) : c[i].seq \in 1..s
    BY <1>3 DEF RingOf, LastIs
  <2>2. last = {n}
    <3>1. n \in last
      BY <2>1
    <3>2. ASSUME NEW i \in last, i # n PROVE FALSE
      <4>1. i \in Holding(c) /\ c[n].seq <= c[i].seq /\ c[i].seq \in 1..s
        BY <2>1, <3>2
      <4>2. c[i].seq < c[n].seq \/ c[n].seq < c[i].seq
        BY <2>1, <3>2, <4>1, NumbersDiffer
      <4> QED
        BY <2>1, <4>1, <4>2
    <3> QED
      BY <3>1, <3>2
  <2>3. Min({n}) = n
    <3>1. n \in Nat
      BY <2>1, RingSizes DEF Holding, Cells
    <3> QED
      BY <3>1, MinIs
  <2> HIDE DEF last
  <2> QED
    BY <1>1, <2>1, <2>2, <2>3
<1> QED
  BY <1>2, <1>3

(* What is lost without the newest leaves a ring.                          *)
LEMMA RingLoses ==
  ASSUME NEW c, NEW n, NEW s, RingOf(c, n, s),
         NEW d \in [Cells -> RecordSet],
         \A i \in Cells : d[i] \in {c[i], Blank, Torn},
         n # -1 => d[n] = c[n]
  PROVE  /\ RingOf(d, n, s)
         /\ Holding(d) \subseteq Holding(c)
         /\ \A i \in Holding(d) : d[i] = c[i]
<1>1. Holding(d) \subseteq Holding(c) /\ \A i \in Holding(d) : d[i] = c[i]
  BY DEF Holding
<1>2. \A i \in Holding(d) : d[i].seq \in 1..s
  BY <1>1 DEF RingOf
<1>3. LastIs(d, n, s)
  BY <1>1 DEF RingOf, LastIs, Holding
<1>4. n # -1 => InOrder(d, n) /\ RestFree(d, n)
  BY <1>1 DEF RingOf, InOrder, RestFree
<1> QED
  BY <1>1, <1>2, <1>3, <1>4 DEF RingOf

(* A new record goes behind all the others.                                *)
LEMMA PlacesKept ==
  ASSUME NEW c, NEW n \in Cells, NEW s, RingOf(c, n, s), NEW i, Takes(c, n, i),
         NEW j \in Holding(c), NEW k \in Holding(c)
  PROVE  /\ j # i
         /\ Place(i, j) < Place(i, i)
         /\ Place(i, j) < Place(i, k) => Place(n, j) < Place(n, k)
<1> DEFINE b == Base(n)
<1>0. i \in Cells /\ j \in Cells /\ k \in Cells /\ j # i /\ k # i
  BY DEF Holding, Takes
<1>1. /\ NRec \in Nat /\ i \in Nat /\ j \in Nat /\ k \in Nat /\ n \in Nat
      /\ i < NRec /\ j < NRec /\ k < NRec /\ n < NRec
  BY <1>0, RingSizes DEF Cells
<1>2. /\ b \in Nat /\ PerSector \in Nat \ {0} /\ b <= n /\ n < b + PerSector /\ b + PerSector <= NRec
  BY RingSizes, BaseStarts, SectorGap
<1>3. \A x \in Holding(c) : ~(n < x /\ x < b + PerSector)
  BY <1>1 DEF RingOf, RestFree, Holding, Cells
<1> HIDE DEF b
<1>4. Place(i, i) = NRec
  BY <1>1 DEF Place
<1>5. Place(i, j) < NRec
  BY <1>0, <1>1 DEF Place
<1>6. Place(i, j) < Place(i, k) => Place(n, j) < Place(n, k)
  <2>1. CASE Following(n, i)
    <3>1. n < i /\ i < b + PerSector
      BY <2>1 DEF Following, b
    <3>2. (j > i <=> j > n) /\ (k > i <=> k > n)
      BY <1>0, <1>1, <1>2, <1>3, <3>1
    <3> QED
      BY <1>1, <3>1, <3>2 DEF Place
  <2>2. CASE ~Following(n, i)
    <3>1. i = NextSector(n) /\ \A x \in SectorOf(i) : x \notin Holding(c)
      BY <2>2 DEF Takes
    <3>2. n # -1
      BY <1>1
    <3>3. \A x \in Holding(c) : ~(i <= x /\ x < i + PerSector)
      <4> SUFFICES ASSUME NEW x \in Holding(c), i <= x, x < i + PerSector PROVE FALSE
        OBVIOUS
      <4>1. x \in Nat
        BY RingSizes DEF Holding, Cells
      <4>2. x \in SectorOf(i)
        BY <1>1, <1>2, <4>1 DEF SectorOf
      <4> QED
        BY <3>1, <4>2
    <3>4. \/ i = b + PerSector /\ b + PerSector < NRec
          \/ i = 0 /\ b + PerSector = NRec
      BY <3>1, <3>2, NextSectorIs DEF b
    <3>5. CASE i = b + PerSector
      <4>1. n < i /\ (j > i <=> j > n) /\ (k > i <=> k > n)
        BY <1>0, <1>1, <1>2, <1>3, <3>3, <3>5
      <4> QED
        BY <1>1, <4>1 DEF Place
    <3>6. CASE i = 0 /\ b + PerSector = NRec
      <4>1. j <= n /\ k <= n /\ j > i /\ k > i
        BY <1>0, <1>1, <1>2, <1>3, <3>6
      <4> QED
        BY <1>1, <4>1 DEF Place
    <3> QED
      BY <3>4, <3>5, <3>6
  <2> QED
    BY <2>1, <2>2
<1> QED
  BY <1>0, <1>4, <1>5, <1>6

LEMMA RestFreeAfter ==
  ASSUME NEW c, NEW n, NEW s, RingOf(c, n, s), NEW i, Takes(c, n, i)
  PROVE  RestFree(c, i)
<1>1. i \in Cells /\ n \in Cells \cup {-1}
  BY DEF Takes, RingOf
<1>2. CASE Following(n, i)
  <2>1. n \in Cells /\ RestFree(c, n) /\ n < i /\ i < Base(n) + PerSector
    BY <1>1, <1>2 DEF Following, RingOf
  <2>2. Base(n) <= n /\ Base(n) \in Nat /\ n \in Nat /\ i \in Nat
    BY <1>1, <2>1, BaseStarts, SectorGap, RingSizes DEF Cells
  <2>3. Base(n) < i
    BY <2>1, <2>2
  <2>4. Base(i) = Base(n)
    BY <1>1, <2>1, <2>3, NoStartWithin
  <2> SUFFICES ASSUME NEW j \in Cells, i < j, j < Base(i) + PerSector PROVE j \notin Holding(c)
    BY DEF RestFree
  <2>5. n < j
    BY <2>1, <2>2, RingSizes DEF Cells
  <2> QED
    BY <2>1, <2>4, <2>5 DEF RestFree
<1>3. CASE ~Following(n, i)
  <2>1. i = NextSector(n) /\ \A x \in SectorOf(i) : x \notin Holding(c)
    BY <1>3 DEF Takes
  <2>2. i \in SectorStarts /\ Base(i) = i
    BY <1>1, <2>1, NextSectorIs, StartIsBase
  <2> SUFFICES ASSUME NEW j \in Cells, i < j, j < Base(i) + PerSector PROVE j \notin Holding(c)
    BY DEF RestFree
  <2>3. j \in SectorOf(i)
    BY <1>1, <2>2, RingSizes DEF SectorOf, Cells
  <2> QED
    BY <2>1, <2>3
<1> QED
  BY <1>2, <1>3

LEMMA RingGains ==
  ASSUME NEW c, NEW n, NEW s, RingOf(c, n, s), NEW i, Takes(c, n, i),
         NEW r \in RecordSet, r.seq = s + 1,
         NEW d, d = [c EXCEPT ![i] = r]
  PROVE  /\ RingOf(d, i, s + 1)
         /\ i \notin Holding(c) /\ Holding(d) = Holding(c) \cup {i} /\ d[i] = r
         /\ \A j \in Holding(c) : d[j] = c[j] /\ c[j].seq < r.seq
<1>1. c \in [Cells -> RecordSet] /\ n \in Cells \cup {-1} /\ s \in Nat
      /\ \A j \in Holding(c) : c[j].seq \in 1..s
  BY DEF RingOf
<1>2. i \in Cells /\ c[i] = Blank
  BY DEF Takes
<1>3. d \in [Cells -> RecordSet] /\ d[i] = r /\ \A j \in Cells : j # i => d[j] = c[j]
  BY <1>1, <1>2
<1>4. r # Blank /\ r # Torn
  BY <1>1 DEF Blank, Torn
<1>5. i \notin Holding(c) /\ Holding(d) = Holding(c) \cup {i}
  BY <1>2, <1>3, <1>4 DEF Holding
<1>6. \A j \in Holding(c) : d[j] = c[j] /\ c[j].seq < r.seq
  BY <1>1, <1>3, <1>5 DEF Holding
<1>7. \A j \in Holding(d) : d[j].seq \in 1..s + 1
  BY <1>1, <1>3, <1>5, <1>6
<1>a. \A j \in Cells : j \in Nat /\ j # -1
  BY RingSizes DEF Cells
<1>b. NRec \in Nat
  BY RingSizes
<1>8. LastIs(d, i, s + 1)
  BY <1>2, <1>3, <1>5, <1>a DEF LastIs
<1>9. InOrder(d, i)
  <2> SUFFICES ASSUME NEW j \in Holding(d), NEW k \in Holding(d), Place(i, j) < Place(i, k)
               PROVE  d[j].seq < d[k].seq
    BY DEF InOrder
  <2>1. CASE n = -1
    <3>1. Holding(c) = {}
      BY <1>1, <2>1 DEF RingOf, LastIs
    <3>2. j = i /\ k = i
      BY <1>5, <3>1
    <3>3. Place(i, i) \in Int
      BY <1>2, <1>a, <1>b DEF Place
    <3> QED
      BY <3>2, <3>3
  <2>2. CASE n # -1 /\ j \in Holding(c) /\ k \in Holding(c)
    <3>1. Place(n, j) < Place(n, k)
      BY <1>1, <2>2, PlacesKept
    <3> QED
      BY <1>6, <2>2, <3>1 DEF RingOf, InOrder
  <2>3. CASE n # -1 /\ j \in Holding(c) /\ k = i
    BY <1>3, <1>6, <2>3
  <2>4. CASE n # -1 /\ j = i
    <3>1. k # i => Place(i, k) < Place(i, i)
      BY <1>1, <1>5, <2>4, PlacesKept
    <3>2. Place(i, i) \in Int /\ Place(i, k) \in Int
      BY <1>2, <1>5, RingSizes DEF Place, Cells, Holding
    <3> QED
      BY <2>4, <3>1, <3>2
  <2> QED
    BY <1>5, <2>1, <2>2, <2>3, <2>4
<1>10. RestFree(d, i)
  <2>1. RestFree(c, i)
    BY RestFreeAfter
  <2>2. \A j \in Cells : i < j => j # i
    BY <1>2, <1>a
  <2> QED
    BY <1>5, <2>1, <2>2 DEF RestFree
<1> QED
  <2>1. i \in Cells \cup {-1} /\ s + 1 \in Nat
    BY <1>1, <1>2
  <2>2. RingOf(d, i, s + 1)
    BY <1>3, <1>7, <1>8, <1>9, <1>10, <2>1 DEF RingOf
  <2> QED
    BY <1>3, <1>5, <1>6, <2>2

(* The records in the sector that goes first are among the oldest.         *)
Older(c, r) == {q \in Contents(c) : q.seq < r.seq}

LEMMA OlderBefore ==
  ASSUME NEW c, NEW n \in Cells, NEW s, RingOf(c, n, s),
         NEW i \in Holding(c), i \in SectorOf(NextSector(n)),
         NEW k \in Holding(c), c[k].seq < c[i].seq
  PROVE  k \in NextSector(n) .. i - 1
<1> DEFINE b == Base(n)
<1>0. i \in Cells /\ k \in Cells /\ k # i
  <2>1. c[i].seq \in Int
    BY DEF RingOf
  <2> QED
    BY <2>1 DEF Holding
<1>1. /\ NRec \in Nat /\ i \in Nat /\ k \in Nat /\ n \in Nat /\ n # -1
      /\ i < NRec /\ k < NRec /\ n < NRec
  BY <1>0, RingSizes DEF Cells
<1>2. /\ b \in Nat /\ PerSector \in Nat \ {0} /\ b <= n /\ n < b + PerSector /\ b + PerSector <= NRec
      /\ NRec >= PerSector + PerSector
  BY RingSizes, BaseStarts, SectorGap
<1>3. ~(n < k /\ k < b + PerSector)
  BY <1>0, <1>1 DEF RingOf, RestFree
<1>4. Place(n, k) < Place(n, i)
  <2>1. Place(n, i) < Place(n, k) => c[i].seq < c[k].seq
    BY <1>1 DEF RingOf, InOrder
  <2>2. ~(c[i].seq < c[k].seq)
    <3>1. c[i].seq \in Int /\ c[k].seq \in Int
      BY DEF RingOf
    <3> QED
      BY <3>1
  <2> QED
    BY <1>0, <2>1, <2>2, PlacesDiffer
<1>5. \/ NextSector(n) = b + PerSector /\ b + PerSector < NRec
      \/ NextSector(n) = 0 /\ b + PerSector = NRec
  BY <1>1, NextSectorIs
<1>6. NextSector(n) <= i /\ i <= NextSector(n) + PerSector - 1
  BY <1>1, <1>2, <1>5 DEF SectorOf
<1> HIDE DEF b
<1>7. CASE NextSector(n) = b + PerSector
  BY <1>0, <1>1, <1>2, <1>3, <1>4, <1>6, <1>7 DEF Place
<1>8. CASE NextSector(n) = 0 /\ b + PerSector = NRec
  BY <1>0, <1>1, <1>2, <1>3, <1>4, <1>6, <1>8 DEF Place
<1> QED
  BY <1>5, <1>7, <1>8

LEMMA OldestFew ==
  ASSUME NEW c, NEW n \in Cells, NEW s, RingOf(c, n, s),
         NEW i \in Holding(c), i \in SectorOf(NextSector(n))
  PROVE  Cardinality(Older(c, c[i])) < PerSector
<1> DEFINE b == NextSector(n)
           from == [q \in Older(c, c[i]) |-> CHOOSE k \in Holding(c) : c[k] = q]
<1>1. ASSUME NEW q \in Older(c, c[i])
      PROVE  from[q] \in b .. i - 1 /\ c[from[q]] = q
  <2>1. \E k \in Holding(c) : c[k] = q
    BY DEF Older, Contents
  <2>2. from[q] \in Holding(c) /\ c[from[q]] = q
    BY <2>1
  <2>3. c[from[q]].seq < c[i].seq
    BY <2>2 DEF Older
  <2> HIDE DEF from
  <2> QED
    BY <2>2, <2>3, OlderBefore
<1> HIDE DEF from
<1>2. from \in [Older(c, c[i]) -> b .. i - 1]
  BY <1>1 DEF from
<1>3. from \in Injection(Older(c, c[i]), b .. i - 1)
  BY <1>1, <1>2 DEF Injection, IsInjective
<1>4. b \in Int /\ i \in Int /\ PerSector \in Nat \ {0} /\ b <= i /\ i < b + PerSector
  <2>1. b \in SectorStarts
    BY NextSectorIs
  <2> QED
    BY <2>1, SectorGap, RingSizes DEF SectorOf
<1>5. IsFiniteSet(b .. i - 1) /\ Cardinality(b .. i - 1) = IF b > i - 1 THEN 0 ELSE (i - 1) - b + 1
  <2>1. b \in Int /\ i - 1 \in Int
    BY <1>4
  <2> QED
    BY <2>1, FS_Interval
<1>6. Cardinality(b .. i - 1) < PerSector
  BY <1>4, <1>5
<1>7. IsFiniteSet(Older(c, c[i])) /\ Cardinality(Older(c, c[i])) <= Cardinality(b .. i - 1)
  BY <1>3, <1>5, FS_Injection
<1>8. Cardinality(Older(c, c[i])) \in Int /\ Cardinality(b .. i - 1) \in Int
  BY <1>5, <1>7, FS_CardinalityType
<1> QED
  BY <1>4, <1>6, <1>7, <1>8

(* The steps of the log, from the cells c to the cells d.                  *)
Forgets(c, d) ==
  \E gone \in SUBSET Contents(c) : /\ \A r \in gone : Cardinality(Older(c, r)) < PerSector
                                   /\ Contents(d) = Contents(c) \ gone
Adds(c, d) ==
  \E t \in Times : \E r \in Contents(d) : /\ r.t = t /\ \A q \in Contents(c) : q.seq < r.seq
                                          /\ Contents(d) = Contents(c) \cup {r}

LEMMA LogCounts == \A S : Log!Cardinality(S) = Cardinality(S)
BY Zenon DEF Log!Cardinality, Cardinality

LEMMA LogSteps ==
  ASSUME Forgets(cell, cell') \/ Adds(cell, cell') \/ Contents(cell') = Contents(cell)
  PROVE  [Log!Next]_(Log!vars)
<1>1. {cell[i] : i \in Valid} = Contents(cell) /\ {cell[i] : i \in Valid}' = Contents(cell')
  BY DEF Valid, Contents, Holding
<1>2. CASE Forgets(cell, cell')
  <2>1. PICK gone \in SUBSET Contents(cell) :
          /\ \A r \in gone : Cardinality(Older(cell, r)) < PerSector
          /\ Contents(cell') = Contents(cell) \ gone
    BY <1>2 DEF Forgets
  <2>2. Log!Forget(gone)
    BY <1>1, <2>1, LogCounts, Zenon DEF Log!Forget, Log!Older, Older
  <2> QED
    BY <1>1, <2>2, Zenon DEF Log!Next
<1>3. CASE Adds(cell, cell')
  <2>1. PICK t \in Times : \E r \in Contents(cell') :
          /\ r.t = t /\ \A q \in Contents(cell) : q.seq < r.seq
          /\ Contents(cell') = Contents(cell) \cup {r}
    BY <1>3 DEF Adds
  <2>2. Log!Add(t)
    BY <1>1, <2>1, Zenon DEF Log!Add
  <2> QED
    BY <2>2, Zenon DEF Log!Next
<1>4. CASE Contents(cell') = Contents(cell)
  BY <1>1, <1>4, Zenon DEF Log!vars
<1> QED
  BY <1>2, <1>3, <1>4

(* Whatever is lost of the sector that goes first is forgotten.            *)
LEMMA SectorForgotten ==
  ASSUME NEW c, NEW n, NEW s, RingOf(c, n, s),
         NEW d, \A i \in Cells : d[i] \in {c[i], Blank, Torn},
         \A i \in Cells : i \notin SectorOf(NextSector(n)) => d[i] = c[i]
  PROVE  Forgets(c, d)
<1> DEFINE gone == {c[i] : i \in Holding(c) \ Holding(d)}
<1>1. Holding(d) \subseteq Holding(c) /\ \A i \in Holding(d) : d[i] = c[i]
  BY DEF Holding
<1>2. Contents(d) = Contents(c) \ gone
  <2>1. ASSUME NEW i \in Holding(d) PROVE c[i] \in Contents(c) /\ c[i] \notin gone
    <3>1. ASSUME NEW j \in Holding(c) \ Holding(d), c[i] = c[j] PROVE FALSE
      <4>1. c[i].seq < c[j].seq \/ c[j].seq < c[i].seq
        BY <1>1, <3>1, NumbersDiffer
      <4>2. c[i].seq \in Int
        BY <1>1 DEF RingOf
      <4> QED
        BY <3>1, <4>1, <4>2
    <3> QED
      BY <1>1, <3>1 DEF Contents
  <2>2. ASSUME NEW r \in Contents(c) \ gone PROVE r \in Contents(d)
    <3>1. PICK i \in Holding(c) : r = c[i]
      BY DEF Contents
    <3>2. i \in Holding(d)
      BY <2>2, <3>1
    <3> QED
      BY <1>1, <3>1, <3>2 DEF Contents
  <2>3. ASSUME NEW r \in Contents(d) PROVE r \in Contents(c) \ gone
    <3>1. PICK i \in Holding(d) : r = d[i]
      BY DEF Contents
    <3> QED
      BY <1>1, <2>1, <3>1
  <2> QED
    BY <2>2, <2>3
<1>3. ASSUME NEW i \in Holding(c) \ Holding(d) PROVE Cardinality(Older(c, c[i])) < PerSector
  <2>1. i \in Cells /\ i \in SectorOf(NextSector(n))
    BY DEF Holding
  <2>2. n # -1
    BY DEF RingOf, LastIs
  <2>3. n \in Cells
    BY <2>2 DEF RingOf
  <2> QED
    BY <2>1, <2>3, OldestFew
<1>4. gone \in SUBSET Contents(c)
  BY DEF Contents
<1>5. \A r \in gone : Cardinality(Older(c, r)) < PerSector
  BY <1>3
<1> HIDE DEF gone
<1> QED
  BY <1>2, <1>4, <1>5 DEF Forgets

(* One step: the ring stays one, and the log of the abstract specification *)
(* goes on or stays as it is.                                              *)
LogGoesOn == Forgets(cell, cell') \/ Adds(cell, cell') \/ Contents(cell') = Contents(cell)

(* The cells after b alone was written to.                                 *)
Slotted(d, b, left) == d = [cell EXCEPT ![b] = left]

LEMMA BlankRecords == Blank \in RecordSet /\ Torn \in RecordSet /\ Blank # Torn
                      /\ NoPut \notin PutSet
<1>1. Blank.seq = 0 /\ Torn.seq = -1 /\ NoPut.at = "idle"
  BY DEF Blank, Torn, NoPut
<1> QED
  BY <1>1 DEF Blank, Torn, RecordSet, PutSet

LEMMA HoldingFinite == \A c : IsFiniteSet(Holding(c)) /\ Cardinality(Holding(c)) \in Nat
<1>1. IsFiniteSet(Cells)
  <2>1. 0 \in Int /\ NRec - 1 \in Int
    BY RingSizes
  <2> QED
    BY <2>1, FS_Interval DEF Cells
<1>2. \A c : Holding(c) \in SUBSET Cells
  BY DEF Holding
<1> QED
  BY <1>1, <1>2, FS_Subset, FS_CardinalityType

LEMMA ValidIs == Valid = Holding(cell)
BY DEF Valid, Holding

LEMMA RingStarts == RingInit => RingInv
<1> SUFFICES ASSUME RingInit PROVE RingInv
  OBVIOUS
<1>1. cell \in [Cells -> RecordSet] /\ Holding(cell) = {}
  BY BlankRecords DEF RingInit, Holding
<1>2. Valid = {} /\ Cardinality({}) = 0
  BY <1>1, ValidIs, FS_EmptySet
<1> QED
  BY <1>1, <1>2 DEF RingInit, RingInv, RingOf, LastIs, PutReady

LEMMA RingPuts ==
  ASSUME RingInv, NEW t \in Times, PutBegins(t)
  PROVE  RingInv' /\ LogGoesOn
<1> PICK r : r = Room(Next1)
  OBVIOUS
<1>1. /\ put' = [at |-> IF EntersSector(r) THEN "erase" ELSE "write", slot |-> r, t |-> t]
      /\ UNCHANGED << cell, newest, seq, count >>
  BY DEF PutBegins
<1>2. \/ EntersSector(r) /\ r = NextSector(newest)
      \/ ~EntersSector(r) /\ r \in Cells /\ cell[r] = Blank /\ Following(newest, r)
  BY RoomIs DEF RingInv, RingOf
<1>3. NextSector(newest) \in Cells
  BY NextSectorIs DEF RingInv, RingOf, SectorStarts
<1>4. put' \in PutSet
  BY <1>1, <1>2, <1>3 DEF PutSet
<1>5. put'.slot = r /\ (put'.at = "erase" => EntersSector(r)) /\ (put'.at = "write" => ~EntersSector(r))
  BY <1>1
<1>6. PutReady'
  BY <1>1, <1>2, <1>4, <1>5 DEF PutReady, Takes
<1>7. Valid' = Valid
  BY <1>1 DEF Valid
<1> QED
  BY <1>1, <1>4, <1>6, <1>7 DEF RingInv, LogGoesOn

LEMMA PutUnderWay ==
  ASSUME RingInv, put # NoPut
  PROVE  /\ put \in PutSet /\ put.slot \in Cells /\ put.t \in Times /\ put.at \in {"erase", "write"}
         /\ put.at = "erase" => /\ put.slot = NextSector(newest) /\ put.slot \in SectorStarts
                                /\ newest # -1 => newest \notin SectorOf(put.slot)
         /\ put.at = "write" => Takes(cell, newest, put.slot)
<1>1. put \in PutSet
  BY DEF RingInv
<1>2. newest \in Cells \cup {-1}
  BY DEF RingInv, RingOf
<1> QED
  BY <1>1, <1>2, NextSectorIs DEF RingInv, PutReady, PutSet

LEMMA RingErases ==
  ASSUME RingInv, Erases
  PROVE  RingInv' /\ LogGoesOn
<1> DEFINE b == put.slot
<1>1. put # NoPut /\ put.at = "erase"
  BY DEF Erases, NoPut
<1>2. /\ b \in SectorStarts /\ b \in Cells /\ b = NextSector(newest)
      /\ newest # -1 => newest \notin SectorOf(b)
  BY <1>1, PutUnderWay
<1>3. /\ cell' = [i \in Cells |-> IF i \in SectorOf(b) THEN Blank ELSE cell[i]]
      /\ count' = count - Cardinality(Valid \cap SectorOf(b))
      /\ put' = [put EXCEPT !.at = "write"]
      /\ newest' = newest /\ seq' = seq
  BY DEF Erases
<1> HIDE DEF b
<1>4. RingOf(cell, newest, seq) /\ cell \in [Cells -> RecordSet]
  BY DEF RingInv, RingOf
<1> PICK d : d = cell'
  OBVIOUS
<1>5. /\ d \in [Cells -> RecordSet] /\ \A i \in Cells : d[i] \in {cell[i], Blank, Torn}
      /\ \A i \in Cells : i \notin SectorOf(b) => d[i] = cell[i]
      /\ \A i \in Cells : i \in SectorOf(b) => d[i] = Blank
  BY <1>3, <1>4, BlankRecords
<1>6. newest # -1 => d[newest] = cell[newest]
  BY <1>2, <1>4, <1>5 DEF RingOf
<1>7. RingOf(d, newest, seq)
  BY <1>4, <1>5, <1>6, RingLoses
<1>8. Holding(d) = Holding(cell) \ SectorOf(b)
  BY <1>5 DEF Holding
<1>9. count' = Cardinality(Valid')
  <2>1. Cardinality(Valid \ SectorOf(b)) = Cardinality(Valid) - Cardinality(Valid \cap SectorOf(b))
    BY ValidIs, HoldingFinite, FS_Difference
  <2>2. Valid' = Holding(d)
    BY DEF Valid, Holding
  <2>3. count = Cardinality(Valid)
    BY DEF RingInv
  <2> QED
    BY <1>3, <1>8, <2>1, <2>2, <2>3, ValidIs
<1>10. put' \in PutSet /\ put'.slot = b /\ put'.at = "write"
  <2>1. put \in PutSet
    BY <1>1, PutUnderWay
  <2> QED
    BY <1>3, <2>1 DEF PutSet, b
<1>11. Takes(d, newest, b)
  <2>1. \A j \in SectorOf(b) : j \notin Holding(d)
    BY <1>8
  <2>2. d[b] = Blank
    BY <1>2, <1>5, SectorCells
  <2> QED
    BY <1>2, <2>1, <2>2 DEF Takes
<1>12. PutReady'
  BY <1>3, <1>10, <1>11 DEF PutReady
<1>13. Forgets(cell, d)
  BY <1>2, <1>4, <1>5, SectorForgotten
<1> QED
  BY <1>3, <1>7, <1>9, <1>10, <1>12, <1>13 DEF RingInv, LogGoesOn

(* A record that is written complete.                                      *)
LEMMA RecordIn ==
  ASSUME RingInv, put # NoPut, put.at = "write",
         NEW d, Slotted(d, put.slot, Programmed(put.slot, [seq |-> seq + 1, t |-> put.t]))
  PROVE  /\ Programmed(put.slot, [seq |-> seq + 1, t |-> put.t]) # Torn
         /\ RingOf(d, put.slot, seq + 1)
         /\ Cardinality(Holding(d)) = count + 1
         /\ Adds(cell, d)
<1> DEFINE b == put.slot
           r == [seq |-> seq + 1, t |-> put.t]
<1>1. put.t \in Times /\ Takes(cell, newest, b) /\ seq \in Nat
  BY PutUnderWay DEF RingInv, RingOf
<1>2. Programmed(b, r) = r
  BY <1>1 DEF Programmed, Takes
<1>3. r \in RecordSet /\ r.seq = seq + 1 /\ r.t = put.t
  BY <1>1 DEF RecordSet
<1>4. r # Torn
  <2>1. Torn.seq = -1 /\ seq + 1 # -1
    BY <1>1 DEF Torn
  <2> QED
    BY <1>3, <2>1
<1>5. RingOf(cell, newest, seq) /\ Slotted(d, b, r)
  BY <1>2 DEF RingInv
<1> HIDE DEF r, b
<1>6. /\ RingOf(d, b, seq + 1)
      /\ b \notin Holding(cell) /\ Holding(d) = Holding(cell) \cup {b} /\ d[b] = r
      /\ \A j \in Holding(cell) : d[j] = cell[j] /\ cell[j].seq < r.seq
  <2>1. d = [cell EXCEPT ![b] = r]
    BY <1>5 DEF Slotted
  <2>2. Takes(cell, newest, b) /\ RingOf(cell, newest, seq) /\ r \in RecordSet /\ r.seq = seq + 1
    BY <1>1, <1>3, <1>5
  <2>3. RingOf(d, b, seq + 1)
    BY <2>1, <2>2, RingGains
  <2>4. b \notin Holding(cell) /\ Holding(d) = Holding(cell) \cup {b} /\ d[b] = r
    <3>1. cell \in [Cells -> RecordSet] /\ b \in Cells /\ cell[b] = Blank
      BY <2>2 DEF Takes, RingOf
    <3>2. d[b] = r /\ \A j \in Cells : j # b => d[j] = cell[j]
      BY <2>1, <3>1
    <3>3. r # Blank /\ r # Torn
      BY <1>1, <1>4, <2>2 DEF Blank
    <3>4. \A j \in Cells : j \in Holding(d) <=> j \in Holding(cell) \/ j = b
      BY <3>1, <3>2, <3>3 DEF Holding
    <3>5. Holding(d) \subseteq Cells /\ Holding(cell) \subseteq Cells /\ b \notin Holding(cell)
      BY <3>1 DEF Holding
    <3> QED
      BY <3>1, <3>2, <3>4, <3>5
  <2>5. \A j \in Holding(cell) : d[j] = cell[j] /\ cell[j].seq < r.seq
    BY <2>1, <2>2, RingGains
  <2> QED
    BY <2>3, <2>4, <2>5
<1>7. Cardinality(Holding(d)) = count + 1
  <2>1. count = Cardinality(Holding(cell))
    BY ValidIs DEF RingInv
  <2> QED
    BY <1>6, <2>1, HoldingFinite, FS_AddElement
<1>8. Contents(d) = Contents(cell) \cup {r} /\ r \in Contents(d)
  <2>1. \A q \in Contents(d) : q \in Contents(cell) \cup {r}
    BY <1>6 DEF Contents
  <2>2. \A q \in Contents(cell) : q \in Contents(d)
    BY <1>6 DEF Contents
  <2>3. r \in Contents(d)
    BY <1>6 DEF Contents
  <2> QED
    BY <2>1, <2>2, <2>3
<1>9. \A q \in Contents(cell) : q.seq < r.seq
  BY <1>6 DEF Contents
<1>10. Adds(cell, d)
  BY <1>1, <1>3, <1>8, <1>9 DEF Adds
<1> QED
  BY <1>2, <1>4, <1>6, <1>7, <1>10 DEF r, b

LEMMA RingWrites ==
  ASSUME RingInv, Writes
  PROVE  RingInv' /\ LogGoesOn
<1> PICK r : r = Programmed(put.slot, [seq |-> seq + 1, t |-> put.t])
  OBVIOUS
<1>1. put # NoPut /\ put.at = "write"
  BY DEF Writes, NoPut
<1> PICK d : d = cell'
  OBVIOUS
<1>2. Slotted(d, put.slot, r)
  BY DEF Writes, Slotted
<1>3. r # Torn /\ RingOf(d, put.slot, seq + 1) /\ Cardinality(Holding(d)) = count + 1 /\ Adds(cell, d)
  BY <1>1, <1>2, RecordIn
<1>4. put' = NoPut /\ newest' = put.slot /\ seq' = seq + 1 /\ count' = count + 1
  BY <1>3 DEF Writes
<1>5. Valid' = Holding(d)
  BY DEF Valid, Holding
<1> QED
  BY <1>3, <1>4, <1>5 DEF RingInv, PutReady, LogGoesOn

(* What an interrupted or refused write leaves, the record itself aside.   *)
LEMMA SlotLost ==
  ASSUME RingInv, put # NoPut, put.at = "write",
         NEW left \in {cell[put.slot], Torn},
         NEW d, Slotted(d, put.slot, left)
  PROVE  RingOf(d, newest, seq) /\ Holding(d) = Holding(cell) /\ Contents(d) = Contents(cell)
<1>1. put.slot \in Cells /\ cell[put.slot] = Blank /\ RingOf(cell, newest, seq)
      /\ cell \in [Cells -> RecordSet]
  BY PutUnderWay DEF Takes, RingInv, RingOf
<1>2. /\ d \in [Cells -> RecordSet] /\ \A i \in Cells : d[i] \in {cell[i], Blank, Torn}
      /\ \A i \in Cells : i # put.slot => d[i] = cell[i]
      /\ d[put.slot] \in {Blank, Torn}
  BY <1>1, BlankRecords DEF Slotted
<1>3. Holding(d) = Holding(cell) /\ put.slot \notin Holding(d)
  BY <1>1, <1>2 DEF Holding
<1>4. newest # -1 => d[newest] = cell[newest]
  BY <1>1, <1>2, <1>3 DEF RingOf, LastIs, Holding
<1>5. RingOf(d, newest, seq)
  BY <1>1, <1>2, <1>4, RingLoses
<1>6. Contents(d) = Contents(cell)
  BY <1>2, <1>3 DEF Contents, Holding
<1> QED
  BY <1>3, <1>5, <1>6

LEMMA RingRefuses ==
  ASSUME RingInv, NEW left, Refused(left)
  PROVE  RingInv' /\ LogGoesOn
<1> PICK d : d = cell'
  OBVIOUS
<1>1. /\ put # NoPut /\ put' = NoPut /\ d = [cell EXCEPT ![put.slot] = left]
      /\ UNCHANGED << newest, seq, count >>
  BY DEF Refused
<1>2. put.at \in {"erase", "write"} /\ cell \in [Cells -> RecordSet]
  BY <1>1, PutUnderWay DEF RingInv, RingOf
<1>3. CASE put.at = "write"
  <2>1. left \in {cell[put.slot], Torn}
    BY <1>3 DEF Refused
  <2>2. RingOf(d, newest, seq) /\ Holding(d) = Holding(cell) /\ Contents(d) = Contents(cell)
    BY <1>1, <1>3, <2>1, SlotLost DEF Slotted
  <2>3. Valid' = Holding(d)
    BY DEF Valid, Holding
  <2> QED
    BY <1>1, <2>2, <2>3, ValidIs DEF RingInv, PutReady, LogGoesOn
<1>4. CASE put.at = "erase"
  <2>1. left = cell[put.slot]
    BY <1>4 DEF Refused
  <2>2. d = cell
    BY <1>1, <1>2, <2>1
  <2>3. Valid' = Valid
    BY <2>2 DEF Valid
  <2> QED
    BY <1>1, <2>2, <2>3 DEF RingInv, PutReady, LogGoesOn
<1> QED
  BY <1>2, <1>3, <1>4

(* Power goes, and the scan at the start finds the ring as it was, with    *)
(* the record that was being written or without it.                        *)
LEMMA RingCut ==
  ASSUME RingInv, NEW d, RingPowerCut(d)
  PROVE  RingInv' /\ LogGoesOn
<1>1. d \in LeftBehind /\ cell' = d /\ put' = NoPut
  BY DEF RingPowerCut
<1>2. newest' = Scan(d).newest /\ seq' = Scan(d).seq /\ count' = Scan(d).count
  BY DEF RingPowerCut
<1>3. RingOf(cell, newest, seq) /\ cell \in [Cells -> RecordSet]
  BY DEF RingInv, RingOf
<1>4. ASSUME NEW n, NEW s, RingOf(d, n, s)
      PROVE  RingInv'
  <2>1. newest' = n /\ seq' = s /\ count' = Cardinality(Holding(d))
    BY <1>2, <1>4, ScanFinds
  <2>2. Valid' = Holding(d)
    BY <1>1 DEF Valid, Holding
  <2> QED
    BY <1>1, <1>4, <2>1, <2>2 DEF RingInv, PutReady
<1>5. CASE put = NoPut
  <2>1. put.at = "idle"
    BY <1>5 DEF NoPut
  <2>2. LeftBehind = {cell}
    BY <1>5, <2>1 DEF LeftBehind
  <2> QED
    BY <1>1, <1>3, <1>4, <2>2 DEF LogGoesOn
<1>6. CASE put # NoPut /\ put.at = "erase"
  <2> DEFINE b == put.slot
  <2>1. b \in SectorStarts /\ b = NextSector(newest) /\ (newest # -1 => newest \notin SectorOf(b))
    BY <1>6, PutUnderWay
  <2>2. \E torn, gone : d = [i \in Cells |-> IF i \notin SectorOf(b) THEN cell[i]
                                            ELSE IF i \in torn THEN Torn
                                            ELSE IF i \in gone THEN Blank ELSE cell[i]]
    BY <1>1, <1>6 DEF LeftBehind
  <2> HIDE DEF b
  <2>3. /\ d \in [Cells -> RecordSet] /\ \A i \in Cells : d[i] \in {cell[i], Blank, Torn}
        /\ \A i \in Cells : i \notin SectorOf(b) => d[i] = cell[i]
    BY <1>3, <2>2, BlankRecords
  <2>4. newest # -1 => d[newest] = cell[newest]
    BY <1>3, <2>1, <2>3 DEF RingOf
  <2>5. RingOf(d, newest, seq)
    BY <1>3, <2>3, <2>4, RingLoses
  <2>6. Forgets(cell, d)
    BY <1>3, <2>1, <2>3, SectorForgotten
  <2> QED
    BY <1>1, <1>4, <2>5, <2>6 DEF LogGoesOn
<1>7. CASE put # NoPut /\ put.at = "write"
  <2>1. \/ \E left \in {cell[put.slot], Torn} : Slotted(d, put.slot, left)
        \/ Slotted(d, put.slot, Programmed(put.slot, [seq |-> seq + 1, t |-> put.t]))
    BY <1>1, <1>7 DEF LeftBehind, Slotted
  <2>2. CASE \E left \in {cell[put.slot], Torn} : Slotted(d, put.slot, left)
    <3>1. RingOf(d, newest, seq) /\ Contents(d) = Contents(cell)
      BY <1>7, <2>2, SlotLost
    <3> QED
      BY <1>1, <1>4, <3>1 DEF LogGoesOn
  <2>3. CASE Slotted(d, put.slot, Programmed(put.slot, [seq |-> seq + 1, t |-> put.t]))
    <3>1. RingOf(d, put.slot, seq + 1) /\ Adds(cell, d)
      BY <1>7, <2>3, RecordIn
    <3> QED
      BY <1>1, <1>4, <3>1 DEF LogGoesOn
  <2> QED
    BY <2>1, <2>2, <2>3
<1> QED
  BY <1>5, <1>6, <1>7, PutUnderWay

LEMMA RingSteps == RingInv /\ [RingNext]_ringVars => RingInv' /\ LogGoesOn
<1> SUFFICES ASSUME RingInv, [RingNext]_ringVars PROVE RingInv' /\ LogGoesOn
  OBVIOUS
<1>1. CASE UNCHANGED ringVars
  <2>1. Valid' = Valid
    BY <1>1 DEF ringVars, Valid
  <2> QED
    BY <1>1, <2>1 DEF ringVars, RingInv, PutReady, LogGoesOn
<1> QED
  BY <1>1, RingPuts, RingErases, RingWrites, RingRefuses, RingCut DEF RingNext

(* load_hist.c and em_hist.c: through power cuts at any moment and refused *)
(* erases and writes, only records of the oldest sector are ever lost, a   *)
(* record always goes to a blank cell, and the memory knows the newest     *)
(* record, its number and how many there are, for any size of the area.    *)
THEOREM RingSafe == RingSpec => KeepsLog /\ []FindsItself
<1>1. RingInit => Log!Init
  <2> SUFFICES ASSUME RingInit PROVE {cell[i] : i \in Valid} = {}
    BY DEF Log!Init
  <2> QED
    BY DEF RingInit, Valid
<1>2. RingInv /\ [RingNext]_ringVars => [Log!Next]_(Log!vars)
  BY RingSteps, LogSteps DEF LogGoesOn
<1>3. RingInv => FindsItself
  <2> SUFFICES ASSUME RingInv PROVE FindsItself
    OBVIOUS
  <2>1. put # NoPut /\ put.at = "write" => cell[put.slot] = Blank
    BY PutUnderWay DEF Takes
  <2>2. Scan(cell) = [newest |-> newest, seq |-> seq, count |-> count]
    BY ScanFinds, ValidIs DEF RingInv
  <2> QED
    BY <2>1, <2>2 DEF FindsItself
<1>4. RingInv /\ [RingNext]_ringVars => RingInv'
  BY RingSteps
<1> QED
  BY <1>1, <1>2, <1>3, <1>4, RingStarts, PTL DEF RingSpec, KeepsLog, Log!Spec

-----------------------------------------------------------------------------
(* load_hist_average() at the cell back steps behind the newest: what it   *)
(* has taken is the newest of the dates, and all of them that it passed,   *)
(* unless it has enough.                                                   *)
Passed(back) == {cell[i] : i \in {j \in Valid : \E k \in 0..back - 1 : j = StepBack(k)}}
Heads == {r \in Contents(cell) : ~\E q \in Contents(cell) : q.t = r.t /\ q.seq > r.seq}
ReadSoFar(back, taken, days) ==
  /\ IsFiniteSet(taken) /\ Cardinality(taken) <= days
  /\ taken \subseteq Heads \cap Passed(back)
  /\ \A r \in taken, q \in Heads \ taken : q.seq < r.seq
  /\ \/ Cardinality(taken) = days
     \/ /\ Heads \cap Passed(back) \subseteq taken
        /\ \A v \in Passed(back) : \E h \in taken : h.t = v.t

LEMMA StepBackIs ==
  ASSUME newest \in Cells, NEW k \in 0..NRec - 1
  PROVE  /\ StepBack(k) = (IF k <= newest THEN newest - k ELSE newest - k + NRec)
         /\ StepBack(k) \in Cells /\ Place(newest, StepBack(k)) = NRec - k
<1>1. NRec \in Nat \ {0} /\ newest \in Nat /\ newest < NRec /\ k \in Nat /\ k < NRec
  BY RingSizes DEF Cells
<1> PICK t : t = newest + NRec - k
  OBVIOUS
<1>2. t \in Nat /\ StepBack(k) = t % NRec
  BY <1>1 DEF StepBack
<1>3. CASE k <= newest
  <2>1. NRec * 1 = NRec /\ NRec <= t /\ t < NRec + NRec
    BY <1>1, <1>3
  <2>2. t \div NRec = 1
    BY <1>1, <1>2, <2>1, QuotientIs
  <2> PICK p, r : p = t \div NRec /\ r = t % NRec
    OBVIOUS
  <2>3. p = 1 /\ r \in Nat /\ t = NRec * p + r
    BY <1>1, <1>2, <2>2, Quotient
  <2>4. StepBack(k) = newest - k
    BY <1>1, <1>2, <2>1, <2>3
  <2> QED
    BY <1>1, <1>3, <2>4 DEF Cells, Place
<1>4. CASE k > newest
  <2>1. t < NRec
    BY <1>1, <1>4
  <2>2. t % NRec = t
    BY <1>1, <1>2, <2>1, SmallMod
  <2>3. StepBack(k) = newest - k + NRec
    BY <1>1, <1>2, <2>2
  <2> QED
    BY <1>1, <1>4, <2>3 DEF Cells, Place
<1> QED
  BY <1>1, <1>3, <1>4

LEMMA EveryCellPassed ==
  ASSUME newest \in Cells, NEW i \in Cells
  PROVE  \E k \in 0..NRec - 1 : i = StepBack(k)
<1>1. NRec \in Nat \ {0} /\ newest \in Nat /\ newest < NRec /\ i \in Nat /\ i < NRec
  BY RingSizes DEF Cells
<1> DEFINE k == IF i <= newest THEN newest - i ELSE newest - i + NRec
<1>2. k \in 0..NRec - 1
  BY <1>1
<1>3. (IF k <= newest THEN newest - k ELSE newest - k + NRec) = i
  BY <1>1
<1> HIDE DEF k
<1>4. StepBack(k) = i
  BY <1>2, <1>3, StepBackIs
<1> QED
  BY <1>2, <1>4

LEMMA BackIsOlder ==
  ASSUME RingInv, newest \in Cells, NEW k \in 0..NRec - 1, NEW l \in 0..NRec - 1, k < l,
         StepBack(k) \in Valid, StepBack(l) \in Valid
  PROVE  cell[StepBack(l)].seq < cell[StepBack(k)].seq
<1>1. Place(newest, StepBack(l)) < Place(newest, StepBack(k))
  <2>1. NRec \in Nat /\ k \in Nat /\ l \in Nat
    BY RingSizes
  <2> QED
    BY <2>1, StepBackIs
<1>2. newest # -1
  BY RingSizes DEF Cells
<1> QED
  BY <1>1, <1>2, ValidIs DEF RingInv, RingOf, InOrder

LEMMA RecordsFinite ==
  /\ IsFiniteSet(Contents(cell)) /\ \A S \in SUBSET Contents(cell) : IsFiniteSet(S) /\ Cardinality(S) \in Nat
<1> DEFINE f == [i \in Holding(cell) |-> cell[i]]
<1>1. f \in Surjection(Holding(cell), Contents(cell))
  BY DEF Surjection, Contents
<1> HIDE DEF f
<1>2. IsFiniteSet(Contents(cell))
  BY <1>1, HoldingFinite, FS_Surjection
<1> QED
  BY <1>2, FS_Subset, FS_CardinalityType

(* A record behind what was passed is older than all of that.              *)
LEMMA BehindIsOlder ==
  ASSUME RingInv, newest \in Cells, NEW b \in 0..NRec - 1, StepBack(b) \in Valid,
         NEW q \in Contents(cell)
  PROVE  /\ q \in Passed(b) => q.seq > cell[StepBack(b)].seq
         /\ q \notin Passed(b) => q = cell[StepBack(b)] \/ q.seq < cell[StepBack(b)].seq
<1>0. NRec \in Nat \ {0} /\ b \in Nat
  BY RingSizes
<1>1. \A i \in Valid : i \in Cells /\ cell[i].seq \in Int
  BY ValidIs DEF Holding, RingInv, RingOf
<1>2. CASE q \in Passed(b)
  <2>1. PICK i \in Valid, k \in 0..b - 1 : q = cell[i] /\ i = StepBack(k)
    BY <1>2 DEF Passed
  <2>2. k \in 0..NRec - 1 /\ k < b
    BY <1>0
  <2>3. cell[StepBack(b)].seq < cell[StepBack(k)].seq
    BY <2>1, <2>2, BackIsOlder
  <2> QED
    BY <1>1, <1>2, <2>1, <2>3
<1>3. CASE q \notin Passed(b)
  <2>1. PICK i \in Valid : q = cell[i]
    BY ValidIs DEF Contents
  <2>2. PICK k \in 0..NRec - 1 : i = StepBack(k)
    BY <1>1, EveryCellPassed
  <2>3. ~(k \in 0..b - 1)
    BY <1>3, <2>1, <2>2 DEF Passed
  <2>4. k = b \/ b < k
    BY <1>0, <2>3
  <2>5. b < k => cell[StepBack(k)].seq < cell[StepBack(b)].seq
    BY <2>1, <2>2, BackIsOlder
  <2> QED
    BY <1>3, <2>1, <2>2, <2>4, <2>5
<1> QED
  BY <1>2, <1>3

LEMMA PassedNext ==
  ASSUME newest \in Cells, NEW b \in 0..NRec - 1
  PROVE  /\ StepBack(b) \in Valid => Passed(b + 1) = Passed(b) \cup {cell[StepBack(b)]}
         /\ StepBack(b) \notin Valid => Passed(b + 1) = Passed(b)
<1>0. b \in Nat /\ \A k : k \in 0..(b + 1) - 1 <=> (k \in 0..b - 1 \/ k = b)
  BY RingSizes
<1> DEFINE at(n) == {j \in Valid : \E k \in 0..n - 1 : j = StepBack(k)}
<1>1. StepBack(b) \in Valid => at(b + 1) = at(b) \cup {StepBack(b)}
  BY <1>0
<1>2. StepBack(b) \notin Valid => at(b + 1) = at(b)
  BY <1>0
<1>3. \A n : Passed(n) = {cell[i] : i \in at(n)}
  BY DEF Passed
<1> HIDE DEF at
<1>4. CASE StepBack(b) \in Valid
  <2>1. {cell[i] : i \in at(b) \cup {StepBack(b)}} = {cell[i] : i \in at(b)} \cup {cell[StepBack(b)]}
    OBVIOUS
  <2> QED
    BY <1>1, <1>3, <1>4, <2>1
<1>5. CASE StepBack(b) \notin Valid
  BY <1>2, <1>3, <1>5
<1> QED
  BY <1>4, <1>5

LEMMA HeadsAre ==
  ASSUME NEW r \in Heads
  PROVE  r \in Contents(cell)
BY DEF Heads

LEMMA NumbersAre ==
  ASSUME RingInv, NEW r \in Contents(cell)
  PROVE  r.seq \in Int
BY DEF RingInv, RingOf, Contents, Holding

LEMMA ReadsOn ==
  ASSUME RingInv, newest \in Cells, NEW b \in 0..NRec - 1, NEW taken, NEW days \in Nat,
         ReadSoFar(b, taken, days)
  PROVE  ReadSoFar(b + 1, Visited(taken, cell[StepBack(b)], days), days)
<1> PICK r : r = cell[StepBack(b)]
  OBVIOUS
<1>1. /\ IsFiniteSet(taken) /\ Cardinality(taken) <= days /\ taken \subseteq Heads \cap Passed(b)
      /\ \A h \in taken, q \in Heads \ taken : q.seq < h.seq
      /\ \/ Cardinality(taken) = days
         \/ /\ Heads \cap Passed(b) \subseteq taken
            /\ \A v \in Passed(b) : \E h \in taken : h.t = v.t
  BY DEF ReadSoFar
<1>2. Passed(b) \subseteq Passed(b + 1)
  BY PassedNext
<1>3. StepBack(b) \in Cells /\ (StepBack(b) \in Valid <=> r \notin {Blank, Torn})
  BY <1>1, StepBackIs DEF Valid
<1>4. Cardinality(taken) \in Nat
  BY <1>1, FS_CardinalityType
<1>5. CASE Cardinality(taken) >= days
  <2>1. Visited(taken, r, days) = taken /\ Cardinality(taken) = days
    BY <1>1, <1>4, <1>5 DEF Visited
  <2> QED
    BY <1>1, <1>2, <2>1 DEF ReadSoFar
<1>6. CASE ~(Cardinality(taken) >= days) /\ r \in {Blank, Torn}
  <2>1. Visited(taken, r, days) = taken /\ Passed(b + 1) = Passed(b)
    BY <1>3, <1>6, PassedNext DEF Visited
  <2> QED
    BY <1>1, <2>1 DEF ReadSoFar
<1>7. CASE ~(Cardinality(taken) >= days) /\ r \notin {Blank, Torn}
  <2>1. Cardinality(taken) + 1 <= days /\ Cardinality(taken) # days
    BY <1>4, <1>7
  <2>2. /\ Heads \cap Passed(b) \subseteq taken
        /\ \A v \in Passed(b) : \E h \in taken : h.t = v.t
    BY <1>1, <2>1
  <2>3. Passed(b + 1) = Passed(b) \cup {r} /\ StepBack(b) \in Valid
    BY <1>3, <1>7, PassedNext
  <2>4. r \in Contents(cell)
    BY <2>3, ValidIs DEF Contents
  <2>5. \A q \in Contents(cell) : /\ q \in Passed(b) => q.seq > r.seq
                                  /\ q \notin Passed(b) => q = r \/ q.seq < r.seq
    BY <2>3, BehindIsOlder
  <2>6. Visited(taken, r, days) = taken \cup (IF \E q \in taken : q.t = r.t THEN {} ELSE {r})
    BY <1>7 DEF Visited, OncePerDate
  <2>7. CASE \E q \in taken : q.t = r.t
    <3>1. Visited(taken, r, days) = taken
      BY <2>6, <2>7
    <3>2. r \notin Heads
      <4>1. PICK q \in taken : q.t = r.t
        BY <2>7
      <4>2. q \in Contents(cell) /\ q \in Passed(b)
        BY <1>1, <4>1, HeadsAre
      <4> QED
        BY <2>5, <4>1, <4>2 DEF Heads
    <3>3. /\ Heads \cap Passed(b + 1) \subseteq taken
          /\ \A v \in Passed(b + 1) : \E h \in taken : h.t = v.t
      BY <2>2, <2>3, <2>7, <3>2
    <3> QED
      BY <1>1, <1>2, <3>1, <3>3 DEF ReadSoFar
  <2>8. CASE ~\E q \in taken : q.t = r.t
    <3>1. Visited(taken, r, days) = taken \cup {r}
      BY <2>6, <2>8
    <3>2. r \in Heads
      <4> SUFFICES ASSUME NEW q \in Contents(cell), q.t = r.t, q.seq > r.seq PROVE FALSE
        BY <2>4 DEF Heads
      <4>1. q.seq \in Int /\ r.seq \in Int
        BY <2>4, NumbersAre
      <4>2. q \in Passed(b)
        BY <2>5, <4>1
      <4> QED
        BY <2>2, <2>8, <4>2
    <3>3. IsFiniteSet(taken \cup {r}) /\ Cardinality(taken \cup {r}) <= days
      <4>1. /\ IsFiniteSet(taken \cup {r})
            /\ Cardinality(taken \cup {r}) = IF r \in taken THEN Cardinality(taken) ELSE Cardinality(taken) + 1
        BY <1>1, FS_AddElement
      <4> QED
        BY <1>1, <2>1, <4>1
    <3>4. taken \cup {r} \subseteq Heads \cap Passed(b + 1)
      BY <1>1, <2>3, <3>2
    <3>5. \A h \in taken \cup {r}, q \in Heads \ (taken \cup {r}) : q.seq < h.seq
      <4> SUFFICES ASSUME NEW h \in taken \cup {r}, NEW q \in Heads, q \notin taken, q # r PROVE q.seq < h.seq
        OBVIOUS
      <4>1. CASE h \in taken
        BY <1>1, <4>1
      <4>2. CASE h = r
        <5>1. q \notin Passed(b) /\ q \in Contents(cell)
          BY <2>2, HeadsAre
        <5> QED
          BY <2>5, <4>2, <5>1
      <4> QED
        BY <4>1, <4>2
    <3>6. /\ Heads \cap Passed(b + 1) \subseteq taken \cup {r}
          /\ \A v \in Passed(b + 1) : \E h \in taken \cup {r} : h.t = v.t
      BY <2>2, <2>3
    <3> QED
      BY <3>1, <3>3, <3>4, <3>5, <3>6 DEF ReadSoFar
  <2> QED
    BY <2>7, <2>8
<1> QED
  BY <1>5, <1>6, <1>7

(* Read through, it has each date once, the newest days of them.           *)
LEMMA ReadThrough ==
  ASSUME RingInv, newest \in Cells, NEW taken, NEW days \in Nat, ReadSoFar(NRec, taken, days)
  PROVE  taken = {r \in Heads : Cardinality({q \in Heads : q.seq > r.seq}) < days}
<1>1. /\ IsFiniteSet(taken) /\ Cardinality(taken) <= days /\ taken \subseteq Heads
      /\ \A h \in taken, q \in Heads \ taken : q.seq < h.seq
      /\ Cardinality(taken) = days \/ Heads \cap Passed(NRec) \subseteq taken
  BY DEF ReadSoFar
<1>2. Heads \subseteq Passed(NRec)
  <2> SUFFICES ASSUME NEW h \in Heads PROVE h \in Passed(NRec)
    OBVIOUS
  <2>1. PICK i \in Valid : h = cell[i]
    BY HeadsAre, ValidIs DEF Contents
  <2>2. \E k \in 0..NRec - 1 : i = StepBack(k)
    BY EveryCellPassed DEF Valid
  <2> QED
    BY <2>1, <2>2 DEF Passed
<1>3. \A h \in Heads : h.seq \in Int
  BY HeadsAre, NumbersAre
<1>4. Cardinality(taken) \in Nat
  BY <1>1, FS_CardinalityType
<1>5. ASSUME NEW r \in taken PROVE Cardinality({q \in Heads : q.seq > r.seq}) < days
  <2> DEFINE above == {q \in Heads : q.seq > r.seq}
  <2>1. above \subseteq taken \ {r}
    BY <1>1, <1>3
  <2> HIDE DEF above
  <2>2. IsFiniteSet(taken \ {r}) /\ Cardinality(taken \ {r}) = Cardinality(taken) - 1
    BY <1>1, FS_RemoveElement
  <2>3. IsFiniteSet(above) /\ Cardinality(above) <= Cardinality(taken \ {r})
    BY <2>1, <2>2, FS_Subset
  <2>4. Cardinality(above) \in Nat
    BY <2>3, FS_CardinalityType
  <2>5. Cardinality(above) < days
    BY <1>1, <1>4, <2>2, <2>3, <2>4
  <2> QED
    BY <2>5 DEF above
<1>6. ASSUME NEW r \in Heads, r \notin taken PROVE ~(Cardinality({q \in Heads : q.seq > r.seq}) < days)
  <2> DEFINE above == {q \in Heads : q.seq > r.seq}
  <2>1. taken \subseteq above
    BY <1>1, <1>3, <1>6
  <2>2. above \in SUBSET Contents(cell)
    BY HeadsAre
  <2> HIDE DEF above
  <2>3. IsFiniteSet(above) /\ Cardinality(above) \in Nat
    BY <2>2, RecordsFinite
  <2>4. Cardinality(taken) <= Cardinality(above)
    BY <2>1, <2>3, FS_Subset
  <2>5. Cardinality(taken) = days
    BY <1>1, <1>2, <1>6
  <2>6. ~(Cardinality(above) < days)
    BY <1>4, <2>3, <2>4, <2>5
  <2> QED
    BY <2>6 DEF above
<1> QED
  BY <1>1, <1>5, <1>6

LEMMA AverageIs ==
  ASSUME RingInv, NEW days \in Nat
  PROVE  Average(days) = {r \in Heads : Cardinality({q \in Heads : q.seq > r.seq}) < days}
<1> DEFINE Body(g) == [n \in 0..NRec |-> IF n = 0 THEN {} ELSE Visited(g[n - 1], cell[StepBack(n - 1)], days)]
           S == SUBSET RecordSet
           step == [n \in 0 + 1 .. NRec |-> [p \in S |-> Visited(p, cell[StepBack(n - 1)], days)]]
           f == CHOOSE g : g = Body(g)
<1>0. NRec \in Nat \ {0} /\ 0 \in 0..NRec /\ NRec \in 0..NRec
  BY RingSizes
<1>1. Average(days) = IF newest < 0 THEN {} ELSE f[NRec]
  BY Zenon DEF Average
<1>2. CASE newest = -1
  <2>1. Holding(cell) = {}
    BY <1>2 DEF RingInv, RingOf, LastIs
  <2>2. Heads = {}
    BY <2>1 DEF Heads, Contents
  <2>3. Average(days) = {}
    BY <1>1, <1>2
  <2> QED
    BY <2>2, <2>3
<1>3. CASE newest # -1
  <2>1. newest \in Cells /\ ~(newest < 0)
    BY <1>3, RingSizes DEF RingInv, RingOf, Cells
  <2>2. ASSUME NEW n \in 0 + 1 .. NRec, NEW p \in S PROVE Visited(p, cell[StepBack(n - 1)], days) \in S
    <3>1. n - 1 \in 0..NRec - 1
      BY <1>0
    <3>2. StepBack(n - 1) \in Cells
      BY <2>1, <3>1, StepBackIs
    <3>3. cell[StepBack(n - 1)] \in RecordSet
      BY <3>2 DEF RingInv, RingOf
    <3> QED
      BY <3>3 DEF Visited, OncePerDate
  <2>3. step \in [0 + 1 .. NRec -> [S -> S]]
    BY <2>2
  <2>4. PICK h \in [0..NRec -> S] : h[0] = {} /\ \A n \in 0 + 1 .. NRec : h[n] = step[n][h[n - 1]]
    <3>1. 0 \in Int /\ NRec \in Int /\ 0 <= NRec /\ {} \in S
      BY <1>0
    <3> HIDE DEF step, S
    <3>2. \E h : h \in Unrolled(0, NRec, S, {}, step)
      BY <2>3, <3>1, RecursionWorks
    <3> QED
      BY <3>2 DEF Unrolled
  <2>5. h = Body(h)
    <3>1. \A n \in 0..NRec : n # 0 => n \in 0 + 1 .. NRec /\ n - 1 \in 0..NRec
      BY <1>0
    <3>2. \A n \in 0..NRec : h[n] = IF n = 0 THEN {} ELSE Visited(h[n - 1], cell[StepBack(n - 1)], days)
      BY <2>4, <3>1
    <3> HIDE DEF S
    <3> QED
      BY <2>4, <3>2
  <2>6. f = Body(f)
    <3> HIDE DEF Body
    <3> QED
      BY <2>5, Zenon
  <2> HIDE DEF f
  <2>7. f[0] = {} /\ \A n \in 0 + 1 .. NRec : f[n] = Visited(f[n - 1], cell[StepBack(n - 1)], days)
    <3> HIDE DEF step, S
    <3>1. \A n \in 0..NRec : f[n] = IF n = 0 THEN {} ELSE Visited(f[n - 1], cell[StepBack(n - 1)], days)
      BY <2>6
    <3>2. \A n \in 0 + 1 .. NRec : n \in 0..NRec /\ n # 0
      BY <1>0
    <3>3. f[0] = {}
      BY <1>0, <3>1
    <3>4. ASSUME NEW n \in 0 + 1 .. NRec PROVE f[n] = Visited(f[n - 1], cell[StepBack(n - 1)], days)
      BY <3>1, <3>2
    <3> QED
      BY <3>3, <3>4
  <2> DEFINE P == {n \in 0..NRec : ReadSoFar(n, f[n], days)}
  <2>8. 0 \in P
    <3>1. Passed(0) = {}
      BY DEF Passed
    <3>2. IsFiniteSet({}) /\ Cardinality({}) = 0
      BY FS_EmptySet
    <3>3. ReadSoFar(0, {}, days)
      BY <3>1, <3>2 DEF ReadSoFar
    <3> QED
      BY <1>0, <2>7, <3>3
  <2>9. ASSUME NEW n \in 0 + 1 .. NRec, n - 1 \in P PROVE n \in P
    <3> PICK b : b = n - 1
      OBVIOUS
    <3>1. b \in 0..NRec - 1 /\ n = b + 1 /\ n \in 0..NRec
      BY <1>0
    <3>2. ReadSoFar(b, f[b], days) /\ f[n] = Visited(f[b], cell[StepBack(b)], days)
      BY <2>7, <2>9
    <3>3. ReadSoFar(b + 1, f[n], days)
      BY <2>1, <3>1, <3>2, ReadsOn
    <3> QED
      BY <3>1, <3>3
  <2> HIDE DEF P
  <2>10. \A n \in 0..NRec : n \in P
    <3>1. 0 \in Int /\ NRec \in Int
      BY <1>0
    <3> QED
      BY <2>8, <2>9, <3>1, StepByStep
  <2>11. ReadSoFar(NRec, f[NRec], days)
    BY <1>0, <2>10 DEF P
  <2>12. f[NRec] = {r \in Heads : Cardinality({q \in Heads : q.seq > r.seq}) < days}
    BY <2>1, <2>11, ReadThrough
  <2> QED
    BY <1>1, <2>1, <2>12
<1> QED
  BY <1>2, <1>3

LEMMA ReadsEachOnce == RingInv => EachDateOnce
<1> SUFFICES ASSUME RingInv, put = NoPut, NEW days \in 1..Cardinality(Times)
             PROVE  LET recs  == {cell[i] : i \in Valid}
                        heads == {r \in recs : ~\E q \in recs : q.t = r.t /\ q.seq > r.seq}
                    IN  Average(days) = {r \in heads : Cardinality({q \in heads : q.seq > r.seq}) < days}
  BY DEF EachDateOnce
<1>1. days \in Nat
  OBVIOUS
<1>2. Average(days) = {r \in Heads : Cardinality({q \in Heads : q.seq > r.seq}) < days}
  BY <1>1, AverageIs
<1>3. Contents(cell) = {cell[i] : i \in Valid}
  BY ValidIs DEF Contents
<1>4. Heads = {r \in {cell[i] : i \in Valid} : ~\E q \in {cell[i] : i \in Valid} : q.t = r.t /\ q.seq > r.seq}
  BY <1>3 DEF Heads
<1> QED
  BY <1>2, <1>4

(* load_hist.c: and what is read from it takes every date once, in its     *)
(* newest record, and the newest of them, for any area and any days.       *)
THEOREM RingAllSound == RingSpec => RingSound
<1>1. RingInv /\ [RingNext]_ringVars => RingInv'
  BY RingSteps
<1>2. RingSpec => []EachDateOnce
  BY <1>1, RingStarts, ReadsEachOnce, PTL DEF RingSpec
<1> QED
  BY <1>2, RingSafe, PTL DEF RingSound
=============================================================================
