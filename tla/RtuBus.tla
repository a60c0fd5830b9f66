------------------------------- MODULE RtuBus -------------------------------
(***************************************************************************)
(* The master side of the RS485 buses (main/modbus_rtu.c): tasks hand a    *)
(* register access to the bus task through the one slot s_deye_req, the    *)
(* TCP bridge a raw frame through the slot of a bus, s_txn; the bus task   *)
(* serves them between its own polls. Callers wait for a bounded time, so  *)
(* a slot may change hands while an exchange for it is still on the wire.  *)
(* Time is in ticks of about a second. A busy bus ends its exchange within *)
(* its time limit, and a task that can go on does so before time passes:   *)
(* bus tasks look every 20 to 100 ms, callers every 50 ms. The bridge may  *)
(* be set to wait 5 s for an answer, so one exchange of its may outlast    *)
(* nearly all the patience of a caller that comes after it.                *)
(***************************************************************************)
EXTENDS Naturals, FiniteSets

CONSTANTS
  Buses,             \* the buses with the role of a master
  Askers,            \* tasks that call modbus_rtu_deye_read/write
  BusRegs,           \* registers they write
  NoReg, Read,       \* no register; a read, whatever it reads
  NoOne,             \* nobody holds the mutex
  XchgMax,           \* longest rtu_read/rtu_write, with rtu_drain
  GwTimeout,         \* gw_timeout_ms, what the bridge waits for an answer
  Wait, Grace,       \* deye_req_run(): for the result, and for a late one
  TxnGrace,          \* the same of modbus_rtu_txn() for a late one
  MaxCalls, MaxTxns, MaxStrays, MaxToggles  \* bounds

ASSUME RtuAssumption ==
  /\ NoReg \notin BusRegs /\ Read \notin BusRegs /\ NoReg # Read
  /\ NoOne \notin Askers
  /\ {XchgMax, Wait, Grace, TxnGrace} \subseteq Nat
  /\ GwTimeout \in 0..5        \* clamp_cfg()
  /\ {MaxCalls, MaxTxns, MaxStrays, MaxToggles} \subseteq Nat

TxnMax == GwTimeout + 1       \* rtu_raw() with rtu_drain
TxnWait == GwTimeout + 2

VARIABLES
  on,       \* the bus is switched on
  bus,      \* the bus task: what it does, for which request, for how long
  slot,     \* s_deye_req
  mutex,    \* holder of s_deye_req_mtx
  inCall,     \* the callers inside deye_req_run()
  txn,      \* s_txn: pending, its semaphore done, the request, the result
  gw,       \* the bridge task inside modbus_rtu_txn()
  stray,    \* per bus, the register of an echo still on its way
  written,  \* registers the Deye has carried out a write of
  belated,  \* requests whose exchange began too late to end before their caller leaves
  calls, txns, strays, toggles

rtuVars == << on, bus, slot, mutex, inCall, txn, gw, stray, written, belated,
           calls, txns, strays, toggles >>

wire   == << stray, written, strays, belated >>
side   == << slot, mutex, inCall, calls >>
gwSide == << txn, gw, txns >>

AtRest == [doing |-> "idle", id |-> 0, reg |-> NoReg, spent |-> 0]
Out  == [pc |-> "out", id |-> 0, reg |-> NoReg, waited |-> 0]

RtuInit ==
  /\ on \in [Buses -> BOOLEAN] /\ bus = [b \in Buses |-> AtRest]
  /\ slot = [pending |-> FALSE, done |-> FALSE, id |-> 0, reg |-> NoReg, of |-> 0, ok |-> FALSE]
  /\ mutex = NoOne /\ inCall = [c \in Askers |-> Out]
  /\ txn = [b \in Buses |-> [pending |-> FALSE, signal |-> FALSE, id |-> 0, of |-> 0]]
  /\ gw = [pc |-> "out", id |-> 0, bus |-> NoReg, waited |-> 0]
  /\ stray = [b \in Buses |-> NoReg] /\ written = {} /\ belated = [deye |-> {}, txn |-> {}]
  /\ calls = 0 /\ txns = 0 /\ strays = 0 /\ toggles = 0

-----------------------------------------------------------------------------
(* deye_req_run(): take the mutex, fill the slot, wait for `done`.         *)
Requests(c, r) ==
  /\ inCall[c].pc = "out" /\ mutex = NoOne /\ calls < MaxCalls
  /\ calls' = calls + 1 /\ mutex' = c
  /\ slot' = [pending |-> TRUE, done |-> FALSE, id |-> calls', reg |-> r, of |-> calls', ok |-> FALSE]
  /\ inCall' = [inCall EXCEPT ![c] = [pc |-> "wait", id |-> calls', reg |-> r, waited |-> 0]]
  /\ UNCHANGED << on, bus, gwSide, wire, toggles >>

KeepPending == slot.pending               \* mutant: the slot is left armed
Disarmed == FALSE

Leave(c) ==
  /\ inCall' = [inCall EXCEPT ![c] = Out] /\ mutex' = NoOne
  /\ slot' = [slot EXCEPT !.pending = Disarmed]
  /\ UNCHANGED << on, bus, gwSide, wire, calls, toggles >>

TakeResult(c) == inCall[c].pc = "wait" /\ slot.done /\ Leave(c)

NoGrace(c) == TRUE                        \* mutant: gives up at once
AsLong(c) == slot.done                   \* mutant: waits as long as it takes
GraceOver(c) == slot.done \/ inCall[c].waited = Grace

StopsWaiting(c) ==
  /\ inCall[c].pc = "wait" /\ ~slot.done /\ inCall[c].waited = Wait
  /\ inCall' = [inCall EXCEPT ![c].pc = "grace", ![c].waited = 0]
  /\ UNCHANGED << on, bus, slot, mutex, gwSide, wire, calls, toggles >>

EndGrace(c) == inCall[c].pc = "grace" /\ GraceOver(c) /\ Leave(c)

-----------------------------------------------------------------------------
(* modbus_rtu_txn(), called by the bridge task only: a stale signal is     *)
(* dropped before the slot is filled.                                      *)
GwAsk(b) ==
  /\ gw.pc = "out" /\ txns < MaxTxns /\ on[b]
  /\ txns' = txns + 1
  /\ txn' = [txn EXCEPT ![b] = [pending |-> TRUE, signal |-> FALSE, id |-> txns', of |-> txns']]
  /\ gw' = [pc |-> "wait", id |-> txns', bus |-> b, waited |-> 0]
  /\ UNCHANGED << on, bus, side, wire, toggles >>

Signalled == gw.pc # "out" /\ txn[gw.bus].signal

GwDone ==
  /\ Signalled
  /\ txn' = [txn EXCEPT ![gw.bus].signal = FALSE]
  /\ gw' = [pc |-> "out", id |-> 0, bus |-> NoReg, waited |-> 0]
  /\ UNCHANGED << on, bus, side, txns, wire, toggles >>

GwGiveUp ==
  /\ gw.pc = "wait" /\ ~Signalled /\ gw.waited = TxnWait
  /\ gw' = [gw EXCEPT !.pc = "grace", !.waited = 0]
  /\ UNCHANGED << on, bus, side, txn, txns, wire, toggles >>

GwEndGrace ==
  /\ gw.pc = "grace" /\ ~Signalled /\ gw.waited = TxnGrace
  /\ txn' = [txn EXCEPT ![gw.bus].pending = FALSE]
  /\ gw' = [pc |-> "out", id |-> 0, bus |-> NoReg, waited |-> 0]
  /\ UNCHANGED << on, bus, side, txns, wire, toggles >>

-----------------------------------------------------------------------------
(* do_master(): the slot of the callers first, then the bridge, then a     *)
(* block of the poll (or the self-test), which asks for waiters before the *)
(* next block.                                                             *)
Free(b) == on[b] /\ bus[b].doing = "idle"
Waiters(b) == slot.pending \/ txn[b].pending

(* Two buses at the registers at once, or less time left than the exchange *)
(* may take: the caller may be gone when the exchange ends.                *)
Asked(c) == IF inCall[c].pc = "wait" THEN inCall[c].waited ELSE Wait + inCall[c].waited
GwAsked == IF gw.pc = "wait" THEN gw.waited ELSE TxnWait + gw.waited

Shared(b) == \E d \in Buses \ {b} : bus[d].doing = "deye"
TooLate == \E c \in Askers : inCall[c].pc # "out" /\ Asked(c) + XchgMax >= Wait + Grace
GwTooLate == GwAsked + TxnMax >= TxnWait + TxnGrace

Serve(b) ==
  /\ Free(b) /\ slot.pending
  /\ bus' = [bus EXCEPT ![b] = [doing |-> "deye", id |-> slot.id, reg |-> slot.reg, spent |-> 0]]
  /\ belated' = IF Shared(b) \/ TooLate THEN [belated EXCEPT !.deye = @ \cup {slot.id}] ELSE belated
  /\ UNCHANGED << on, side, gwSide, stray, written, strays, toggles >>

ServeTxn(b) ==
  /\ Free(b) /\ ~slot.pending /\ txn[b].pending
  /\ bus' = [bus EXCEPT ![b] = [doing |-> "txn", id |-> txn[b].id, reg |-> NoReg, spent |-> 0]]
  /\ belated' = IF GwTooLate THEN [belated EXCEPT !.txn = @ \cup {txn[b].id}] ELSE belated
  /\ UNCHANGED << on, side, gwSide, stray, written, strays, toggles >>

Poll(b) ==
  /\ Free(b) /\ ~Waiters(b)
  /\ bus' = [bus EXCEPT ![b] = [AtRest EXCEPT !.doing = "poll"]]
  /\ UNCHANGED << on, side, gwSide, wire, toggles >>

(* What an exchange may come to. A write may be carried out although its   *)
(* echo is lost; an echo that outlasts rtu_drain() is taken for the answer *)
(* to the exchange it lands in.                                            *)
Accepts(e, r) == e = r

Carries(b, r) == r \in BusRegs /\ written' = written \cup {r}

StraysAfter(b, r, ran) ==
  \/ stray' = [stray EXCEPT ![b] = NoReg] /\ strays' = strays
  \/ /\ ran /\ r \in BusRegs /\ strays < MaxStrays
     /\ stray' = [stray EXCEPT ![b] = r] /\ strays' = strays + 1

Exchange(b, r, ok) ==
  \/ /\ ok /\ (r \in BusRegs => Carries(b, r)) /\ (r \notin BusRegs => written' = written)
     /\ stray' = [stray EXCEPT ![b] = NoReg] /\ strays' = strays
  \/ /\ ok = (stray[b] # NoReg /\ Accepts(stray[b], r))
     /\ \/ written' = written /\ StraysAfter(b, r, FALSE)
        \/ Carries(b, r) /\ StraysAfter(b, r, TRUE)

(* serve_deye_req() hands the result back if somebody waits for one.       *)
Awaited(b) == slot.pending

ServeDone(b) ==
  /\ bus[b].doing = "deye"
  /\ \E ok \in BOOLEAN :
       /\ Exchange(b, bus[b].reg, ok)
       /\ slot' = IF Awaited(b)
                  THEN [slot EXCEPT !.pending = FALSE, !.done = TRUE, !.of = bus[b].id, !.ok = ok]
                  ELSE slot
  /\ bus' = [bus EXCEPT ![b] = AtRest]
  /\ UNCHANGED << on, mutex, inCall, calls, gwSide, belated, toggles >>

TxnDone(b) ==
  /\ bus[b].doing = "txn"
  /\ txn' = [txn EXCEPT ![b].pending = FALSE, ![b].signal = TRUE, ![b].of = bus[b].id]
  /\ stray' = [stray EXCEPT ![b] = NoReg]
  /\ bus' = [bus EXCEPT ![b] = AtRest]
  /\ UNCHANGED << on, side, gw, txns, written, strays, belated, toggles >>

PollDone(b) ==
  /\ bus[b].doing = "poll"
  /\ stray' = [stray EXCEPT ![b] = NoReg]
  /\ bus' = [bus EXCEPT ![b] = AtRest]
  /\ UNCHANGED << on, side, gwSide, written, strays, belated, toggles >>

(* modbus_rtu_set_cfg(), at any time; an exchange on the wire is not       *)
(* broken off.                                                             *)

Switch(b) ==
  /\ toggles < MaxToggles /\ toggles' = toggles + 1
  /\ on' = [on EXCEPT ![b] = ~@]
  /\ UNCHANGED << bus, side, gwSide, wire >>

-----------------------------------------------------------------------------
Limit(b) == IF bus[b].doing = "txn" THEN TxnMax ELSE XchgMax
CallLimit(c) == IF inCall[c].pc = "wait" THEN Wait ELSE Grace
GwLimit == IF gw.pc = "wait" THEN TxnWait ELSE TxnGrace

Asking == gw.pc # "out" \/ \E c \in Askers : inCall[c].pc # "out"

BusTick ==
  /\ \A b \in Buses : IF bus[b].doing = "idle" THEN ~(on[b] /\ Waiters(b)) ELSE bus[b].spent < Limit(b)
  /\ \A c \in Askers : inCall[c].pc # "out" => ~slot.done /\ inCall[c].waited < CallLimit(c)
  /\ gw.pc # "out" => ~Signalled /\ gw.waited < GwLimit
  /\ Asking \/ \E b \in Buses : bus[b].doing # "idle"
  /\ bus'  = [b \in Buses |-> IF bus[b].doing = "idle" THEN bus[b]
                              ELSE [bus[b] EXCEPT !.spent = @ + 1]]
  /\ inCall' = [c \in Askers |-> IF inCall[c].pc = "out" THEN inCall[c]
                                ELSE [inCall[c] EXCEPT !.waited = @ + 1]]
  /\ gw' = IF gw.pc = "out" THEN gw ELSE [gw EXCEPT !.waited = @ + 1]
  /\ UNCHANGED << on, slot, mutex, calls, txn, txns, wire, toggles >>

Caller(c) == TakeResult(c) \/ StopsWaiting(c) \/ EndGrace(c)
Gateway == GwDone \/ GwGiveUp \/ GwEndGrace
BusTask(b) == Serve(b) \/ ServeTxn(b) \/ ServeDone(b) \/ TxnDone(b) \/ PollDone(b)

RtuNext ==
  \/ \E c \in Askers : Caller(c) \/ \E r \in BusRegs \cup {Read} : Requests(c, r)
  \/ Gateway
  \/ \E b \in Buses : BusTask(b) \/ GwAsk(b) \/ Poll(b) \/ Switch(b)
  \/ BusTick

RtuSpec ==
  /\ RtuInit /\ [][RtuNext]_rtuVars
  /\ WF_rtuVars(BusTick) /\ WF_rtuVars(Gateway)
  /\ \A c \in Askers : WF_rtuVars(Caller(c))
  /\ \A b \in Buses : WF_rtuVars(BusTask(b))

-----------------------------------------------------------------------------
Wanters  == {"out", "wait", "grace"}
CallType == [pc : Wanters, id : Nat, reg : BusRegs \cup {NoReg, Read}, waited : 0..Wait \cup 0..Grace]
GwType   == [pc : Wanters, id : Nat, bus : Buses \cup {NoReg}, waited : 0..TxnWait \cup 0..TxnGrace]
SlotType == [pending : BOOLEAN, done : BOOLEAN, id : Nat, reg : BusRegs \cup {NoReg, Read},
             of : Nat, ok : BOOLEAN]
TxnType  == [pending : BOOLEAN, signal : BOOLEAN, id : Nat, of : Nat]
BusType  == [doing : {"idle", "poll", "deye", "txn"}, id : Nat,
             reg : BusRegs \cup {NoReg, Read}, spent : Nat]

LateType == [deye : SUBSET Nat, txn : SUBSET Nat]

RtuTypeOK ==
  /\ on \in [Buses -> BOOLEAN] /\ bus \in [Buses -> BusType]
  /\ slot \in SlotType /\ mutex \in Askers \cup {NoOne} /\ inCall \in [Askers -> CallType]
  /\ txn \in [Buses -> TxnType] /\ gw \in GwType
  /\ stray \in [Buses -> BusRegs \cup {NoReg}] /\ written \subseteq BusRegs
  /\ calls \in 0..MaxCalls /\ txns \in 0..MaxTxns /\ strays \in 0..MaxStrays
  /\ toggles \in 0..MaxToggles
  /\ belated \in LateType

(* A result that is ready is that of the request its caller waits for, as  *)
(* the comment in serve_deye_req() promises: no late completion lands on   *)
(* the next caller, neither on the slot of modbus_rtu_deye_*() nor on that *)
(* of the bridge.                                                          *)
OwnResult ==
  /\ \A c \in Askers : inCall[c].pc # "out" /\ slot.done => slot.of = inCall[c].id
  /\ gw.pc # "out" /\ txn[gw.bus].signal => txn[gw.bus].of = gw.id

(* What the code keeps of that: a result of another request comes only     *)
(* from an exchange that was begun when its caller had less patience left  *)
(* than the exchange may take, or with two buses at the registers at once. *)
OwnOrLate ==
  /\ \A c \in Askers : inCall[c].pc # "out" /\ slot.done => slot.of = inCall[c].id \/ slot.of \in belated.deye
  /\ gw.pc # "out" /\ txn[gw.bus].signal => txn[gw.bus].of = gw.id \/ txn[gw.bus].of \in belated.txn

(* Nothing goes out on the wire for a caller that has already been told    *)
(* that its request failed.                                                *)
NothingAbandoned ==
  [][\A b \in Buses : bus'[b].doing # bus[b].doing =>
       /\ bus'[b].doing = "deye" => \E c \in Askers : inCall[c].pc # "out" /\ inCall[c].id = bus'[b].id
       /\ bus'[b].doing = "txn" => gw.pc # "out" /\ gw.id = bus'[b].id]_rtuVars

(* A write reported as successful names a register the Deye has written,   *)
(* also with echoes that arrive late, unless the success is that of such   *)
(* a late exchange.                                                        *)
SuccessIsWritten ==
  \A c \in Askers :
    inCall[c].pc # "out" /\ slot.done /\ slot.ok /\ inCall[c].reg \in BusRegs
      => inCall[c].reg \in written \/ slot.of \in belated.deye

(* What a caller finds in the slot is true, it is his and it is done,      *)
(* unless it comes from an exchange begun too late: with the bridge at     *)
(* 5 s and a bus that goes off and on at any time.                         *)
ResultsTrue == OwnOrLate /\ SuccessIsWritten

(* Every call comes back, also when no bus is on.                          *)
CallsReturn ==
  /\ \A c \in Askers : inCall[c].pc # "out" ~> inCall[c].pc = "out"
  /\ gw.pc # "out" ~> gw.pc = "out"
=============================================================================
