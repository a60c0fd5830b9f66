--------------------------- MODULE RtuBus_proofs ---------------------------
(***************************************************************************)
(* For any number of buses and callers, any time limits the settings allow *)
(* and buses that go off and on at any time: nothing is put on the wire    *)
(* for a caller that has left, and what is found in a slot is the result   *)
(* of the request it is taken for, and true, unless it comes from an       *)
(* exchange that was begun too late, or with two buses at the registers.   *)
(***************************************************************************)
EXTENDS RtuBus, TLAPS

(* The mutex is held by the caller that is inside deye_req_run().          *)
Owned == \A c \in Askers : inCall[c].pc # "out" <=> mutex = c

(* An armed slot names the request of a caller that still waits.           *)
Armed == slot.pending => \E c \in Askers : inCall[c].pc # "out" /\ inCall[c].id = slot.id

(* The same of the bridge and its slots.                                   *)
GwArmed ==
  \A b \in Buses : txn[b].pending =>
    gw.pc # "out" /\ gw.bus = b /\ gw.id = txn[b].id /\ ~txn[b].signal

IInv == RtuTypeOK /\ Owned /\ Armed /\ GwArmed

LEMMA Limits ==
  /\ 0 \in 0..Wait \cup 0..Grace /\ 0 \in 0..TxnWait \cup 0..TxnGrace
  /\ MaxCalls \in Nat /\ MaxTxns \in Nat /\ MaxStrays \in Nat /\ MaxToggles \in Nat
  /\ Wait \in Nat /\ Grace \in Nat /\ TxnWait \in Nat /\ TxnGrace \in Nat
  /\ XchgMax \in Nat /\ TxnMax \in Nat
BY RtuAssumption DEF TxnWait, TxnMax

LEMMA Resting == Out \in CallType /\ AtRest \in BusType /\ [AtRest EXCEPT !.doing = "poll"] \in BusType
BY Limits DEF Out, AtRest, CallType, BusType, Wanters

LEMMA InitIInv == RtuInit => IInv
<1> SUFFICES ASSUME RtuInit PROVE IInv
  OBVIOUS
<1>1. RtuTypeOK
  BY Limits, Resting DEF RtuInit, RtuTypeOK, SlotType, TxnType, GwType, LateType, Wanters
<1>2. Owned /\ Armed /\ GwArmed
  BY RtuAssumption DEF RtuInit, Out, Owned, Armed, GwArmed
<1> QED
  BY <1>1, <1>2 DEF IInv

(* The steps of a caller of modbus_rtu_deye_read/write. *)
LEMMA AskStep ==
  ASSUME IInv, NEW c \in Askers, NEW r \in BusRegs \cup {Read}, Requests(c, r)
  PROVE  IInv'
<1>1. RtuTypeOK'
  <2>1. slot' \in SlotType
    BY Limits DEF IInv, RtuTypeOK, SlotType, Requests
  <2>2. [pc |-> "wait", id |-> calls', reg |-> r, waited |-> 0] \in CallType
    BY Limits DEF IInv, RtuTypeOK, CallType, Wanters, Requests
  <2>3. inCall' \in [Askers -> CallType]
    BY <2>2 DEF IInv, RtuTypeOK, Requests
  <2>4. calls' \in 0..MaxCalls
    BY Limits DEF IInv, RtuTypeOK, Requests
  <2> QED
    BY <2>1, <2>3, <2>4 DEF IInv, RtuTypeOK, Requests, gwSide, wire
<1>2. Owned' /\ Armed'
  BY RtuAssumption DEF IInv, RtuTypeOK, Owned, Armed, Requests
<1>3. GwArmed'
  BY DEF IInv, GwArmed, Requests, gwSide
<1> QED
  BY <1>1, <1>2, <1>3 DEF IInv

LEMMA LeaveStep ==
  ASSUME IInv, NEW c \in Askers, inCall[c].pc # "out", Leave(c)
  PROVE  IInv'
<1>1. RtuTypeOK'
  <2>1. slot' \in SlotType
    BY DEF IInv, RtuTypeOK, SlotType, Leave, Disarmed
  <2>2. inCall' \in [Askers -> CallType]
    BY Resting DEF IInv, RtuTypeOK, Leave
  <2> QED
    BY <2>1, <2>2 DEF IInv, RtuTypeOK, Leave, gwSide, wire
<1>2. Owned' /\ Armed'
  BY RtuAssumption DEF IInv, RtuTypeOK, Owned, Armed, Leave, Disarmed, Out
<1>3. GwArmed'
  BY DEF IInv, GwArmed, Leave, gwSide
<1> QED
  BY <1>1, <1>2, <1>3 DEF IInv

LEMMA StopsWaitingStep ==
  ASSUME IInv, NEW c \in Askers, StopsWaiting(c)
  PROVE  IInv'
<1>1. RtuTypeOK'
  <2>1. inCall[c] \in CallType
    BY DEF IInv, RtuTypeOK
  <2>2. [inCall[c] EXCEPT !.pc = "grace", !.waited = 0] \in CallType
    BY <2>1, Limits DEF CallType, Wanters
  <2>3. inCall' \in [Askers -> CallType]
    BY <2>2 DEF IInv, RtuTypeOK, StopsWaiting
  <2> QED
    BY <2>3 DEF IInv, RtuTypeOK, StopsWaiting, gwSide, wire
<1>2. Owned' /\ Armed'
  BY RtuAssumption DEF IInv, RtuTypeOK, Owned, Armed, StopsWaiting
<1>3. GwArmed'
  BY DEF IInv, GwArmed, StopsWaiting, gwSide
<1> QED
  BY <1>1, <1>2, <1>3 DEF IInv

(* The steps of the bridge. *)
LEMMA GwAskStep ==
  ASSUME IInv, NEW b \in Buses, GwAsk(b)
  PROVE  IInv'
<1>1. RtuTypeOK'
  <2>1. txns' \in 0..MaxTxns
    BY Limits DEF IInv, RtuTypeOK, GwAsk
  <2>2. txn' \in [Buses -> TxnType]
    BY <2>1, Limits DEF IInv, RtuTypeOK, TxnType, GwAsk
  <2>3. gw' \in GwType
    BY <2>1, Limits DEF GwType, Wanters, GwAsk
  <2> QED
    BY <2>1, <2>2, <2>3 DEF IInv, RtuTypeOK, GwAsk, side, wire
<1>2. Owned' /\ Armed'
  BY DEF IInv, Owned, Armed, GwAsk, side
<1>3. GwArmed'
  BY DEF IInv, RtuTypeOK, GwArmed, GwAsk
<1> QED
  BY <1>1, <1>2, <1>3 DEF IInv

LEMMA GatewayStep ==
  ASSUME IInv, Gateway
  PROVE  IInv'
<1>1. gw' \in GwType
  <2>1. CASE GwDone
    BY <2>1, Limits DEF GwDone, GwType, Wanters
  <2>2. CASE GwGiveUp
    BY <2>2, Limits DEF IInv, RtuTypeOK, GwGiveUp, GwType, Wanters
  <2>3. CASE GwEndGrace
    BY <2>3, Limits DEF GwEndGrace, GwType, Wanters
  <2> QED
    BY <2>1, <2>2, <2>3 DEF Gateway
<1>2. txn' \in [Buses -> TxnType]
  <2>1. CASE GwDone
    BY <2>1 DEF IInv, RtuTypeOK, GwDone, TxnType
  <2>2. CASE GwGiveUp
    BY <2>2 DEF IInv, RtuTypeOK, GwGiveUp
  <2>3. CASE GwEndGrace
    BY <2>3 DEF IInv, RtuTypeOK, GwEndGrace, TxnType
  <2> QED
    BY <2>1, <2>2, <2>3 DEF Gateway
<1>3. RtuTypeOK'
  BY <1>1, <1>2 DEF IInv, RtuTypeOK, Gateway, GwDone, GwGiveUp, GwEndGrace, side, wire
<1>4. Owned' /\ Armed'
  BY DEF IInv, Owned, Armed, Gateway, GwDone, GwGiveUp, GwEndGrace, side
<1>5. ASSUME NEW b \in Buses, txn'[b].pending
      PROVE gw'.pc # "out" /\ gw'.bus = b /\ gw'.id = txn'[b].id /\ ~txn'[b].signal
  <2>1. CASE GwDone
    BY <1>5, <2>1 DEF IInv, RtuTypeOK, TxnType, GwArmed, GwDone, Signalled
  <2>2. CASE GwGiveUp
    BY <1>5, <2>2 DEF IInv, RtuTypeOK, GwType, GwArmed, GwGiveUp
  <2>3. CASE GwEndGrace
    BY <1>5, <2>3 DEF IInv, RtuTypeOK, TxnType, GwArmed, GwEndGrace
  <2> QED
    BY <2>1, <2>2, <2>3 DEF Gateway
<1>6. GwArmed'
  BY <1>5 DEF GwArmed
<1> QED
  BY <1>3, <1>4, <1>6 DEF IInv

(* The steps of a bus task. *)
LEMMA StartStep ==
  ASSUME IInv, NEW b \in Buses, Serve(b) \/ ServeTxn(b) \/ Poll(b)
  PROVE  IInv'
<1>1. RtuTypeOK'
  <2>1. bus' \in [Buses -> BusType]
    <3>1. CASE Serve(b)
      BY <3>1 DEF IInv, RtuTypeOK, SlotType, BusType, Serve
    <3>2. CASE ServeTxn(b)
      BY <3>2 DEF IInv, RtuTypeOK, TxnType, BusType, ServeTxn
    <3>3. CASE Poll(b)
      BY <3>3, Resting DEF IInv, RtuTypeOK, Poll
    <3> QED
      BY <3>1, <3>2, <3>3
  <2>2. belated' \in LateType
    <3>1. belated \in LateType /\ slot.id \in Nat /\ txn[b].id \in Nat
      BY DEF IInv, RtuTypeOK, SlotType, TxnType
    <3>2. [belated EXCEPT !.deye = @ \cup {slot.id}] \in LateType /\ [belated EXCEPT !.txn = @ \cup {txn[b].id}] \in LateType
      BY <3>1 DEF LateType
    <3> QED
      BY <3>1, <3>2 DEF Serve, ServeTxn, Poll, wire
  <2> QED
    BY <2>1, <2>2 DEF IInv, RtuTypeOK, Serve, ServeTxn, Poll, side, gwSide, wire
<1>2. Owned' /\ Armed' /\ GwArmed'
  BY DEF IInv, Owned, Armed, GwArmed, Serve, ServeTxn, Poll, side, gwSide
<1> QED
  BY <1>1, <1>2 DEF IInv

LEMMA ExchangeType ==
  ASSUME RtuTypeOK, NEW b \in Buses, NEW r \in BusRegs \cup {NoReg, Read}, NEW ok \in BOOLEAN,
         Exchange(b, r, ok)
  PROVE  stray' \in [Buses -> BusRegs \cup {NoReg}] /\ written' \subseteq BusRegs /\ strays' \in 0..MaxStrays
<1>1. written' \subseteq BusRegs
  BY DEF RtuTypeOK, Exchange, Carries
<1>2. CASE stray' = [stray EXCEPT ![b] = NoReg] /\ strays' = strays
  BY <1>1, <1>2 DEF RtuTypeOK
<1>3. CASE /\ r \in BusRegs /\ strays < MaxStrays
           /\ stray' = [stray EXCEPT ![b] = r] /\ strays' = strays + 1
  BY <1>1, <1>3, Limits DEF RtuTypeOK
<1> QED
  BY <1>2, <1>3 DEF Exchange, StraysAfter

LEMMA ServeDoneStep ==
  ASSUME IInv, NEW b \in Buses, ServeDone(b)
  PROVE  IInv'
<1>1. PICK ok \in BOOLEAN :
        /\ Exchange(b, bus[b].reg, ok)
        /\ slot' = IF Awaited(b)
                   THEN [slot EXCEPT !.pending = FALSE, !.done = TRUE, !.of = bus[b].id, !.ok = ok]
                   ELSE slot
  BY DEF ServeDone
<1>2. stray' \in [Buses -> BusRegs \cup {NoReg}] /\ written' \subseteq BusRegs /\ strays' \in 0..MaxStrays
  <2>1. bus[b].reg \in BusRegs \cup {NoReg, Read} /\ RtuTypeOK
    BY DEF IInv, RtuTypeOK, BusType
  <2> QED
    BY <1>1, <2>1, ExchangeType
<1>3. RtuTypeOK'
  <2>1. slot' \in SlotType
    BY <1>1 DEF IInv, RtuTypeOK, SlotType, BusType
  <2> QED
    BY <1>2, <2>1, Resting DEF IInv, RtuTypeOK, ServeDone, gwSide
<1>4. Owned' /\ GwArmed'
  BY DEF IInv, Owned, GwArmed, ServeDone, gwSide
<1>5. Armed'
  BY <1>1 DEF IInv, RtuTypeOK, SlotType, Armed, ServeDone, Awaited
<1> QED
  BY <1>3, <1>4, <1>5 DEF IInv

LEMMA DoneStep ==
  ASSUME IInv, NEW b \in Buses, TxnDone(b) \/ PollDone(b)
  PROVE  IInv'
<1>1. RtuTypeOK'
  <2>1. txn' \in [Buses -> TxnType]
    <3>1. CASE TxnDone(b)
      <4>1. txn \in [Buses -> TxnType] /\ bus[b].id \in Nat
        BY DEF IInv, RtuTypeOK, BusType
      <4>2. txn' = [txn EXCEPT ![b].pending = FALSE, ![b].signal = TRUE, ![b].of = bus[b].id]
        BY <3>1 DEF TxnDone
      <4>3. [txn[b] EXCEPT !.pending = FALSE, !.signal = TRUE, !.of = bus[b].id] \in TxnType
        BY <4>1 DEF TxnType
      <4> QED
        BY <4>1, <4>2, <4>3
    <3>2. CASE PollDone(b)
      BY <3>2 DEF IInv, RtuTypeOK, PollDone, gwSide
    <3> QED
      BY <3>1, <3>2
  <2> QED
    BY <2>1, Resting DEF IInv, RtuTypeOK, TxnDone, PollDone, side, gwSide
<1>2. Owned' /\ Armed'
  BY DEF IInv, Owned, Armed, TxnDone, PollDone, side, gwSide
<1>3. GwArmed'
  BY DEF IInv, RtuTypeOK, TxnType, GwArmed, TxnDone, PollDone, gwSide
<1> QED
  BY <1>1, <1>2, <1>3 DEF IInv

LEMMA SwitchStep ==
  ASSUME IInv, NEW b \in Buses, Switch(b)
  PROVE  IInv'
<1>1. RtuTypeOK'
  BY Limits DEF IInv, RtuTypeOK, Switch, side, gwSide, wire
<1>2. Owned' /\ Armed' /\ GwArmed'
  BY DEF IInv, Owned, Armed, GwArmed, Switch, side, gwSide
<1> QED
  BY <1>1, <1>2 DEF IInv

LEMMA TickStep ==
  ASSUME IInv, BusTick
  PROVE  IInv'
<1>1. ASSUME NEW c \in Askers, inCall[c].pc # "out" PROVE [inCall[c] EXCEPT !.waited = @ + 1] \in CallType
  <2>1. inCall[c] \in CallType /\ inCall[c].waited < CallLimit(c)
    BY <1>1 DEF IInv, RtuTypeOK, BusTick
  <2>2. inCall[c].waited + 1 \in 0..Wait \cup 0..Grace
    BY <2>1, Limits DEF CallType, CallLimit
  <2> QED
    BY <2>1, <2>2 DEF CallType
<1>2. inCall' \in [Askers -> CallType]
  BY <1>1 DEF IInv, RtuTypeOK, BusTick
<1>3. gw' \in GwType
  <2>1. CASE gw.pc = "out"
    BY <2>1 DEF IInv, RtuTypeOK, BusTick
  <2>2. CASE gw.pc # "out"
    <3>1. gw \in GwType /\ gw.waited < GwLimit /\ gw' = [gw EXCEPT !.waited = @ + 1]
      BY <2>2 DEF IInv, RtuTypeOK, BusTick
    <3>2. gw.waited + 1 \in 0..TxnWait \cup 0..TxnGrace
      BY <3>1, Limits DEF GwType, GwLimit
    <3> QED
      BY <3>1, <3>2 DEF GwType
  <2> QED
    BY <2>1, <2>2
<1>4. bus' \in [Buses -> BusType]
  <2>1. ASSUME NEW b \in Buses PROVE [bus[b] EXCEPT !.spent = @ + 1] \in BusType
    BY DEF IInv, RtuTypeOK, BusType
  <2> QED
    BY <2>1 DEF IInv, RtuTypeOK, BusTick
<1>5. RtuTypeOK'
  BY <1>2, <1>3, <1>4 DEF IInv, RtuTypeOK, BusTick, wire
<1>6. \A c \in Askers : inCall'[c].pc = inCall[c].pc /\ inCall'[c].id = inCall[c].id
  BY DEF IInv, RtuTypeOK, CallType, BusTick
<1>7. Owned' /\ Armed'
  BY <1>6 DEF IInv, Owned, Armed, BusTick
<1>8. gw'.pc = gw.pc /\ gw'.id = gw.id /\ gw'.bus = gw.bus
  BY DEF IInv, RtuTypeOK, GwType, BusTick
<1>9. GwArmed'
  BY <1>8 DEF IInv, GwArmed, BusTick
<1> QED
  BY <1>5, <1>7, <1>9 DEF IInv

LEMMA NextIInv == IInv /\ [RtuNext]_rtuVars => IInv'
<1> SUFFICES ASSUME IInv, [RtuNext]_rtuVars PROVE IInv'
  OBVIOUS
<1>1. ASSUME NEW c \in Askers, Caller(c) \/ \E r \in BusRegs \cup {Read} : Requests(c, r) PROVE IInv'
  BY <1>1, AskStep, StopsWaitingStep, LeaveStep DEF Caller, TakeResult, EndGrace
<1>2. ASSUME NEW b \in Buses, BusTask(b) \/ GwAsk(b) \/ Poll(b) \/ Switch(b) PROVE IInv'
  BY <1>2, StartStep, ServeDoneStep, DoneStep, GwAskStep, SwitchStep DEF BusTask
<1>3. CASE UNCHANGED rtuVars
  BY <1>3 DEF rtuVars, wire, side, gwSide, IInv, RtuTypeOK, Owned, Armed, GwArmed
<1> QED
  BY <1>1, <1>2, <1>3, GatewayStep, TickStep DEF RtuNext

(* Every reachable state keeps the types and the ownership of the slots. *)
THEOREM Invariant == RtuSpec => []IInv
<1> QED
  BY InitIInv, NextIInv, PTL DEF RtuSpec

(* The state of the bus tasks, of the slots of modbus_rtu.c and of their   *)
(* callers is well typed, and no wait goes past its limit.                 *)
THEOREM TypeCorrect == RtuSpec => []RtuTypeOK
<1>1. IInv => RtuTypeOK
  BY DEF IInv
<1> QED
  BY <1>1, Invariant, PTL

(* serve_deye_req() and serve_txn() never start an exchange for a request  *)
(* whose caller has been told that it failed.                              *)
THEOREM NoneForTheGone == RtuSpec => NothingAbandoned
<1> DEFINE Wire(b) == bus'[b].doing # bus[b].doing =>
       /\ bus'[b].doing = "deye" => \E c \in Askers : inCall[c].pc # "out" /\ inCall[c].id = bus'[b].id
       /\ bus'[b].doing = "txn" => gw.pc # "out" /\ gw.id = bus'[b].id
<1>1. ASSUME IInv, RtuNext, NEW b \in Buses PROVE Wire(b)
  <2>1. ASSUME NEW d \in Buses, Serve(d) PROVE Wire(b)
    BY <1>1, <2>1 DEF IInv, RtuTypeOK, Armed, Serve
  <2>2. ASSUME NEW d \in Buses, ServeTxn(d) PROVE Wire(b)
    BY <1>1, <2>2 DEF IInv, RtuTypeOK, GwArmed, ServeTxn
  <2>3. ASSUME NEW d \in Buses, Poll(d) \/ ServeDone(d) \/ TxnDone(d) \/ PollDone(d) PROVE Wire(b)
    <3>1. AtRest.doing = "idle" /\ [AtRest EXCEPT !.doing = "poll"].doing = "poll"
      BY DEF AtRest
    <3>2. bus' = [bus EXCEPT ![d] = AtRest] \/ bus' = [bus EXCEPT ![d] = [AtRest EXCEPT !.doing = "poll"]]
      BY <2>3 DEF Poll, ServeDone, TxnDone, PollDone
    <3> QED
      BY <1>1, <3>1, <3>2 DEF IInv, RtuTypeOK
  <2>4. ASSUME NEW d \in Buses, GwAsk(d) \/ Switch(d) PROVE Wire(b)
    BY <2>4 DEF GwAsk, Switch
  <2>5. ASSUME NEW c \in Askers, Caller(c) \/ \E r \in BusRegs \cup {Read} : Requests(c, r) PROVE Wire(b)
    BY <2>5 DEF Caller, TakeResult, StopsWaiting, EndGrace, Leave, Requests
  <2>6. CASE Gateway
    BY <2>6 DEF Gateway, GwDone, GwGiveUp, GwEndGrace
  <2>7. CASE BusTick
    BY <1>1, <2>7 DEF IInv, RtuTypeOK, BusType, BusTick
  <2> QED
    BY <1>1, <2>1, <2>2, <2>3, <2>4, <2>5, <2>6, <2>7 DEF RtuNext, BusTask
<1>2. ASSUME UNCHANGED rtuVars, NEW b \in Buses PROVE Wire(b)
  BY <1>2 DEF rtuVars
<1>3. IInv /\ [RtuNext]_rtuVars => [\A b \in Buses : Wire(b)]_rtuVars
  BY <1>1, <1>2
<1> QED
  BY <1>3, Invariant, PTL DEF RtuSpec, NothingAbandoned

-----------------------------------------------------------------------------
(* The register slot. No exchange takes longer than it may.                *)
OnTime == \A b \in Buses : bus[b].doing # "idle" => bus[b].spent <= Limit(b)

(* An exchange begun in time is of the request in the slot, which is still *)
(* armed; its caller has as much patience left as it may still take, which *)
(* is what the grace of deye_req_run() is for.                             *)
OnWire ==
  \A b \in Buses : bus[b].doing = "deye" /\ bus[b].id \notin belated.deye =>
    /\ slot.pending /\ bus[b].id = slot.id /\ bus[b].reg = slot.reg
    /\ \A c \in Askers : inCall[c].pc # "out" => Asked(c) + XchgMax < Wait + Grace + bus[b].spent
    /\ \A d \in Buses \ {b} : bus[d].doing # "deye"

HisSlot ==
  /\ \A c \in Askers : inCall[c].pc # "out" => inCall[c].id = slot.id /\ inCall[c].reg = slot.reg
  /\ slot.done => slot.of = slot.id \/ slot.of \in belated.deye

(* A result is handed back once. *)
DoneIsOver == slot.done => ~slot.pending

(* An echo under way, and a success in the slot, are of writes carried out. *)
CarriedOut ==
  /\ \A b \in Buses : stray[b] # NoReg => stray[b] \in written
  /\ slot.done /\ slot.ok /\ slot.reg \in BusRegs => slot.reg \in written \/ slot.of \in belated.deye

(* The slot of the bridge, likewise. *)
GwWire ==
  \A b \in Buses : bus[b].doing = "txn" /\ bus[b].id \notin belated.txn =>
    /\ txn[b].pending /\ bus[b].id = txn[b].id
    /\ GwAsked + TxnMax < TxnWait + TxnGrace + bus[b].spent

HisTxn ==
  gw.pc # "out" => /\ gw.bus \in Buses /\ txn[gw.bus].id = gw.id
                   /\ txn[gw.bus].signal => txn[gw.bus].of = gw.id \/ txn[gw.bus].of \in belated.txn

RInv == IInv /\ OnTime /\ OnWire /\ HisSlot /\ DoneIsOver /\ CarriedOut /\ GwWire /\ HisTxn

LEMMA InitRInv == RtuInit => RInv
<1> SUFFICES ASSUME RtuInit PROVE RInv
  OBVIOUS
<1>1. OnTime /\ OnWire /\ GwWire
  BY DEF RtuInit, AtRest, OnTime, OnWire, GwWire
<1>2. HisSlot /\ DoneIsOver /\ CarriedOut /\ HisTxn
  BY DEF RtuInit, Out, HisSlot, DoneIsOver, CarriedOut, HisTxn
<1> QED
  BY <1>1, <1>2, InitIInv DEF RInv

LEMMA Counted ==
  ASSUME RtuTypeOK
  PROVE  /\ \A b \in Buses : bus[b].spent \in Nat /\ Limit(b) \in Nat
         /\ \A c \in Askers : inCall[c].waited \in Nat /\ Asked(c) \in Nat
         /\ gw.waited \in Nat /\ GwAsked \in Nat
<1>1. ASSUME NEW b \in Buses PROVE bus[b].spent \in Nat /\ Limit(b) \in Nat
  BY Limits DEF RtuTypeOK, BusType, Limit
<1>2. ASSUME NEW c \in Askers PROVE inCall[c].waited \in Nat /\ Asked(c) \in Nat
  <2>1. inCall[c] \in CallType
    BY DEF RtuTypeOK
  <2>2. inCall[c].waited \in Nat
    BY <2>1, Limits DEF CallType
  <2> QED
    BY <2>2, Limits DEF Asked
<1>3. gw.waited \in Nat
  BY Limits DEF RtuTypeOK, GwType
<1>4. GwAsked \in Nat
  BY <1>3, Limits DEF GwAsked
<1> QED
  BY <1>1, <1>2, <1>3, <1>4

(* The slot is filled while nothing begun in time is on the wire. *)
LEMMA AskTurn ==
  ASSUME RInv, NEW c \in Askers, NEW r \in BusRegs \cup {Read}, Requests(c, r)
  PROVE  RInv'
<1>1. ~slot.pending
  BY RtuAssumption DEF RInv, IInv, Owned, Armed, Requests
<1>2. UNCHANGED << bus, belated, stray, written, txn, gw >>
  BY DEF Requests, wire, gwSide
<1>3. OnTime' /\ OnWire'
  BY <1>1, <1>2 DEF RInv, OnTime, OnWire, Limit
<1>4. HisSlot'
  <2>1. \A d \in Askers : d # c => inCall'[d].pc = "out"
    BY RtuAssumption DEF RInv, IInv, RtuTypeOK, Owned, Requests
  <2> QED
    BY <2>1 DEF RInv, IInv, RtuTypeOK, HisSlot, Requests
<1>5. CarriedOut' /\ DoneIsOver'
  BY <1>2 DEF RInv, CarriedOut, DoneIsOver, Requests
<1>6. GwWire' /\ HisTxn'
  BY <1>2 DEF RInv, GwWire, HisTxn, GwAsked
<1> QED
  BY <1>3, <1>4, <1>5, <1>6, AskStep DEF RInv

(* A caller that leaves has no exchange of his under way but a late one. *)
LEMMA LeaveTurn ==
  ASSUME RInv, NEW c \in Askers, TakeResult(c) \/ EndGrace(c)
  PROVE  RInv'
<1>1. inCall[c].pc # "out" /\ Leave(c)
  BY DEF TakeResult, EndGrace
<1>2. ASSUME NEW b \in Buses, bus[b].doing = "deye", bus[b].id \notin belated.deye PROVE FALSE
  <2>1. slot.pending /\ Asked(c) + XchgMax < Wait + Grace + bus[b].spent
    BY <1>1, <1>2 DEF RInv, OnWire
  <2>2. bus[b].spent <= XchgMax
    BY <1>2 DEF RInv, OnTime, Limit
  <2>3. CASE slot.done
    BY <2>1, <2>3 DEF RInv, DoneIsOver
  <2>4. CASE ~slot.done
    <3>1. Asked(c) = Wait + Grace
      BY <2>4 DEF TakeResult, EndGrace, GraceOver, Asked
    <3> QED
      BY <2>1, <2>2, <3>1, Limits, Counted DEF RInv, IInv
  <2> QED
    BY <2>3, <2>4
<1>3. UNCHANGED << bus, belated, stray, written, txn, gw >>
  BY <1>1 DEF Leave, wire, gwSide
<1>4. OnTime' /\ OnWire'
  BY <1>2, <1>3 DEF RInv, OnTime, OnWire, Limit
<1>5. HisSlot' /\ CarriedOut' /\ DoneIsOver'
  <2>1. \A d \in Askers : inCall'[d].pc = "out"
    BY <1>1 DEF RInv, IInv, RtuTypeOK, Owned, Leave, Out
  <2>2. slot' = [slot EXCEPT !.pending = FALSE]
    BY <1>1 DEF Leave, Disarmed
  <2>3. /\ ~slot'.pending /\ slot'.done = slot.done /\ slot'.ok = slot.ok
        /\ slot'.reg = slot.reg /\ slot'.of = slot.of /\ slot'.id = slot.id
    BY <2>2 DEF RInv, IInv, RtuTypeOK, SlotType
  <2> QED
    BY <1>3, <2>1, <2>3 DEF RInv, HisSlot, CarriedOut, DoneIsOver
<1>6. GwWire' /\ HisTxn'
  BY <1>3 DEF RInv, GwWire, HisTxn, GwAsked
<1> QED
  BY <1>1, <1>4, <1>5, <1>6, LeaveStep DEF RInv

LEMMA StopsWaitingTurn ==
  ASSUME RInv, NEW c \in Askers, StopsWaiting(c)
  PROVE  RInv'
<1>1. UNCHANGED << bus, slot, belated, stray, written, txn, gw >>
  BY DEF StopsWaiting, wire, gwSide
<1>2. \A d \in Askers : /\ inCall'[d].pc # "out" => inCall[d].pc # "out"
                       /\ inCall'[d].id = inCall[d].id /\ inCall'[d].reg = inCall[d].reg
                       /\ Asked(d)' = Asked(d)
  BY Limits DEF RInv, IInv, RtuTypeOK, CallType, StopsWaiting, Asked
<1>3. OnTime' /\ OnWire'
  BY <1>1, <1>2 DEF RInv, OnTime, OnWire, Limit
<1>4. HisSlot' /\ CarriedOut' /\ DoneIsOver'
  BY <1>1, <1>2 DEF RInv, HisSlot, CarriedOut, DoneIsOver
<1>5. GwWire' /\ HisTxn'
  BY <1>1 DEF RInv, GwWire, HisTxn, GwAsked
<1> QED
  BY <1>3, <1>4, <1>5, StopsWaitingStep DEF RInv

(* The bridge takes one request of its at a time: a raw exchange that is   *)
(* on the wire when it asks is a late one.                                 *)
LEMMA GwAskTurn ==
  ASSUME RInv, NEW b \in Buses, GwAsk(b)
  PROVE  RInv'
<1>1. UNCHANGED << bus, slot, inCall, belated, stray, written >>
  BY DEF GwAsk, side, wire
<1>2. \A d \in Buses : ~txn[d].pending
  BY DEF RInv, IInv, GwArmed, GwAsk
<1>3. OnTime' /\ OnWire' /\ HisSlot' /\ CarriedOut' /\ DoneIsOver'
  BY <1>1 DEF RInv, OnTime, OnWire, HisSlot, CarriedOut, DoneIsOver, Asked, Limit
<1>4. GwWire'
  BY <1>1, <1>2 DEF RInv, GwWire
<1>5. HisTxn'
  BY DEF RInv, IInv, RtuTypeOK, HisTxn, GwAsk
<1> QED
  BY <1>3, <1>4, <1>5, GwAskStep DEF RInv

LEMMA GatewayTurn ==
  ASSUME RInv, Gateway
  PROVE  RInv'
<1>1. UNCHANGED << bus, slot, inCall, belated, stray, written >>
  BY DEF Gateway, GwDone, GwGiveUp, GwEndGrace, side, wire
<1>2. OnTime' /\ OnWire' /\ HisSlot' /\ CarriedOut' /\ DoneIsOver'
  BY <1>1 DEF RInv, OnTime, OnWire, HisSlot, CarriedOut, DoneIsOver, Asked, Limit
<1>3. CASE GwGiveUp
  <2>1. txn' = txn /\ GwAsked' = GwAsked /\ gw'.bus = gw.bus /\ gw'.id = gw.id /\ gw.pc # "out"
    BY <1>3, Limits DEF GwGiveUp, GwAsked, RInv, IInv, RtuTypeOK, GwType
  <2>2. GwWire' /\ HisTxn'
    BY <1>1, <2>1 DEF RInv, GwWire, HisTxn
  <2> QED
    BY <1>2, <2>2, GatewayStep DEF RInv
<1>4. CASE GwDone \/ GwEndGrace
  <2>1. gw'.pc = "out" /\ gw.pc # "out"
    BY <1>4 DEF GwDone, GwEndGrace, Signalled
  <2>2. ASSUME NEW b \in Buses, bus[b].doing = "txn", bus[b].id \notin belated.txn PROVE FALSE
    <3>1. txn[b].pending /\ GwAsked + TxnMax < TxnWait + TxnGrace + bus[b].spent
      BY <2>2 DEF RInv, GwWire
    <3>2. gw.bus = b /\ ~txn[b].signal
      BY <3>1 DEF RInv, IInv, GwArmed
    <3>3. GwAsked = TxnWait + TxnGrace
      BY <1>4, <3>2 DEF GwDone, GwEndGrace, Signalled, GwAsked
    <3>4. bus[b].spent <= TxnMax
      BY <2>2 DEF RInv, OnTime, Limit
    <3> QED
      BY <3>1, <3>3, <3>4, Limits, Counted DEF RInv, IInv
  <2>3. GwWire' /\ HisTxn'
    BY <1>1, <2>1, <2>2 DEF GwWire, HisTxn
  <2> QED
    BY <1>2, <2>3, GatewayStep DEF RInv
<1> QED
  BY <1>3, <1>4 DEF Gateway

(* A bus takes up the request in the slot: in time, or noted as late. *)
LEMMA ServeTurn ==
  ASSUME RInv, NEW b \in Buses, Serve(b)
  PROVE  RInv'
<1>1. /\ bus'[b].doing = "deye" /\ bus'[b].id = slot.id /\ bus'[b].reg = slot.reg /\ bus'[b].spent = 0
      /\ \A d \in Buses \ {b} : bus'[d] = bus[d]
  BY DEF RInv, IInv, RtuTypeOK, Serve
<1>2. UNCHANGED << slot, inCall, stray, written, txn, gw >> /\ slot.pending
  BY DEF Serve, side, gwSide
<1>3. /\ belated.deye \subseteq belated'.deye /\ belated'.txn = belated.txn
      /\ Shared(b) \/ TooLate => slot.id \in belated'.deye
  BY DEF RInv, IInv, RtuTypeOK, LateType, Serve
<1>4. OnTime'
  <2>1. ASSUME NEW d \in Buses, bus'[d].doing # "idle" PROVE bus'[d].spent <= Limit(d)'
    <3>1. CASE d = b
      BY <1>1, <3>1, Limits DEF Limit
    <3>2. CASE d # b
      BY <1>1, <2>1, <3>2 DEF RInv, OnTime, Limit
    <3> QED
      BY <3>1, <3>2
  <2> QED
    BY <2>1 DEF OnTime
<1>5. ASSUME NEW d \in Buses, bus'[d].doing = "deye", bus'[d].id \notin belated'.deye PROVE d = b
  <2> SUFFICES ASSUME d # b PROVE FALSE
    OBVIOUS
  <2>1. bus[d].doing = "deye" /\ bus[d].id \notin belated.deye /\ bus'[d].id = bus[d].id
    BY <1>1, <1>3, <1>5
  <2>2. bus[d].id = slot.id /\ Shared(b)
    BY <2>1 DEF RInv, OnWire, Shared
  <2> QED
    BY <1>3, <1>5, <2>1, <2>2
<1>6. ASSUME bus'[b].id \notin belated'.deye
      PROVE  /\ \A c \in Askers : inCall[c].pc # "out" => Asked(c) + XchgMax < Wait + Grace
             /\ \A d \in Buses \ {b} : bus[d].doing # "deye"
  <2>1. ~Shared(b) /\ ~TooLate
    BY <1>1, <1>3, <1>6
  <2>2. ASSUME NEW c \in Askers, inCall[c].pc # "out" PROVE Asked(c) + XchgMax < Wait + Grace
    <3>1. ~(Asked(c) + XchgMax >= Wait + Grace)
      BY <2>1, <2>2 DEF TooLate
    <3>2. Asked(c) \in Nat
      BY Counted DEF RInv, IInv
    <3> QED
      BY <3>1, <3>2, Limits
  <2> QED
    BY <2>1, <2>2 DEF Shared
<1>7. OnWire'
  <2>1. ASSUME NEW c \in Askers PROVE Asked(c)' = Asked(c) /\ Asked(c) \in Nat
    BY <1>2, Counted DEF Asked, RInv, IInv
  <2>2. ASSUME bus'[b].id \notin belated'.deye
        PROVE  \A c \in Askers : inCall'[c].pc # "out" => Asked(c)' + XchgMax < Wait + Grace + bus'[b].spent
    BY <1>1, <1>2, <1>6, <2>1, <2>2, Limits
  <2> QED
    BY <1>1, <1>2, <1>5, <1>6, <2>2 DEF OnWire
<1>8. HisSlot' /\ DoneIsOver' /\ CarriedOut'
  BY <1>2, <1>3 DEF RInv, HisSlot, DoneIsOver, CarriedOut
<1>9. GwWire' /\ HisTxn'
  BY <1>1, <1>2, <1>3 DEF RInv, GwWire, HisTxn, GwAsked
<1> QED
  BY <1>4, <1>7, <1>8, <1>9, StartStep DEF RInv

LEMMA ServeTxnTurn ==
  ASSUME RInv, NEW b \in Buses, ServeTxn(b)
  PROVE  RInv'
<1>1. /\ bus[b].doing = "idle" /\ bus'[b].doing = "txn" /\ bus'[b].id = txn[b].id /\ bus'[b].spent = 0
      /\ \A d \in Buses \ {b} : bus'[d] = bus[d]
  BY DEF RInv, IInv, RtuTypeOK, ServeTxn, Free
<1>2. UNCHANGED << slot, inCall, stray, written, txn, gw >> /\ txn[b].pending
  BY DEF ServeTxn, side, gwSide
<1>3. /\ belated.txn \subseteq belated'.txn /\ belated'.deye = belated.deye
      /\ GwTooLate => txn[b].id \in belated'.txn
  BY DEF RInv, IInv, RtuTypeOK, LateType, ServeTxn
<1>4. OnTime'
  <2>1. ASSUME NEW d \in Buses, bus'[d].doing # "idle" PROVE bus'[d].spent <= Limit(d)'
    <3>1. CASE d = b
      BY <1>1, <3>1, Limits DEF Limit
    <3>2. CASE d # b
      BY <1>1, <2>1, <3>2 DEF RInv, OnTime, Limit
    <3> QED
      BY <3>1, <3>2
  <2> QED
    BY <2>1 DEF OnTime
<1>5. OnWire' /\ HisSlot' /\ DoneIsOver' /\ CarriedOut'
  BY <1>1, <1>2, <1>3 DEF RInv, OnWire, HisSlot, DoneIsOver, CarriedOut, Asked
<1>6. GwWire'
  <2>1. ASSUME bus'[b].id \notin belated'.txn PROVE GwAsked + TxnMax < TxnWait + TxnGrace
    <3>1. ~(GwAsked + TxnMax >= TxnWait + TxnGrace) /\ GwAsked \in Nat
      BY <1>1, <1>3, <2>1, Counted DEF GwTooLate, RInv, IInv
    <3> QED
      BY <3>1, Limits
  <2>2. GwAsked' = GwAsked /\ GwAsked \in Nat
    BY <1>2, Counted DEF GwAsked, RInv, IInv
  <2>3. ASSUME bus'[b].id \notin belated'.txn PROVE GwAsked' + TxnMax < TxnWait + TxnGrace + bus'[b].spent
    BY <1>1, <2>1, <2>2, <2>3, Limits
  <2> QED
    BY <1>1, <1>2, <1>3, <2>2, <2>3 DEF RInv, GwWire
<1>7. HisTxn'
  BY <1>2, <1>3 DEF RInv, HisTxn
<1> QED
  BY <1>4, <1>5, <1>6, <1>7, StartStep DEF RInv

LEMMA PollTurn ==
  ASSUME RInv, NEW b \in Buses, Poll(b)
  PROVE  RInv'
<1>1. /\ bus'[b].doing = "poll" /\ bus'[b].spent = 0
      /\ \A d \in Buses \ {b} : bus'[d] = bus[d]
  BY DEF RInv, IInv, RtuTypeOK, Poll, AtRest
<1>2. UNCHANGED << slot, inCall, stray, written, txn, gw, belated >>
  BY DEF Poll, side, gwSide, wire
<1>3. OnTime'
  <2>1. ASSUME NEW d \in Buses, bus'[d].doing # "idle" PROVE bus'[d].spent <= Limit(d)'
    <3>1. CASE d = b
      BY <1>1, <3>1, Limits DEF Limit
    <3>2. CASE d # b
      BY <1>1, <2>1, <3>2 DEF RInv, OnTime, Limit
    <3> QED
      BY <3>1, <3>2
  <2> QED
    BY <2>1 DEF OnTime
<1>4. OnWire' /\ HisSlot' /\ DoneIsOver' /\ CarriedOut'
  BY <1>1, <1>2 DEF RInv, OnWire, HisSlot, DoneIsOver, CarriedOut, Asked
<1>5. GwWire' /\ HisTxn'
  BY <1>1, <1>2 DEF RInv, GwWire, HisTxn, GwAsked
<1> QED
  BY <1>3, <1>4, <1>5, StartStep DEF RInv

(* What is handed back in time is of the request in the slot, and a        *)
(* success of a write that was carried out, by its own echo or by one that *)
(* is late. What a late exchange hands back is known to be its.            *)
LEMMA ServeDoneTurn ==
  ASSUME RInv, NEW b \in Buses, ServeDone(b)
  PROVE  RInv'
<1>1. PICK ok \in BOOLEAN :
        /\ Exchange(b, bus[b].reg, ok)
        /\ slot' = IF Awaited(b)
                   THEN [slot EXCEPT !.pending = FALSE, !.done = TRUE, !.of = bus[b].id, !.ok = ok]
                   ELSE slot
  BY DEF ServeDone
<1>2. /\ bus[b].doing = "deye" /\ bus'[b].doing = "idle" /\ \A d \in Buses \ {b} : bus'[d] = bus[d]
      /\ UNCHANGED << inCall, txn, gw, belated >>
  BY DEF RInv, IInv, RtuTypeOK, ServeDone, AtRest, gwSide
<1>3. OnTime'
  BY <1>2 DEF RInv, OnTime, Limit
<1>4. OnWire'
  <2>1. ASSUME NEW d \in Buses, bus'[d].doing = "deye", bus'[d].id \notin belated'.deye PROVE FALSE
    <3>1. d # b /\ bus[d].doing = "deye" /\ bus[d].id \notin belated.deye
      BY <1>2, <2>1
    <3>2. bus[b].doing # "deye"
      BY <3>1 DEF RInv, OnWire
    <3> QED
      BY <1>2, <3>2
  <2> QED
    BY <2>1 DEF OnWire
<1>5. ASSUME slot.pending
      PROVE  /\ HisSlot' /\ DoneIsOver'
             /\ (slot.done /\ slot.ok /\ slot.reg \in BusRegs => slot.reg \in written \/ slot.of \in belated.deye)'
  <2>1. /\ slot'.pending = FALSE /\ slot'.of = bus[b].id /\ slot'.ok = ok
        /\ slot'.id = slot.id /\ slot'.reg = slot.reg
    BY <1>1, <1>5 DEF RInv, IInv, RtuTypeOK, SlotType, Awaited
  <2>2. bus[b].id \notin belated.deye => bus[b].id = slot.id /\ bus[b].reg = slot.reg
    BY <1>2 DEF RInv, OnWire
  <2>3. HisSlot' /\ DoneIsOver'
    BY <1>2, <2>1, <2>2 DEF RInv, HisSlot, DoneIsOver
  <2>4. written \subseteq written'
    BY <1>1 DEF Exchange, Carries
  <2>5. ASSUME ok, slot.reg \in BusRegs, bus[b].id \notin belated.deye PROVE slot.reg \in written'
    <3>1. CASE Carries(b, bus[b].reg)
      BY <2>2, <2>5, <3>1 DEF Carries
    <3>2. CASE ok = (stray[b] # NoReg /\ Accepts(stray[b], bus[b].reg))
      BY <2>2, <2>4, <2>5, <3>2 DEF RInv, CarriedOut, Accepts
    <3> QED
      BY <1>1, <2>2, <2>5, <3>1, <3>2 DEF Exchange
  <2>6. slot'.done /\ slot'.ok /\ slot'.reg \in BusRegs => slot'.reg \in written' \/ slot'.of \in belated'.deye
    BY <1>2, <2>1, <2>5
  <2> QED
    BY <2>3, <2>6
<1>6. ASSUME ~slot.pending
      PROVE  /\ HisSlot' /\ DoneIsOver'
             /\ (slot.done /\ slot.ok /\ slot.reg \in BusRegs => slot.reg \in written \/ slot.of \in belated.deye)'
  <2>1. slot' = slot
    BY <1>1, <1>6 DEF Awaited
  <2>2. written \subseteq written'
    BY <1>1 DEF Exchange, Carries
  <2> QED
    BY <1>2, <2>1, <2>2 DEF RInv, HisSlot, DoneIsOver, CarriedOut
<1>7. CarriedOut'
  <2>1. written \subseteq written'
    BY <1>1 DEF Exchange, Carries
  <2>2. \/ stray' = [stray EXCEPT ![b] = NoReg]
        \/ Carries(b, bus[b].reg) /\ stray' = [stray EXCEPT ![b] = bus[b].reg]
    BY <1>1 DEF Exchange, StraysAfter
  <2>3. ASSUME NEW d \in Buses, stray'[d] # NoReg PROVE stray'[d] \in written'
    BY <2>1, <2>2, <2>3 DEF RInv, IInv, RtuTypeOK, CarriedOut, Carries
  <2> QED
    BY <1>5, <1>6, <2>3 DEF CarriedOut
<1>8. GwWire' /\ HisTxn'
  BY <1>2 DEF RInv, GwWire, HisTxn, GwAsked
<1> QED
  BY <1>3, <1>4, <1>5, <1>6, <1>7, <1>8, ServeDoneStep DEF RInv

LEMMA DoneTurn ==
  ASSUME RInv, NEW b \in Buses, TxnDone(b) \/ PollDone(b)
  PROVE  RInv'
<1>1. /\ bus'[b].doing = "idle" /\ \A d \in Buses \ {b} : bus'[d] = bus[d]
      /\ UNCHANGED << slot, inCall, gw, belated, written >>
  BY DEF RInv, IInv, RtuTypeOK, TxnDone, PollDone, AtRest, side, gwSide
<1>2. OnTime' /\ OnWire' /\ HisSlot' /\ DoneIsOver'
  <2>1. OnTime'
    BY <1>1 DEF RInv, OnTime, Limit
  <2>2. OnWire'
    BY <1>1 DEF RInv, OnWire, Asked
  <2>3. HisSlot' /\ DoneIsOver'
    BY <1>1 DEF RInv, HisSlot, DoneIsOver
  <2> QED
    BY <2>1, <2>2, <2>3
<1>3. CarriedOut'
  <2>1. stray' = [stray EXCEPT ![b] = NoReg]
    BY DEF TxnDone, PollDone
  <2> QED
    BY <1>1, <2>1 DEF RInv, IInv, RtuTypeOK, CarriedOut
<1>4. CASE PollDone(b)
  <2>1. txn' = txn
    BY <1>4 DEF PollDone, gwSide
  <2>2. GwWire' /\ HisTxn'
    BY <1>1, <2>1 DEF RInv, GwWire, HisTxn, GwAsked
  <2> QED
    BY <1>2, <1>3, <2>2, DoneStep DEF RInv
<1>5. CASE TxnDone(b)
  <2>1. /\ txn'[b].of = bus[b].id /\ txn'[b].id = txn[b].id
        /\ \A d \in Buses \ {b} : txn'[d] = txn[d]
    BY <1>5 DEF TxnDone, RInv, IInv, RtuTypeOK, TxnType
  <2>2. GwWire'
    BY <1>1, <2>1 DEF RInv, GwWire, GwAsked
  <2>3. bus[b].id = txn[b].id \/ bus[b].id \in belated.txn
    BY <1>5 DEF RInv, GwWire, TxnDone
  <2>4. HisTxn'
    BY <1>1, <2>1, <2>3 DEF RInv, HisTxn
  <2> QED
    BY <1>2, <1>3, <2>2, <2>4, DoneStep DEF RInv
<1> QED
  BY <1>4, <1>5

LEMMA SwitchTurn ==
  ASSUME RInv, NEW b \in Buses, Switch(b)
  PROVE  RInv'
<1>1. UNCHANGED << bus, slot, inCall, stray, written, txn, gw, belated >>
  BY DEF Switch, side, wire, gwSide
<1>2. OnTime' /\ OnWire' /\ HisSlot' /\ DoneIsOver' /\ CarriedOut' /\ GwWire' /\ HisTxn'
  BY <1>1 DEF RInv, OnTime, OnWire, HisSlot, DoneIsOver, CarriedOut, GwWire, HisTxn, Asked, GwAsked, Limit
<1> QED
  BY <1>2, SwitchStep DEF RInv

(* Time passes for an exchange and for the callers alike. *)
LEMMA TickTurn ==
  ASSUME RInv, BusTick
  PROVE  RInv'
<1>1. ASSUME NEW b \in Buses
      PROVE  /\ bus'[b].doing = bus[b].doing /\ bus'[b].id = bus[b].id /\ bus'[b].reg = bus[b].reg
             /\ Limit(b)' = Limit(b)
             /\ bus[b].doing # "idle" => bus'[b].spent = bus[b].spent + 1 /\ bus[b].spent < Limit(b)
  BY DEF RInv, IInv, RtuTypeOK, BusType, BusTick, Limit
<1>2. ASSUME NEW c \in Askers
      PROVE  /\ inCall'[c].pc = inCall[c].pc /\ inCall'[c].id = inCall[c].id /\ inCall'[c].reg = inCall[c].reg
             /\ inCall[c].pc # "out" => inCall'[c].waited = inCall[c].waited + 1
  BY DEF RInv, IInv, RtuTypeOK, CallType, BusTick
<1>3. ASSUME NEW c \in Askers, inCall[c].pc # "out" PROVE Asked(c)' = Asked(c) + 1
  BY <1>2, <1>3, Counted, Limits DEF Asked, RInv, IInv
<1>4. UNCHANGED << slot, txn, belated, stray, written >>
  BY DEF BusTick, wire
<1>5. OnTime'
  <2> SUFFICES ASSUME NEW b \in Buses, bus[b].doing # "idle" PROVE bus'[b].spent <= Limit(b)'
    BY <1>1 DEF OnTime
  <2>1. bus[b].spent + 1 <= Limit(b)
    BY <1>1, Counted DEF RInv, IInv
  <2> QED
    BY <1>1, <2>1
<1>6. HisSlot' /\ DoneIsOver' /\ CarriedOut'
  BY <1>2, <1>4 DEF RInv, HisSlot, DoneIsOver, CarriedOut
<1>7. OnWire'
  <2>1. ASSUME NEW b \in Buses, NEW c \in Askers, bus[b].doing = "deye", bus[b].id \notin belated.deye, inCall[c].pc # "out"
        PROVE  Asked(c)' + XchgMax < Wait + Grace + bus'[b].spent
    <3>1. Asked(c) + XchgMax < Wait + Grace + bus[b].spent
      BY <2>1 DEF RInv, OnWire
    <3>2. bus[b].spent \in Nat /\ Asked(c) \in Nat
      BY Counted DEF RInv, IInv
    <3>3. Asked(c)' = Asked(c) + 1 /\ bus'[b].spent = bus[b].spent + 1
      BY <1>1, <1>3, <2>1
    <3> QED
      BY <3>1, <3>2, <3>3, Limits
  <2> QED
    BY <1>1, <1>2, <1>4, <2>1 DEF RInv, OnWire
<1>8. gw'.pc = gw.pc /\ gw'.id = gw.id /\ gw'.bus = gw.bus /\ (gw.pc # "out" => gw'.waited = gw.waited + 1)
  BY DEF RInv, IInv, RtuTypeOK, GwType, BusTick
<1>9. GwWire' /\ HisTxn'
  <2>1. ASSUME NEW b \in Buses, bus[b].doing = "txn", bus[b].id \notin belated.txn
        PROVE  GwAsked' + TxnMax < TxnWait + TxnGrace + bus'[b].spent
    <3>1. GwAsked + TxnMax < TxnWait + TxnGrace + bus[b].spent /\ gw.pc # "out"
      BY <2>1 DEF RInv, GwWire, IInv, GwArmed
    <3>2. bus[b].spent \in Nat /\ gw.waited \in Nat /\ GwAsked \in Nat
      BY Counted DEF RInv, IInv
    <3>3. GwAsked' = GwAsked + 1
      BY <1>8, <3>1, <3>2, Limits DEF GwAsked
    <3>4. bus'[b].spent = bus[b].spent + 1
      BY <1>1, <2>1
    <3> QED
      BY <3>1, <3>2, <3>3, <3>4, Limits
  <2> QED
    BY <1>1, <1>4, <1>8, <2>1 DEF RInv, GwWire, HisTxn
<1> QED
  BY <1>5, <1>6, <1>7, <1>9, TickStep DEF RInv

LEMMA NextRInv == RInv /\ [RtuNext]_rtuVars => RInv'
<1> SUFFICES ASSUME RInv, [RtuNext]_rtuVars PROVE RInv'
  OBVIOUS
<1>1. ASSUME NEW c \in Askers, Caller(c) \/ \E r \in BusRegs \cup {Read} : Requests(c, r) PROVE RInv'
  BY <1>1, AskTurn, StopsWaitingTurn, LeaveTurn DEF Caller
<1>2. ASSUME NEW b \in Buses, BusTask(b) \/ GwAsk(b) \/ Poll(b) \/ Switch(b) PROVE RInv'
  BY <1>2, ServeTurn, ServeTxnTurn, PollTurn, ServeDoneTurn, DoneTurn, GwAskTurn, SwitchTurn DEF BusTask
<1>3. CASE UNCHANGED rtuVars
  <2>1. OnTime' /\ OnWire' /\ HisSlot' /\ DoneIsOver' /\ CarriedOut' /\ GwWire' /\ HisTxn'
    BY <1>3 DEF rtuVars, RInv, OnTime, OnWire, HisSlot, DoneIsOver, CarriedOut, GwWire, HisTxn, Asked, GwAsked, Limit
  <2> QED
    BY <2>1, <1>3, NextIInv DEF RInv
<1> QED
  BY <1>1, <1>2, <1>3, GatewayTurn, TickTurn DEF RtuNext

(* What deye_req_run() and modbus_rtu_txn() hand back is the result of the *)
(* request they were called for, and a success is a write carried out,     *)
(* unless the exchange it comes from was begun too late: for any number of *)
(* buses, calls and late echoes, any bridge timeout clamp_cfg() lets pass, *)
(* and buses that go off and on while somebody waits.                      *)
THEOREM ResultsSound == RtuSpec => []ResultsTrue
<1>1. RInv => ResultsTrue
  <2> SUFFICES ASSUME RInv PROVE OwnOrLate /\ SuccessIsWritten
    BY DEF ResultsTrue
  <2>1. OwnOrLate
    BY DEF RInv, HisSlot, HisTxn, OwnOrLate
  <2>2. SuccessIsWritten
    BY DEF RInv, HisSlot, CarriedOut, SuccessIsWritten
  <2> QED
    BY <2>1, <2>2
<1> QED
  BY <1>1, InitRInv, NextRInv, PTL DEF RtuSpec

=============================================================================
