------------------------------ MODULE TcpPoll ------------------------------
(***************************************************************************)
(* The workers of main/modbus_tcp.c: one per slot of the device list polls *)
(* every device that shares its address over one socket, fronius_storage   *)
(* borrows that socket, and the list may be replaced at any time. A value  *)
(* is the unit and the read it came from. All devices have one interval.   *)
(***************************************************************************)
EXTENDS Integers, FiniteSetsExt

CONSTANTS
  Slots,        \* 1..MB_MAX_DEVICES
  Lists,        \* device lists: Slots -> device or Empty
  Storages,     \* addresses of the inverters fronius_storage talks to
  MaxSaves,     \* bound: device lists saved
  MaxTcpFaults     \* bound: units that go silent or come back, lost optional reads

\* a device: [unit, addr, kind, sunspec]
NoDevice == [unit |-> "none", addr |-> "none", kind |-> "off", sunspec |-> FALSE]
CtrlRole(d) == d.kind \in {"grid", "acmeter"}            \* is_ctrl_role()
TcpDevices == UNION {{l[s] : s \in Slots} \ {NoDevice} : l \in Lists}
Units == {d.unit : d \in TcpDevices}

ASSUME TcpAssumption ==
  /\ Slots \subseteq Nat \ {0} /\ IsFiniteSet(Slots)
  /\ \A l \in Lists : DOMAIN l = Slots
  /\ \A d \in TcpDevices : d.kind \in {"grid", "acmeter", "pv", "deye"}
  /\ MaxSaves \in Nat /\ MaxTcpFaults \in Nat

VARIABLES
  list, stored, reconf,  \* s_devs; the list in NVS; s_reconf
  wk,        \* per slot: where the worker is, its copy of the list, what is due
  sk,        \* s_sk, s_sk_ip: per slot the address and an answer still to come
  io,        \* s_io_mx: who holds the lock of the slot
  fs,        \* the borrower: where it is, its slot (s_lent), its address
  valid,     \* s_valid: the slots whose contribution counts
  layout,    \* s_ss: the unit whose SunSpec layout is cached
  grid,      \* s_grid_ctrl_w: unit, what was read, read in this interval
  up,        \* the units that answer
  saves, tcpFaults

devVars == << list, stored, reconf, saves >>
tcpVars == << devVars, wk, sk, io, fs, valid, layout, grid, up, tcpFaults >>

Closed == [addr |-> "none", late |-> "none"]
NoLoan == [pc |-> "idle", slot |-> 0, addr |-> "none"]
NoGrid == [unit |-> "none", of |-> "none", new |-> FALSE]

-----------------------------------------------------------------------------
TcpInit ==
  /\ stored \in Lists /\ list = [s \in Slots |-> NoDevice] /\ reconf = TRUE
  /\ wk = [s \in Slots |-> [pc |-> "nap", devs |-> list, due |-> {}]]
  /\ sk = [s \in Slots |-> Closed] /\ io = [s \in Slots |-> "free"]
  /\ fs = NoLoan
  /\ valid = {} /\ layout = [s \in Slots |-> "none"] /\ grid = NoGrid
  /\ up = Units
  /\ saves = 0 /\ tcpFaults = 0

(* modbus_tcp_set_devices() *)
SaveList(l) ==
  /\ saves < MaxSaves /\ saves' = saves + 1
  /\ stored' = l /\ reconf' = TRUE
  /\ UNCHANGED << list, wk, sk, io, fs, valid, layout, grid, up, tcpFaults >>

(* agg_task(), reconfigure_apply(): a worker keeps the copy it polls by. *)
ApplyList ==
  /\ reconf /\ reconf' = FALSE
  /\ list' = stored
  /\ valid' = {} /\ layout' = [s \in Slots |-> "none"] /\ grid' = NoGrid
  /\ UNCHANGED << stored, saves, wk, sk, io, fs, up, tcpFaults >>

-----------------------------------------------------------------------------
At(l, a) == {s \in Slots : l[s] # NoDevice /\ l[s].addr = a}
Owns(l, s) == l[s] # NoDevice /\ \A t \in At(l, l[s].addr) : s <= t

(* worker_task(): the copy of the list, taken before the lock. *)
Look(s) ==
  /\ wk[s].pc = "nap"
  /\ wk' = [wk EXCEPT ![s] = [pc |-> "wait", devs |-> list, due |-> {}]]
  /\ UNCHANGED << devVars, sk, io, fs, valid, layout, grid, up, tcpFaults >>

(* The devices of the address, polled in the order of the list, the        *)
(* control-critical first.                                                 *)
Due(l, s) == At(l, l[s].addr)
First(l, due) ==
  LET ctrl == {t \in due : CtrlRole(l[t])}
  IN  Min(IF ctrl # {} THEN ctrl ELSE due)

Reachable(a) == \E d \in TcpDevices : d.addr = a /\ d.unit \in up
Connected(a) == IF Reachable(a) THEN [addr |-> a, late |-> "none"] ELSE Closed
Kept(s, a) == IF sk[s].addr = a THEN sk[s] ELSE Connected(a)

(* Under the lock of the slot: a worker that has nothing to poll by its    *)
(* copy closes its socket, and so does one whose socket has another        *)
(* address; a socket to this address is kept, or opened.                   *)
Idle(s) ==
  /\ wk[s].pc = "wait" /\ io[s] = "free" /\ ~Owns(wk[s].devs, s)
  /\ sk' = [sk EXCEPT ![s] = Closed]
  /\ wk' = [wk EXCEPT ![s].pc = "nap"]
  /\ UNCHANGED << devVars, io, fs, valid, layout, grid, up, tcpFaults >>

Begin(s) ==
  /\ wk[s].pc = "wait" /\ io[s] = "free" /\ Owns(wk[s].devs, s)
  /\ sk' = [sk EXCEPT ![s] = Kept(s, wk[s].devs[s].addr)]
  /\ wk' = [wk EXCEPT ![s].pc = "poll", ![s].due = Due(wk[s].devs, s)]
  /\ io' = [io EXCEPT ![s] = "worker"]
  /\ UNCHANGED << devVars, fs, valid, layout, grid, up, tcpFaults >>

(* All of them answered less than an interval ago. *)
NotDue(s) ==
  LET l == wk[s].devs
  IN  /\ wk[s].pc = "wait" /\ io[s] = "free" /\ Owns(l, s)
      /\ At(l, l[s].addr) \subseteq valid
      /\ sk' = [sk EXCEPT ![s] = IF @.addr = l[s].addr THEN @ ELSE Closed]
      /\ wk' = [wk EXCEPT ![s].pc = "nap"]
      /\ UNCHANGED << devVars, io, fs, valid, layout, grid, up, tcpFaults >>

-----------------------------------------------------------------------------
(* mb_read(): which of the answers on the socket is taken. One that was    *)
(* given up comes first, and has another transaction id.                   *)
FirstFrame(late) == IF late # "none" THEN late ELSE "total"  \* mutant: no id
OwnFrame(late) == "total"

Remaining(l, due) == due \ {First(l, due)}
Abandon(l, due) == {}                               \* mutant: the round ends here
RestAfterFailure(l, due) == Remaining(l, due)

(* The reads that must not fail a poll: phases, energy counters. *)
HasOptional(d) == d.kind = "pv" \/ (~d.sunspec /\ d.kind # "deye")

(* sunspec_discover(): once per slot; a layout of another unit that had    *)
(* the slot before reads nothing usable.                                   *)
Discovered(j, d) == [layout EXCEPT ![j] = IF d.sunspec THEN d.unit ELSE @]
Usable(j, d) == d.sunspec => layout[j] \in {"none", d.unit}

(* The value is committed under the slot that the device has in the        *)
(* worker's copy of the list; only a grid meter's steers the inverter.     *)
CommittedGrid(s, d) ==
  IF d.kind = "grid" THEN [unit |-> d.unit, of |-> OwnFrame(sk[s].late), new |-> TRUE] ELSE grid

(* poll_device(): all that a device must give was read. *)
PollAnswered(s) ==
  LET j == First(wk[s].devs, wk[s].due)
      d == wk[s].devs[j]
  IN  /\ wk[s].pc = "poll" /\ wk[s].due # {} /\ sk[s] # Closed
      /\ d.unit \in up /\ Usable(j, d)
      /\ layout' = Discovered(j, d)
      /\ valid' = valid \cup {j}
      /\ grid' = CommittedGrid(s, d)
      /\ wk' = [wk EXCEPT ![s].due = Remaining(wk[s].devs, @)]
      /\ \/ sk' = [sk EXCEPT ![s].late = "none"] /\ tcpFaults' = tcpFaults
         \/ /\ HasOptional(d) /\ tcpFaults < MaxTcpFaults /\ tcpFaults' = tcpFaults + 1
            /\ sk' = [sk EXCEPT ![s].late = "phases"]
      /\ UNCHANGED << devVars, io, fs, up >>

(* No answer, or nothing usable by the cached layout, which is forgotten:  *)
(* the socket is dropped, and rebuilt while others are still due.          *)
PollFailed(s) ==
  LET j == First(wk[s].devs, wk[s].due)
      d == wk[s].devs[j]
      rest == RestAfterFailure(wk[s].devs, wk[s].due)
  IN  /\ wk[s].pc = "poll" /\ wk[s].due # {} /\ sk[s] # Closed
      /\ d.unit \notin up \/ ~Usable(j, d)
      /\ layout' = [layout EXCEPT ![j] = IF d.sunspec THEN "none" ELSE @]
      /\ sk' = [sk EXCEPT ![s] = IF rest # {} THEN Connected(d.addr) ELSE Closed]
      /\ wk' = [wk EXCEPT ![s].due = rest]
      /\ UNCHANGED << devVars, io, fs, valid, grid, up, tcpFaults >>

(* Without a socket the rest of the round fails without any I/O. *)
PollSkipped(s) ==
  /\ wk[s].pc = "poll" /\ wk[s].due # {} /\ sk[s] = Closed
  /\ wk' = [wk EXCEPT ![s].due = Remaining(wk[s].devs, @)]
  /\ UNCHANGED << devVars, sk, io, fs, valid, layout, grid, up, tcpFaults >>

EndRound(s) ==
  /\ wk[s].pc = "poll" /\ wk[s].due = {}
  /\ wk' = [wk EXCEPT ![s].pc = "nap"]
  /\ io' = [io EXCEPT ![s] = "free"]
  /\ UNCHANGED << devVars, sk, fs, valid, layout, grid, up, tcpFaults >>

Worker(s) == Look(s) \/ Idle(s) \/ Begin(s) \/ NotDue(s) \/ PollAnswered(s)
             \/ PollFailed(s) \/ PollSkipped(s) \/ EndRound(s)

-----------------------------------------------------------------------------
(* modbus_tcp_borrow(): the slot that polls this address by the list of    *)
(* now, then its lock, then its socket.                                    *)
TcpAsk(a) ==
  /\ fs.pc = "idle" /\ At(list, a) # {}
  /\ fs' = [pc |-> "wait", slot |-> CHOOSE s \in At(list, a) : Owns(list, s), addr |-> a]
  /\ UNCHANGED << devVars, wk, sk, io, valid, layout, grid, up, tcpFaults >>

Borrow ==
  LET got == Kept(fs.slot, fs.addr)
  IN  /\ fs.pc = "wait" /\ io[fs.slot] = "free"
      /\ sk' = [sk EXCEPT ![fs.slot] = got]
      /\ io' = [io EXCEPT ![fs.slot] = IF got = Closed THEN "free" ELSE "fs"]
      /\ fs' = IF got = Closed THEN NoLoan ELSE [fs EXCEPT !.pc = "hold"]
      /\ UNCHANGED << devVars, wk, valid, layout, grid, up, tcpFaults >>

GiveUp ==
  /\ fs.pc = "wait" /\ io[fs.slot] # "free"
  /\ fs' = NoLoan
  /\ UNCHANGED << devVars, wk, sk, io, valid, layout, grid, up, tcpFaults >>

(* modbus_tcp_give_back(): after a transaction that failed a late answer   *)
(* may be on its way, and the socket is closed.                            *)
ReturnedSocket(broken) ==
  IF broken THEN [sk EXCEPT ![fs.slot] = Closed] ELSE [sk EXCEPT ![fs.slot].late = "none"]
GiveBack(broken) ==
  /\ fs.pc = "hold" /\ fs' = NoLoan
  /\ io' = [io EXCEPT ![fs.slot] = "free"]
  /\ sk' = ReturnedSocket(broken)
  /\ UNCHANGED << devVars, wk, valid, layout, grid, up, tcpFaults >>

-----------------------------------------------------------------------------
(* A unit falls silent or answers again. *)
Change(u) ==
  /\ tcpFaults < MaxTcpFaults /\ tcpFaults' = tcpFaults + 1
  /\ up' = IF u \in up THEN up \ {u} ELSE up \cup {u}
  /\ UNCHANGED << devVars, wk, sk, io, fs, valid, layout, grid >>

(* The grid value gets older. *)
TcpClock ==
  /\ grid.new /\ grid' = [grid EXCEPT !.new = FALSE]
  /\ UNCHANGED << devVars, wk, sk, io, fs, valid, layout, up, tcpFaults >>

Borrower == Borrow \/ GiveUp \/ \E b \in BOOLEAN : GiveBack(b)
TcpNext ==
  \/ \E s \in Slots : Worker(s)
  \/ ApplyList \/ Borrower \/ TcpClock
  \/ \E a \in Storages : TcpAsk(a)
  \/ \E l \in Lists : SaveList(l)
  \/ \E u \in Units : Change(u)

(* Tasks run; a lock that is free again and again is got, and the interval *)
(* of a device ends; a borrower gives back (its transactions time out).    *)
Runs(s) == Look(s) \/ PollAnswered(s) \/ PollFailed(s) \/ PollSkipped(s) \/ EndRound(s)
TcpFair ==
  /\ \A s \in Slots : WF_tcpVars(Runs(s)) /\ SF_tcpVars(Idle(s)) /\ SF_tcpVars(Begin(s))
  /\ WF_tcpVars(ApplyList) /\ WF_tcpVars(TcpClock)
  /\ WF_tcpVars(\E b \in BOOLEAN : GiveBack(b))
TcpSpec == TcpInit /\ [][TcpNext]_tcpVars /\ TcpFair

-----------------------------------------------------------------------------
(* What is asked, and by whom, goes to the device it is meant for: a       *)
(* worker has a socket to the address of every device it polls, by its own *)
(* copy of the list, and the borrower one to the inverter it asked for,    *)
(* however often the list is replaced in between.                          *)
OwnSocket ==
  /\ \A s \in Slots : wk[s].pc = "poll" /\ sk[s] # Closed =>
       \A t \in wk[s].due : wk[s].devs[t].addr = sk[s].addr
  /\ fs.pc = "hold" => sk[fs.slot].addr = fs.addr

(* So the value that steers the inverter is the answer to a read of the    *)
(* total power of a grid meter: of that meter's address, and never a late  *)
(* answer of another read or of a borrowed transaction on the same socket. *)
OwnAnswer == (grid # NoGrid => grid.of = "total") /\ OwnSocket

(* A grid meter that goes on answering is read again and again, whatever   *)
(* else is silent on its address and however often its socket is borrowed. *)
MeterOn(u) == u \in up /\ \E s \in Slots : list[s].unit = u /\ list[s].kind = "grid"
GridServed ==
  \A u \in {d.unit : d \in {d \in TcpDevices : d.kind = "grid"}} :
    <>[]MeterOn(u) => []<>(grid.unit = u /\ grid.new)
=============================================================================
