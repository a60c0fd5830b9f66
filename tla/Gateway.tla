------------------------------ MODULE Gateway ------------------------------
(***************************************************************************)
(* main/modbus_gw.c: the task that serves Modbus-TCP clients from the LAN. *)
(* A request is two pieces of the stream, [n, part]; a read of the socket  *)
(* yields any number of the pieces under way. Connections are numbered in  *)
(* the order they are made. The clock ticks once per GW_IDLE_MS.           *)
(***************************************************************************)
EXTENDS Integers, Sequences, FiniteSets, SequencesExt

CONSTANTS
  MaxConns,     \* bound: connections made
  MaxReqs,      \* bound: requests of a connection
  Clients,      \* 1..MB_GW_MAX_CLIENTS
  Limits,       \* values of gw_max_clients
  MaxSwitches   \* bound: settings saved

ASSUME GwAssumption ==
  /\ MaxConns \in Nat /\ MaxReqs \in Nat /\ MaxSwitches \in Nat
  /\ Clients \subseteq Nat /\ Limits \subseteq Nat \ {0}

Conns == 1..MaxConns
IdleMax == 1    \* GW_IDLE_MS in units of the clock

VARIABLES
  gwcfg,     \* mb_rtu_cfg_t: bridge on, producer meter on, gw_max_clients
  listening, \* lsock >= 0
  cl,        \* s_cl: the slots
  peer,      \* the other ends: state, requests sent, pieces under way, answers
  switches

gwVars == << gwcfg, listening, cl, peer, switches >>

FreeSlot == [fd |-> 0, buf |-> << >>, idle |-> 0]
NoPeer == [st |-> "none", sent |-> 0, wire |-> << >>, got |-> << >>]
Want == gwcfg.bridge \/ gwcfg.meter

GwInit ==
  /\ gwcfg \in [bridge : {TRUE}, meter : BOOLEAN, max : Limits]
  /\ listening = FALSE /\ cl = [s \in Clients |-> FreeSlot]
  /\ peer = [c \in Conns |-> NoPeer]
  /\ switches = 0

-----------------------------------------------------------------------------
(* The clients: they connect while the listener is up (the backlog), send  *)
(* a request for the bus or for the producer meter in two pieces, close,   *)
(* or vanish without a word.                                               *)
Connect(c) ==
  /\ listening /\ peer[c] = NoPeer /\ \A d \in Conns : d < c => peer[d].st # "none"
  /\ peer' = [peer EXCEPT ![c].st = "asking"]
  /\ UNCHANGED << gwcfg, listening, cl, switches >>

Send(c, unit) ==
  /\ peer[c].st = "open" /\ peer[c].sent < MaxReqs
  /\ peer' = [peer EXCEPT ![c].sent = @ + 1, ![c].wire = @ \o
                << [n |-> peer[c].sent + 1, unit |-> unit, part |-> 1],
                   [n |-> peer[c].sent + 1, unit |-> unit, part |-> 2] >>]
  /\ UNCHANGED << gwcfg, listening, cl, switches >>

Depart(c, how) ==
  /\ peer[c].st = "open" /\ peer' = [peer EXCEPT ![c].st = how]
  /\ UNCHANGED << gwcfg, listening, cl, switches >>

-----------------------------------------------------------------------------
(* gw_close(), gw_shutdown() *)
CloseSlots(S) ==
  /\ cl' = [s \in Clients |-> IF s \in S THEN FreeSlot ELSE cl[s]]
  /\ peer' = [c \in Conns |-> IF \E s \in S : cl[s].fd = c
                              THEN [peer[c] EXCEPT !.st = "closed", !.wire = << >>] ELSE peer[c]]

(* gw_task(): the listener follows the settings; a failed bind is retried. *)
StopListening ==
  /\ listening /\ ~Want /\ listening' = FALSE /\ CloseSlots(Clients)
  /\ UNCHANGED << gwcfg, switches >>
Rebind ==   \* another port, or select() failed
  /\ listening /\ Want /\ switches < MaxSwitches /\ switches' = switches + 1
  /\ listening' = FALSE /\ CloseSlots(Clients)
  /\ UNCHANGED << gwcfg >>
StartListening ==
  /\ ~listening /\ Want /\ listening' = TRUE
  /\ UNCHANGED << gwcfg, cl, peer, switches >>

Used == {s \in Clients : cl[s].fd # 0}
(* gw_accept(): over the limit, or no socket left: refused at once. *)
Accept(c) ==
  /\ listening /\ peer[c].st = "asking"
  /\ \/ \E s \in Clients \ Used :
          /\ \A t \in Clients \ Used : s <= t
          /\ Cardinality(Used) < gwcfg.max
          /\ cl' = [cl EXCEPT ![s] = [fd |-> c, buf |-> << >>, idle |-> 0]]
          /\ peer' = [peer EXCEPT ![c].st = "open"]
     \/ /\ peer' = [peer EXCEPT ![c].st = "closed"] /\ cl' = cl
        /\ Used = Clients \/ Cardinality(Used) >= gwcfg.max
  /\ UNCHANGED << gwcfg, listening, switches >>

-----------------------------------------------------------------------------
(* gw_serve(): the producer meter's unit is taken out before the routing,  *)
(* and is silent without a fresh measurement; everything else is answered, *)
(* by the bus or by a gateway exception in its place.                      *)
MaySilent(f) == f.unit = "meter" /\ gwcfg.meter
AnswersTo(f, silent) == [n |-> f.n, silent |-> silent /\ MaySilent(f)]

(* The frames of a buffer, and what is left of it. *)
Frames(buf) == [j \in 1..(Len(buf) \div 2) |-> buf[2 * j]]
DropRest(buf) == << >>                           \* mutant: the buffer is emptied
Rest(buf) == IF Len(buf) % 2 = 1 THEN << Last(buf) >> ELSE << >>

(* gw_recv(): every complete frame that this read yielded is served.       *)
Receive(s, k, silent) ==
  LET c == cl[s].fd
      buf == cl[s].buf \o SubSeq(peer[c].wire, 1, k)
      served == [i \in DOMAIN Frames(buf) |-> AnswersTo(Frames(buf)[i], silent)]
  IN  /\ cl[s].fd # 0 /\ k \in 1..Len(peer[c].wire)
      /\ cl' = [cl EXCEPT ![s].buf = Rest(buf), ![s].idle = 0]
      /\ peer' = [peer EXCEPT ![c].wire = SubSeq(@, k + 1, Len(@)), ![c].got = @ \o served]
      /\ UNCHANGED << gwcfg, listening, switches >>

(* The peer has closed, a send to it failed, or its header was no Modbus.  *)
Hangup(s) ==
  /\ cl[s].fd # 0 /\ peer[cl[s].fd].st = "left" /\ peer[cl[s].fd].wire = << >>
  /\ CloseSlots({s})
  /\ UNCHANGED << gwcfg, listening, switches >>

(* The idle reaper; the keepalive of lwIP ends a vanished peer as well.    *)
Reaped(s) == cl[s].fd # 0 /\ cl[s].idle >= IdleMax
ReapIdle(s) ==
  /\ Reaped(s) /\ peer[cl[s].fd].wire = << >> /\ CloseSlots({s})
  /\ UNCHANGED << gwcfg, listening, switches >>

GwClock ==
  /\ \E s \in Used : cl[s].idle < IdleMax
  /\ cl' = [s \in Clients |-> IF s \in Used /\ cl[s].idle < IdleMax
                              THEN [cl[s] EXCEPT !.idle = @ + 1] ELSE cl[s]]
  /\ UNCHANGED << gwcfg, listening, peer, switches >>

(* modbus_rtu_set_cfg() from the web page. *)
SetGwCfg(c) ==
  /\ switches < MaxSwitches /\ switches' = switches + 1 /\ gwcfg' = c
  /\ UNCHANGED << listening, cl, peer >>
GwTask(s) == Hangup(s) \/ ReapIdle(s)
             \/ \E k \in 1..(2 * MaxReqs), b \in BOOLEAN : Receive(s, k, b)
Listener == StopListening \/ StartListening \/ \E c \in Conns : Accept(c)
GwNext ==
  \/ \E s \in Clients : GwTask(s)
  \/ Listener \/ Rebind \/ GwClock
  \/ \E c \in Conns : Connect(c) \/ \E u \in {"bus", "meter"} : Send(c, u)
  \/ \E c \in Conns, h \in {"left", "gone"} : Depart(c, h)
  \/ \E b, m \in BOOLEAN : SetGwCfg([gwcfg EXCEPT !.bridge = b, !.meter = m])

GwSpec == GwInit /\ [][GwNext]_gwVars

-----------------------------------------------------------------------------
(* Every client is answered (or, for a meter without a measurement, not)   *)
(* for its own requests, in their order, none left out and none of an      *)
(* earlier client of its slot, however the stream is cut.                  *)
AnsweredInOrder == \A c \in Conns : \A i \in DOMAIN peer[c].got : peer[c].got[i].n = i
=============================================================================
