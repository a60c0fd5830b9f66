------------------------------- MODULE MCNet -------------------------------
(***************************************************************************)
(* What the device says and hears over Modbus, for TLC: the Modbus-TCP     *)
(* workers, the server, the producer meter, the meter the Deye sees, the   *)
(* operator's locks and the export guard. They meet only in the settings   *)
(* and in the time left of the Deye's lock, which MeterEmu lets be set at  *)
(* any moment and BatLock says when. So one run checks them part by part   *)
(* and spares the product of their states; the parts at rest keep one      *)
(* initial state.                                                          *)
(***************************************************************************)
EXTENDS TcpPoll, Gateway, FroniusMeter, MeterEmu, BatLock, SlsGuard

VARIABLE part
guardVars == vars
netVars == << tcpVars, gwVars, frmVars, meterVars, lockVars, guardVars, part >>

\* two meters on one gateway; an inverter that shares its address with its meter
ac   == [unit |-> "ac", addr |-> "A", kind |-> "acmeter", sunspec |-> FALSE]
gm   == [unit |-> "gm", addr |-> "A", kind |-> "grid", sunspec |-> FALSE]
symo == [unit |-> "symo", addr |-> "B", kind |-> "pv", sunspec |-> TRUE]
sm   == [unit |-> "sm", addr |-> "B", kind |-> "grid", sunspec |-> TRUE]
MCLists == {<< ac, gm >>, << symo, sm >>}

MCManips == {[mode |-> "abs", w |-> 9]}
MCWatts == {2}
MCOutputs == {-1, 1}

InTcp(A) == part = "tcp" /\ A /\ UNCHANGED << gwVars, frmVars, meterVars, lockVars, guardVars, part >>
InGw(A) == part = "gw" /\ A /\ UNCHANGED << tcpVars, frmVars, meterVars, lockVars, guardVars, part >>
InFrm(A) == part = "frm" /\ A /\ UNCHANGED << tcpVars, gwVars, meterVars, lockVars, guardVars, part >>
InMeter(A) == part = "meter" /\ A /\ UNCHANGED << tcpVars, gwVars, frmVars, lockVars, guardVars, part >>
InLocks(A) == part = "locks" /\ A /\ UNCHANGED << tcpVars, gwVars, frmVars, meterVars, guardVars, part >>
InGuard(A) == part = "guard" /\ A /\ UNCHANGED << tcpVars, gwVars, frmVars, meterVars, lockVars, part >>

NetInit ==
  /\ part \in {"tcp", "gw", "frm", "meter", "locks", "guard"}
  /\ TcpInit /\ GwInit /\ FrmInit /\ MeterInit /\ LockInit /\ Init
  /\ part # "tcp" => stored = << ac, gm >>
  /\ part # "gw" => gwcfg.meter
  /\ part # "frm" => enabled
  /\ part # "meter" => bridge = HoldS
  /\ part # "guard" => user = (CHOOSE u \in UserPowers : u >= PowerMin) /\ load = 0

NetNext ==
  \/ InTcp(TcpNext) \/ InGw(GwNext) \/ InFrm(FrmNext)
  \/ InMeter(MeterNext) \/ InLocks(LockNext) \/ InGuard(Next)

(* The fairness of TcpPoll and of SlsGuard, each while its part runs.       *)
NetSpec ==
  /\ NetInit /\ [][NetNext]_netVars
  /\ \A s \in Slots : /\ WF_tcpVars(InTcp(Runs(s)))
                      /\ SF_tcpVars(InTcp(Idle(s))) /\ SF_tcpVars(InTcp(Begin(s)))
  /\ WF_tcpVars(InTcp(ApplyList)) /\ WF_tcpVars(InTcp(TcpClock))
  /\ WF_tcpVars(InTcp(\E b \in BOOLEAN : GiveBack(b)))
  /\ WF_guardVars(InGuard(Guard))
=============================================================================
