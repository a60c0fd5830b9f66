------------------------------ MODULE MCBus ------------------------------
(***************************************************************************)
(* The way of a setting to the inverter when it goes wrong, for TLC: the   *)
(* writer whose writes fail and who restarts (DeyeCtrl), and the bus its   *)
(* register accesses share with other tasks and the bridge (RtuBus). The   *)
(* writer sees of the bus only whether an access succeeded, so one run     *)
(* checks them part by part; the part at rest keeps one initial state.     *)
(***************************************************************************)
EXTENDS DeyeCtrl, RtuBus

VARIABLE part
ctrlVars == vars
wayVars == << ctrlVars, rtuVars, part >>

InWriter(A) == part = "writer" /\ A /\ UNCHANGED << rtuVars, part >>
InBus(A) == part = "bus" /\ A /\ UNCHANGED << ctrlVars, part >>

WayInit ==
  /\ part \in {"writer", "bus"} /\ Init /\ RtuInit
  /\ part = "writer" => \A b \in Buses : on[b]
WayNext == InWriter(Next) \/ InBus(RtuNext)

(* The fairness of both modules, each while its part runs.                 *)
WaySpec ==
  /\ WayInit /\ [][WayNext]_wayVars
  /\ WF_wayVars(InWriter(WakeUndo)) /\ WF_wayVars(InWriter(WakeExpired)) /\ WF_wayVars(InWriter(WakePending))
  /\ WF_wayVars(InWriter(WriteRegister)) /\ WF_wayVars(InWriter(EndWrite)) /\ WF_wayVars(InWriter(EndFallBack))
  /\ \A c \in Clients : WF_wayVars(InWriter(FinishApply(c))) /\ WF_wayVars(InWriter(FinishRetune(c)))
  /\ WF_wayVars(InWriter(GuardThrottle)) /\ WF_wayVars(InWriter(Tick))
  /\ WF_wayVars(InBus(BusTick)) /\ WF_wayVars(InBus(Gateway))
  /\ \A c \in Askers : WF_wayVars(InBus(Caller(c)))
  /\ \A b \in Buses : WF_wayVars(InBus(BusTask(b)))
=============================================================================
