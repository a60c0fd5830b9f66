------------------------------ MODULE MCBattery ------------------------------
(***************************************************************************)
(* Who sets the battery, for TLC: the calls that race for the writer's one *)
(* request (DeyeCtrl), and above it the manager, a session and the user,   *)
(* who each set a mode for their own time (BatteryArb). The manager sees   *)
(* of the writer only the mode it reports, so one run checks them part by  *)
(* part; the part at rest keeps one initial state.                         *)
(***************************************************************************)
EXTENDS DeyeCtrl, BatteryArb

VARIABLE part
ctrlVars == vars
setterVars == << ctrlVars, arbVars, part >>

\* the plans: a hold followed by a charge, and a charge that ends in normal operation
TwoPlans == { << "Hold", "Charge" >>, << "Charge", "Normal" >> }
OnOff == [mode : {"Off", "Auto"}, byd : {TRUE}]

InCtrl(A) == part = "ctrl" /\ A /\ UNCHANGED << arbVars, part >>
InArb(A) == part = "arb" /\ A /\ UNCHANGED << ctrlVars, part >>

SetterInit ==
  /\ part \in {"ctrl", "arb"} /\ Init /\ ArbInit
  /\ part = "ctrl" => settings.mode = "Off"
SetterNext == InCtrl(Next) \/ InArb(ArbNext)

(* The fairness of both modules, each while its part runs.                 *)
SetterSpec ==
  /\ SetterInit /\ [][SetterNext]_setterVars
  /\ WF_setterVars(InCtrl(WakeUndo)) /\ WF_setterVars(InCtrl(WakeExpired)) /\ WF_setterVars(InCtrl(WakePending))
  /\ WF_setterVars(InCtrl(WriteRegister)) /\ WF_setterVars(InCtrl(EndWrite)) /\ WF_setterVars(InCtrl(EndFallBack))
  /\ \A c \in Clients : WF_setterVars(InCtrl(FinishApply(c))) /\ WF_setterVars(InCtrl(FinishRetune(c)))
  /\ WF_setterVars(InCtrl(GuardThrottle)) /\ WF_setterVars(InCtrl(Tick))
  /\ WF_setterVars(InArb(Manager)) /\ WF_setterVars(InArb(Expire)) /\ WF_setterVars(InArb(SessionUndo \/ SessionRecord))
=============================================================================
