----------------------------- MODULE BatteryArb -----------------------------
(***************************************************************************)
(* Who decides over the Deye battery: the energy manager carrying out its  *)
(* plan (main/energy_mgr.c), the operator's timed sessions from the web    *)
(* page (main/deye_force.c), and the user at the display or over MQTT, all *)
(* through deye_ctrl, here reduced to the request it holds and its time    *)
(* limit. A read another task decides on is a step apart from the call it  *)
(* leads to, as other tasks run in between.                                *)
(***************************************************************************)
EXTENDS Naturals, Sequences

CONSTANTS
  Powers,        \* powers callers ask for
  Plans,         \* plans the planner may return: sequences of acts, one per slot
  SlotTicks,     \* manager ticks per planned slot
  Margin,        \* ticks a charge may outlast its block (600 s)
  UserLimit,     \* DEYE_FORCE_MAX_S, in ticks
  AutoLimit,     \* DEYE_AUTO_MAX_S, in ticks
  SessionTicks,  \* session lengths the operator may choose, in ticks
  Settings,      \* settings the user may choose: [mode, byd]
  End,           \* bound: ticks in one behaviour; then every limit has passed
  MaxAsks        \* bound: calls from the user, the operator and the settings

ASSUME ArbAssumption ==
  /\ Powers \subseteq Nat /\ SlotTicks \in Nat \ {0}
  /\ Plans \subseteq Seq({"Normal", "Charge", "Hold"})
  /\ Margin \in Nat /\ UserLimit \in Nat /\ AutoLimit \in Nat
  /\ UserLimit <= AutoLimit
  /\ Settings \subseteq [mode : {"Off", "Show", "Auto"}, byd : BOOLEAN]
  /\ SessionTicks \subseteq Nat \ {0} /\ End \in Nat /\ MaxAsks \in Nat

Forced == {"Charge", "Discharge"}
ArbModes == Forced \cup {"Normal"}

VARIABLES
  now,           \* time in ticks
  req,           \* what deye_ctrl holds: [mode, power, due, by]; "by" is who asked
  session,       \* deye_force's s_f: [mode, w, until], mode "Off" = none
  web,           \* a deye_force_set() between its apply and its record
  settings,      \* em_cfg: the mode, and whether the BYD may be blocked
  plan, planAt,  \* s_plan and the slot of its first entry
  own,           \* [charge, power, hold, byd]: s_own_charge, s_own_power, s_own_byd, and
                 \* s_own_hold, which is set and cleared with the hold itself
  blockEnd, pausedUntil,   \* s_block_end, s_paused_until
  byd,           \* the discharge of the Fronius battery is blocked
  pc, todo,      \* where the manager's task is, and what this round works with
  seen,          \* nobody else has called since the task last looked
  asks           \* how much of MaxAsks is used

others == << now, req, session, web, settings, seen, asks >>   \* not the task's own
acting == << plan, planAt, own, blockEnd, pausedUntil, byd, todo >>
arbVars == << others, acting, pc >>

None    == [mode |-> "Off", w |-> 0, until |-> 0]
NoCall  == [kind |-> "none", f |-> None]
Nothing == [f |-> None, act |-> "None", end |-> 0, mode |-> "Off", byd |-> FALSE]

ArbInit ==
  /\ now = 0 /\ asks = 0
  /\ req = [mode |-> "Normal", power |-> 0, due |-> 0, by |-> "boot"]
  /\ session = None /\ web = NoCall
  /\ settings \in Settings
  /\ plan = <<>> /\ planAt = 0
  /\ own = [charge |-> FALSE, power |-> 0, hold |-> FALSE, byd |-> FALSE]
  /\ blockEnd = 0 /\ pausedUntil = 0
  /\ byd = FALSE
  /\ pc = "wait" /\ todo = Nothing /\ seen = TRUE

-----------------------------------------------------------------------------
(* deye_ctrl_apply() and deye_ctrl_apply_auto(), which shortens the limit, *)
(* and the fallback when the limit is over.                                *)
Shortened(limit) == IF limit > AutoLimit THEN AutoLimit ELSE limit

Apply(m, p, limit, who) ==
  req' = [mode |-> m, power |-> p, due |-> now + Shortened(limit), by |-> who]

Expire ==
  /\ req.mode # "Normal" /\ (now > req.due \/ now = End)
  /\ req' = [req EXCEPT !.mode = "Normal", !.by = "ctrl"]
  /\ UNCHANGED << now, session, web, settings, seen, asks, acting, pc >>

Ask == asks < MaxAsks /\ asks' = asks + 1

(* The display, MQTT or Home Assistant. *)
UserAsks(m, p) ==
  /\ Ask
  /\ Apply(m, p, UserLimit, "user") /\ seen' = FALSE
  /\ UNCHANGED << now, session, web, settings, acting, pc >>

(* deye_force_set(): apply first, record the session after it. *)
SessionApply(m, p, t) ==
  /\ Ask /\ web = NoCall
  /\ Apply(m, p, t, "session") /\ seen' = FALSE
  /\ web' = [kind |-> "set", f |-> [mode |-> m, w |-> p, until |-> now + t]]
  /\ UNCHANGED << now, session, settings, acting, pc >>

(* finish(): Normal, if the mode was still f's at the look before the call. *)
Normalise == Apply("Normal", req.power, UserLimit, "finish")

Same(f) == session.mode = f.mode /\ session.until = f.until
Forget(f) == session' = IF Same(f) THEN None ELSE session

(* deye_force_set(DEYE_FORCE_OFF): the same finish() on the web server's task. *)
SessionStop ==
  /\ Ask /\ web = NoCall /\ session # None
  /\ web' = [kind |-> IF req.mode = session.mode THEN "undo" ELSE "stop", f |-> session]
  /\ UNCHANGED << now, req, session, settings, seen, acting, pc >>

SessionUndo ==
  /\ web.kind = "undo" /\ web' = [web EXCEPT !.kind = "stop"]
  /\ Normalise /\ seen' = FALSE
  /\ UNCHANGED << now, session, settings, asks, acting, pc >>

SessionRecord ==
  /\ \/ web.kind = "set" /\ session' = web.f
     \/ web.kind = "stop" /\ Forget(web.f)
  /\ web' = NoCall
  /\ UNCHANGED << now, req, settings, seen, asks, acting, pc >>

(* em_mgr_set_mode() and the settings page. *)
Configure(s) ==
  /\ Ask /\ s # settings /\ settings' = s
  /\ UNCHANGED << now, req, session, web, seen, acting, pc >>

-----------------------------------------------------------------------------
(* One round of em_task(): deye_force_tick(), a new plan, act().           *)

Wake ==
  /\ pc = "wait" /\ pc' = "session"
  /\ now' = IF now < End THEN now + 1 ELSE now
  /\ UNCHANGED << req, session, web, settings, seen, asks, acting >>

StillOurs(f) == req.mode = f.mode /\ req.power = f.w

(* deye_force_tick(): a session that somebody else changed ends without a  *)
(* write, one whose time or target SoC is reached goes back to Normal. The *)
(* SoC may reach the target at any tick.                                   *)
SessionCheck ==
  /\ pc = "session"
  /\ \/ /\ \/ session.mode = "Off"
           \/ StillOurs(session) /\ now < session.until /\ now < End
        /\ pc' = "plan" /\ UNCHANGED << session, todo, seen >>
     \/ /\ session.mode # "Off" /\ ~StillOurs(session)
        /\ session' = None /\ pc' = "plan" /\ UNCHANGED << todo, seen >>
     \/ /\ session.mode # "Off" /\ StillOurs(session)     \* time or SoC
        /\ todo' = [Nothing EXCEPT !.f = session] /\ seen' = TRUE
        /\ pc' = "finish" /\ UNCHANGED session
  /\ UNCHANGED << now, req, web, settings, asks, plan, planAt, own, blockEnd,
                  pausedUntil, byd >>

(* The mode was f's at SessionCheck, so the look may have been before any   *)
(* call since, and then Normal replaces that call's mode.                  *)
SessionFinish ==
  /\ pc = "finish" /\ pc' = "plan"
  /\ Normalise \/ (req.mode # todo.f.mode /\ UNCHANGED req)
  /\ Forget(todo.f) /\ todo' = Nothing
  /\ UNCHANGED << now, web, settings, seen, asks, plan, planAt, own, blockEnd,
                  pausedUntil, byd >>

Slot == now \div SlotTicks

(* The settings are read once per round. A new plan is made at every new   *)
(* slot, and in any round in which a feed or the user asks for one; without *)
(* prices or an answering Deye it is empty. OFF drops the plan and lets go. *)
Replan ==
  /\ pc = "plan" /\ todo' = [Nothing EXCEPT !.mode = settings.mode, !.byd = settings.byd]
  /\ \/ /\ settings.mode = "Off"
        /\ plan' = <<>> /\ pc' = "release" /\ UNCHANGED planAt
     \/ /\ settings.mode # "Off" /\ Slot = planAt
        /\ pc' = "act" /\ UNCHANGED << plan, planAt >>
     \/ /\ settings.mode # "Off"
        /\ planAt' = Slot /\ plan' \in Plans \cup {<<>>}
        /\ pc' = "act"
  /\ UNCHANGED << others, own, blockEnd, pausedUntil, byd >>

(* act(): the planned act of this slot and the end of its block. *)
Index   == Slot - planAt + 1
Planned == Index \in 1..Len(plan)
BlockLast == CHOOSE j \in Index..Len(plan) :
               /\ \A k \in Index..j : plan[k] = plan[Index]
               /\ j < Len(plan) => plan[j + 1] # plan[Index]
PlannedEnd == IF Planned THEN (planAt + BlockLast) * SlotTicks ELSE now

Takeover ==
  own.charge /\ (session.mode # "Off" \/ req.mode # "Charge" \/ req.power # own.power)

Pause == IF blockEnd > now THEN blockEnd ELSE now + 4 * SlotTicks

NeverOff == FALSE                         \* mutant: a manual forced mode is ignored
HandsOff == req.mode # "Normal"

(* The decision: let go, charge, hold or normal, from what is read here. *)
Decide ==
  LET paused == IF Takeover THEN Pause ELSE pausedUntil
      mine   == own.charge /\ ~Takeover
      free   == todo.mode = "Auto" /\ now >= paused /\ Planned /\ (mine \/ ~HandsOff)
      act    == IF free THEN plan[Index] ELSE "None" IN
  /\ pc = "act" /\ seen' = TRUE
  /\ pausedUntil' = paused
  /\ todo' = [todo EXCEPT !.act = act, !.end = PlannedEnd]
  /\ own' = [own EXCEPT !.charge = mine, !.hold = own.hold /\ act # "Charge"]
  /\ \/ act = "Charge" /\ pc' = IF ~mine \/ blockEnd # PlannedEnd THEN "charge" ELSE "byd"
     \/ act = "Hold" /\ pc' = IF mine THEN "release" ELSE "hold"
     \/ act \notin {"Charge", "Hold"} /\ pc' = "release"
  /\ UNCHANGED << now, req, session, web, settings, asks, plan, planAt, blockEnd, byd >>

(* release(): Normal if the charge is still ours, then the hold and the BYD. *)
ReleaseNever == FALSE                     \* mutant: the charge is only forgotten
OurCharge == own.charge /\ req.mode = "Charge" /\ req.power = own.power

ReleaseCheck ==
  /\ pc = "release" /\ pc' = IF OurCharge THEN "undo" ELSE "letgo"
  /\ UNCHANGED << others, acting >>

ReleaseUndo ==
  /\ pc = "undo" /\ pc' = "letgo"
  /\ Apply("Normal", req.power, UserLimit, "manager")
  /\ UNCHANGED << now, session, web, settings, seen, asks, acting >>

KeepByd == byd                            \* mutant: the BYD block is not lifted
LiftByd == byd /\ ~own.byd

LetGo ==
  /\ pc = "letgo" /\ pc' = IF todo.act = "Hold" THEN "hold" ELSE "wait"
  /\ own' = [own EXCEPT !.charge = FALSE, !.hold = FALSE, !.byd = FALSE]
  /\ byd' = LiftByd
  /\ todo' = IF todo.act = "Hold" THEN todo ELSE Nothing
  /\ UNCHANGED << others, plan, planAt, blockEnd, pausedUntil >>

Hold ==
  /\ pc = "hold" /\ pc' = "byd"
  /\ own' = [own EXCEPT !.hold = TRUE]
  /\ blockEnd' = todo.end
  /\ UNCHANGED << others, plan, planAt, pausedUntil, byd, todo >>

(* deye_ctrl_apply_auto(), then s_own_power is read back from deye_ctrl. *)
ChargeApply ==
  /\ pc = "charge" /\ pc' = "record"
  /\ \E p \in Powers : Apply("Charge", p, todo.end - now + Margin, "manager")
  /\ UNCHANGED << now, session, web, settings, seen, asks, acting >>

ChargeRecord ==
  /\ pc = "record" /\ pc' = "byd"
  /\ own' = [own EXCEPT !.charge = TRUE, !.power = req.power]
  /\ blockEnd' = todo.end
  /\ UNCHANGED << others, plan, planAt, pausedUntil, byd, todo >>

(* Charging or holding blocks the discharge of the BYD, if the user allowed it. *)
BlockByd ==
  /\ pc = "byd" /\ pc' = "wait"
  /\ byd' = (todo.byd \/ LiftByd)
  /\ own' = [own EXCEPT !.byd = todo.byd]
  /\ todo' = Nothing
  /\ UNCHANGED << others, plan, planAt, blockEnd, pausedUntil >>

Manager == \/ Wake \/ SessionCheck \/ SessionFinish \/ Replan \/ Decide
           \/ ReleaseCheck \/ ReleaseUndo \/ LetGo \/ Hold
           \/ ChargeApply \/ ChargeRecord \/ BlockByd

(* The route of the web page: start a session, or stop the running one. *)
SessionPage ==
  SessionStop \/ \E m \in Forced, p \in Powers, t \in SessionTicks : SessionApply(m, p, t)

ArbNext ==
  \/ Manager \/ Expire \/ SessionPage \/ SessionUndo \/ SessionRecord
  \/ \E s \in Settings : Configure(s)
  \/ \E m \in ArbModes, p \in Powers : UserAsks(m, p)

ArbSpec == ArbInit /\ [][ArbNext]_arbVars
        /\ WF_arbVars(Manager) /\ WF_arbVars(Expire) /\ WF_arbVars(SessionUndo \/ SessionRecord)

-----------------------------------------------------------------------------
(* The manager's task replaces a forced mode only if it has its own mode   *)
(* and power, unless somebody called after the task last looked: a charge  *)
(* with another power, a discharge and a session are left alone.           *)
NoKnownOverwrite ==
  [][seen /\ pc \in {"finish", "undo", "charge"} /\ pc' # pc /\ req.mode # "Normal"
     => \/ UNCHANGED req
        \/ pc = "finish" /\ StillOurs(todo.f)
        \/ pc \in {"undo", "charge"} /\ OurCharge]_arbVars

(* A charge the manager asked for and that is still in force is known to   *)
(* it, or it ends by itself with the pause that followed when the manager  *)
(* took a session for a takeover.                                          *)
NoOrphan ==
  req.mode = "Charge" /\ req.by = "manager" =>
    own.charge \/ pc = "record" \/ req.due <= pausedUntil + Margin

(* If AUTO stays off, the manager's charge, hold and BYD block end, and so *)
(* do all sessions and forced modes.                                       *)
FreeAgain ==
  <>[](settings.mode # "Auto") =>
    <>[](req.mode = "Normal" /\ session = None /\ ~byd
         /\ ~own.charge /\ ~own.hold /\ ~own.byd)
=============================================================================
