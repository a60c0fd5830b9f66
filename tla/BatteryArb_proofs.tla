------------------------- MODULE BatteryArb_proofs -------------------------
(***************************************************************************)
(* Proofs about BatteryArb for any plans, powers, session lengths, limits  *)
(* and settings, and for any number of calls from the user, the operator   *)
(* and the settings page.                                                  *)
(***************************************************************************)
EXTENDS BatteryArb, Integers, TLAPS, WellFoundedInduction

Sessions == [mode : Forced \cup {"Off"}, w : Nat, until : Int]
Acts     == {"Normal", "Charge", "Hold"}
Askers   == {"boot", "user", "session", "finish", "manager", "ctrl"}

ReqType == [mode : ArbModes, power : Nat, due : Int, by : Askers]
OwnType == [charge : BOOLEAN, power : Nat, hold : BOOLEAN, byd : BOOLEAN]
JobType == [f : Sessions, act : Acts \cup {"None"}, end : Int,
            mode : {"Off", "Show", "Auto"}, byd : BOOLEAN]

ArbType ==
  /\ req \in ReqType /\ own \in OwnType /\ todo \in JobType
  /\ session \in Sessions /\ web \in [kind : {"none", "set", "undo", "stop"}, f : Sessions]
  /\ settings \in Settings /\ plan \in Seq(Acts)
  /\ now \in Nat /\ planAt \in Nat /\ blockEnd \in Int /\ pausedUntil \in Int

(* While nobody has called since the task looked, the forced mode it is    *)
(* about to replace is the one it looked at.                               *)
Known ==
  seen /\ req.mode # "Normal" =>
    /\ pc = "finish" => StillOurs(todo.f)
    /\ pc \in {"undo", "charge"} => OurCharge

(* Where a charge of the manager's stands: just asked for; recorded, up to *)
(* the end of its block; or let go, up to the end of the pause.            *)
ByManager == req.mode = "Charge" /\ req.by = "manager"
JustAsked == pc = "record" /\ req.due <= todo.end + Margin
Recorded  == /\ pc \notin {"record", "letgo", "hold"}
             /\ own.charge /\ req.power = own.power /\ req.due <= blockEnd + Margin
InPause   == pc # "record" /\ ~own.charge /\ req.due <= pausedUntil + Margin
ChargeAt  == ByManager => JustAsked \/ Recorded \/ InPause

IInv == ArbType /\ Known /\ ChargeAt

LEMMA Constants ==
  /\ Powers \subseteq Nat /\ SlotTicks \in Nat \ {0} /\ Plans \subseteq Seq(Acts)
  /\ Margin \in Nat /\ UserLimit \in Nat /\ AutoLimit \in Nat
  /\ Settings \subseteq [mode : {"Off", "Show", "Auto"}, byd : BOOLEAN]
  /\ SessionTicks \subseteq Nat /\ End \in Nat /\ MaxAsks \in Nat
BY ArbAssumption DEF Acts

(* A set of numbers that is not empty has a least one. *)
LEMMA Least ==
  ASSUME NEW T, T \subseteq Nat, T # {}
  PROVE  \E x \in T : \A y \in T : x <= y
<1> DEFINE R == OpToRel(<, Nat)
<1>1. IsWellFoundedOn(R, Nat)
  BY NatLessThanWellFounded
<1>2. PICK x \in T : \A y \in T : ~ (<< y, x >> \in R)
  <2> HIDE DEF R
  <2> QED BY <1>1, WFMin
<1>3. SUFFICES ASSUME NEW y \in T PROVE x <= y
  OBVIOUS
<1>4. x \in Nat /\ y \in Nat
  OBVIOUS
<1>5. y < x => << y, x >> \in R
  BY <1>4 DEF OpToRel
<1> HIDE DEF R
<1> QED
  BY <1>2, <1>4, <1>5

(* The end of a block is a time: the run of equal acts does end. *)
LEMMA EndIsTime ==
  ASSUME ArbType
  PROVE  PlannedEnd \in Int
<1> USE Constants DEF ArbType
<1>1. Slot \in Nat /\ Index \in Int /\ Len(plan) \in Nat
  BY DEF Slot, Index
<1>2. CASE ~Planned
  BY <1>2 DEF PlannedEnd
<1>3. CASE Planned
  <2> DEFINE last(j) == \/ j = Len(plan)
                        \/ plan[j + 1] # plan[Index]
             T == {j \in Index..Len(plan) : last(j)}
  <2>1. Index \in 1..Len(plan)
    BY <1>3 DEF Planned
  <2>2. T \subseteq Nat /\ Len(plan) \in T
    BY <1>1, <2>1
  <2>3. PICK j \in T : \A y \in T : j <= y
    <3> HIDE DEF T
    <3> QED BY <2>2, Least
  <2>4. ASSUME NEW k \in Index..j PROVE plan[k] = plan[Index]
    <3>1. CASE k = Index
      BY <3>1
    <3>2. CASE k # Index
      <4>1. k - 1 \in Index..Len(plan) /\ k - 1 < j
        BY <1>1, <2>1, <3>2, <2>4
      <4>2. k - 1 \notin T
        <5>1. j \in Nat /\ k - 1 \in Int /\ ~ (j <= k - 1)
          BY <4>1, <2>2, <1>1, <2>4
        <5> HIDE DEF T
        <5> QED BY <5>1, <2>3
      <4>3. plan[(k - 1) + 1] = plan[Index]
        BY <4>1, <4>2
      <4>4. (k - 1) + 1 = k
        BY <1>1, <2>1, <2>4
      <4> QED BY <4>3, <4>4
    <3> QED BY <3>1, <3>2
  <2>5. j \in Index..Len(plan) /\ (j < Len(plan) => plan[j + 1] # plan[Index])
    BY <2>3, <1>1, <2>1
  <2>6. BlockLast \in Index..Len(plan)
    BY <2>4, <2>5 DEF BlockLast
  <2>7. BlockLast \in Int
    BY <2>6, <1>1
  <2> QED
    BY <2>7, <1>3 DEF PlannedEnd
<1> QED
  BY <1>2, <1>3

-----------------------------------------------------------------------------
LEMMA InitIInv == ArbInit => IInv
<1> SUFFICES ASSUME ArbInit PROVE IInv
  OBVIOUS
<1>1. ArbType
  BY Constants DEF ArbInit, ArbType, ReqType, OwnType, JobType, Sessions, Acts, ArbModes, Forced, Askers,
                   None, NoCall, Nothing
<1>2. Known /\ ChargeAt
  BY DEF ArbInit, Known, ChargeAt, ByManager
<1> QED
  BY <1>1, <1>2 DEF IInv

(* What Apply asks for; a limit is only ever shortened. *)
LEMMA Asked ==
  ASSUME ArbType, NEW m \in ArbModes, NEW p \in Nat, NEW limit \in Int, NEW who \in Askers,
         Apply(m, p, limit, who)
  PROVE  /\ req' \in ReqType /\ req'.mode = m /\ req'.power = p /\ req'.by = who
         /\ req'.due <= now + limit
<1>1. Shortened(limit) \in Int /\ Shortened(limit) <= limit
  BY Constants DEF Shortened
<1> QED
  BY <1>1 DEF Apply, ArbType, ReqType

LEMMA Normalised ==
  ASSUME ArbType, Normalise
  PROVE  req' \in ReqType /\ req'.mode = "Normal" /\ req'.by = "finish"
<1>1. "Normal" \in ArbModes /\ req.power \in Nat /\ UserLimit \in Int /\ "finish" \in Askers
  BY Constants DEF ArbType, ReqType, ArbModes, Askers
<1> QED
  BY <1>1, Asked DEF Normalise

(* Calls from outside: nothing of the manager's changes but what deye_ctrl *)
(* holds, and then the task has not seen it.                               *)
LEMMA OutsideStep ==
  ASSUME IInv, ArbType',
         UNCHANGED << pc, todo, own, plan, planAt, blockEnd, pausedUntil >>,
         \/ UNCHANGED req /\ (seen' => seen)
         \/ ~ByManager' /\ (seen' => req'.mode = "Normal")
  PROVE  IInv'
<1>1. Known'
  BY DEF IInv, Known, StillOurs, OurCharge
<1>2. ChargeAt'
  BY DEF IInv, ChargeAt, ByManager, JustAsked, Recorded, InPause
<1> QED
  BY <1>1, <1>2 DEF IInv

(* What a round of the task starts with, and what it takes along. *)
LEMMA Rounds ==
  /\ None \in Sessions /\ Nothing \in JobType
  /\ \A f \in Sessions : [Nothing EXCEPT !.f = f] \in JobType
  /\ \A s \in Settings : [Nothing EXCEPT !.mode = s.mode, !.byd = s.byd] \in JobType
<1>1. None \in Sessions
  BY DEF None, Sessions
<1>2. Nothing \in JobType
  BY <1>1 DEF Nothing, JobType, Acts
<1>3. ASSUME NEW f \in Sessions PROVE [Nothing EXCEPT !.f = f] \in JobType
  BY <1>2 DEF JobType
<1>4. ASSUME NEW s \in Settings PROVE [Nothing EXCEPT !.mode = s.mode, !.byd = s.byd] \in JobType
  <2>1. s.mode \in {"Off", "Show", "Auto"} /\ s.byd \in BOOLEAN
    BY Constants
  <2> QED BY <1>2, <2>1 DEF JobType
<1> QED
  BY <1>1, <1>2, <1>3, <1>4

LEMMA OutsideSteps ==
  ASSUME IInv,
         \/ Expire \/ SessionPage \/ SessionUndo \/ SessionRecord
         \/ \E s \in Settings : Configure(s)
         \/ \E m \in ArbModes, p \in Powers : UserAsks(m, p)
  PROVE  IInv'
<1> USE Constants
<1>0. ArbType
  BY DEF IInv
<1>1. CASE Expire
  <2>1. req' \in ReqType /\ req'.mode = "Normal"
    BY <1>0, <1>1 DEF Expire, ArbType, ReqType, ArbModes, Askers
  <2>2. ArbType'
    BY <1>0, <1>1, <2>1 DEF Expire, ArbType, acting
  <2> QED
    BY <1>1, <2>1, <2>2, OutsideStep DEF Expire, acting, ByManager
<1>2. ASSUME NEW m \in ArbModes, NEW p \in Powers, UserAsks(m, p) PROVE IInv'
  <2>1. req' \in ReqType /\ req'.by = "user"
    <3>1. p \in Nat /\ UserLimit \in Int /\ "user" \in Askers
      BY DEF Askers
    <3> QED BY <1>0, <1>2, <3>1, Asked DEF UserAsks
  <2>2. ArbType'
    BY <1>0, <1>2, <2>1 DEF UserAsks, ArbType, acting
  <2> QED
    BY <1>2, <2>1, <2>2, OutsideStep DEF UserAsks, acting, ByManager
<1>3. ASSUME NEW m \in Forced, NEW p \in Powers, NEW t \in SessionTicks, SessionApply(m, p, t)
      PROVE IInv'
  <2>1. req' \in ReqType /\ req'.by = "session"
    <3>1. m \in ArbModes /\ p \in Nat /\ t \in Int /\ "session" \in Askers
      BY DEF Askers, ArbModes
    <3> QED BY <1>0, <1>3, <3>1, Asked DEF SessionApply
  <2>2. web' \in [kind : {"none", "set", "undo", "stop"}, f : Sessions]
    BY <1>0, <1>3 DEF SessionApply, ArbType, Sessions
  <2>3. ArbType'
    BY <1>0, <1>3, <2>1, <2>2 DEF SessionApply, ArbType, acting
  <2> QED
    BY <1>3, <2>1, <2>3, OutsideStep DEF SessionApply, acting, ByManager
<1>4. CASE SessionStop
  <2>1. web' \in [kind : {"none", "set", "undo", "stop"}, f : Sessions]
    BY <1>0, <1>4 DEF SessionStop, ArbType
  <2>2. ArbType'
    BY <1>0, <1>4, <2>1 DEF SessionStop, ArbType, acting
  <2> QED
    BY <1>4, <2>2, OutsideStep DEF SessionStop, acting
<1>7. CASE SessionUndo
  <2>1. req' \in ReqType /\ req'.mode = "Normal"
    BY <1>0, <1>7, Normalised DEF SessionUndo
  <2>2. web' \in [kind : {"none", "set", "undo", "stop"}, f : Sessions]
    BY <1>0, <1>7 DEF SessionUndo, ArbType
  <2>3. ArbType'
    BY <1>0, <1>7, <2>1, <2>2 DEF SessionUndo, ArbType, acting
  <2> QED
    BY <1>7, <2>1, <2>3, OutsideStep DEF SessionUndo, acting, ByManager
<1>5. CASE SessionRecord
  <2>1. session' \in Sessions /\ web' \in [kind : {"none", "set", "undo", "stop"}, f : Sessions]
    BY <1>0, <1>5 DEF SessionRecord, ArbType, Sessions, Forget, None, NoCall
  <2>2. ArbType'
    BY <1>0, <1>5, <2>1 DEF SessionRecord, ArbType, acting
  <2> QED
    BY <1>5, <2>2, OutsideStep DEF SessionRecord, acting
<1>6. ASSUME NEW s \in Settings, Configure(s) PROVE IInv'
  <2>1. ArbType'
    BY <1>0, <1>6 DEF Configure, ArbType, acting
  <2> QED
    BY <1>6, <2>1, OutsideStep DEF Configure, acting
<1> QED
  BY <1>1, <1>2, <1>3, <1>4, <1>5, <1>6, <1>7 DEF SessionPage

(* The steps of the manager's task that leave deye_ctrl alone and are not  *)
(* about to replace what it holds.                                         *)
LEMMA QuietSteps ==
  ASSUME IInv, Wake \/ SessionCheck \/ Replan \/ LetGo \/ Hold \/ BlockByd
  PROVE  IInv'
<1> USE Constants
<1>0. ArbType
  BY DEF IInv
<1>1. CASE Wake
  <2>1. now' \in Nat
    BY <1>0, <1>1 DEF Wake, ArbType
  <2>2. ArbType'
    BY <1>0, <1>1, <2>1 DEF Wake, ArbType, acting
  <2> QED
    BY <1>1, <2>2 DEF IInv, Wake, acting, Known, ChargeAt, ByManager, JustAsked, Recorded, InPause
<1>2. CASE SessionCheck
  <2>1. session' \in Sessions /\ todo' \in JobType
    BY <1>0, <1>2, Rounds DEF SessionCheck, ArbType
  <2>2. ArbType'
    BY <1>0, <1>2, <2>1 DEF SessionCheck, ArbType
  <2>3. Known'
    BY <1>0, <1>2 DEF IInv, SessionCheck, Known, StillOurs, Nothing
  <2>4. ChargeAt'
    BY <1>2 DEF IInv, SessionCheck, ChargeAt, ByManager, JustAsked, Recorded, InPause
  <2> QED
    BY <2>2, <2>3, <2>4 DEF IInv
<1>3. CASE Replan
  <2>1. todo' \in JobType
    BY <1>0, <1>3, Rounds DEF Replan, ArbType
  <2>2. plan' \in Seq(Acts) /\ planAt' \in Nat
    <3>1. Slot \in Nat /\ << >> \in Seq(Acts)
      BY <1>0 DEF ArbType, Slot
    <3> QED BY <1>0, <1>3, <3>1 DEF Replan, ArbType
  <2>3. ArbType'
    BY <1>0, <1>3, <2>1, <2>2 DEF Replan, ArbType, others
  <2> QED
    BY <1>3, <2>3 DEF IInv, Replan, others, Known, ChargeAt, ByManager, JustAsked, Recorded, InPause
<1>4. CASE LetGo
  <2>1. own' \in OwnType /\ todo' \in JobType /\ own'.charge = FALSE
    <3>1. own' \in OwnType /\ own'.charge = FALSE
      BY <1>0, <1>4 DEF LetGo, ArbType, OwnType
    <3>2. todo' \in JobType
      BY <1>0, <1>4, Rounds DEF LetGo, ArbType
    <3> QED BY <3>1, <3>2
  <2>2. ArbType'
    BY <1>0, <1>4, <2>1 DEF LetGo, ArbType, others
  <2> QED
    BY <1>4, <2>1, <2>2 DEF IInv, LetGo, others, Known, ChargeAt, ByManager, JustAsked, Recorded, InPause
<1>5. CASE Hold
  <2>1. own' \in OwnType /\ own'.charge = own.charge /\ own'.power = own.power /\ blockEnd' \in Int
    BY <1>0, <1>5 DEF Hold, ArbType, OwnType, JobType
  <2>2. ArbType'
    BY <1>0, <1>5, <2>1 DEF Hold, ArbType, others
  <2> QED
    BY <1>5, <2>1, <2>2 DEF IInv, Hold, others, Known, ChargeAt, ByManager, JustAsked, Recorded, InPause
<1>6. CASE BlockByd
  <2>1. own' \in OwnType /\ own'.charge = own.charge /\ own'.power = own.power /\ todo' \in JobType
    <3>1. todo.byd \in BOOLEAN /\ todo' \in JobType
      BY <1>0, <1>6, Rounds DEF BlockByd, ArbType, JobType
    <3>2. own' = [own EXCEPT !.byd = todo.byd]
      BY <1>6 DEF BlockByd
    <3> QED BY <1>0, <3>1, <3>2 DEF ArbType, OwnType
  <2>2. ArbType'
    BY <1>0, <1>6, <2>1 DEF BlockByd, ArbType, others
  <2> QED
    BY <1>6, <2>1, <2>2 DEF IInv, BlockByd, others, Known, ChargeAt, ByManager, JustAsked, Recorded, InPause
<1> QED
  BY <1>1, <1>2, <1>3, <1>4, <1>5, <1>6

(* The steps that give a mode back, or find out whether to. *)
LEMMA GiveBackSteps ==
  ASSUME IInv, SessionFinish \/ ReleaseCheck \/ ReleaseUndo
  PROVE  IInv'
<1> USE Constants
<1>0. ArbType
  BY DEF IInv
<1>1. CASE SessionFinish
  <2>1. UNCHANGED req \/ (req' \in ReqType /\ req'.mode = "Normal")
    BY <1>0, <1>1, Normalised DEF SessionFinish
  <2>2. session' \in Sessions /\ todo' \in JobType
    BY <1>0, <1>1, Rounds DEF SessionFinish, Forget, ArbType
  <2>3. ArbType'
    BY <1>0, <1>1, <2>1, <2>2 DEF SessionFinish, ArbType
  <2> QED
    BY <1>1, <2>1, <2>3 DEF IInv, SessionFinish, Known, ChargeAt, ByManager, JustAsked, Recorded, InPause
<1>2. CASE ReleaseCheck
  <2>1. ArbType'
    BY <1>0, <1>2 DEF ReleaseCheck, ArbType, others, acting
  <2>2. Known'
    BY <1>2 DEF IInv, ReleaseCheck, others, acting, Known, OurCharge
  <2>3. ChargeAt'
    BY <1>2 DEF IInv, ReleaseCheck, others, acting, ChargeAt, ByManager, JustAsked, Recorded,
                InPause, OurCharge
  <2> QED
    BY <2>1, <2>2, <2>3 DEF IInv
<1>3. CASE ReleaseUndo
  <2>1. req' \in ReqType /\ req'.mode = "Normal"
    <3>1. "Normal" \in ArbModes /\ req.power \in Nat /\ UserLimit \in Int /\ "manager" \in Askers
      BY <1>0 DEF ArbType, ReqType, ArbModes, Askers
    <3> QED BY <1>0, <1>3, <3>1, Asked DEF ReleaseUndo
  <2>2. ArbType'
    BY <1>0, <1>3, <2>1 DEF ReleaseUndo, ArbType, acting
  <2> QED
    BY <1>3, <2>1, <2>2 DEF IInv, ReleaseUndo, acting, Known, ChargeAt, ByManager
<1> QED
  BY <1>1, <1>2, <1>3

(* A charge is asked for up to the end of its block, and then recorded. *)
LEMMA ChargeSteps ==
  ASSUME IInv, ChargeApply \/ ChargeRecord
  PROVE  IInv'
<1> USE Constants
<1>0. ArbType
  BY DEF IInv
<1>1. CASE ChargeApply
  <2>1. req' \in ReqType /\ req'.due <= todo.end + Margin
    <3>1. PICK p \in Powers : Apply("Charge", p, todo.end - now + Margin, "manager")
      BY <1>1 DEF ChargeApply
    <3>2. "Charge" \in ArbModes /\ p \in Nat /\ todo.end - now + Margin \in Int /\ "manager" \in Askers
      BY <1>0 DEF ArbType, JobType, ArbModes, Forced, Askers
    <3>3. req' \in ReqType /\ req'.due <= now + (todo.end - now + Margin)
      BY <1>0, <3>1, <3>2, Asked
    <3>4. now \in Int /\ todo.end \in Int /\ req'.due \in Int
      BY <1>0, <3>3 DEF ArbType, JobType, ReqType
    <3> QED BY <3>3, <3>4
  <2>2. ArbType'
    BY <1>0, <1>1, <2>1 DEF ChargeApply, ArbType, acting
  <2> QED
    BY <1>1, <2>1, <2>2 DEF IInv, ChargeApply, acting, Known, ChargeAt, JustAsked
<1>2. CASE ChargeRecord
  <2>1. own' \in OwnType /\ own'.charge = TRUE /\ own'.power = req.power /\ blockEnd' = todo.end
    BY <1>0, <1>2 DEF ChargeRecord, ArbType, OwnType, ReqType
  <2>2. ArbType'
    BY <1>0, <1>2, <2>1 DEF ChargeRecord, ArbType, JobType, others
  <2>3. Known'
    BY <1>2 DEF ChargeRecord, Known
  <2>4. ChargeAt'
    BY <1>2, <2>1 DEF IInv, ChargeRecord, others, ChargeAt, ByManager, JustAsked, Recorded, InPause
  <2> QED
    BY <2>2, <2>3, <2>4 DEF IInv
<1> QED
  BY <1>1, <1>2

(* The decision: what is let go as taken over has a pause that covers it.  *)
LEMMA DecideStep ==
  ASSUME IInv, Decide
  PROVE  IInv'
<1> USE Constants
<1>0. ArbType
  BY DEF IInv
<1> DEFINE mine   == own.charge /\ ~Takeover
           paused == IF Takeover THEN Pause ELSE pausedUntil
           act    == todo'.act
<1>1. own' = [own EXCEPT !.charge = mine, !.hold = own.hold /\ act # "Charge"]
      /\ own' \in OwnType /\ own'.charge = mine /\ own'.power = own.power
  BY <1>0 DEF Decide, ArbType, OwnType, JobType
<1>2. pausedUntil' = paused /\ paused \in Int
  BY <1>0 DEF Decide, ArbType, Pause
<1>3. todo' \in JobType
  <2>1. PlannedEnd \in Int /\ (Planned => plan[Index] \in Acts)
    BY <1>0, EndIsTime DEF ArbType, Planned
  <2> QED
    BY <1>0, <2>1 DEF Decide, ArbType, JobType
<1>4. ArbType'
  BY <1>0, <1>1, <1>2, <1>3 DEF Decide, ArbType
<1>5. Known'
  <2>1. pc' = "charge" => mine \/ req.mode = "Normal"
    BY <1>0 DEF Decide, HandsOff, ArbType, JobType
  <2>2. pc' \notin {"finish", "undo"}
    BY DEF Decide
  <2>3. mine => OurCharge
    BY <1>0 DEF Takeover, OurCharge
  <2> QED
    BY <1>1, <2>1, <2>2, <2>3 DEF Decide, Known, OurCharge
<1>6. ChargeAt'
  <2>1. SUFFICES ASSUME ByManager PROVE (Recorded \/ InPause)'
    BY DEF Decide, ChargeAt, ByManager
  <2>2. pc = "act" /\ pc' \in {"charge", "byd", "release", "hold"} /\ (pc' = "hold" => ~mine)
    BY DEF Decide
  <2>3. CASE mine
    BY <1>1, <2>1, <2>2, <2>3 DEF IInv, Decide, ChargeAt, JustAsked, Recorded, InPause
  <2>4. CASE ~mine /\ ~own.charge
    BY <1>1, <1>2, <2>1, <2>2, <2>4 DEF IInv, Decide, ChargeAt, JustAsked, Recorded, InPause, Takeover
  <2>5. CASE ~mine /\ own.charge
    <3>1. Takeover /\ req.due <= blockEnd + Margin
      BY <2>1, <2>2, <2>5 DEF IInv, ChargeAt, JustAsked, Recorded, InPause
    <3>2. req.due \in Int /\ blockEnd \in Int /\ blockEnd <= Pause /\ Pause \in Int
      BY <1>0 DEF ArbType, ReqType, Pause
    <3>3. pausedUntil' = Pause /\ req' = req
      BY <1>2, <3>1 DEF Decide
    <3>4. ~own'.charge
      BY <1>1, <2>5
    <3>5. req'.due <= pausedUntil' + Margin
      BY <3>1, <3>2, <3>3
    <3> QED
      BY <2>2, <3>4, <3>5 DEF InPause
  <2> QED
    BY <2>3, <2>4, <2>5
<1> QED
  BY <1>4, <1>5, <1>6 DEF IInv

-----------------------------------------------------------------------------
LEMMA StepIInv == IInv /\ [ArbNext]_arbVars => IInv'
<1> SUFFICES ASSUME IInv, [ArbNext]_arbVars PROVE IInv'
  OBVIOUS
<1>1. CASE Manager
  BY <1>1, QuietSteps, GiveBackSteps, ChargeSteps, DecideStep DEF Manager
<1>2. CASE ArbNext /\ ~Manager
  BY <1>2, OutsideSteps DEF ArbNext
<1>3. CASE UNCHANGED arbVars
  BY <1>3 DEF arbVars, others, acting, IInv, ArbType, Known, StillOurs, OurCharge, ChargeAt,
              ByManager, JustAsked, Recorded, InPause
<1> QED
  BY <1>1, <1>2, <1>3

LEMMA Invariance == ArbSpec => []IInv
BY InitIInv, StepIInv, PTL DEF ArbSpec

(* A charge of the manager's never stays in force behind its back: it      *)
(* knows of it, or it ends with the pause (energy_mgr.c:206-233).          *)
THEOREM NoOrphanSound == ArbSpec => []NoOrphan
<1>1. IInv => NoOrphan
  BY DEF IInv, ArbType, ReqType, ChargeAt, ByManager, JustAsked, Recorded, InPause, NoOrphan
<1> QED
  BY <1>1, Invariance, PTL

(* The manager replaces nothing it has not looked at: Known says that what *)
(* is in force in front of a replacing step is its own (energy_mgr.c:248). *)
THEOREM NoOverwriteSound == ArbSpec => NoKnownOverwrite
<1>1. IInv /\ [ArbNext]_arbVars =>
        [seen /\ pc \in {"finish", "undo", "charge"} /\ pc' # pc /\ req.mode # "Normal"
         => \/ UNCHANGED req
            \/ pc = "finish" /\ StillOurs(todo.f)
            \/ pc \in {"undo", "charge"} /\ OurCharge]_arbVars
  BY DEF IInv, Known
<1> QED
  BY <1>1, Invariance, PTL DEF ArbSpec, NoKnownOverwrite
=============================================================================
