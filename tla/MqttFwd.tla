------------------------------ MODULE MqttFwd ------------------------------
(***************************************************************************)
(* MQTT forwarding with Home Assistant discovery (main/mqtt_fwd.c). Three    *)
(* tasks: the page or display that saves settings, the mqtt task that makes *)
(* the client anew and publishes, and the client's own task that handles    *)
(* events. Brokers keep what is retained and send the last will.           *)
(***************************************************************************)
EXTENDS Integers, FiniteSets

CONSTANTS
  Brokers,               \* hosts that can be set
  Roles,                 \* meter roles that have counters (EN_ROLE)
  MaxMqtt, MaxSends      \* bounds: edits and disturbances, commands sent

ASSUME MqttAssumption == {MaxMqtt, MaxSends} \subseteq Nat

VARIABLES
  mqcfg, restart,        \* s_cfg (with discovery and last will), s_restart
  mqat,                  \* where the mqtt task is
  client, connected,     \* s_client (its broker), s_st.connected
  wire, greets,          \* whether the broker holds the connection, the event handled
  announced, enDisc,     \* retained sensors and controls of each broker, s_en_disc
  avail, stored,         \* retained availability, a retained command
  meters, force,         \* roles with an enabled meter, the forced mode
  sends, starts, mqs     \* commands sent, forced modes they started, what MaxMqtt counts
mqttVars == << mqcfg, restart, mqat, client, connected, wire, greets, announced, enDisc, avail, stored, meters, force, sends, starts, mqs >>

NoClient == "none"
Afresh == {"afresh"}     \* s_en_disc = -1
Connection == << client, connected, wire, greets >>
Retained == << announced, avail, stored >>
Commands == << force, sends, starts >>
Nothing == [sensors |-> {}, controls |-> FALSE]

MqttInit ==
  /\ mqcfg \in [host : Brokers, on : BOOLEAN, deny : BOOLEAN] /\ restart = FALSE
  /\ mqat = "start" /\ client = NoClient /\ connected = FALSE /\ wire = FALSE /\ greets = "done"
  /\ announced = [b \in Brokers |-> Nothing] /\ enDisc = Afresh
  /\ avail = [b \in Brokers |-> "none"] /\ stored = [b \in Brokers |-> FALSE]
  /\ meters \in SUBSET Roles /\ force = FALSE /\ sends = 0 /\ starts = 0 /\ mqs = 0

----------------------------------------------------------------------------
(* mqtt_fwd_set_cfg(): the settings at once, the client later and elsewhere. *)
SetCfg(c) ==
  /\ mqs < MaxMqtt /\ mqs' = mqs + 1 /\ mqcfg' = c /\ restart' = TRUE
  /\ UNCHANGED << mqat, Connection, Retained, enDisc, meters, Commands >>

(* The mqtt task takes the flag first and reads the settings afterwards.    *)
TakesRestart ==
  /\ mqat = "tick" /\ restart /\ restart' = FALSE /\ mqat' = "apply"
  /\ UNCHANGED << mqcfg, Connection, Retained, enDisc, meters, Commands, mqs >>

(* mqtt_apply(): "offline" when connected, stop and destroy, start anew.    *)
Says(b, what) == avail' = IF wire THEN [avail EXCEPT ![b] = what] ELSE avail
Farewell ==
  /\ mqat = "apply" /\ mqat' = "stop"
  /\ IF connected THEN Says(client, "offline") ELSE UNCHANGED avail
  /\ UNCHANGED << mqcfg, restart, Connection, announced, stored, enDisc, meters, Commands, mqs >>
Stops ==
  /\ mqat = "stop" /\ greets = "done" /\ mqat' = "start"
  /\ client' = NoClient /\ connected' = FALSE /\ wire' = FALSE
  /\ UNCHANGED << mqcfg, restart, greets, Retained, enDisc, meters, Commands, mqs >>
(* A client that cannot be made is missing until the next edit.             *)
StartsClient ==
  /\ mqat = "start" /\ mqat' = "tick"
  /\ \/ client' = (IF mqcfg.on THEN mqcfg.host ELSE NoClient) /\ UNCHANGED mqs
     \/ mqcfg.on /\ mqs < MaxMqtt /\ mqs' = mqs + 1 /\ client' = NoClient
  /\ UNCHANGED << mqcfg, restart, connected, wire, greets, Retained, enDisc, meters, Commands >>

(* publish_meter_energy() with publish_meter_discovery(): what no longer has *)
(* a meter is deleted. What is sent on a dead connection is lost.           *)
Announces(b, ctl) ==
  /\ announced' = IF ~wire THEN announced
                  ELSE [announced EXCEPT ![b] = [sensors |-> IF meters # enDisc THEN meters ELSE @.sensors, controls |-> ctl]]
  /\ enDisc' = meters
PublishesCounters ==
  /\ mqat = "tick" /\ connected /\ meters # enDisc /\ Announces(client, announced[client].controls)
  /\ UNCHANGED << mqcfg, restart, mqat, Connection, avail, stored, meters, Commands, mqs >>

----------------------------------------------------------------------------
(* The client's task: connects, greets in two steps, notices a loss. A      *)
(* stop waits for a connect under way.                                     *)
Connects1 ==
  /\ client # NoClient /\ ~wire /\ ~connected /\ greets = "done" /\ wire' = TRUE /\ greets' = "hello"
  /\ UNCHANGED << mqcfg, restart, mqat, client, connected, Retained, enDisc, meters, Commands, mqs >>
Remembers(r) == r
Forgets(r) == Afresh
Hello ==
  /\ greets = "hello" /\ greets' = "announce" /\ connected' = TRUE /\ Says(client, "online") /\ enDisc' = Forgets(enDisc)
  /\ UNCHANGED << mqcfg, restart, mqat, client, wire, announced, stored, meters, Commands, mqs >>

(* publish_discovery(), publish_em_discovery(): controls are deleted, not    *)
(* skipped, while control is denied.                                       *)
Controls == ~mqcfg.deny
(* handle_byd_force(), handle_deye_force(): a start that the broker only     *)
(* repeats is refused, and everything while control is denied.             *)
TakesAll(retained) == TRUE
Accepts(retained) == ~retained
ForceCmd(retained) ==
  IF ~mqcfg.deny /\ Accepts(retained) /\ ~force THEN force' = TRUE /\ starts' = starts + 1 ELSE UNCHANGED << force, starts >>
Subscribes ==
  /\ greets = "announce" /\ greets' = "done" /\ Announces(client, Controls)
  /\ IF wire /\ stored[client] /\ ~mqcfg.deny THEN ForceCmd(TRUE) ELSE UNCHANGED << force, starts >>
  /\ UNCHANGED << mqcfg, restart, mqat, client, connected, wire, avail, stored, meters, sends, mqs >>
NoticesLoss ==
  /\ connected /\ ~wire /\ greets = "done" /\ connected' = FALSE
  /\ UNCHANGED << mqcfg, restart, mqat, client, wire, greets, Retained, enDisc, meters, Commands, mqs >>

(* A command from Home Assistant, delivered when sent and perhaps kept.     *)
Sends(b, keep) ==
  /\ sends < MaxSends /\ sends' = sends + 1
  /\ stored' = IF keep THEN [stored EXCEPT ![b] = TRUE] ELSE stored
  /\ IF client = b /\ wire /\ greets = "done" THEN ForceCmd(FALSE) ELSE UNCHANGED << force, starts >>
  /\ UNCHANGED << mqcfg, restart, mqat, Connection, announced, avail, enDisc, meters, mqs >>
ForceEnds ==
  /\ force /\ force' = FALSE
  /\ UNCHANGED << mqcfg, restart, mqat, Connection, Retained, enDisc, meters, sends, starts, mqs >>

(* The connection breaks, or the broker restarts without its memory; the    *)
(* list of devices changes.                                                *)
Breaks(forgets) ==
  /\ wire /\ mqs < MaxMqtt /\ mqs' = mqs + 1 /\ wire' = FALSE
  /\ avail' = [avail EXCEPT ![client] = IF forgets THEN "none" ELSE "offline"]
  /\ announced' = IF forgets THEN [announced EXCEPT ![client] = Nothing] ELSE announced
  /\ stored' = IF forgets THEN [stored EXCEPT ![client] = FALSE] ELSE stored
  /\ UNCHANGED << mqcfg, restart, mqat, client, connected, greets, enDisc, meters, Commands >>
DevicesChange ==
  /\ mqs < MaxMqtt /\ mqs' = mqs + 1 /\ \E m \in SUBSET Roles : m # meters /\ meters' = m
  /\ UNCHANGED << mqcfg, restart, mqat, Connection, Retained, enDisc, Commands >>

MqttTask == TakesRestart \/ Farewell \/ Stops \/ StartsClient \/ PublishesCounters
ClientTask == Connects1 \/ Hello \/ Subscribes \/ NoticesLoss
MqttNext ==
  \/ MqttTask \/ ClientTask
  \/ \E c \in [host : Brokers, on : BOOLEAN, deny : BOOLEAN] : SetCfg(c)
  \/ \E b \in Brokers, keep \in BOOLEAN : Sends(b, keep)
  \/ ForceEnds \/ (\E f \in BOOLEAN : Breaks(f)) \/ DevicesChange
MqttSpec == MqttInit /\ [][MqttNext]_mqttVars /\ WF_mqttVars(MqttTask) /\ WF_mqttVars(ClientTask)

----------------------------------------------------------------------------
(* What Home Assistant finds announced is in the end what there is, also at *)
(* a new broker and at one that lost its memory: the sensors of the meters  *)
(* in the list, and controls only while control is allowed. Only a client   *)
(* that could not be made leaves it as it was, until the next edit.         *)
AnnouncedIsTrue ==
  <>[](mqcfg.on /\ client # NoClient => announced[mqcfg.host] = [sensors |-> meters, controls |-> ~mqcfg.deny])

(* mqtt_fwd.c:465: one start sent starts one forced mode; no reconnect      *)
(* starts it again.                                                        *)
StartedOnce == starts <= sends
=============================================================================
