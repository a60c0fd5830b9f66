------------------------------- MODULE MCBox -------------------------------
(***************************************************************************)
(* The device around the energy manager, for TLC: firmware update, WiFi,   *)
(* MQTT, settings in flash, the tunnel with its clock, and the panel. They   *)
(* share no state but the network, which each lets come and go by itself,   *)
(* so one run checks them part by part and spares the product of their      *)
(* states; the parts at rest keep one initial state, switched off where the *)
(* part can be.                                                             *)
(***************************************************************************)
EXTENDS Ota, WifiMgr, MqttFwd, Settings, Tunnel, Panel

VARIABLE part
boxVars == << otaVars, wifiVars, mqttVars, setVars, vpnVars, panelVars, part >>

MCSaved == {<< "h" >>}
MCSize == 4 :> 42 @@ 5 :> 66 @@ 6 :> 68
ASSUME MCLayouts == LayoutsApart       \* what the theorem of Settings asks for

InOta(A) == part = "ota" /\ A /\ UNCHANGED << wifiVars, mqttVars, setVars, vpnVars, panelVars, part >>
InWifi(A) == part = "wifi" /\ A /\ UNCHANGED << otaVars, mqttVars, setVars, vpnVars, panelVars, part >>
InMqtt(A) == part = "mqtt" /\ A /\ UNCHANGED << otaVars, wifiVars, setVars, vpnVars, panelVars, part >>
InSet(A) == part = "set" /\ A /\ UNCHANGED << otaVars, wifiVars, mqttVars, vpnVars, panelVars, part >>
InVpn(A) == part = "vpn" /\ A /\ UNCHANGED << otaVars, wifiVars, mqttVars, setVars, panelVars, part >>
InPanel(A) == part = "panel" /\ A /\ UNCHANGED << otaVars, wifiVars, mqttVars, setVars, vpnVars, part >>

\* a device nobody has given a network, its portal up
WifiAlone ==
  /\ creds = << >> /\ range = {} /\ ap = TRUE /\ tryIdx = 1 /\ wst = "aponly" /\ fast = FALSE
  /\ radio = {"ap"} /\ shut = FALSE /\ armed = {} /\ air = Down /\ shown = Down /\ bits = {} /\ wk = NoWork
  /\ link = Down /\ evq = << >> /\ guest = FALSE /\ dns = TRUE /\ stir = 0

\* a device list in the second layout, from before the present one
OneLayout == fware = "new" /\ devKeys[5] = [size |-> 66, count |-> 2] /\ netKey = {"h"}
SetAtRest == netUp /\ devKeys[6] # NoList

BoxInit ==
  /\ part \in {"ota", "wifi", "mqtt", "set", "vpn", "panel"}
  /\ OtaInit /\ MqttInit /\ SetInit /\ OneLayout /\ VpnInit /\ PanelInit
  /\ IF part = "wifi" THEN WifiInit /\ range \subseteq {"h"} ELSE WifiAlone
  /\ part # "ota" => slots.B.img = "none"
  /\ part # "set" => SetAtRest
  /\ part # "mqtt" => mqcfg = [host |-> CHOOSE b \in Brokers : TRUE, on |-> FALSE, deny |-> TRUE] /\ meters = {}
  /\ part # "vpn" => wgNvs = [on |-> FALSE, key |-> "none", host |-> "peer"] /\ ~ntpOn
  /\ part # "panel" => ~sleepOn

BoxNext ==
  \/ InOta(OtaNext) \/ InWifi(WifiNext) \/ InMqtt(MqttNext)
  \/ InSet(SetNext) \/ InVpn(VpnNext) \/ InPanel(PanelNext)

(* The fairness of WifiMgr, MqttFwd and Tunnel, each while its part runs.   *)
BoxSpec ==
  /\ BoxInit /\ [][BoxNext]_boxVars
  /\ WF_wifiVars(InWifi(EventLoop)) /\ (\A t \in Timers : WF_wifiVars(InWifi(WifiTimer(t))))
  /\ WF_wifiVars(InWifi(Worker)) /\ WF_wifiVars(InWifi(DnsTask))
  /\ WF_wifiVars(InWifi(Attempt)) /\ WF_wifiVars(InWifi(LinkBreaks))
  /\ WF_mqttVars(InMqtt(MqttTask)) /\ WF_mqttVars(InMqtt(ClientTask))
  /\ WF_vpnVars(InVpn(WgTask)) /\ SF_vpnVars(InVpn(Resolved))
  /\ WF_vpnVars(InVpn(CopyVpn)) /\ WF_vpnVars(InVpn(FlagVpn))
=============================================================================
