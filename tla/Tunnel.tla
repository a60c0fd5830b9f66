------------------------------- MODULE Tunnel -------------------------------
(***************************************************************************)
(* The WireGuard client (main/wg_client.c) and the clock it waits for        *)
(* (main/ntp_client.c): settings saved while the task works on them, an      *)
(* endpoint that cannot be resolved yet, a peer that moves, a device that    *)
(* starts again. A round of the task counts as one unit of time.            *)
(***************************************************************************)
EXTENDS Integers

CONSTANTS
  RetryRounds,           \* WG_RETRY_S
  StaleRounds,           \* WG_STALE_S
  SyncRounds,            \* rounds the task waits for the clock at most
  MaxVpn                 \* bound on saves, moves of the peer and restarts

ASSUME VpnAssumption == /\ RetryRounds \in Nat \ {0} /\ StaleRounds \in Nat \ {0}
                        /\ SyncRounds \in Nat /\ MaxVpn \in Nat

VARIABLES
  wgCfg, wgNvs,          \* s_cfg and the record in NVS
  wgSave,                \* wg_set_cfg() under way
  wgRestart,             \* s_restart
  wgTask,                \* where wg_task() is; key it has read; rounds since try and since up
  tunnel,                \* s_inited with what it was made from
  shownUp,               \* s_up
  ntpOn, ntpRun, synced, \* settings, s_running, s_synced
  clockSet, sta,         \* the clock has been set; the station is connected
  where,                 \* the address the peer's name has now
  wgEdits
ntpVars == << ntpOn, ntpRun, synced, clockSet >>
vpnVars == << wgCfg, wgNvs, wgSave, wgRestart, wgTask, tunnel, shownUp, ntpVars, sta, where, wgEdits >>

VpnCfgs == [on : BOOLEAN, key : {"none", "good"}, host : {"peer", "other"}]
NoSave == [at |-> "idle", c |-> [on |-> FALSE, key |-> "none", host |-> "peer"]]
NoTunnel == [made |-> FALSE, key |-> "none", addr |-> 0]
Started == [at |-> "sync", back |-> "sleep", n |-> 0, key |-> "none", try |-> 0, up |-> 0]

VpnInit ==
  /\ wgNvs \in VpnCfgs /\ wgCfg = wgNvs /\ wgSave = NoSave /\ wgRestart = FALSE /\ wgTask = Started
  /\ tunnel = NoTunnel /\ shownUp = FALSE /\ ntpOn \in BOOLEAN /\ ntpRun = ntpOn /\ synced = FALSE
  /\ clockSet = FALSE /\ sta = FALSE /\ where = 1 /\ wgEdits = 0

(* A handshake: the right key and address, a way to the peer, a clock.       *)
PeerUp == tunnel.made /\ tunnel.key = "good" /\ tunnel.addr = where /\ sta /\ clockSet

----------------------------------------------------------------------------
(* wg_set_cfg(): NVS, then the copy the task reads without a lock, then the  *)
(* flag.                                                                   *)
SaveVpn(c, ok) ==
  /\ wgSave.at = "idle" /\ wgEdits < MaxVpn /\ wgEdits' = wgEdits + 1
  /\ IF ok THEN wgNvs' = c /\ wgSave' = [at |-> "copy", c |-> c] ELSE UNCHANGED << wgNvs, wgSave >>
  /\ UNCHANGED << wgCfg, wgRestart, wgTask, tunnel, shownUp, ntpVars, sta, where >>
CopyVpn ==
  /\ wgSave.at = "copy" /\ wgCfg' = wgSave.c /\ wgSave' = [wgSave EXCEPT !.at = "flag"]
  /\ UNCHANGED << wgNvs, wgRestart, wgTask, tunnel, shownUp, ntpVars, sta, where, wgEdits >>
FlagVpn ==
  /\ wgSave.at = "flag" /\ wgRestart' = TRUE /\ wgSave' = NoSave
  /\ UNCHANGED << wgCfg, wgNvs, wgTask, tunnel, shownUp, ntpVars, sta, where, wgEdits >>

----------------------------------------------------------------------------
Capped(n, top) == IF n < top THEN n + 1 ELSE n
(* The bounded wait for the clock, once.                                    *)
WaitSync ==
  /\ wgTask.at = "sync"
  /\ wgTask' = IF wgTask.n < SyncRounds /\ wgCfg.on /\ ~synced THEN [wgTask EXCEPT !.n = @ + 1]
               ELSE [wgTask EXCEPT !.at = "round", !.n = 0]
  /\ UNCHANGED << wgCfg, wgNvs, wgSave, wgRestart, tunnel, shownUp, ntpVars, sta, where, wgEdits >>
WgRound ==
  /\ wgTask.at = "round" /\ wgRestart' = FALSE
  /\ wgTask' = IF wgRestart THEN [wgTask EXCEPT !.at = "apply", !.back = "check"] ELSE [wgTask EXCEPT !.at = "check"]
  /\ UNCHANGED << wgCfg, wgNvs, wgSave, tunnel, shownUp, ntpVars, sta, where, wgEdits >>
NeverStale == FALSE
StaleNow == ~PeerUp /\ wgTask.up >= StaleRounds
TryNow == wgCfg.on /\ wgTask.try >= RetryRounds /\ sta
WgCheck ==
  /\ wgTask.at = "check"
  /\ IF tunnel.made
     THEN /\ shownUp' = PeerUp
          /\ wgTask' = IF StaleNow THEN [wgTask EXCEPT !.at = "apply", !.back = "sleep"]
                       ELSE [wgTask EXCEPT !.at = "sleep", !.up = IF PeerUp THEN 0 ELSE @]
     ELSE /\ wgTask' = [wgTask EXCEPT !.at = IF TryNow THEN "apply" ELSE "sleep", !.back = "sleep"]
          /\ UNCHANGED shownUp
  /\ UNCHANGED << wgCfg, wgNvs, wgSave, wgRestart, tunnel, ntpVars, sta, where, wgEdits >>
(* wg_apply(): down first; settings that are off, incomplete or no key end   *)
(* it; the name is resolved when it connects.                              *)
VpnUsable(c) == c.on /\ c.key = "good"
WgApply ==
  /\ wgTask.at = "apply" /\ tunnel' = NoTunnel /\ shownUp' = (shownUp /\ ~tunnel.made)
  /\ wgTask' = [wgTask EXCEPT !.at = IF VpnUsable(wgCfg) THEN "connect" ELSE wgTask.back, !.key = wgCfg.key, !.try = 0, !.up = 0]
  /\ UNCHANGED << wgCfg, wgNvs, wgSave, wgRestart, ntpVars, sta, where, wgEdits >>
WgConnect(ok) ==
  /\ wgTask.at = "connect" /\ (ok => sta)
  /\ tunnel' = IF ok THEN [made |-> TRUE, key |-> wgTask.key, addr |-> IF wgCfg.host = "peer" THEN where ELSE 0] ELSE tunnel
  /\ wgTask' = [wgTask EXCEPT !.at = wgTask.back]
  /\ UNCHANGED << wgCfg, wgNvs, wgSave, wgRestart, shownUp, ntpVars, sta, where, wgEdits >>
WgSleep ==
  /\ wgTask.at = "sleep"
  /\ wgTask' = [wgTask EXCEPT !.at = "round", !.try = Capped(@, RetryRounds), !.up = Capped(@, StaleRounds)]
  /\ UNCHANGED << wgCfg, wgNvs, wgSave, wgRestart, tunnel, shownUp, ntpVars, sta, where, wgEdits >>
Resolved == WgConnect(TRUE)
WgTask == WaitSync \/ WgRound \/ WgCheck \/ WgApply \/ Resolved \/ WgConnect(FALSE) \/ WgSleep

----------------------------------------------------------------------------
(* ntp_set_cfg(), apply(), on_sync().                                       *)
NtpApply(ok) ==
  /\ wgEdits < MaxVpn /\ wgEdits' = wgEdits + 1 /\ synced' = FALSE
  /\ \E on \in BOOLEAN : ntpOn' = on /\ ntpRun' = (on /\ ok)
  /\ UNCHANGED << wgCfg, wgNvs, wgSave, wgRestart, wgTask, tunnel, shownUp, clockSet, sta, where >>
OnSync ==
  /\ ntpRun /\ sta /\ ~synced /\ synced' = TRUE /\ clockSet' = TRUE
  /\ UNCHANGED << wgCfg, wgNvs, wgSave, wgRestart, wgTask, tunnel, shownUp, ntpOn, ntpRun, sta, where, wgEdits >>

StaChanges ==
  /\ sta' = ~sta
  /\ UNCHANGED << wgCfg, wgNvs, wgSave, wgRestart, wgTask, tunnel, shownUp, ntpVars, where, wgEdits >>
PeerMoves ==
  /\ wgEdits < MaxVpn /\ wgEdits' = wgEdits + 1 /\ where' = 3 - where
  /\ UNCHANGED << wgCfg, wgNvs, wgSave, wgRestart, wgTask, tunnel, shownUp, ntpVars, sta >>
VpnRestart ==
  /\ wgEdits < MaxVpn /\ wgEdits' = wgEdits + 1 /\ wgCfg' = wgNvs /\ wgSave' = NoSave /\ wgRestart' = FALSE
  /\ wgTask' = Started /\ tunnel' = NoTunnel /\ shownUp' = FALSE /\ ntpRun' = ntpOn /\ synced' = FALSE
  /\ clockSet' = FALSE /\ sta' = FALSE /\ UNCHANGED << wgNvs, ntpOn, where >>

VpnNext ==
  \/ WgTask \/ CopyVpn \/ FlagVpn \/ OnSync \/ StaChanges \/ PeerMoves \/ VpnRestart
  \/ \E c \in VpnCfgs, ok \in BOOLEAN : SaveVpn(c, ok)
  \/ \E ok \in BOOLEAN : NtpApply(ok)

(* The task runs, a save ends, a name that can be resolved is, now and then. *)
VpnSpec ==
  /\ VpnInit /\ [][VpnNext]_vpnVars
  /\ WF_vpnVars(WgTask) /\ SF_vpnVars(Resolved) /\ WF_vpnVars(CopyVpn) /\ WF_vpnVars(FlagVpn)

----------------------------------------------------------------------------
(* wg_client.c:19: the way to a remote rescue comes up by itself once the    *)
(* network, the clock and the settings allow it, however late and whatever  *)
(* came between, and a tunnel switched off goes down, also when it is        *)
(* saved while the task is building one.                                   *)
Allowed == VpnUsable(wgCfg) /\ wgCfg.host = "peer" /\ sta /\ clockSet
TunnelFollows ==
  /\ <>[]Allowed => <>[](PeerUp /\ shownUp)
  /\ <>[](~wgCfg.on) => <>[](~tunnel.made)
=============================================================================
