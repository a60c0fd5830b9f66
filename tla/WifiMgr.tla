------------------------------ MODULE WifiMgr ------------------------------
(***************************************************************************)
(* The station and the access point (main/wifi_mgr.c) with the DNS of the   *)
(* captive portal (main/captive.c). Four actors share the state without a   *)
(* lock: the event loop, the worker (cut where an event or a page can come  *)
(* between), the timers, and the tasks of web page and display.    *)
(* Times are abstract: a timer that runs fires some day.                    *)
(***************************************************************************)
EXTENDS Integers, Sequences, SequencesExt

CONSTANTS
  Networks, Saved,       \* the names there are; lists of saved ones to start with
  MaxCreds,              \* WIFI_MGR_MAX_CREDS
  MaxStir                \* bound: what users ask, changes of range, calls the radio refuses

ASSUME WifiAssumption ==
  /\ Saved \subseteq Seq(Networks) /\ "none" \notin Networks
  /\ MaxCreds \in Nat \ {0} /\ MaxStir \in Nat

VARIABLES
  wst, fast, tryIdx, creds, shown, \* s_state, s_fast, s_try_idx, the saved list, s_sta_ssid
  ap, radio,             \* s_ap_active, the modes the radio is in
  shut,                  \* ghost: nothing opens the access point before the next attempt
  armed, bits, wk,       \* running timers, notify bits, what the worker is at
  link, air, evq,        \* the station's link, its attempt in flight, events not yet handled
  range, guest, dns,     \* networks in range, somebody on the AP, the DNS socket
  stir                   \* what the bound counts
wifiVars == << wst, fast, tryIdx, creds, shown, ap, radio, shut, armed, bits, wk, link, air, evq,
               range, guest, dns, stir >>

Down == "none"
Timers == {"fb", "rc", "apd"}
Driver == << link, air >>
World == << range, guest >>
NoWork == [at |-> "wait", todo |-> {}]
IdxOf(n) == SelectInSeq(creds, LAMBDA c : c = n)

(* wifi_mgr_init(): with saved networks the first is tried at once; the one  *)
(* call, to connect or to open the access point, may be refused.           *)
WifiInit ==
  /\ creds \in Saved /\ range \in SUBSET Networks /\ tryIdx = 1 /\ stir \in {0, 1} /\ stir <= MaxStir
  /\ IF creds = << >>
     THEN /\ wst = "aponly" /\ fast = FALSE /\ radio = {"ap"} /\ armed = {} /\ air = Down /\ shown = Down
          /\ ap = (stir = 0) /\ shut = (stir = 1)
     ELSE /\ wst = "connecting" /\ fast = TRUE /\ radio = {"sta"} /\ shown = creds[1]
          /\ ap = FALSE /\ shut = FALSE
          /\ IF stir = 0 THEN armed = {"fb"} /\ air = creds[1] ELSE armed = {"fb", "rc"} /\ air = Down
  /\ bits = {} /\ wk = NoWork /\ link = Down /\ evq = << >> /\ guest = FALSE /\ dns = FALSE

----------------------------------------------------------------------------
(* do_connect(): a call that is refused raises no event, so the slow retry  *)
(* is armed here. The radio refuses while it is busy, or for a reason of    *)
(* its own.                                                                *)
KeepsTimers(t) == t
Retries(t) == t \cup {"rc"}
Connects(s, i) ==
  IF i \notin DOMAIN s.creds THEN {s}
  ELSE LET t == [s EXCEPT !.try = i, !.shown = s.creds[i]]
           busy == s.link # Down \/ s.air # Down \/ "sta" \notin s.radio
       IN  (IF busy THEN {} ELSE {[t EXCEPT !.air = s.creds[i]]})
           \cup (IF busy \/ s.stir < MaxStir
                 THEN {[t EXCEPT !.armed = Retries(@), !.stir = IF busy THEN @ ELSE @ + 1]} ELSE {})

Now1 == [wst |-> wst, fast |-> fast, try |-> tryIdx, creds |-> creds, shown |-> shown, ap |-> ap, radio |-> radio,
         shut |-> shut, armed |-> armed, bits |-> bits, link |-> link, air |-> air, evq |-> evq, stir |-> stir]
Becomes(s) ==
  /\ wst' = s.wst /\ fast' = s.fast /\ tryIdx' = s.try /\ creds' = s.creds /\ shown' = s.shown /\ ap' = s.ap
  /\ radio' = s.radio /\ shut' = s.shut /\ armed' = s.armed /\ bits' = s.bits /\ link' = s.link /\ air' = s.air /\ evq' = s.evq
  /\ stir' = s.stir

(* esp_wifi_disconnect(): ends a link or an attempt, with its own reason.   *)
Leaves1(s) ==
  IF s.link = Down /\ s.air = Down THEN s
  ELSE [s EXCEPT !.link = Down, !.air = Down, !.evq = Append(@, "leave")]

(* begin_attempt(): first the state, then the disconnect.                   *)
Begins(s) ==
  Leaves1([s EXCEPT !.radio = @ \cup {"sta"}, !.wst = "connecting", !.fast = TRUE, !.shut = FALSE,
                     !.armed = (@ \ {"apd"}) \cup {"fb"}])

(* start_ap(): when the radio refuses its configuration it returns early,    *)
(* and nobody looks at that: an access point that was down stays down.      *)
StartsAp(s) == [s EXCEPT !.ap = TRUE, !.radio = @ \cup {"ap"}, !.shut = FALSE]
ReturnsEarly(s) == [s EXCEPT !.radio = @ \cup {"ap"}, !.shut = ~s.ap, !.stir = @ + 1]
Opens(s) == {StartsAp(s)} \cup (IF s.stir < MaxStir THEN {ReturnsEarly(s)} ELSE {})
Alone(s) == { [t EXCEPT !.wst = "aponly"] : t \in Opens([Leaves1(s) EXCEPT !.radio = {"ap"}, !.shown = Down]) }

----------------------------------------------------------------------------
(* The event loop. A reason of our own is no failed attempt; a link lost    *)
(* starts over from the top; a failed attempt goes on with the next saved   *)
(* network, or waits for the slow retry.                                   *)
Asks(s, i) == [s EXCEPT !.try = i, !.bits = @ \cup {"connect"}]
NoDoor(t) == t
Rearmed(t) == t \cup {"fb"}
Lost(s) ==
  IF s.wst = "connected" THEN Asks([s EXCEPT !.wst = "connecting", !.fast = TRUE, !.armed = Rearmed(@)], 1)
  ELSE IF s.wst = "connecting" /\ s.fast /\ s.try < Len(s.creds) THEN Asks(s, s.try + 1)
  ELSE [s EXCEPT !.armed = @ \cup {"rc"}, !.fast = IF s.wst = "connecting" THEN FALSE ELSE @]
GotIp(s) ==
  [s EXCEPT !.wst = "connected", !.fast = FALSE, !.shut = FALSE, !.armed = (@ \ {"fb", "rc"}) \cup (IF s.ap THEN {"apd"} ELSE {})]

EventLoop ==
  /\ evq # << >>
  /\ LET s == [Now1 EXCEPT !.evq = Tail(@)]
     IN  Becomes(CASE Head(evq) = "leave" -> s [] Head(evq) = "lost" -> Lost(s) [] Head(evq) = "ip" -> GotIp(s))
  /\ UNCHANGED << wk, World, dns >>

(* Timers run for many seconds, events are handled at once; an attempt is   *)
(* shorter than the retry's period, so the retry seldom falls into one.     *)
WifiTimer(t) ==
  /\ t \in armed /\ armed' = armed \ {t} /\ bits' = bits \cup {t} /\ (t = "rc" => evq = << >>)
  /\ IF t = "rc" /\ air # Down THEN stir < MaxStir /\ stir' = stir + 1 ELSE UNCHANGED stir
  /\ UNCHANGED << wst, fast, tryIdx, creds, shown, ap, radio, shut, wk, Driver, evq, World, dns >>

----------------------------------------------------------------------------
(* The worker takes all bits at once and works them off in this order.      *)
Order == << "fb", "apon", "connect", "apd", "rc" >>
NextJob == Order[SelectInSeq(Order, LAMBDA j : j \in wk.todo)]
Done(j) == wk' = IF wk.todo = {j} THEN NoWork ELSE [at |-> "work", todo |-> wk.todo \ {j}]
Takes ==
  /\ wk = NoWork /\ bits # {} /\ bits' = {} /\ wk' = [at |-> "work", todo |-> bits]
  /\ UNCHANGED << wst, fast, tryIdx, creds, shown, ap, radio, shut, armed, Driver, evq, World, dns, stir >>

(* The fallback: state read, state written, access point up, retry armed.   *)
FallsBack ==
  /\ NextJob = "fb" /\ UNCHANGED << World, dns >>
  /\ \/ wk.at = "work" /\ Becomes(Now1) /\ IF wst = "connecting" THEN wk' = [wk EXCEPT !.at = "set"] ELSE Done("fb")
     \/ /\ wk.at = "set" /\ wk' = [at |-> "work", todo |-> (wk.todo \ {"fb"}) \cup {"apon"}]
        /\ Becomes([Now1 EXCEPT !.wst = "fallback", !.fast = FALSE])
OpensAp ==
  /\ NextJob = "apon" /\ Done("apon") /\ UNCHANGED << World, dns >>
  /\ \E s \in Opens(Now1) : Becomes([s EXCEPT !.armed = @ \cup {"rc"}])
ConnectsNext ==
  /\ NextJob \in {"connect", "rc"} /\ Done(NextJob) /\ UNCHANGED << World, dns >>
  /\ \E s \in Connects(Now1, IF NextJob = "connect" THEN tryIdx ELSE IF tryIdx < Len(creds) THEN tryIdx + 1 ELSE 1) : Becomes(s)

(* stop_fallback_ap(): not under a guest; the radio may refuse. Between the  *)
(* look at the state, the mode and the flag a page can begin an attempt, or *)
(* remove the last network and open the access point this closes.          *)
ClosesAp ==
  /\ NextJob = "apd" /\ UNCHANGED << World, dns >>
  /\ \/ wk.at = "work" /\ (~ap \/ wst # "connected") /\ Done("apd") /\ Becomes(Now1)
     \/ wk.at = "work" /\ ap /\ wst = "connected" /\ guest /\ Done("apd") /\ Becomes([Now1 EXCEPT !.armed = @ \cup {"apd"}])
     \/ wk.at = "work" /\ ap /\ wst = "connected" /\ ~guest /\ wk' = [wk EXCEPT !.at = "mode"] /\ Becomes(Now1)
     \/ wk.at = "mode" /\ wk' = [wk EXCEPT !.at = "flag"] /\ Becomes([Now1 EXCEPT !.radio = {"sta"}])
     \/ wk.at = "mode" /\ stir < MaxStir /\ Done("apd") /\ Becomes([Now1 EXCEPT !.stir = @ + 1])
     \/ wk.at = "flag" /\ Done("apd") /\ Becomes([Now1 EXCEPT !.ap = FALSE, !.shut = @ \/ wst = "aponly"])
Worker == Takes \/ (wk # NoWork /\ (FallsBack \/ OpensAp \/ ConnectsNext \/ ClosesAp))

----------------------------------------------------------------------------
(* What users ask, while no event waits (the loop handles one within        *)
(* milliseconds). A new network when the list is full is tried unsaved, and *)
(* if that call is refused nothing but the fallback follows.               *)
Asked == stir < MaxStir /\ evq = << >> /\ UNCHANGED << wk, World, dns >>
Asking == [Now1 EXCEPT !.stir = @ + 1]
Saves(n) == IF n \in ToSet(creds) \/ Len(creds) >= MaxCreds THEN creds ELSE Append(creds, n)
SetSta(n) ==
  LET saved == Saves(n)
      s == Begins([Asking EXCEPT !.creds = saved])
  IN  /\ Asked
      /\ IF n \in ToSet(saved) THEN \E t \in Connects(s, SelectInSeq(saved, LAMBDA c : c = n)) : Becomes(t)
         ELSE \/ Becomes([s EXCEPT !.shown = n, !.air = n])
              \/ s.stir < MaxStir /\ Becomes([s EXCEPT !.shown = n, !.stir = @ + 1])
ConnectSaved(n) ==
  Asked /\ IdxOf(n) > 0 /\ \E t \in Connects(Begins(Asking), IdxOf(n)) : Becomes(t)
RemoveCred(n) ==
  /\ Asked /\ IdxOf(n) > 0
  /\ LET s == [Asking EXCEPT !.creds = RemoveAt(@, IdxOf(n))]
     IN  IF n # shown THEN Becomes(s)
         ELSE IF s.creds = << >> THEN \E t \in Alone(s) : Becomes(t)
         ELSE \E t \in Connects(Begins(Leaves1(s)), 1) : Becomes(t)
ScanStart == Asked /\ radio = {"ap"} /\ Becomes([Asking EXCEPT !.radio = {"ap", "sta"}])

(* The same two from the page of the portal, which is up with the AP.      *)
PortalConnect(n) == ap /\ SetSta(n)
PortalScan == ap /\ ScanStart

(* dns_task(): the socket follows the access point.                        *)
DnsTask ==
  /\ dns # ap /\ dns' = ap
  /\ UNCHANGED << wst, fast, tryIdx, creds, shown, ap, radio, shut, armed, bits, wk, Driver, evq, World, stir >>

(* The radio: an attempt succeeds or fails; a link in range holds.          *)
Attempt ==
  /\ air # Down /\ air' = Down
  /\ IF air \in range THEN link' = air /\ evq' = Append(evq, "ip") ELSE link' = link /\ evq' = Append(evq, "lost")
  /\ UNCHANGED << wst, fast, tryIdx, creds, shown, ap, radio, shut, armed, bits, wk, World, dns, stir >>
LinkBreaks ==
  /\ link # Down /\ link \notin range /\ link' = Down /\ evq' = Append(evq, "lost")
  /\ UNCHANGED << wst, fast, tryIdx, creds, shown, ap, radio, shut, armed, bits, wk, air, World, dns, stir >>
Surroundings ==
  /\ stir < MaxStir /\ stir' = stir + 1
  /\ \/ \E n \in Networks : range' = (range \cup {n}) \ (range \cap {n}) /\ UNCHANGED guest
     \/ guest' = ~guest /\ (guest \/ ap) /\ UNCHANGED range
  /\ UNCHANGED << wst, fast, tryIdx, creds, shown, ap, radio, shut, armed, bits, wk, Driver, evq, dns >>

WifiUser ==
  \/ \E n \in Networks : SetSta(n) \/ ConnectSaved(n) \/ RemoveCred(n)
  \/ \E n \in Networks : PortalConnect(n)
  \/ ScanStart \/ PortalScan
WifiNext == EventLoop \/ (\E t \in Timers : WifiTimer(t)) \/ Worker \/ WifiUser \/ DnsTask \/ Attempt \/ LinkBreaks \/ Surroundings
WifiSpec ==
  /\ WifiInit /\ [][WifiNext]_wifiVars
  /\ WF_wifiVars(EventLoop) /\ (\A t \in Timers : WF_wifiVars(WifiTimer(t))) /\ WF_wifiVars(Worker)
  /\ WF_wifiVars(DnsTask) /\ WF_wifiVars(Attempt) /\ WF_wifiVars(LinkBreaks)

----------------------------------------------------------------------------
(* Whoever lost the network finds the device: either the station is back,   *)
(* or the access point is up and its portal answers, or it was left shut:    *)
(* the radio refused it, or the worker closed what a page had just opened.  *)
(* Even that lasts only until the next link or the next attempt of a user.  *)
DoorOpens == link = Down ~> link # Down \/ (ap /\ dns) \/ shut

(* A device that has networks goes on trying them: once one of them is in   *)
(* range for good it has a link, whatever was refused, lost or asked.       *)
Reconnects ==
  (\E n \in ToSet(creds) : n \in range) /\ wst # "aponly"
    ~> link # Down \/ wst = "aponly" \/ \A n \in ToSet(creds) : n \notin range
=============================================================================
