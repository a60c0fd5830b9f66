-------------------------------- MODULE Ota --------------------------------
(***************************************************************************)
(* Updates over the network (main/ota.c) on the web server's only task, the *)
(* guards around an upload, and the bootloader's probation of a new image. *)
(* An image is bad when it panics before the network is up; one that fails *)
(* later has been confirmed by then and is the rollback button's business. *)
(***************************************************************************)
EXTENDS Integers

CONSTANTS
  Chunks, Timeouts,      \* pieces of an upload; OTA_RECV_MAX_TIMEOUTS
  ConfirmMin, ConfirmMax, \* OTA_CONFIRM_MIN_S, OTA_CONFIRM_MAX_S
  MaxRequests, MaxCuts   \* bounds: requests, power cuts

ASSUME OtaAssumption ==
  /\ {Chunks, Timeouts} \subseteq Nat \ {0} /\ {MaxRequests, MaxCuts} \subseteq Nat
  /\ ConfirmMin \in Nat \ {0} /\ ConfirmMax \in Nat /\ ConfirmMax > ConfirmMin

VARIABLES
  slots, sel,       \* image and state of each slot; the one otadata selects
  run, up, reach,   \* the running slot, its uptime, whether the network is up
  web,              \* the request the web server works on
  ui,               \* the mirror's stream, the lock on the screen, the backlight
  held, fetching,   \* who holds the HTTPS lock: an upload, a feed
  wdtLong,          \* the task watchdog's timeout
  fs,               \* the asset file system: mounted, and whole
  reqs, cuts        \* what the bounds count
otaVars == << slots, sel, run, up, reach, web, ui, held, fetching, wdtLong, fs, reqs, cuts >>

Other(s) == IF s = "A" THEN "B" ELSE "A"
NoRequest == [at |-> "idle", kind |-> "none", left |-> 0, waits |-> 0]
Awake == [stream |-> TRUE, locked |-> FALSE, lit |-> TRUE]
Slots2 == << slots, sel >>
Guards == << held, fetching, wdtLong >>

OtaInit ==
  /\ slots \in {[A |-> [img |-> "good", st |-> "valid"], B |-> b] :
                  b \in {[img |-> "good", st |-> "valid"], [img |-> "none", st |-> "undef"], [img |-> "bad", st |-> "aborted"]}}
  /\ sel = "A" /\ run = "A" /\ up = 0 /\ reach = FALSE /\ web = NoRequest /\ ui = Awake
  /\ held = FALSE /\ fetching = FALSE /\ wdtLong = FALSE /\ fs = [mounted |-> TRUE, whole |-> TRUE]
  /\ reqs = 0 /\ cuts = 0

----------------------------------------------------------------------------
(* The bootloader: what was on probation is rejected, a new image goes on   *)
(* probation; without a selectable slot it tries the first.                *)
Whole(sl, s) == sl[s].img \in {"good", "bad"}
Usable(sl, s) == Whole(sl, s) /\ sl[s].st # "aborted"
Judged(sl) ==
  [s \in {"A", "B"} |-> IF sl[s].st = "pending" THEN [sl[s] EXCEPT !.st = "aborted"] ELSE sl[s]]
Pick(sl, s) ==
  IF Usable(sl, s) THEN s ELSE IF Usable(sl, Other(s)) THEN Other(s)
  ELSE IF Whole(sl, "A") THEN "A" ELSE "B"
Selected(sl, s) == [sl EXCEPT ![s].st = IF @ = "new" THEN "pending" ELSE @]
Boot(b) ==
  LET judged == Judged(b.sl) pick == Pick(judged, b.sel)
  IN  [sl |-> Selected(judged, pick), sel |-> pick]

Starts(sl, s) ==
  \E b \in {Boot([sl |-> sl, sel |-> s])} :
    /\ slots' = b.sl /\ sel' = b.sel /\ run' = b.sel /\ up' = 0 /\ reach' = FALSE
    /\ web' = NoRequest /\ ui' = Awake /\ held' = FALSE /\ fetching' = FALSE /\ wdtLong' = FALSE
    /\ fs' = [fs EXCEPT !.mounted = fs.whole]

OtaPowerCut == cuts < MaxCuts /\ cuts' = cuts + 1 /\ Starts(slots, sel) /\ UNCHANGED reqs
Panics == slots[run].img = "bad" /\ Starts(slots, sel) /\ UNCHANGED << reqs, cuts >>

(* ota_mark_app_valid(), and the timer that calls it: after a while when    *)
(* the device can be reached, after long in any case.                      *)
Confirmed == [slots EXCEPT ![run].st = IF @ = "pending" THEN "valid" ELSE @]
ProvenAtOnce(t) == TRUE
Proven(t) == (reach /\ t >= ConfirmMin) \/ t >= ConfirmMax
UpTime ==
  /\ up < ConfirmMax /\ up' = up + 1
  /\ slots[run].img = "good" \/ up' < ConfirmMin
  /\ slots' = IF Proven(up') THEN Confirmed ELSE slots
  /\ UNCHANGED << sel, run, reach, web, ui, Guards, fs, reqs, cuts >>
Network ==
  /\ slots[run].img = "good" /\ reach' = ~reach
  /\ UNCHANGED << Slots2, run, up, web, ui, Guards, fs, reqs, cuts >>

----------------------------------------------------------------------------
(* A feed of the energy manager holds the same lock over its exchange.     *)
FeedFetches ==
  /\ IF fetching THEN fetching' = FALSE ELSE ~held /\ fetching' = TRUE
  /\ UNCHANGED << Slots2, run, up, reach, web, ui, held, wdtLong, fs, reqs, cuts >>

(* with_https_paused(): both guards, or the upload goes ahead without the   *)
(* lock when the feed does not finish in time.                             *)
OtaRequest(kind) ==
  /\ web = NoRequest /\ reach /\ reqs < MaxRequests /\ reqs' = reqs + 1
  /\ web' = [at |-> IF kind \in {"fw", "fs"} THEN "pause" ELSE kind, kind |-> kind, left |-> Chunks, waits |-> 0]
  /\ UNCHANGED << Slots2, run, up, reach, ui, Guards, fs, cuts >>

Frozen(lock) == [stream |-> FALSE, locked |-> lock, lit |-> FALSE]
Pauses(lock) ==
  /\ web.at = "pause" /\ held' = ~fetching /\ wdtLong' = TRUE
  /\ IF web.kind = "fw" THEN web' = [web EXCEPT !.at = "header"] /\ UNCHANGED << ui, fs >>
     ELSE web' = [web EXCEPT !.at = "data"] /\ ui' = Frozen(lock) /\ fs' = [fs EXCEPT !.mounted = FALSE]
  /\ UNCHANGED << Slots2, run, up, reach, fetching, reqs, cuts >>

(* Every way out of an upload but the restart.                             *)
Thaws == ui' = Awake
Leaves == web' = NoRequest /\ held' = FALSE /\ wdtLong' = FALSE
Ends ==
  /\ Leaves /\ Thaws
  /\ fs' = IF web.kind = "fs" THEN [fs EXCEPT !.mounted = fs.whole] ELSE fs
  /\ UNCHANGED << run, up, reach, fetching, reqs, cuts >>

(* ota_recv(): a few timeouts are ridden out, then the upload is abandoned. *)
GivesUp(w) == w + 1 >= Timeouts
RecvFails ==
  /\ web.at \in {"header", "data"} /\ Ends /\ UNCHANGED Slots2
RecvTimesOut ==
  /\ web.at \in {"header", "data"}
  /\ IF GivesUp(web.waits) THEN Ends
     ELSE web' = [web EXCEPT !.waits = (@ + 1) % (Timeouts + 1)] /\ UNCHANGED << run, up, reach, ui, Guards, fs, reqs, cuts >>
  /\ UNCHANGED Slots2

(* The header is looked at before anything is erased; it also proves that  *)
(* the running image can be updated.                                       *)
Header(ours, ok, lock) ==
  /\ web.at = "header"
  /\ IF ~ours THEN Ends /\ UNCHANGED Slots2
     ELSE /\ slots' = IF ok THEN [Confirmed EXCEPT ![Other(run)].img = "part"] ELSE Confirmed
          /\ sel' = sel
          /\ IF ok THEN /\ ui' = Frozen(lock) /\ web' = [web EXCEPT !.at = "data", !.waits = 0]
                        /\ UNCHANGED << run, up, reach, Guards, fs, reqs, cuts >>
             ELSE Ends

(* A piece arrives and is written; a write that fails abandons the upload. *)
Piece(ok) ==
  /\ web.at = "data" /\ web.left > 0 /\ UNCHANGED Slots2
  /\ IF ok THEN /\ web' = [web EXCEPT !.left = @ - 1, !.waits = 0]
                /\ fs' = IF web.kind = "fs" THEN [fs EXCEPT !.whole = FALSE] ELSE fs
                /\ UNCHANGED << run, up, reach, ui, Guards, reqs, cuts >>
     ELSE Ends

(* esp_ota_end() refuses a corrupt image, else the slot is selected and    *)
(* started; a file system is mounted again.                                *)
Completes(img, ok) ==
  /\ web.at = "data" /\ web.left = 0
  /\ IF web.kind = "fs"
     THEN /\ Leaves /\ Thaws /\ fs' = [mounted |-> TRUE, whole |-> TRUE]
          /\ UNCHANGED << Slots2, run, up, reach, fetching, reqs, cuts >>
     ELSE IF ~ok THEN Ends /\ UNCHANGED Slots2
     ELSE /\ Starts([slots EXCEPT ![Other(run)] = [img |-> img, st |-> "new"]], Other(run))
          /\ UNCHANGED << reqs, cuts >>

(* /ota/rollback: not to a slot that was rejected or holds no whole image. *)
NoWayBack(s) == slots[s].st = "aborted" \/ ~Whole(slots, s)
Rollback ==
  /\ web.at = "rollback"
  /\ IF NoWayBack(Other(run)) THEN Ends /\ UNCHANGED Slots2
     ELSE /\ Starts([slots EXCEPT ![Other(run)].st = "new"], Other(run))
          /\ UNCHANGED << reqs, cuts >>
OtaReboot == web.at = "reboot" /\ Starts(slots, sel) /\ UNCHANGED << reqs, cuts >>

(* web_mirror.c, /paste: here a timeout only starts the next wait.         *)
Paste(got) ==
  /\ web.at = "paste" /\ UNCHANGED << Slots2, run, up, reach, ui, Guards, fs, reqs, cuts >>
  /\ web' = CASE got = "piece"   -> IF web.left = 1 THEN NoRequest ELSE [web EXCEPT !.left = @ - 1]
              [] got = "gone"    -> NoRequest
              [] got = "timeout" -> [web EXCEPT !.waits = 1 - @]

WebWorks ==
  \/ \E lock \in BOOLEAN : Pauses(lock)
  \/ \E ours, ok, lock \in BOOLEAN : Header(ours, ok, lock)
  \/ RecvFails \/ RecvTimesOut
  \/ \E ok \in BOOLEAN : Piece(ok)
  \/ \E img \in {"good", "bad"}, ok \in BOOLEAN : Completes(img, ok)
  \/ Rollback \/ OtaReboot
  \/ \E got \in {"piece", "gone", "timeout"} : Paste(got)

Kinds == {"fw", "fs", "paste", "rollback", "reboot"}
OtaNext ==
  \/ WebWorks \/ \E kind \in Kinds : OtaRequest(kind)
  \/ UpTime \/ Network \/ FeedFetches \/ OtaPowerCut \/ Panics
OtaSpec == OtaInit /\ [][OtaNext]_otaVars

----------------------------------------------------------------------------
(* Whatever happens next -- power cut or panic -- the bootloader ends up in *)
(* an image that runs: a bad update is never confirmed, a half one never   *)
(* selected.                                                               *)
AlwaysRescuable ==
  LET first == Boot([sl |-> slots, sel |-> sel]) second == Boot(first) third == Boot(second)
  IN  \E b \in {first, second, third} : b.sl[b.sel].img = "good"
=============================================================================
