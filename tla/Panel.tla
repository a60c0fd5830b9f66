------------------------------- MODULE Panel -------------------------------
(***************************************************************************)
(* The display that goes dark and the two pointers that wake it: the finger, *)
(* whose waking tap must press nothing, and the web mirror's, which presses  *)
(* what its user sees (main/ui_flow.c, main/web_mirror.c). An update holds   *)
(* the display still (main/ota.c). All steps but the browser's run on the    *)
(* LVGL task; how LVGL finds the object under a press is external.          *)
(***************************************************************************)
EXTENDS Integers

CONSTANT SleepAfter      \* time without touch until the panel goes dark
ASSUME PanelAssumption == SleepAfter \in Nat \ {0}

VARIABLES
  asleep, backlight,     \* s_asleep; the light
  shield, touching,          \* the blocker is visible; s_shield_held
  sleepOn, idle,         \* s_sleep_ms # 0; lv_display_get_inactive_time()
  finger,                \* a finger is on the glass
  press,                 \* what each pointer is pressing: "up", "shield", "widget"
  latch,                 \* s_pressed and s_release_pending of the mirror
  still                  \* an update holds the LVGL lock
panelVars == << asleep, backlight, shield, touching, sleepOn, idle, finger, press, latch, still >>
sleepVars == << asleep, backlight, shield, touching >>

PanelInit ==
  /\ asleep = FALSE /\ backlight = TRUE /\ shield = FALSE /\ touching = FALSE
  /\ sleepOn \in BOOLEAN /\ idle = 0 /\ finger = FALSE /\ press = [finger |-> "up", web |-> "up"]
  /\ latch = [pressed |-> FALSE, release |-> FALSE] /\ still = FALSE

----------------------------------------------------------------------------
(* The finger comes and goes; the browser's two requests, in any order.      *)
Finger ==
  /\ finger' = ~finger /\ UNCHANGED << sleepVars, sleepOn, idle, press, latch, still >>
Browser(down) ==
  /\ latch' = IF down THEN [pressed |-> TRUE, release |-> FALSE] ELSE [latch EXCEPT !.release = TRUE]
  /\ UNCHANGED << sleepVars, sleepOn, idle, finger, press, still >>

Hit(s) == IF s THEN "shield" ELSE "widget"
(* LVGL samples the glass: a new press goes to the shield if it is there,    *)
(* shield_cb() wakes the panel on it and lets the next tap through when it   *)
(* ends.                                                                   *)
Released == press.finger = "shield" /\ touching' = FALSE /\ shield' = (shield /\ asleep) /\ UNCHANGED << asleep, backlight >>
FingerPress ==
  /\ ~still /\ finger /\ press.finger = "up" /\ press' = [press EXCEPT !.finger = Hit(shield)] /\ idle' = 0
  /\ IF shield THEN touching' = TRUE /\ backlight' = TRUE /\ asleep' = FALSE /\ UNCHANGED shield
               ELSE UNCHANGED sleepVars
  /\ UNCHANGED << sleepOn, finger, latch, still >>
FingerHold ==
  /\ ~still /\ finger /\ press.finger # "up" /\ idle' = 0
  /\ UNCHANGED << sleepVars, sleepOn, finger, press, latch, still >>
FingerRelease ==
  /\ ~still /\ ~finger /\ press.finger # "up" /\ press' = [press EXCEPT !.finger = "up"]
  /\ idle' = IF press.finger = "shield" THEN 0 ELSE idle
  /\ \/ Released
     \/ press.finger = "widget" /\ UNCHANGED sleepVars
  /\ UNCHANGED << sleepOn, finger, latch, still >>

(* ui_flow_wake_display()                                                   *)
ScreenAwake == backlight' = TRUE /\ asleep' = FALSE /\ touching' = FALSE /\ shield' = FALSE
Wake == IF asleep \/ touching THEN ScreenAwake ELSE UNCHANGED sleepVars
(* web_indev_read(): a press is reported once even if its end has come, and  *)
(* wakes the panel before LVGL looks for the object.                       *)
WebPoll ==
  /\ ~still
  /\ latch' = IF latch.pressed /\ latch.release THEN [pressed |-> FALSE, release |-> FALSE] ELSE latch
  /\ IF latch.pressed
     THEN /\ Wake /\ idle' = 0
          /\ press' = [press EXCEPT !.web = IF @ = "up" THEN Hit(shield') ELSE @]
     ELSE press' = [press EXCEPT !.web = "up"] /\ UNCHANGED << sleepVars, idle >>
  /\ UNCHANGED << sleepOn, finger, still >>

(* sleep_timer_cb(): the safety net, then dark, or light again.              *)
NoShield == UNCHANGED shield
ShieldFirst == shield' = TRUE
SleepTimer ==
  /\ ~still
  /\ IF sleepOn /\ ~asleep /\ idle = SleepAfter
     THEN ShieldFirst /\ touching' = FALSE /\ backlight' = FALSE /\ asleep' = TRUE
     ELSE IF sleepOn /\ asleep /\ idle < SleepAfter
     THEN backlight' = TRUE /\ asleep' = FALSE /\ shield' = (shield /\ touching) /\ UNCHANGED touching
     ELSE shield' = (shield /\ (asleep \/ touching)) /\ UNCHANGED << asleep, backlight, touching >>
  /\ UNCHANGED << sleepOn, idle, finger, press, latch, still >>
Idles ==
  /\ idle < SleepAfter /\ idle' = idle + 1
  /\ UNCHANGED << sleepVars, sleepOn, finger, press, latch, still >>
(* The setting, made by one of the pointers.                                *)
SetSleep ==
  /\ ~still /\ "widget" \in {press.finger, press.web} /\ sleepOn' = ~sleepOn
  /\ IF sleepOn /\ asleep THEN backlight' = TRUE /\ asleep' = FALSE /\ shield' = (shield /\ touching) /\ UNCHANGED touching
     ELSE UNCHANGED sleepVars
  /\ UNCHANGED << idle, finger, press, latch, still >>

(* ota_freeze_ui(), ota_thaw_ui(); the lock may not be had.                  *)
Freeze ==
  /\ ~still /\ still' = TRUE /\ backlight' = FALSE
  /\ UNCHANGED << asleep, shield, touching, sleepOn, idle, finger, press, latch >>
Thaw ==
  /\ still /\ still' = FALSE
  /\ IF asleep \/ touching THEN ScreenAwake ELSE backlight' = TRUE /\ UNCHANGED << asleep, shield, touching >>
  /\ UNCHANGED << sleepOn, idle, finger, press, latch >>

Lvgl == FingerPress \/ FingerHold \/ FingerRelease
PanelNext == Finger \/ (\E d \in BOOLEAN : Browser(d)) \/ Lvgl \/ WebPoll \/ SleepTimer \/ Idles \/ SetSleep \/ Freeze \/ Thaw
PanelSpec == PanelInit /\ [][PanelNext]_panelVars

----------------------------------------------------------------------------
(* ui_flow.c:779: the tap that wakes a dark panel presses nothing, from      *)
(* where it starts to where it ends, and the browser's always presses what  *)
(* its user sees.                                                          *)
TapSwallowed ==
  [][/\ ~backlight /\ ~still /\ press.finger = "up" => press.finger' # "widget"
     /\ press.finger = "shield" => press.finger' # "widget"
     /\ press.web' # "shield"]_panelVars
=============================================================================
