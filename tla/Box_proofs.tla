----------------------------- MODULE Box_proofs -----------------------------
(***************************************************************************)
(* Proofs about the box itself: its updates, its network, its settings,    *)
(* what it sends and its screen (the parts of MCBox).                      *)
(***************************************************************************)
EXTENDS Ota, WifiMgr, MqttFwd, Settings, Panel, TLAPS, WellFoundedInduction

-----------------------------------------------------------------------------
(* Ota. A slot's image and state, and what the two slots are in relation    *)
(* to the one that runs: proven good; the last resort, with nothing else to *)
(* start; or on trial, with a good image to fall back to. One that was      *)
(* rejected is fallen back to only when it is the first or the one on trial *)
(* is good as well, as then the bootloader's last resort is good.          *)
SlotType == [img : {"good", "bad", "part", "none"},
             st : {"valid", "new", "pending", "aborted", "undef"}]

Proved(sl, s)     == sl[s].img = "good" /\ sl[s].st = "valid"
LastResort(sl, s) == /\ s = "A" /\ sl[s].img = "good" /\ sl[s].st = "aborted"
                     /\ ~Usable(sl, Other(s))
WayBack(sl, s)    == /\ sl[Other(s)].img = "good"
                     /\ sl[Other(s)].st = "valid" \/ Other(s) = "A" \/ sl[s].img = "good"
OnTrial(sl, s)    == sl[s].st = "pending" /\ Whole(sl, s) /\ WayBack(sl, s)

Sound(sl, s) ==
  /\ sl \in [{"A", "B"} -> SlotType] /\ s \in {"A", "B"}
  /\ \A x \in {"A", "B"} :
       /\ sl[x].st # "new" /\ (x # s => sl[x].st # "pending")
       /\ sl[x].img = "bad" => sl[x].st = "aborted" \/ x = s
       /\ sl[x].img = "good" => sl[x].st # "undef"
  /\ Proved(sl, s) \/ LastResort(sl, s) \/ OnTrial(sl, s)

(* The bootloader gives up a slot on trial. *)
LEMMA JudgedSlots ==
  ASSUME NEW sl \in [{"A", "B"} -> SlotType]
  PROVE  /\ Judged(sl) \in [{"A", "B"} -> SlotType]
         /\ \A x \in {"A", "B"} :
              /\ Judged(sl)[x].img = sl[x].img
              /\ Judged(sl)[x].st = IF sl[x].st = "pending" THEN "aborted" ELSE sl[x].st
<1>1. \A x \in {"A", "B"} :
        /\ Judged(sl)[x] \in SlotType /\ Judged(sl)[x].img = sl[x].img
        /\ Judged(sl)[x].st = IF sl[x].st = "pending" THEN "aborted" ELSE sl[x].st
  BY DEF Judged, SlotType
<1> QED
  BY <1>1 DEF Judged

LEMMA BootIs ==
  ASSUME NEW sl, NEW s
  PROVE  Boot([sl |-> sl, sel |-> s]) =
           [sl |-> Selected(Judged(sl), Pick(Judged(sl), s)), sel |-> Pick(Judged(sl), s)]
BY DEF Boot

(* A restart from sound slots starts a good image, on sound slots.         *)
LEMMA BootGood ==
  ASSUME NEW sl, NEW s, Sound(sl, s), NEW b, b = Boot([sl |-> sl, sel |-> s])
  PROVE  Sound(b.sl, b.sel) /\ b.sl[b.sel].img = "good"
<1> PICK j, p : j = Judged(sl) /\ p = Pick(j, s)
  OBVIOUS
<1>1. /\ j \in [{"A", "B"} -> SlotType]
      /\ \A x \in {"A", "B"} :
              /\ j[x].img = sl[x].img
              /\ j[x].st = IF sl[x].st = "pending" THEN "aborted" ELSE sl[x].st
  BY JudgedSlots DEF Sound
<1>2. s \in {"A", "B"} /\ Other(s) \in {"A", "B"} /\ Other(s) # s
  BY DEF Sound, Other
<1>3. /\ p \in {"A", "B"} /\ j[p].img = "good" /\ j[p].st \in {"valid", "aborted"}
      /\ j[p].st = "aborted" => p = "A" /\ ~Usable(j, Other(p))
  <2>1. CASE Proved(sl, s)
    BY <1>1, <1>2, <2>1 DEF Proved, Pick, Usable, Whole
  <2>2. CASE LastResort(sl, s)
    BY <1>1, <1>2, <2>2 DEF LastResort, Pick, Usable, Whole, Sound
  <2>3. CASE OnTrial(sl, s)
    <3>1. ~Usable(j, s)
      BY <1>1, <1>2, <2>3 DEF OnTrial, Usable
    <3>2. /\ j[Other(s)].img = "good" /\ j[Other(s)].st \in {"valid", "aborted"}
          /\ j[Other(s)].st = "valid" \/ j["A"].img = "good"
      BY <1>1, <1>2, <2>3 DEF OnTrial, WayBack, Sound, SlotType, Other
    <3>3. CASE j[Other(s)].st = "valid"
      BY <1>2, <3>1, <3>2, <3>3 DEF Pick, Usable, Whole
    <3>4. CASE j[Other(s)].st = "aborted"
      BY <1>1, <1>2, <2>3, <3>1, <3>2, <3>4 DEF Pick, Usable, Whole, OnTrial, Other
    <3> QED
      BY <3>2, <3>3, <3>4
  <2> QED
    BY <2>1, <2>2, <2>3 DEF Sound
<1>4. b = [sl |-> Selected(j, p), sel |-> p]
  BY BootIs
<1>5. Selected(j, p) = j
  BY <1>1, <1>3 DEF SlotType, Selected
<1>6. b.sl = j /\ b.sel = p
  BY <1>4, <1>5
<1>7. \A x \in {"A", "B"} :
       /\ j[x].st # "new" /\ j[x].st # "pending"
       /\ j[x].img = "bad" => j[x].st = "aborted"
       /\ j[x].img = "good" => j[x].st # "undef"
  BY <1>1 DEF Sound, Proved, LastResort, OnTrial
<1>8. Proved(j, p) \/ LastResort(j, p)
  BY <1>3 DEF Proved, LastResort
<1> QED
  BY <1>1, <1>3, <1>6, <1>7, <1>8 DEF Sound

(* A slot that was just selected goes on trial. *)
LEMMA BootNew ==
  ASSUME NEW sl \in [{"A", "B"} -> SlotType], NEW s \in {"A", "B"},
         sl[s].st = "new", Whole(sl, s), WayBack(sl, s),
         sl[Other(s)].st \notin {"new", "undef"},
         NEW b, b = Boot([sl |-> sl, sel |-> s])
  PROVE  Sound(b.sl, b.sel)
<1> PICK j, p : j = Judged(sl) /\ p = Pick(j, s)
  OBVIOUS
<1>1. /\ j \in [{"A", "B"} -> SlotType]
      /\ \A x \in {"A", "B"} :
              /\ j[x].img = sl[x].img
              /\ j[x].st = IF sl[x].st = "pending" THEN "aborted" ELSE sl[x].st
  BY JudgedSlots
<1>2. Other(s) \in {"A", "B"} /\ Other(s) # s /\ {"A", "B"} = {s, Other(s)}
  BY DEF Other
<1>3. p = s
  BY <1>1 DEF Pick, Usable, Whole
<1> PICK k : k = Selected(j, p)
  OBVIOUS
<1>4. b = [sl |-> k, sel |-> p]
  BY BootIs
<1>8. b.sl = k /\ b.sel = s
  BY <1>3, <1>4
<1>5. /\ k \in [{"A", "B"} -> SlotType] /\ k[s].st = "pending" /\ k[s].img = sl[s].img
      /\ k[Other(s)] = j[Other(s)]
  BY <1>1, <1>2, <1>3 DEF SlotType, Selected
<1>6. OnTrial(k, s)
  BY <1>1, <1>2, <1>5 DEF OnTrial, WayBack, Whole
<1>7. \A x \in {"A", "B"} :
       /\ k[x].st # "new" /\ (x # s => k[x].st # "pending")
       /\ k[x].img = "bad" => k[x].st = "aborted" \/ x = s
       /\ k[x].img = "good" => k[x].st # "undef"
  BY <1>1, <1>2, <1>5 DEF WayBack
<1> QED
  BY <1>5, <1>6, <1>7, <1>8 DEF Sound

(* What runs is what is selected; whoever can be reached, or works on a    *)
(* request, runs a good image; and an upload that writes a slot has proven *)
(* the running one (or started from the last resort).                      *)
WebType == [at : {"idle", "pause", "header", "data", "rollback", "reboot", "paste"},
            kind : Kinds \cup {"none"}, left : Int, waits : Int]
OtaInv ==
  /\ Sound(slots, run) /\ sel = run /\ up \in Nat /\ web \in WebType
  /\ reach \/ web.at # "idle" => slots[run].img = "good"
  /\ web.at \in {"pause", "data"} => web.kind \in {"fw", "fs"}
  /\ web.at = "header" => web.kind = "fw"
  /\ web.at = "data" /\ web.kind = "fw" => slots[run].st # "pending"

LEMMA OtaInitInv == OtaInit => OtaInv
<1> SUFFICES ASSUME OtaInit PROVE OtaInv
  OBVIOUS
<1>1. /\ slots \in [{"A", "B"} -> SlotType] /\ slots["A"].img = "good" /\ slots["A"].st = "valid"
      /\ slots["B"].st \notin {"new", "pending"}
      /\ (slots["B"].img = "bad" => slots["B"].st = "aborted")
      /\ (slots["B"].img = "good" => slots["B"].st # "undef")
  <2>1. PICK b \in {[img |-> "good", st |-> "valid"], [img |-> "none", st |-> "undef"],
                    [img |-> "bad", st |-> "aborted"]} :
          slots = [A |-> [img |-> "good", st |-> "valid"], B |-> b]
    BY DEF OtaInit
  <2>2. b \in SlotType /\ b.st \notin {"new", "pending"} /\ (b.img = "bad" => b.st = "aborted")
        /\ (b.img = "good" => b.st # "undef")
    BY DEF SlotType
  <2>3. slots["A"] = [img |-> "good", st |-> "valid"] /\ slots["B"] = b
        /\ slots = [x \in {"A", "B"} |-> IF x = "A" THEN [img |-> "good", st |-> "valid"] ELSE b]
    BY <2>1
  <2>4. slots \in [{"A", "B"} -> SlotType]
    BY <2>2, <2>3 DEF SlotType
  <2> QED
    BY <2>2, <2>3, <2>4
<1>2. Sound(slots, run)
  BY <1>1 DEF OtaInit, Sound, Proved
<1> QED
  BY <1>1, <1>2 DEF OtaInit, OtaInv, NoRequest, WebType

(* Every restart: with the slots as they are, or with the other one        *)
(* selected.                                                               *)
LEMMA StartsKeep ==
  ASSUME NEW sl, NEW s, Starts(sl, s),
         \/ Sound(sl, s)
         \/ /\ sl \in [{"A", "B"} -> SlotType] /\ s \in {"A", "B"}
            /\ sl[s].st = "new" /\ Whole(sl, s) /\ WayBack(sl, s)
            /\ sl[Other(s)].st \notin {"new", "undef"}
  PROVE  OtaInv'
<1> PICK b : b = Boot([sl |-> sl, sel |-> s])
  OBVIOUS
<1>1. /\ slots' = b.sl /\ sel' = b.sel /\ run' = b.sel /\ up' = 0 /\ ~reach' /\ web' = NoRequest
  BY DEF Starts
<1>2. Sound(b.sl, b.sel)
  BY BootGood, BootNew
<1> QED
  BY <1>1, <1>2 DEF OtaInv, NoRequest, WebType

(* ota_mark_app_valid() on a good image. *)
LEMMA ConfirmedSound ==
  ASSUME OtaInv, slots[run].img = "good"
  PROVE  Sound(Confirmed, run) /\ Confirmed[run].img = "good" /\ Confirmed[run].st # "pending"
<1> PICK c : c = Confirmed
  OBVIOUS
<1>1. /\ slots \in [{"A", "B"} -> SlotType] /\ run \in {"A", "B"} /\ Sound(slots, run)
      /\ Other(run) \in {"A", "B"} /\ Other(run) # run
  BY DEF OtaInv, Sound, Other
<1>2. /\ c \in [{"A", "B"} -> SlotType] /\ c[run].img = slots[run].img
      /\ c[run].st = IF slots[run].st = "pending" THEN "valid" ELSE slots[run].st
      /\ \A x \in {"A", "B"} : x # run => c[x] = slots[x]
  BY <1>1 DEF Confirmed, SlotType
<1>3. Proved(c, run) \/ LastResort(c, run)
  BY <1>1, <1>2 DEF Sound, Proved, LastResort, OnTrial, Usable, Whole
<1>4. \A x \in {"A", "B"} :
       /\ c[x].st # "new" /\ (x # run => c[x].st # "pending")
       /\ c[x].img = "bad" => c[x].st = "aborted" \/ x = run
       /\ c[x].img = "good" => c[x].st # "undef"
  BY <1>1, <1>2 DEF Sound
<1> QED
  BY <1>1, <1>2, <1>3, <1>4 DEF Sound

(* The actions that leave the slots alone. *)
LEMMA OtaSame ==
  ASSUME OtaInv, UNCHANGED << slots, sel, run, up, reach >>,
         web' \in WebType,
         web'.at # "idle" => slots[run].img = "good",
         web'.at = "data" => web'.kind = "fs" \/ (web.at = "data" /\ web'.kind = web.kind),
         web'.at = "pause" => web'.kind \in {"fw", "fs"}, web'.at = "header" => web'.kind = "fw"
  PROVE  OtaInv'
BY DEF OtaInv, Sound

(* The writing of an upload: the other slot is no image until it is whole. *)
Parted(sl, s) == [sl EXCEPT ![Other(s)].img = "part"]

LEMMA PartWritten ==
  ASSUME NEW sl, NEW s, Sound(sl, s), sl[s].st # "pending",
         NEW p, p = Parted(sl, s)
  PROVE  Sound(p, s) /\ p[s] = sl[s]
<1>1. s \in {"A", "B"} /\ Other(s) \in {"A", "B"} /\ Other(s) # s /\ sl \in [{"A", "B"} -> SlotType]
  BY DEF Sound, Other
<1>2. /\ p \in [{"A", "B"} -> SlotType] /\ p[s] = sl[s]
      /\ p[Other(s)].img = "part" /\ p[Other(s)].st = sl[Other(s)].st
      /\ \A x \in {"A", "B"} : x = s \/ x = Other(s)
  BY <1>1 DEF SlotType, Other, Parted
<1>3. Proved(p, s) \/ LastResort(p, s)
  BY <1>1, <1>2 DEF Sound, Proved, LastResort, OnTrial, Usable, Whole
<1>4. \A x \in {"A", "B"} :
       /\ p[x].st # "new" /\ (x # s => p[x].st # "pending")
       /\ p[x].img = "bad" => p[x].st = "aborted" \/ x = s
       /\ p[x].img = "good" => p[x].st # "undef"
  BY <1>1, <1>2 DEF Sound
<1> QED
  BY <1>1, <1>2, <1>3, <1>4 DEF Sound

LEMMA OtaUpTime ==
  ASSUME OtaInv, UpTime PROVE OtaInv'
<1>1. /\ up' = up + 1 /\ (slots[run].img = "good" \/ up' < ConfirmMin)
      /\ slots' = (IF Proven(up') THEN Confirmed ELSE slots)
      /\ UNCHANGED << sel, run, reach, web >> /\ up' \in Nat
  BY DEF UpTime, OtaInv
<1>2. CASE Proven(up')
  <2>1. slots[run].img = "good"
    BY <1>1, <1>2, OtaAssumption DEF Proven
  <2>2. Sound(slots', run) /\ slots'[run].img = "good" /\ slots'[run].st # "pending"
    BY <1>1, <1>2, <2>1, ConfirmedSound
  <2> QED
    BY <1>1, <2>2 DEF OtaInv
<1>3. CASE ~Proven(up')
  BY <1>1, <1>3 DEF OtaInv
<1> QED
  BY <1>2, <1>3

LEMMA OtaHeader ==
  ASSUME OtaInv, NEW ours \in BOOLEAN, NEW ok \in BOOLEAN, NEW lock \in BOOLEAN,
         Header(ours, ok, lock)
  PROVE  OtaInv'
<1>1. web.at = "header" /\ web \in WebType /\ slots[run].img = "good"
  BY DEF Header, OtaInv
<1>2. NoRequest \in WebType /\ NoRequest.at = "idle"
  BY DEF NoRequest, WebType
<1>3. CASE ~ours
  BY <1>2, <1>3, OtaSame DEF Header, Ends, Leaves, Slots2
<1>4. CASE ours /\ ~ok
  <2>1. slots' = Confirmed /\ UNCHANGED << sel, run, up, reach >> /\ web' = NoRequest
    BY <1>4 DEF Header, Ends, Leaves
  <2>2. Sound(slots', run) /\ slots'[run].img = "good" /\ slots'[run].st # "pending"
    BY <1>1, <2>1, ConfirmedSound
  <2> QED
    BY <1>2, <2>1, <2>2 DEF OtaInv
<1>5. CASE ours /\ ok
  <2>1. /\ slots' = [Confirmed EXCEPT ![Other(run)].img = "part"]
        /\ UNCHANGED << sel, run, up, reach >> /\ web' = [web EXCEPT !.at = "data", !.waits = 0]
    BY <1>5 DEF Header
  <2>2. Sound(Confirmed, run) /\ Confirmed[run].img = "good" /\ Confirmed[run].st # "pending"
    BY <1>1, ConfirmedSound
  <2> PICK c : c = Confirmed
    OBVIOUS
  <2>3. Sound(slots', run) /\ slots'[run] = Confirmed[run]
    <3> PICK p : p = slots'
      OBVIOUS
    <3>1. p = Parted(c, run)
      BY <2>1 DEF Parted
    <3> QED
      BY <2>2, <3>1, PartWritten
  <2>4. web' \in WebType /\ web'.at = "data" /\ web'.kind = "fw"
    <3>1. web' = [at |-> "data", kind |-> web.kind, left |-> web.left, waits |-> 0]
      BY <1>1, <2>1 DEF WebType
    <3> QED
      BY <1>1, <3>1 DEF WebType, OtaInv
  <2> QED
    BY <2>1, <2>2, <2>3, <2>4 DEF OtaInv
<1> QED
  BY <1>3, <1>4, <1>5

LEMMA OtaCompletes ==
  ASSUME OtaInv, NEW img \in {"good", "bad"}, NEW ok \in BOOLEAN, Completes(img, ok)
  PROVE  OtaInv'
<1>1. web.at = "data" /\ web \in WebType /\ slots[run].img = "good"
  BY DEF Completes, OtaInv
<1>2. NoRequest \in WebType /\ NoRequest.at = "idle"
  BY DEF NoRequest, WebType
<1>3. CASE web.kind = "fs" \/ ~ok
  BY <1>2, <1>3, OtaSame DEF Completes, Ends, Leaves, Slots2
<1>4. CASE web.kind # "fs" /\ ok
  <2> PICK sl, s : sl = [slots EXCEPT ![Other(run)] = [img |-> img, st |-> "new"]] /\ s = Other(run)
    OBVIOUS
  <2>1. Starts(sl, s)
    BY <1>4 DEF Completes
  <2>2. /\ run \in {"A", "B"} /\ s \in {"A", "B"} /\ s # run /\ Other(s) = run
        /\ slots \in [{"A", "B"} -> SlotType] /\ Sound(slots, run)
    BY DEF OtaInv, Sound, Other
  <2>3. sl \in [{"A", "B"} -> SlotType] /\ sl[s].st = "new" /\ Whole(sl, s) /\ sl[run] = slots[run]
    BY <2>2 DEF SlotType, Whole
  <2>4. slots[run].st \notin {"new", "undef"}
    BY <1>1, <2>2 DEF Sound
  <2>5. slots[run].st = "valid" \/ run = "A"
    BY <1>1, <1>4, <2>2 DEF OtaInv, Sound, Proved, LastResort, OnTrial
  <2> QED
    BY <1>1, <2>1, <2>2, <2>3, <2>4, <2>5, StartsKeep DEF WayBack
<1> QED
  BY <1>3, <1>4

(* The rest of the web server's steps; a rollback needs a good image.      *)
LEMMA OtaWeb ==
  ASSUME OtaInv, WebWorks PROVE OtaInv'
<1>1. /\ web \in WebType /\ NoRequest \in WebType /\ NoRequest.at = "idle"
      /\ Sound(slots, run) /\ sel = run /\ (web.at # "idle" => slots[run].img = "good")
      /\ web.at = "pause" => web.kind \in {"fw", "fs"}
      /\ web.at = "header" => web.kind = "fw"
  BY DEF NoRequest, WebType, OtaInv
<1>2. ASSUME Ends, UNCHANGED Slots2 PROVE OtaInv'
  BY <1>1, <1>2, OtaSame DEF Ends, Leaves, Slots2
<1>3. ASSUME NEW lock \in BOOLEAN, Pauses(lock) PROVE OtaInv'
  <2>1. /\ web.at = "pause" /\ UNCHANGED << slots, sel, run, up, reach >>
        /\ web' = [web EXCEPT !.at = IF web.kind = "fw" THEN "header" ELSE "data"]
    BY <1>3 DEF Pauses, Slots2
  <2>2. /\ web' \in WebType /\ web'.kind = web.kind
        /\ web'.at = IF web.kind = "fw" THEN "header" ELSE "data"
    BY <1>1, <2>1 DEF WebType
  <2> QED
    BY <1>1, <2>1, <2>2, OtaSame
<1>4. ASSUME RecvTimesOut PROVE OtaInv'
  <2>1. CASE GivesUp(web.waits)
    BY <1>2, <1>4, <2>1 DEF RecvTimesOut
  <2>2. CASE ~GivesUp(web.waits)
    <3>1. /\ UNCHANGED << slots, sel, run, up, reach >>
          /\ web' = [web EXCEPT !.waits = (web.waits + 1) % (Timeouts + 1)]
      BY <1>4, <2>2 DEF RecvTimesOut, Slots2
    <3>2. web' \in WebType /\ web'.kind = web.kind /\ web'.at = web.at
      BY <1>1, <3>1, OtaAssumption DEF WebType
    <3> QED
      BY <1>1, <3>1, <3>2, OtaSame
  <2> QED
    BY <2>1, <2>2
<1>5. ASSUME NEW ok \in BOOLEAN, Piece(ok) PROVE OtaInv'
  <2>1. CASE ok
    <3>1. /\ UNCHANGED << slots, sel, run, up, reach >>
          /\ web' = [web EXCEPT !.left = web.left - 1, !.waits = 0]
      BY <1>5, <2>1 DEF Piece, Slots2
    <3>2. web' = [at |-> web.at, kind |-> web.kind, left |-> web.left - 1, waits |-> 0]
      BY <1>1, <3>1 DEF WebType
    <3>3. web' \in WebType /\ web'.kind = web.kind /\ web'.at = web.at
      BY <1>1, <3>2 DEF WebType
    <3> QED
      BY <1>1, <3>1, <3>3, OtaSame
  <2>2. CASE ~ok
    BY <1>2, <1>5, <2>2 DEF Piece
  <2> QED
    BY <2>1, <2>2
<1>6. ASSUME Rollback PROVE OtaInv'
  <2>1. CASE NoWayBack(Other(run))
    BY <1>2, <1>6, <2>1 DEF Rollback
  <2>2. CASE ~NoWayBack(Other(run))
    <3> PICK sl, s : sl = [slots EXCEPT ![Other(run)].st = "new"] /\ s = Other(run)
      OBVIOUS
    <3>1. Starts(sl, s) /\ slots[run].img = "good"
      BY <1>1, <1>6, <2>2 DEF Rollback
    <3>2. /\ run \in {"A", "B"} /\ s \in {"A", "B"} /\ s # run /\ Other(s) = run
          /\ slots \in [{"A", "B"} -> SlotType]
      BY <1>1 DEF Sound, Other
    <3>3. slots[s].img = "good"
      BY <1>1, <2>2, <3>2 DEF NoWayBack, Whole, Sound
    <3>4. /\ sl \in [{"A", "B"} -> SlotType] /\ sl[s].st = "new" /\ Whole(sl, s)
          /\ sl[run] = slots[run] /\ sl[s].img = "good"
      BY <3>2, <3>3 DEF SlotType, Whole
    <3>5. slots[run].st \notin {"new", "undef"}
      BY <1>1, <3>1, <3>2 DEF Sound
    <3> QED
      BY <3>1, <3>2, <3>4, <3>5, StartsKeep DEF WayBack
  <2> QED
    BY <2>1, <2>2
<1>7. CASE OtaReboot
  BY <1>1, <1>7, StartsKeep DEF OtaReboot
<1>8. ASSUME NEW got \in {"piece", "gone", "timeout"}, Paste(got) PROVE OtaInv'
  <2>1. UNCHANGED << slots, sel, run, up, reach >> /\ web.at = "paste"
    BY <1>8 DEF Paste, Slots2
  <2>2. \/ web' = NoRequest
        \/ web' = [web EXCEPT !.left = web.left - 1] \/ web' = [web EXCEPT !.waits = 1 - web.waits]
    BY <1>8, Zenon DEF Paste
  <2>3. web' = NoRequest \/ (web' \in WebType /\ web'.at = "paste")
    BY <1>1, <2>1, <2>2 DEF WebType
  <2> QED
    BY <1>1, <2>1, <2>3, OtaSame
<1> QED
  BY <1>2, <1>3, <1>4, <1>5, <1>6, <1>7, <1>8, OtaHeader, OtaCompletes DEF WebWorks, RecvFails

LEMMA OtaStep ==
  ASSUME OtaInv, [OtaNext]_otaVars PROVE OtaInv'
<1>1. ASSUME NEW kind \in Kinds, OtaRequest(kind) PROVE OtaInv'
  <2>1. /\ reach /\ UNCHANGED << slots, sel, run, up, reach >>
        /\ web' = [at |-> IF kind \in {"fw", "fs"} THEN "pause" ELSE kind, kind |-> kind,
                   left |-> Chunks, waits |-> 0]
    BY <1>1 DEF OtaRequest, Slots2
  <2>2. web' \in WebType /\ web'.kind = kind /\ web'.at = IF kind \in {"fw", "fs"} THEN "pause" ELSE kind
    BY <2>1, OtaAssumption DEF WebType, Kinds
  <2> QED
    BY <2>1, <2>2, OtaSame DEF OtaInv, Kinds
<1>2. CASE Network
  BY <1>2 DEF OtaInv, Network, Slots2
<1>3. CASE FeedFetches
  BY <1>3 DEF OtaInv, FeedFetches, Slots2
<1>4. CASE OtaPowerCut \/ Panics
  BY <1>4, StartsKeep DEF OtaInv, OtaPowerCut, Panics
<1>5. CASE UNCHANGED otaVars
  BY <1>5 DEF OtaInv, otaVars
<1> QED
  BY <1>1, <1>2, <1>3, <1>4, <1>5, OtaWeb, OtaUpTime DEF OtaNext

(* Whatever is uploaded, rolled back to, cut off or panics, and in whatever *)
(* order: the very next boot starts an image that runs.                    *)
THEOREM RescueSound == OtaSpec => []AlwaysRescuable
<1>1. OtaInv => AlwaysRescuable
  <2> SUFFICES ASSUME OtaInv PROVE AlwaysRescuable
    OBVIOUS
  <2> PICK b : b = Boot([sl |-> slots, sel |-> sel])
    OBVIOUS
  <2>1. b.sl[b.sel].img = "good"
    BY BootGood DEF OtaInv
  <2> QED
    BY <2>1 DEF AlwaysRescuable
<1> QED
  BY OtaInitInv, OtaStep, <1>1, PTL DEF OtaSpec

-----------------------------------------------------------------------------
(* MqttFwd. A command the broker kept comes by ForceCmd(TRUE), which starts  *)
(* nothing; only one that is being sent does, and at most one mode.        *)
Counted == sends \in Nat /\ starts \in Nat /\ starts <= sends

LEMMA RepeatedStartsNothing == ForceCmd(TRUE) => UNCHANGED << force, starts >>
BY DEF ForceCmd, Accepts

LEMMA StartsAtMostOne ==
  ASSUME starts \in Nat, ForceCmd(FALSE)
  PROVE  starts' \in Nat /\ starts' <= starts + 1
<1>1. starts' = starts + 1 \/ starts' = starts
  BY Zenon DEF ForceCmd
<1> QED
  BY <1>1

(* mqtt_fwd.c:465, handle_byd_force(), handle_deye_force(): one start sent   *)
(* starts at most one forced mode, over any number of brokers, commands,    *)
(* reconnects and brokers that forget, whatever the bounds of the run.      *)
THEOREM CommandsStartOnce == MqttSpec => []StartedOnce
<1>1. MqttInit => Counted
  BY DEF MqttInit, Counted
<1>2. Counted /\ [MqttNext]_mqttVars => Counted'
  <2> SUFFICES ASSUME Counted, [MqttNext]_mqttVars PROVE Counted'
    OBVIOUS
  <2> USE DEF Counted
  <2>1. CASE UNCHANGED mqttVars
    BY <2>1 DEF mqttVars
  <2>2. CASE MqttTask
    BY <2>2 DEF MqttTask, TakesRestart, Farewell, Stops, StartsClient, PublishesCounters, Commands
  <2>3. CASE Connects1 \/ Hello \/ NoticesLoss
    BY <2>3 DEF Connects1, Hello, NoticesLoss, Commands
  <2>4. CASE Subscribes
    BY <2>4, RepeatedStartsNothing DEF Subscribes
  <2>5. CASE \E c \in [host : Brokers, on : BOOLEAN, deny : BOOLEAN] : SetCfg(c)
    BY <2>5 DEF SetCfg, Commands
  <2>6. ASSUME NEW b \in Brokers, NEW keep \in BOOLEAN, Sends(b, keep)
        PROVE  Counted'
    <3>1. sends' = sends + 1
      BY <2>6 DEF Sends
    <3>2. ForceCmd(FALSE) \/ starts' = starts
      BY <2>6, Zenon DEF Sends
    <3> QED
      <4>1. CASE ForceCmd(FALSE)
        <5>1. starts' \in Nat /\ starts' <= starts + 1
          BY <4>1, StartsAtMostOne
        <5> QED
          BY <5>1, <3>1
      <4>2. CASE starts' = starts
        BY <4>2, <3>1
      <4> QED
        BY <3>2, <4>1, <4>2
  <2>7. CASE ForceEnds \/ DevicesChange \/ \E f \in BOOLEAN : Breaks(f)
    BY <2>7 DEF ForceEnds, DevicesChange, Breaks, Commands
  <2> QED
    BY <2>1, <2>2, <2>3, <2>4, <2>5, <2>6, <2>7 DEF MqttNext, ClientTask
<1>3. Counted => StartedOnce
  BY DEF Counted, StartedOnce
<1> QED
  BY <1>1, <1>2, <1>3, PTL DEF MqttSpec

-----------------------------------------------------------------------------
(* Panel. A press that began on the shield stays there; a dark panel has    *)
(* its shield up, or an update holds the display, so that nothing of the   *)
(* glass reaches a widget.                                                 *)
Pressing == [finger : {"up", "shield", "widget"}, web : {"up", "widget"}]
Covered ==
  /\ {asleep, backlight, shield, touching, still} \subseteq BOOLEAN
  /\ press \in Pressing
  /\ asleep => shield                      \* dark is never uncovered
  /\ shield => asleep \/ touching          \* no shield is left over
  /\ backlight \/ still \/ asleep          \* dark for one of two reasons

SwallowStep ==
  /\ ~backlight /\ ~still /\ press.finger = "up" => press.finger' # "widget"
  /\ press.finger = "shield" => press.finger' # "widget"
  /\ press.web' # "shield"

LEMMA PanelStarts == PanelInit => Covered
<1> SUFFICES ASSUME PanelInit PROVE Covered
  OBVIOUS
<1>1. press \in Pressing
  BY DEF PanelInit, Pressing
<1>2. ~asleep /\ ~shield /\ backlight /\ ~touching /\ ~still
  BY DEF PanelInit
<1>3. {asleep, backlight, shield, touching, still} \subseteq BOOLEAN
  BY DEF PanelInit
<1> QED
  BY <1>1, <1>2, <1>3 DEF Covered

(* Whatever the pointers, the timer and an update do in turn, the shield    *)
(* covers a dark panel and only that.                                      *)
LEMMA PanelSteps == Covered /\ [PanelNext]_panelVars => Covered'
<1> SUFFICES ASSUME Covered, [PanelNext]_panelVars PROVE Covered'
  OBVIOUS
<1> USE DEF Covered, Pressing
<1>1. CASE UNCHANGED panelVars
  BY <1>1 DEF panelVars
<1>2. CASE Finger \/ Idles \/ \E d \in BOOLEAN : Browser(d)
  BY <1>2 DEF Finger, Browser, Idles, sleepVars
<1>3. CASE FingerPress
  <2>1. press' \in Pressing
    BY <1>3 DEF FingerPress, Hit
  <2>2. CASE shield
    BY <2>1, <2>2, <1>3 DEF FingerPress
  <2>3. CASE ~shield
    BY <2>1, <2>3, <1>3 DEF FingerPress, sleepVars
  <2> QED
    BY <2>2, <2>3
<1>4. CASE FingerHold
  BY <1>4 DEF FingerHold, sleepVars
<1>5. CASE FingerRelease
  <2>1. press' \in Pressing
    BY <1>5 DEF FingerRelease
  <2>2. CASE Released
    BY <2>1, <2>2, <1>5 DEF FingerRelease, Released
  <2>3. CASE UNCHANGED sleepVars
    BY <2>1, <2>3, <1>5 DEF FingerRelease, sleepVars
  <2> QED
    BY <2>2, <2>3, <1>5 DEF FingerRelease
<1>6. CASE WebPoll
  <2>1. CASE latch.pressed
    <3>1. Wake /\ press' = [press EXCEPT !.web = IF @ = "up" THEN Hit(shield') ELSE @] /\ still' = still
      BY <2>1, <1>6 DEF WebPoll
    <3>2. /\ ~shield'
          /\ {asleep', backlight', shield', touching'} \subseteq BOOLEAN
          /\ ~asleep' /\ (backlight' \/ still')
      BY <3>1 DEF Wake, ScreenAwake, sleepVars
    <3>3. press' \in Pressing
      BY <3>1, <3>2 DEF Hit
    <3> QED
      BY <3>1, <3>2, <3>3
  <2>2. CASE ~latch.pressed
    BY <2>2, <1>6 DEF WebPoll, sleepVars
  <2> QED
    BY <2>1, <2>2
<1>7. CASE SleepTimer
  BY <1>7 DEF SleepTimer, ShieldFirst
<1>8. CASE SetSleep
  BY <1>8 DEF SetSleep, sleepVars
<1>9. CASE Freeze
  BY <1>9 DEF Freeze
<1>10. CASE Thaw
  BY <1>10 DEF Thaw, ScreenAwake
<1> QED
  BY <1>1, <1>2, <1>3, <1>4, <1>5, <1>6, <1>7, <1>8, <1>9, <1>10 DEF PanelNext, Lvgl

LEMMA PressStays == Covered /\ Covered' /\ [PanelNext]_panelVars => SwallowStep
<1> SUFFICES ASSUME Covered, Covered', [PanelNext]_panelVars PROVE SwallowStep
  OBVIOUS
<1>1. press.web' # "shield"
  BY DEF Covered, Pressing
<1>2. press' = press \/ FingerPress \/ FingerRelease \/ press'.finger = press.finger
  BY DEF Covered, Pressing, PanelNext, Lvgl, panelVars, Finger, Browser, FingerHold, WebPoll,
         SleepTimer, Idles, SetSleep, Freeze, Thaw
<1>3. CASE FingerPress
  BY <1>3, <1>1 DEF FingerPress, Hit, Covered, Pressing, SwallowStep
<1>4. CASE FingerRelease
  BY <1>4, <1>1 DEF FingerRelease, Covered, Pressing, SwallowStep
<1>5. CASE press'.finger = press.finger
  BY <1>5, <1>1 DEF SwallowStep
<1> QED
  BY <1>2, <1>3, <1>4, <1>5

(* ui_flow.c:779: the tap that wakes a dark panel presses nothing, from      *)
(* where it starts to where it ends, and the browser's press never falls on *)
(* the shield, in any interleaving of finger, browser, timer and update.   *)
THEOREM TapsSwallowed == PanelSpec => TapSwallowed
<1>1. PanelSpec => []Covered
  <2> QED
    BY PanelStarts, PanelSteps, PTL DEF PanelSpec
<1>2. Covered /\ Covered' /\ [PanelNext]_panelVars => [SwallowStep]_panelVars
  BY PressStays
<1>3. PanelSpec => [][SwallowStep]_panelVars
  BY <1>1, <1>2, PTL DEF PanelSpec
<1>4. [SwallowStep]_panelVars <=>
        [/\ ~backlight /\ ~still /\ press.finger = "up" => press.finger' # "widget"
         /\ press.finger = "shield" => press.finger' # "widget"
         /\ press.web' # "shield"]_panelVars
  BY DEF SwallowStep
<1> QED
  BY <1>3, <1>4, PTL DEF TapSwallowed

-----------------------------------------------------------------------------
(* Settings. What is stored, shown and loaded as the user set it, and the    *)
(* list of devices in the layouts it had.                                  *)
ListOf(l, n) == [size |-> RecSize[l], count |-> n]
Record == {<< >>} \cup [1..2 -> Nat] \cup [1..3 -> Nat]
FieldOf(rec, i) == IF i \in DOMAIN rec THEN rec[i] ELSE 0
\* x holds field i as the user set it; what was never set may hold a default
AsSet(x, i, was) == x = was \/ (i = 1 /\ was = 0)

SetTyped ==
  /\ fware \in {"old", "new"} /\ typed \subseteq 1..Known[fware]
  /\ {inFlash, backup.rec} \subseteq Record /\ chosen \in [1..3 -> Nat]
  /\ {cfg, tab, inUse} \subseteq [1..Known[fware] -> Nat]
InStore == \A i \in 1..3 : AsSet(FieldOf(inFlash, i), i, chosen[i])
InModule == \A i \in 1..Known[fware] :
              /\ AsSet(cfg[i], i, inUse[i])
              /\ i \notin typed => AsSet(tab[i], i, inUse[i])
PutIn(k, l, n) == [k EXCEPT ![l] = ListOf(l, n)]
KeysOf(k) ==
  /\ k \in [4..6 -> [size : Nat, count : Nat]]
  /\ \A l \in 4..6 : k[l] = NoList \/ (k[l] = ListOf(l, k[l].count) /\ k[l].count \in 0..MaxDev)
ListOwned ==
  /\ KeysOf(devKeys) /\ owned \in [{5, 6} -> Int] /\ forgotten \subseteq {5, 6}
  /\ \A l \in {5, 6} : l \notin forgotten => owned[l] = Listed(devKeys, l)
ListUsed == own \notin forgotten => devices = served
ListInFile == \/ backup.devs = NoList
              \/ \E l \in 4..6, n \in 0..MaxDev : backup.devs = ListOf(l, n)
SetInv == SetTyped /\ InStore /\ InModule /\ ListOwned /\ ListUsed /\ ListInFile

LEMMA KnownFields == Known["old"] = 2 /\ Known["new"] = 3 /\ Firmwares = {"old", "new"}
BY DEF Known, Firmwares

LEMMA MultipleFits == ASSUME NEW a \in Nat \ {0}, NEW n \in Nat PROVE (a * n) % a = 0
OBVIOUS

LEMMA OwnLayout == own = Layout[fware] /\ Layout["old"] = 5 /\ Layout["new"] = 6
BY DEF own, Layout

(* Whatever its layout, a list is read with all its devices, and as empty    *)
(* by a firmware that does not know the layout.                            *)
LEMMA ListDecoded ==
  ASSUME LayoutsApart, NEW top \in {5, 6}, NEW l \in 4..6, NEW n \in 0..MaxDev
  PROVE  Decoded(ListOf(l, n), top) = IF l <= top THEN n ELSE 0
<1>1. CASE n = 0
  BY <1>1 DEF Decoded, ListOf
<1>2. CASE n # 0
  <2> PICK bytes : bytes = RecSize[l] * n
    OBVIOUS
  <2>1. /\ RecSize[l] \in Nat \ {0} /\ n \in 1..MaxDev /\ l \in Nat /\ MaxDev \in Nat
    BY <1>2, SettingsAssumption
  <2>2. ListOf(l, n).size = RecSize[l] /\ ListOf(l, n).count = n
    BY DEF ListOf
  <2>3. \A m \in Fits(bytes, top) : m \in 4..6 /\ m <= top /\ l \in m..top
    BY <2>1 DEF Fits, LayoutsApart
  <2>4. CASE l > top
    <3>1. Fits(bytes, top) = {}
      BY <2>1, <2>3, <2>4
    <3> QED
      BY <2>2, <2>4, <3>1 DEF Decoded
  <2>5. CASE l <= top
    <3>1. l \in Fits(bytes, top)
      BY <2>1, <2>5, MultipleFits DEF Fits
    <3>2. \A x \in Fits(bytes, top) : (\A m \in Fits(bytes, top) : m <= x) => x = l
      <4> SUFFICES ASSUME NEW x \in Fits(bytes, top), \A m \in Fits(bytes, top) : m <= x PROVE x = l
        OBVIOUS
      <4>1. x \in 4..6 /\ l <= x /\ x <= l
        BY <2>1, <2>3, <3>1
      <4> QED
        BY <4>1
    <3>3. \A m \in Fits(bytes, top) : m <= l
      BY <2>1, <2>3
    <3>4. Newest(Fits(bytes, top)) = l
      BY <3>1, <3>2, <3>3 DEF Newest
    <3>5. Fits(bytes, top) # {}
      BY <3>1
    <3> QED
      BY <1>2, <2>2, <2>5, <3>4, <3>5 DEF Decoded
  <2> QED
    BY <2>1, <2>4, <2>5
<1> QED
  BY <1>1, <1>2

LEMMA KeyDecoded ==
  ASSUME LayoutsApart, NEW top \in {5, 6}, NEW l \in 4..top, NEW k, KeysOf(k)
  PROVE  Decoded(k[l], top) = k[l].count /\ k[l].count \in Nat
<1>1. l \in 4..6 /\ l <= top
  OBVIOUS
<1>2. CASE k[l] = NoList
  BY <1>2 DEF Decoded, NoList
<1>3. CASE k[l] = ListOf(l, k[l].count) /\ k[l].count \in 0..MaxDev
  <2> PICK n \in 0..MaxDev : n = k[l].count
    BY <1>3
  <2>1. Decoded(ListOf(l, n), top) = n
    BY <1>1, ListDecoded
  <2> QED
    BY <1>3, <2>1, SettingsAssumption
<1> QED
  BY <1>1, <1>2, <1>3 DEF KeysOf

(* load_cfg_into(), layout by layout.                                       *)
LEMMA ListedIs ==
  ASSUME LayoutsApart, NEW k, KeysOf(k)
  PROVE  /\ Listed(k, 5) = IF k[5] # NoList THEN k[5].count ELSE k[4].count
         /\ Listed(k, 6) = IF k[6] # NoList THEN k[6].count
                           ELSE IF k[5].count > 0 THEN k[5].count ELSE k[4].count
         /\ \A top \in {5, 6} : Listed(k, top) \in 0..MaxDev
         /\ \A top \in {5, 6} : Old(k, top) = {} => \A l \in 4..top-1 : k[l].count = 0
<1>1. \A top \in {5, 6}, l \in {4, 5, 6} : l <= top => Decoded(k[l], top) = k[l].count /\ k[l].count \in Nat
  <2> SUFFICES ASSUME NEW top \in {5, 6}, NEW l \in {4, 5, 6}, l <= top
               PROVE  Decoded(k[l], top) = k[l].count /\ k[l].count \in Nat
    OBVIOUS
  <2>1. l \in 4..top
    OBVIOUS
  <2> QED
    BY <2>1, KeyDecoded
<1>2. Old(k, 5) = (IF k[4].count > 0 THEN {4} ELSE {})
  BY <1>1 DEF Old
<1>3. Old(k, 6) = { l \in {4, 5} : k[l].count > 0 }
  BY <1>1 DEF Old
<1>4. /\ Newest({4}) = 4 /\ Newest({5}) = 5 /\ Newest({4, 5}) = 5
  <2>1. \A x \in {4, 5} : (\A m \in {4, 5} : m <= x) <=> x = 5
    OBVIOUS
  <2>2. Newest({4, 5}) = 5
    BY <2>1 DEF Newest
  <2>3. Newest({4}) = 4 /\ Newest({5}) = 5
    BY DEF Newest
  <2> QED
    BY <2>2, <2>3
<1>5. \A l \in 4..6 : k[l].count \in 0..MaxDev
  BY SettingsAssumption DEF KeysOf, NoList
<1>6. Listed(k, 5) = IF k[5] # NoList THEN k[5].count ELSE k[4].count
  <2>1. CASE k[5] # NoList
    BY <1>1, <2>1 DEF Listed
  <2>2. CASE k[5] = NoList /\ k[4].count > 0
    BY <1>1, <1>2, <1>4, <2>2 DEF Listed
  <2>3. CASE k[5] = NoList /\ ~(k[4].count > 0)
    BY <1>1, <1>2, <2>3 DEF Listed
  <2> QED
    BY <2>1, <2>2, <2>3
<1>7. Listed(k, 6) = IF k[6] # NoList THEN k[6].count
                     ELSE IF k[5].count > 0 THEN k[5].count ELSE k[4].count
  <2>1. CASE k[6] # NoList
    BY <1>1, <2>1 DEF Listed
  <2>2. CASE k[6] = NoList /\ k[5].count > 0
    <3>1. Old(k, 6) # {} /\ Newest(Old(k, 6)) = 5
      <4>1. Old(k, 6) = {5} \/ Old(k, 6) = {4, 5}
        BY <1>3, <2>2
      <4> QED
        BY <1>4, <4>1
    <3> QED
      BY <1>1, <2>2, <3>1 DEF Listed
  <2>3. CASE k[6] = NoList /\ ~(k[5].count > 0) /\ k[4].count > 0
    <3>1. Old(k, 6) = {4}
      BY <1>3, <2>3
    <3>2. Old(k, 6) # {} /\ Newest(Old(k, 6)) = 4
      BY <1>4, <3>1
    <3> QED
      BY <1>1, <2>3, <3>2 DEF Listed
  <2>4. CASE k[6] = NoList /\ ~(k[5].count > 0) /\ ~(k[4].count > 0)
    <3>1. Old(k, 6) = {}
      BY <1>3, <2>4
    <3> QED
      BY <1>1, <2>4, <3>1 DEF Listed
  <2> QED
    BY <2>1, <2>2, <2>3, <2>4
<1>8. \A top \in {5, 6} : Old(k, top) = {} => \A l \in 4..top-1 : k[l].count = 0
  BY <1>1 DEF Old
<1> QED
  BY <1>5, <1>6, <1>7, <1>8

(* A list put under one layout.                                             *)
LEMMA ListPut ==
  ASSUME LayoutsApart, NEW k, KeysOf(k), NEW top \in {5, 6}, NEW n \in 0..MaxDev
  PROVE  /\ KeysOf(PutIn(k, top, n)) /\ Listed(PutIn(k, top, n), top) = n
         /\ \A l \in {5, 6} : l < top => Listed(PutIn(k, top, n), l) = Listed(k, l)
         /\ \A l \in {5, 6} : l > top => IF k[l] # NoList THEN Listed(PutIn(k, top, n), l) = Listed(k, l)
                                                         ELSE n > 0 => Listed(PutIn(k, top, n), l) = n
<1> PICK kk : kk = PutIn(k, top, n)
  OBVIOUS
<1>1. ListOf(top, n) \in [size : Nat, count : Nat] /\ ListOf(top, n) # NoList /\ ListOf(top, n).count = n /\ n \in Nat
  BY SettingsAssumption DEF ListOf, NoList
<1>2. KeysOf(kk)
  BY <1>1 DEF KeysOf, PutIn
<1>3. /\ kk[top] = ListOf(top, n) /\ \A l \in 4..6 : l # top => kk[l] = k[l]
  BY DEF KeysOf, PutIn
<1>4. /\ Listed(k, 5) = IF k[5] # NoList THEN k[5].count ELSE k[4].count
      /\ Listed(k, 6) = IF k[6] # NoList THEN k[6].count
                        ELSE IF k[5].count > 0 THEN k[5].count ELSE k[4].count
  BY ListedIs
<1>5. /\ Listed(kk, 5) = IF kk[5] # NoList THEN kk[5].count ELSE kk[4].count
      /\ Listed(kk, 6) = IF kk[6] # NoList THEN kk[6].count
                         ELSE IF kk[5].count > 0 THEN kk[5].count ELSE kk[4].count
  BY <1>2, ListedIs
<1>6. CASE top = 5
  BY <1>1, <1>2, <1>3, <1>4, <1>5, <1>6
<1>7. CASE top = 6
  BY <1>1, <1>2, <1>3, <1>4, <1>5, <1>7
<1> QED
  BY <1>6, <1>7

(* What a firmware makes of a record, and what a module makes of that.      *)
LEMMA BlobFields ==
  ASSUME NEW rec \in Record, NEW n \in {2, 3}
  PROVE  /\ ReadBlob(rec, n) \in [1..n -> Nat]
         /\ \A i \in 1..n : ReadBlob(rec, n)[i] = FieldOf(rec, i)
         /\ rec # << >> /\ Len(rec) = n => rec \in [1..n -> Nat]
<1>1. CASE rec = << >>
  BY <1>1 DEF ReadBlob, FieldOf
<1>2. CASE rec \in [1..2 -> Nat]
  <2>1. Len(rec) = 2
    BY <1>2
  <2> QED
    BY <1>2, <2>1 DEF ReadBlob, FieldOf
<1>3. CASE rec \in [1..3 -> Nat]
  <2>1. Len(rec) = 3
    BY <1>3
  <2> QED
    BY <1>3, <2>1 DEF ReadBlob, FieldOf
<1> QED
  BY <1>1, <1>2, <1>3 DEF Record

LEMMA DefaultsOnly ==
  ASSUME NEW n \in {2, 3}, NEW c \in [1..n -> Nat]
  PROVE  /\ Normalized(c) \in [1..n -> Nat]
         /\ \A i \in 1..n : Normalized(c)[i] = c[i] \/ (i = 1 /\ c[1] = 0)
BY SettingsAssumption DEF Normalized

(* app_main(): with a firmware that knows n fields.                         *)
LEMMA LoadedAsSet ==
  ASSUME NEW rec \in Record, NEW n \in {2, 3}, NEW was \in [1..3 -> Nat],
         \A i \in 1..3 : AsSet(FieldOf(rec, i), i, was[i])
  PROVE  /\ Normalized(ReadBlob(rec, n)) \in [1..n -> Nat]
         /\ \A i \in 1..n : AsSet(Normalized(ReadBlob(rec, n))[i], i, was[i])
<1> PICK c : c = ReadBlob(rec, n)
  OBVIOUS
<1>1. c \in [1..n -> Nat] /\ \A i \in 1..n : c[i] = FieldOf(rec, i)
  BY BlobFields
<1>2. /\ Normalized(c) \in [1..n -> Nat]
      /\ \A i \in 1..n : Normalized(c)[i] = c[i] \/ (i = 1 /\ c[1] = 0)
  BY <1>1, DefaultsOnly
<1>3. \A i \in 1..n : i \in 1..3 /\ (i = 1 /\ c[1] = 0 => FieldOf(rec, 1) = 0)
  BY <1>1
<1>4. ASSUME NEW i \in 1..n PROVE AsSet(Normalized(c)[i], i, was[i])
  BY <1>1, <1>2, <1>3 DEF AsSet
<1> QED
  BY <1>2, <1>4

(* The migration changes the list of no firmware.                           *)
LEMMA MigratedSame ==
  ASSUME LayoutsApart, NEW k, KeysOf(k), NEW top \in {5, 6}
  PROVE  KeysOf(Migrated(k, top)) /\ \A l \in {5, 6} : Listed(Migrated(k, top), l) = Listed(k, l)
<1>1. CASE ~(k[top] = NoList /\ Old(k, top) # {})
  <2>1. Migrated(k, top) = k
    BY <1>1 DEF Migrated
  <2> QED
    BY <2>1
<1>2. CASE k[top] = NoList /\ Old(k, top) # {}
  <2> PICK n : n = Listed(k, top)
    OBVIOUS
  <2>1. n \in 0..MaxDev
    BY ListedIs
  <2> PICK kk : kk = PutIn(k, top, n)
    OBVIOUS
  <2>2. Migrated(k, top) = kk
    BY <1>2 DEF Migrated, Current, ListOf, PutIn
  <2>3. /\ KeysOf(kk) /\ Listed(kk, top) = n
        /\ \A l \in {5, 6} : l < top => Listed(kk, l) = Listed(k, l)
        /\ \A l \in {5, 6} : l > top => IF k[l] # NoList THEN Listed(kk, l) = Listed(k, l)
                                                        ELSE n > 0 => Listed(kk, l) = n
    BY <2>1, ListPut
  <2>4. top = 5 /\ k[6] = NoList => n > 0 /\ n = Listed(k, 6)
    <3> SUFFICES ASSUME top = 5, k[6] = NoList PROVE n > 0 /\ n = Listed(k, 6)
      OBVIOUS
    <3>1. k[5] = NoList /\ k[5].count = 0
      BY <1>2 DEF NoList
    <3>2. k[4].count > 0
      <4>1. Decoded(k[4], 5) > 0
        BY <1>2 DEF Old
      <4> QED
        BY <4>1, KeyDecoded
    <3> QED
      BY <3>1, <3>2, ListedIs
  <2> QED
    BY <2>2, <2>3, <2>4
<1> QED
  BY <1>1, <1>2

LEMMA SettingsStart ==
  ASSUME LayoutsApart, SetInit
  PROVE  SetInv
<1>1. fware \in {"old", "new"} /\ Known[fware] \in {2, 3}
  BY KnownFields DEF SetInit
<1>2. << >> \in Record /\ Unset \in [1..3 -> Nat] /\ \A i \in 1..3 : AsSet(FieldOf(<< >>, i), i, Unset[i])
  BY DEF Record, Unset, FieldOf, AsSet
<1>3. /\ inFlash = << >> /\ chosen = Unset /\ typed = {} /\ tab = cfg /\ backup = NoFile
      /\ cfg = Normalized(ReadBlob(<< >>, Known[fware]))
      /\ inUse = [i \in 1..Known[fware] |-> 0]
  BY DEF SetInit
<1>4. cfg \in [1..Known[fware] -> Nat] /\ \A i \in 1..Known[fware] : AsSet(cfg[i], i, Unset[i])
  BY <1>1, <1>2, <1>3, LoadedAsSet
<1>5. \A i \in 1..Known[fware] : inUse[i] = Unset[i]
  BY <1>1, <1>3 DEF Unset
<1>6. inUse \in [1..Known[fware] -> Nat]
  BY <1>3
<1>7. SetTyped
  BY <1>1, <1>2, <1>3, <1>4, <1>6 DEF SetTyped, NoFile
<1>8. InStore /\ InModule
  BY <1>2, <1>3, <1>4, <1>5 DEF InStore, InModule
<1>9. ListInFile
  BY <1>3 DEF ListInFile, NoFile
<1>10. ListOwned /\ ListUsed
  <2> PICK l \in 4..6, n \in 1..MaxDev, wrote \in BOOLEAN :
        LET found == [x \in 4..6 |-> IF x = l THEN Current(x, n) ELSE NoList]
        IN /\ devKeys = IF netUp /\ wrote THEN Migrated(found, own) ELSE found
           /\ devices = (IF netUp THEN Listed(found, own) ELSE 0)
           /\ owned = [x \in {5, 6} |-> IF l <= x THEN n ELSE 0]
    BY DEF SetInit
  <2> PICK found :
        /\ found = [x \in 4..6 |-> IF x = l THEN Current(x, n) ELSE NoList]
        /\ devKeys = IF netUp /\ wrote THEN Migrated(found, own) ELSE found
        /\ devices = (IF netUp THEN Listed(found, own) ELSE 0)
        /\ owned = [x \in {5, 6} |-> IF l <= x THEN n ELSE 0]
    OBVIOUS
  <2>1. MaxDev \in Nat /\ n \in Nat \ {0} /\ n \in 0..MaxDev /\ RecSize \in [4..6 -> Nat \ {0}]
    BY SettingsAssumption
  <2>2. found[l] = ListOf(l, n) /\ found[l] # NoList /\ found[l].count = n
    BY <2>1 DEF Current, ListOf, NoList
  <2>3. \A x \in 4..6 : x # l => found[x] = NoList /\ found[x].count = 0
    BY DEF NoList
  <2>4. KeysOf(found)
    <3>1. \A x \in 4..6 : Current(x, n) \in [size : Nat, count : Nat] /\ NoList \in [size : Nat, count : Nat]
      BY <2>1 DEF Current, NoList
    <3>2. found \in [4..6 -> [size : Nat, count : Nat]]
      BY <3>1
    <3> QED
      BY <2>1, <2>2, <2>3, <3>2 DEF KeysOf
  <2>5. \A x \in {5, 6} : Listed(found, x) = owned[x]
    <3>1. /\ Listed(found, 5) = IF found[5] # NoList THEN found[5].count ELSE found[4].count
          /\ Listed(found, 6) = IF found[6] # NoList THEN found[6].count
                                ELSE IF found[5].count > 0 THEN found[5].count ELSE found[4].count
      BY <2>4, ListedIs
    <3>2. CASE l = 4
      BY <2>1, <2>2, <2>3, <3>1, <3>2
    <3>3. CASE l = 5
      BY <2>1, <2>2, <2>3, <3>1, <3>3
    <3>4. CASE l = 6
      BY <2>1, <2>2, <2>3, <3>1, <3>4
    <3> QED
      BY <3>2, <3>3, <3>4
  <2>6. own \in {5, 6}
    BY <1>1, OwnLayout
  <2>7. KeysOf(devKeys) /\ \A x \in {5, 6} : Listed(devKeys, x) = owned[x]
    BY <2>4, <2>5, <2>6, MigratedSame
  <2>8. forgotten = {} /\ served = (IF netUp THEN owned[own] ELSE 0)
    BY DEF SetInit
  <2>9. owned \in [{5, 6} -> Int]
    BY <2>1
  <2>10. ListOwned
    BY <2>7, <2>8, <2>9 DEF ListOwned
  <2>11. ListUsed
    BY <2>5, <2>6, <2>8 DEF ListUsed
  <2> QED
    BY <2>10, <2>11
<1> QED
  BY <1>7, <1>8, <1>9, <1>10 DEF SetInv

LEMMA OwnKnown == SetTyped => own \in {5, 6}
BY OwnLayout DEF SetTyped

(* A list of n devices written to the layout of the firmware.               *)
LEMMA DevicesPut ==
  ASSUME LayoutsApart, ListOwned, own \in {5, 6}, NEW n \in 0..MaxDev, NEW u \in Int, PutDevices(n), Owns(u),
         forgotten' \subseteq {5, 6},
         \A l \in {5, 6} \ forgotten' : IF l \in Heirs THEN u = n /\ (n > 0 \/ l = own) ELSE l \notin forgotten
  PROVE  ListOwned'
<1> PICK top \in {5, 6} : top = own
  OBVIOUS
<1> PICK k, kk : k = devKeys /\ kk = devKeys'
  OBVIOUS
<1>1. KeysOf(k) /\ owned \in [{5, 6} -> Int] /\ \A l \in {5, 6} : l \notin forgotten => owned[l] = Listed(k, l)
  BY DEF ListOwned
<1>2. kk = PutIn(k, top, n)
  BY DEF PutDevices, Current, ListOf, PutIn
<1>3. /\ KeysOf(kk) /\ Listed(kk, top) = n
      /\ \A l \in {5, 6} : l < top => Listed(kk, l) = Listed(k, l)
      /\ \A l \in {5, 6} : l > top => IF k[l] # NoList THEN Listed(kk, l) = Listed(k, l)
                                                      ELSE n > 0 => Listed(kk, l) = n
  BY <1>1, <1>2, ListPut
<1>4. owned' \in [{5, 6} -> Int] /\ \A l \in {5, 6} : owned'[l] = IF l \in Heirs THEN u ELSE owned[l]
  BY <1>1 DEF Owns
<1>5. \A l \in {5, 6} : l \in Heirs <=> l = top \/ (l > top /\ k[l] = NoList)
  BY DEF Heirs
<1>6. ASSUME NEW l \in {5, 6}, l \notin forgotten' PROVE owned'[l] = Listed(kk, l)
  <2>1. CASE l \in Heirs
    <3>1. u = n /\ (n > 0 \/ l = top) /\ owned'[l] = u
      BY <1>4, <1>6, <2>1
    <3>2. l = top \/ (l > top /\ k[l] = NoList)
      BY <1>5, <2>1
    <3> QED
      BY <1>3, <3>1, <3>2
  <2>2. CASE l \notin Heirs
    <3>1. l \notin forgotten /\ owned'[l] = owned[l]
      BY <1>4, <1>6, <2>2
    <3>2. l < top \/ (l > top /\ k[l] # NoList)
      BY <1>5, <2>2
    <3> QED
      BY <1>1, <1>3, <3>1, <3>2
  <2> QED
    BY <2>1, <2>2
<1> QED
  BY <1>3, <1>4, <1>6 DEF ListOwned

(* What a save on a tab leaves in the store, the module and the tab.        *)
LEMMA SavedAsSet ==
  ASSUME SetInv, NEW i \in 1..3, NEW v \in Values \cup {0}, NEW written \in BOOLEAN,
         SaveTab(i, v, written)
  PROVE  SetTyped' /\ InStore' /\ InModule'
<1> PICK n : n = Known[fware]
  OBVIOUS
<1>1. /\ n \in {2, 3} /\ Known[fware'] = n /\ fware' \in {"old", "new"} /\ backup' = backup
      /\ fware' = fware
  BY KnownFields DEF SaveTab, SetInv, SetTyped
<1>2. i \in 1..n /\ v \in Nat /\ tab' = [tab EXCEPT ![i] = v] /\ tab \in [1..n -> Nat]
  <2>1. tab \in [1..n -> Nat] /\ i \in DOMAIN tab /\ tab' = [tab EXCEPT ![i] = v]
    BY DEF SaveTab, SetInv, SetTyped
  <2>2. v \in Nat
    BY SettingsAssumption
  <2> QED
    BY <2>1, <2>2
<1>3. tab' \in [1..n -> Nat] /\ \A j \in 1..n : tab'[j] = IF j = i THEN v ELSE tab[j]
  BY <1>2
<1>4. /\ inUse \in [1..n -> Nat] /\ cfg \in [1..n -> Nat] /\ typed \subseteq 1..n
      /\ backup.rec \in Record /\ inFlash \in Record /\ chosen \in [1..3 -> Nat]
      /\ \A j \in 1..n : /\ AsSet(cfg[j], j, inUse[j])
                         /\ j \notin typed => AsSet(tab[j], j, inUse[j])
  BY DEF SetInv, SetTyped, InModule
<1>5. CASE written
  <2>1. /\ inFlash' = tab' /\ cfg' = Normalized(tab') /\ typed' = {}
        /\ inUse' = [j \in 1..n |-> IF j \in typed \cup {i} THEN tab'[j] ELSE inUse[j]]
        /\ chosen' = [j \in 1..3 |-> IF j \in DOMAIN inUse THEN inUse'[j] ELSE 0]
    BY <1>2, <1>5 DEF SaveTab, PutRecord
  <2>2. tab' \in Record
    BY <1>1, <1>3 DEF Record
  <2>3. inUse' \in [1..n -> Nat]
    BY <1>3, <1>4, <2>1
  <2>4. chosen' = [j \in 1..3 |-> IF j \in 1..n THEN inUse'[j] ELSE 0]
    BY <1>4, <2>1
  <2>5. chosen' \in [1..3 -> Nat]
    BY <2>3, <2>4
  <2>6. /\ cfg' \in [1..n -> Nat]
        /\ \A j \in 1..n : cfg'[j] = tab'[j] \/ (j = 1 /\ tab'[1] = 0)
    BY <1>1, <1>3, <2>1, DefaultsOnly
  <2>7. ASSUME NEW j \in 1..n PROVE AsSet(tab'[j], j, inUse'[j])
    <3>1. CASE j \in typed \cup {i}
      BY <3>1, <2>1 DEF AsSet
    <3>2. CASE j \notin typed \cup {i}
      BY <3>2, <2>1, <1>3, <1>4 DEF AsSet
    <3> QED
      BY <3>1, <3>2
  <2>8. ASSUME NEW j \in 1..n PROVE AsSet(cfg'[j], j, inUse'[j])
    BY <2>6, <2>7 DEF AsSet
  <2>9. SetTyped'
    BY <1>1, <1>3, <1>4, <2>1, <2>2, <2>3, <2>5, <2>6 DEF SetTyped
  <2>10. InModule'
    BY <1>1, <2>1, <2>7, <2>8 DEF InModule
  <2>11. InStore'
    <3> SUFFICES ASSUME NEW j \in 1..3 PROVE AsSet(FieldOf(inFlash', j), j, chosen'[j])
      BY DEF InStore
    <3>1. CASE j \in 1..n
      BY <3>1, <1>3, <2>1, <2>4, <2>7 DEF FieldOf
    <3>2. CASE j \notin 1..n
      BY <3>2, <1>3, <2>1, <2>4 DEF FieldOf, AsSet
    <3> QED
      BY <3>1, <3>2
  <2> QED
    BY <2>9, <2>10, <2>11
<1>6. CASE ~written
  <2>1. /\ inFlash' = inFlash /\ cfg' = cfg /\ inUse' = inUse /\ chosen' = chosen
        /\ typed' = typed \cup {i}
    BY <1>6 DEF SaveTab
  <2>2. SetTyped'
    BY <1>1, <1>2, <1>3, <1>4, <2>1 DEF SetTyped
  <2>3. InModule'
    BY <1>1, <1>3, <1>4, <2>1 DEF InModule
  <2> QED
    BY <2>1, <2>2, <2>3 DEF SetInv, InStore
<1> QED
  BY <1>5, <1>6

LEMMA RestartAsSet ==
  ASSUME LayoutsApart, SetInv, NEW f \in Firmwares, NEW net \in BOOLEAN, NEW wrote \in BOOLEAN,
         Restart(f, net, wrote)
  PROVE  SetInv'
<1>1. f \in {"old", "new"} /\ Known[f] \in {2, 3}
  BY KnownFields
<1>2. /\ fware' = f /\ typed' = {} /\ inUse' = [i \in 1..Known[f] |-> chosen[i]]
      /\ cfg' = Normalized(ReadBlob(inFlash, Known[f])) /\ tab' = cfg'
      /\ devKeys' = IF net /\ wrote THEN Migrated(devKeys, Layout[f]) ELSE devKeys
      /\ IF net THEN devices' = Listed(devKeys, Layout[f]) /\ served' = owned[Layout[f]]
                ELSE devices' = 0 /\ served' = 0
      /\ inFlash' = inFlash /\ chosen' = chosen /\ owned' = owned /\ forgotten' = forgotten /\ backup' = backup
  BY DEF Restart, SetUps
<1>3. /\ inFlash \in Record /\ chosen \in [1..3 -> Nat] /\ backup.rec \in Record
      /\ \A i \in 1..3 : AsSet(FieldOf(inFlash, i), i, chosen[i])
  BY DEF SetInv, SetTyped, InStore
<1>4. cfg' \in [1..Known[f] -> Nat] /\ \A i \in 1..Known[f] : AsSet(cfg'[i], i, chosen[i])
  BY <1>1, <1>2, <1>3, LoadedAsSet
<1>5. inUse' \in [1..Known[f] -> Nat] /\ \A i \in 1..Known[f] : inUse'[i] = chosen[i]
  BY <1>1, <1>2, <1>3
<1>6. SetTyped'
  BY <1>1, <1>2, <1>3, <1>4, <1>5 DEF SetTyped
<1>7. InStore' /\ InModule'
  BY <1>2, <1>3, <1>4, <1>5 DEF InStore, InModule
<1>8. ListInFile'
  BY <1>2 DEF SetInv, ListInFile
<1>9. Layout[f] \in {5, 6} /\ own' = Layout[f]
  BY <1>1, <1>2, OwnLayout DEF own
<1>10. /\ KeysOf(devKeys) /\ owned \in [{5, 6} -> Int] /\ forgotten \subseteq {5, 6}
       /\ \A l \in {5, 6} : l \notin forgotten => owned[l] = Listed(devKeys, l)
  BY DEF SetInv, ListOwned
<1>11. KeysOf(devKeys') /\ \A l \in {5, 6} : Listed(devKeys', l) = Listed(devKeys, l)
  BY <1>2, <1>9, <1>10, MigratedSame
<1>12. ListOwned'
  BY <1>2, <1>10, <1>11 DEF ListOwned
<1>13. ListUsed'
  BY <1>2, <1>9, <1>10 DEF ListUsed
<1> QED
  BY <1>6, <1>7, <1>8, <1>12, <1>13 DEF SetInv

LEMMA ErasedAsSet == ASSUME LayoutsApart, SetInv, Damaged PROVE SetInv'
<1>1. << >> \in Record /\ Unset \in [1..3 -> Nat] /\ \A i \in 1..3 : AsSet(FieldOf(<< >>, i), i, Unset[i])
  BY DEF Record, Unset, FieldOf, AsSet
<1> PICK n : n = Known[fware]
  OBVIOUS
<1>2. n \in {2, 3} /\ fware \in {"old", "new"} /\ backup.rec \in Record
  BY KnownFields DEF SetInv, SetTyped
<1>3. /\ fware' = fware /\ inFlash' = << >> /\ chosen' = Unset /\ typed' = {} /\ tab' = cfg'
      /\ inUse' = [i \in 1..n |-> 0] /\ cfg' = Normalized(ReadBlob(<< >>, n)) /\ backup' = backup
      /\ devKeys' = [l \in 4..6 |-> NoList] /\ owned' = [l \in {5, 6} |-> 0]
      /\ devices' = 0 /\ served' = 0 /\ forgotten' = {}
  BY DEF Damaged
<1>4. cfg' \in [1..n -> Nat] /\ \A i \in 1..n : AsSet(cfg'[i], i, Unset[i])
  BY <1>1, <1>2, <1>3, LoadedAsSet
<1>5. inUse' \in [1..n -> Nat] /\ \A i \in 1..n : inUse'[i] = Unset[i]
  BY <1>2, <1>3 DEF Unset
<1>6. Known[fware'] = n
  BY <1>3
<1>7. SetTyped'
  BY <1>1, <1>2, <1>3, <1>4, <1>5, <1>6 DEF SetTyped
<1>8. InStore' /\ InModule'
  BY <1>1, <1>3, <1>4, <1>5, <1>6 DEF InStore, InModule
<1>9. ListOwned' /\ ListUsed'
  <2> PICK k : k = [l \in 4..6 |-> NoList]
    OBVIOUS
  <2>1. KeysOf(k) /\ \A l \in 4..6 : k[l] = NoList /\ k[l].count = 0
    BY DEF KeysOf, NoList
  <2>2. Listed(k, 5) = 0 /\ Listed(k, 6) = 0
    <3>1. /\ Listed(k, 5) = IF k[5] # NoList THEN k[5].count ELSE k[4].count
          /\ Listed(k, 6) = IF k[6] # NoList THEN k[6].count
                            ELSE IF k[5].count > 0 THEN k[5].count ELSE k[4].count
      BY <2>1, ListedIs
    <3> QED
      BY <2>1, <3>1
  <2>3. devKeys' = k /\ owned' \in [{5, 6} -> Int] /\ \A l \in {5, 6} : owned'[l] = 0
    BY <1>3
  <2>4. ListOwned'
    BY <1>3, <2>1, <2>2, <2>3 DEF ListOwned
  <2> QED
    BY <1>3, <2>4 DEF ListUsed
<1>10. ListInFile'
  BY <1>3 DEF SetInv, ListInFile
<1> QED
  BY <1>7, <1>8, <1>9, <1>10 DEF SetInv

LEMMA DevicesEdited ==
  ASSUME LayoutsApart, SetInv, NEW more \in BOOLEAN, EditDevices(more)
  PROVE  ListOwned' /\ ListUsed'
<1> PICK k : k = devKeys
  OBVIOUS
<1> PICK top \in {5, 6} : top = own
  BY OwnKnown DEF SetInv
<1> PICK step : step = IF more THEN 1 ELSE -1
  OBVIOUS
<1> PICK shownDevs, n, unread :
      /\ shownDevs = Decoded(k[top], top) /\ n = shownDevs + step
      /\ unread = (k[top] = NoList /\ Old(k, top) # {})
  OBVIOUS
<1>1. /\ n \in 0..MaxDev /\ PutDevices(n) /\ Owns(owned[top] + step)
      /\ forgotten' = forgotten \cup { l \in Heirs : unread \/ top \in forgotten \/ (n = 0 /\ l # top) }
      /\ IF netUp THEN devices' = n /\ served' = owned'[top] ELSE UNCHANGED << devices, served >>
      /\ fware' = fware
  BY DEF EditDevices
<1>2. /\ KeysOf(k) /\ owned \in [{5, 6} -> Int] /\ forgotten \subseteq {5, 6} /\ ListOwned
      /\ \A l \in {5, 6} : l \notin forgotten => owned[l] = Listed(k, l)
  BY DEF SetInv, ListOwned
<1>3. top \in Heirs /\ Heirs \subseteq {5, 6}
  BY DEF Heirs
<1>4. MaxDev \in Nat /\ step \in Int /\ owned[top] \in Int
  BY <1>2, SettingsAssumption
<1>5. top \notin forgotten /\ ~unread => owned[top] + step = n
  <2> SUFFICES ASSUME top \notin forgotten, ~unread PROVE owned[top] = shownDevs
    OBVIOUS
  <2>1. owned[top] = Listed(k, top)
    BY <1>2
  <2>2. CASE k[top] # NoList
    BY <2>1, <2>2 DEF Listed
  <2>3. CASE k[top] = NoList
    <3>1. Old(k, top) = {}
      BY <2>3
    <3>2. Decoded(k[top], top) = 0
      BY <2>3 DEF Decoded, NoList
    <3> QED
      BY <2>1, <2>3, <3>1, <3>2 DEF Listed
  <2> QED
    BY <2>2, <2>3
<1>6. \A l \in {5, 6} \ forgotten' : IF l \in Heirs THEN owned[top] + step = n /\ (n > 0 \/ l = top)
                                    ELSE l \notin forgotten
  <2> SUFFICES ASSUME NEW l \in {5, 6}, l \notin forgotten'
               PROVE  IF l \in Heirs THEN owned[top] + step = n /\ (n > 0 \/ l = top) ELSE l \notin forgotten
    OBVIOUS
  <2>1. l \notin forgotten
    BY <1>1
  <2>2. l \in Heirs => ~unread /\ top \notin forgotten /\ ~(n = 0 /\ l # top)
    BY <1>1
  <2> QED
    BY <1>1, <1>4, <1>5, <2>1, <2>2
<1>7. forgotten' \subseteq {5, 6}
  BY <1>1, <1>2, <1>3
<1>8. ListOwned'
  <2>1. owned[top] + step \in Int
    BY <1>4
  <2> QED
    BY <1>1, <1>2, <1>6, <1>7, <2>1, DevicesPut
<1>9. ListUsed'
  <2>1. own' = top
    BY <1>1 DEF own
  <2> SUFFICES ASSUME top \notin forgotten' PROVE devices' = served'
    BY <2>1 DEF ListUsed
  <2>2. top \notin forgotten /\ owned[top] + step = n
    BY <1>1, <1>3, <1>6
  <2>3. owned'[top] = owned[top] + step
    BY <1>1, <1>3 DEF Owns
  <2>4. devices = served
    BY <2>2 DEF SetInv, ListUsed
  <2> QED
    BY <1>1, <2>2, <2>3, <2>4
<1> QED
  BY <1>8, <1>9

LEMMA RestoredAsSet ==
  ASSUME LayoutsApart, SetInv, NEW fails \in SUBSET {"tab", "devs", "nets"}, Import(fails)
  PROVE  SetInv'
<1> PICK n : n = Known[fware]
  OBVIOUS
<1>1. n \in {2, 3} /\ fware \in {"old", "new"} /\ backup.rec \in Record /\ chosen \in [1..3 -> Nat]
  BY KnownFields DEF SetInv, SetTyped
<1>2. /\ fware' = fware /\ cfg' = cfg /\ tab' = tab /\ typed' = typed /\ inUse' = inUse /\ backup' = backup
  BY DEF Import
<1>3. InModule' /\ ListInFile'
  BY <1>2 DEF SetInv, InModule, ListInFile
<1>4. /\ inFlash' \in Record /\ chosen' \in [1..3 -> Nat]
      /\ \A i \in 1..3 : AsSet(FieldOf(inFlash', i), i, chosen'[i])
  <2>1. CASE RightLength(backup.rec) /\ "tab" \notin fails
    <3> PICK rec : rec = backup.rec
      OBVIOUS
    <3>1. /\ inFlash' = rec
          /\ chosen' = [j \in 1..3 |-> IF j \in DOMAIN rec THEN rec[j] ELSE IF j > n THEN 0 ELSE chosen[j]]
      BY <2>1 DEF Import, PutRecord
    <3>2. rec \in Record /\ Len(rec) = n /\ rec # << >>
      BY <1>1, <2>1 DEF RightLength
    <3>3. rec \in [1..n -> Nat]
      BY <1>1, <3>2, BlobFields
    <3>4. chosen' \in [1..3 -> Nat]
      BY <1>1, <3>1, <3>3
    <3>5. ASSUME NEW i \in 1..3 PROVE FieldOf(rec, i) = chosen'[i]
      BY <1>1, <3>1, <3>3 DEF FieldOf
    <3> QED
      BY <3>1, <3>2, <3>4, <3>5 DEF AsSet
  <2>2. CASE ~(RightLength(backup.rec) /\ "tab" \notin fails)
    <3>1. inFlash' = inFlash /\ chosen' = chosen
      BY <2>2 DEF Import
    <3> QED
      BY <3>1 DEF SetInv, SetTyped, InStore
  <2> QED
    BY <2>1, <2>2
<1>5. SetTyped' /\ InStore'
  BY <1>2, <1>4 DEF SetInv, SetTyped, InStore
<1>6. ListOwned' /\ ListUsed'
  <2> PICK top \in {5, 6} : top = own
    BY OwnKnown DEF SetInv
  <2>1. own' = own /\ ListOwned /\ ListUsed /\ forgotten \subseteq {5, 6} /\ top \in Heirs /\ devices' = devices
    BY <1>2 DEF own, SetInv, ListOwned, Heirs, Import
  <2>2. CASE Decoded(backup.devs, top) > 0 /\ "devs" \notin fails
    <3>1. backup.devs # NoList
      <4>1. Decoded(NoList, top) = 0
        BY DEF Decoded, NoList
      <4> QED
        BY <2>2, <4>1
    <3>2. PICK l \in 4..6, k \in 0..MaxDev : backup.devs = ListOf(l, k)
      BY <3>1 DEF SetInv, ListInFile
    <3>3. Decoded(ListOf(l, k), top) = IF l <= top THEN k ELSE 0
      BY ListDecoded
    <3>4. Decoded(backup.devs, top) = k /\ k > 0 /\ backup.devs.count = k /\ k \in Int
      BY <2>2, <3>2, <3>3, SettingsAssumption DEF ListOf
    <3>5. /\ PutDevices(k) /\ Owns(k) /\ forgotten' = forgotten \ Heirs
          /\ served' = IF top \in forgotten THEN devices ELSE served
      BY <2>2, <3>4 DEF Import
    <3>6. forgotten' \subseteq {5, 6}
      BY <2>1, <3>5
    <3>7. \A l2 \in {5, 6} \ forgotten' : IF l2 \in Heirs THEN k = k /\ (k > 0 \/ l2 = own) ELSE l2 \notin forgotten
      BY <3>4, <3>5
    <3>8. ListOwned'
      BY <2>1, <3>4, <3>5, <3>6, <3>7, DevicesPut
    <3>9. ListUsed'
      BY <2>1, <3>5 DEF ListUsed
    <3> QED
      BY <3>8, <3>9
  <2>3. CASE ~(Decoded(backup.devs, top) > 0 /\ "devs" \notin fails)
    <3>1. devKeys' = devKeys /\ owned' = owned /\ served' = served /\ forgotten' = forgotten
      BY <2>3 DEF Import
    <3>2. ListOwned'
      BY <2>1, <3>1 DEF ListOwned
    <3>3. ListUsed'
      BY <2>1, <3>1 DEF ListUsed
    <3> QED
      BY <3>2, <3>3
  <2> QED
    BY <2>2, <2>3
<1> QED
  BY <1>3, <1>5, <1>6 DEF SetInv

LEMMA ExportedAsSet ==
  ASSUME LayoutsApart, SetInv, Export
  PROVE  SetInv'
<1> PICK n : n = Known[fware]
  OBVIOUS
<1>1. n \in {2, 3} /\ inFlash \in Record
  BY KnownFields DEF SetInv, SetTyped
<1>2. /\ UNCHANGED << fware, inFlash, cfg, tab, typed, chosen, inUse, devKeys, devices, owned, served, forgotten >>
      /\ backup'.devs = devKeys[own]
      /\ backup'.rec = IF inFlash = << >> THEN << >> ELSE ReadBlob(inFlash, n)
  BY DEF Export, tabVars, devVars
<1>3. backup'.rec \in Record
  <2>1. CASE inFlash = << >>
    BY <1>2, <2>1 DEF Record
  <2>2. CASE inFlash # << >>
    BY <1>1, <1>2, <2>2, BlobFields DEF Record
  <2> QED
    BY <2>1, <2>2
<1>4. own \in 4..6 /\ own' = own
  BY <1>2, OwnKnown DEF SetInv, own
<1>5. ListInFile'
  <2>1. \/ devKeys[own] = NoList
        \/ devKeys[own] = ListOf(own, devKeys[own].count) /\ devKeys[own].count \in 0..MaxDev
    BY <1>4 DEF SetInv, ListOwned, KeysOf
  <2> QED
    BY <1>2, <1>4, <2>1 DEF ListInFile
<1>6. ListOwned' /\ ListUsed'
  BY <1>2, <1>4 DEF SetInv, ListOwned, ListUsed
<1> QED
  BY <1>2, <1>3, <1>5, <1>6 DEF SetInv, SetTyped, InStore, InModule

LEMMA OldFileAsSet ==
  ASSUME SetInv, NEW layout \in {4, 5}, NEW n \in 1..MaxDev, OldFile(layout, n)
  PROVE  SetInv'
<1>1. /\ UNCHANGED << fware, inFlash, cfg, tab, typed, chosen, inUse, devVars >>
      /\ backup'.devs = ListOf(layout, n) /\ backup'.rec = << >>
  BY DEF OldFile, NoFile, ListOf, tabVars
<1>2. layout \in 4..6 /\ n \in 0..MaxDev
  BY SettingsAssumption
<1>3. ListOwned' /\ ListUsed'
  BY <1>1 DEF SetInv, ListOwned, ListUsed, devVars, own
<1> QED
  BY <1>1, <1>2, <1>3 DEF SetInv, SetTyped, InStore, InModule, ListInFile, Record

LEMMA SettingsStep ==
  ASSUME LayoutsApart, SetInv, [SetNext]_setVars
  PROVE  SetInv'
<1>1. CASE UNCHANGED setVars
  <2>1. UNCHANGED << fware, inFlash, cfg, tab, typed, chosen, inUse, devVars, backup >>
    BY <1>1 DEF setVars, tabVars
  <2> QED
    BY <2>1 DEF SetInv, SetTyped, InStore, InModule, ListOwned, ListUsed, ListInFile, devVars, own
<1>2. ASSUME NEW f \in Firmwares, NEW net \in BOOLEAN, NEW wrote \in BOOLEAN, Restart(f, net, wrote)
      PROVE  SetInv'
  BY <1>2, RestartAsSet
<1>3. CASE Damaged
  BY <1>3, ErasedAsSet
<1>4. ASSUME NEW i \in 1..3, NEW v \in Values \cup {0}, NEW written \in BOOLEAN, SaveTab(i, v, written)
      PROVE  SetInv'
  <2>1. SetTyped' /\ InStore' /\ InModule'
    BY <1>4, SavedAsSet
  <2>2. UNCHANGED << fware, devVars, backup >>
    BY <1>4 DEF SaveTab
  <2> QED
    BY <2>1, <2>2 DEF SetInv, ListOwned, ListUsed, ListInFile, devVars, own
<1>5. ASSUME NEW more \in BOOLEAN, EditDevices(more) PROVE SetInv'
  <2>1. ListOwned' /\ ListUsed'
    BY <1>5, DevicesEdited
  <2>2. UNCHANGED << fware, inFlash, cfg, tab, typed, chosen, inUse, backup >>
    BY <1>5 DEF EditDevices, tabVars
  <2> QED
    BY <2>1, <2>2 DEF SetInv, SetTyped, InStore, InModule, ListInFile
<1>6. ASSUME NEW w \in Wlans, AddNet(w) \/ RemoveNet(w) PROVE SetInv'
  <2>1. UNCHANGED << fware, inFlash, cfg, tab, typed, chosen, inUse, devVars, backup >>
    BY <1>6 DEF AddNet, RemoveNet, tabVars
  <2> QED
    BY <2>1 DEF SetInv, SetTyped, InStore, InModule, ListOwned, ListUsed, ListInFile, devVars, own
<1>7. CASE Export
  BY <1>7, ExportedAsSet
<1>8. ASSUME NEW layout \in {4, 5}, NEW n \in 1..MaxDev, OldFile(layout, n) PROVE SetInv'
  BY <1>8, OldFileAsSet
<1>9. ASSUME NEW fails \in SUBSET {"tab", "devs", "nets"}, Import(fails) PROVE SetInv'
  BY <1>9, RestoredAsSet
<1> QED
  BY <1>1, <1>2, <1>3, <1>4, <1>5, <1>6, <1>7, <1>8, <1>9 DEF SetNext

(* nvs_store.c:126-144, modbus_tcp.c:163-185, config_web.c:246-255: over any  *)
(* number of updates, rollbacks, restores, failed writes and migrations,    *)
(* starts without a network and erased partitions a module works with what  *)
(* the user set, and the device list stored and used is the user's unless   *)
(* it was lost unseen, for every size of a device record that keeps the     *)
(* layouts apart.                                                           *)
THEOREM SettingsSound ==
  ASSUME LayoutsApart
  PROVE  SetSpec => []SettingsKept
<1>1. SetInit => SetInv
  BY SettingsStart
<1>2. SetInv /\ [SetNext]_setVars => SetInv'
  BY SettingsStep
<1>3. SetInv => SettingsKept
  <2> SUFFICES ASSUME SetInv PROVE SettingsKept
    OBVIOUS
  <2>1. DOMAIN cfg = 1..Known[fware] /\ 1 \in 1..Known[fware]
    BY KnownFields DEF SetInv, SetTyped
  <2>2. own \notin forgotten => Listed(devKeys, own) = owned[own] /\ devices = served
    BY OwnKnown DEF SetInv, ListOwned, ListUsed
  <2>3. \A i \in DOMAIN cfg : cfg[i] = IF i = 1 /\ inUse[i] = 0 THEN cfg[1] ELSE inUse[i]
    BY <2>1 DEF SetInv, InModule, AsSet
  <2> QED
    BY <2>2, <2>3 DEF SettingsKept
<1> QED
  BY <1>1, <1>2, <1>3, PTL DEF SetSpec

-----------------------------------------------------------------------------
(* WifiMgr. What the four actors share, as one record with the fields of    *)
(* Now1, and what is on its way while the station has no link: a job that a *)
(* timer, a notify bit or the worker still holds, or an event.              *)
Events == {"leave", "lost", "ip"}
WifiStates ==
  [wst : {"connecting", "connected", "fallback", "aponly"}, fast : BOOLEAN, try : Nat, creds : Seq(Networks),
   shown : Networks \cup {Down}, ap : BOOLEAN, shut : BOOLEAN, radio : SUBSET {"ap", "sta"}, armed : SUBSET Timers,
   bits : SUBSET ToSet(Order), link : Networks \cup {Down}, air : Networks \cup {Down}, evq : Seq(Events), stir : Nat]
Works == {NoWork} \cup [at : {"work", "set", "mode", "flag"}, todo : SUBSET ToSet(Order)]

Due(s, w, job) == job \in s.armed \cup s.bits \cup w.todo
EndsIn(q, e) == Len(q) > 0 /\ q[Len(q)] = e

(* No link without an access point is a state of passage: an attempt with   *)
(* the fallback's timer behind it, a fallback that is about to open, or a   *)
(* loss the event loop has yet to hear of. The worker never closes in a      *)
(* fallback, which only it can begin.                                      *)
Closing(w) == w.at \in {"mode", "flag"}
ToTheDoor(s, w) ==
  /\ s.wst = "connecting" => Due(s, w, "fb")
  /\ s.wst = "fallback" => ~Closing(w) /\ (s.ap \/ s.shut \/ "apon" \in w.todo)
  /\ s.wst = "aponly" => s.ap \/ s.shut
  /\ s.wst = "connected" /\ s.link = Down => EndsIn(s.evq, "lost")

(* The last event tells what became of the link; one of our own is alone.   *)
Told(s) ==
  /\ s.air = Down \/ s.link = Down
  /\ EndsIn(s.evq, "ip") => s.link # Down
  /\ EndsIn(s.evq, "leave") => Len(s.evq) = 1

(* In the fallback the next attempt is under way or will be.                *)
Retrying(s, w) ==
  s.wst = "fallback" /\ s.link = Down /\ s.creds # << >> =>
    s.air # Down \/ Due(s, w, "rc") \/ "apon" \in w.todo \/ EndsIn(s.evq, "lost")

InHand(s, w) ==
  s \in WifiStates /\ w \in Works /\ ToTheDoor(s, w) /\ Told(s) /\ Retrying(s, w)
WifiInv == InHand(Now1, wk)

LEMMA Strings == Order \in Seq({"fb", "apon", "connect", "apd", "rc"})
                 /\ ToSet(Order) = {"fb", "apon", "connect", "apd", "rc"}
<1>1. /\ DOMAIN Order = 1..5 /\ Order[1] = "fb" /\ Order[2] = "apon" /\ Order[3] = "connect"
      /\ Order[4] = "apd" /\ Order[5] = "rc"
  BY DEF Order
<1>2. Order \in Seq({"fb", "apon", "connect", "apd", "rc"})
  BY DEF Order
<1>3. ToSet(Order) = {"fb", "apon", "connect", "apd", "rc"}
  BY <1>1 DEF ToSet
<1> QED
  BY <1>2, <1>3

LEMMA DownApart == Down \notin Networks
BY WifiAssumption DEF Down

LEMMA EndsAppend ==
  ASSUME NEW q \in Seq(Events), NEW e \in Events
  PROVE  Append(q, e) \in Seq(Events) /\ \A f : EndsIn(Append(q, e), f) <=> f = e
BY DEF EndsIn

LEMMA EndsTail ==
  ASSUME NEW q \in Seq(Events), q # << >>
  PROVE  /\ Tail(q) \in Seq(Events) /\ Head(q) \in Events
         /\ \A f : EndsIn(q, f) => EndsIn(Tail(q), f) \/ Head(q) = f
         /\ \A f : EndsIn(Tail(q), f) => EndsIn(q, f) /\ Len(q) # 1
         /\ \E f \in Events : EndsIn(q, f)
         /\ Len(q) = 1 => \A f : EndsIn(q, f) => Head(q) = f
<1>1. Tail(q) \in Seq(Events) /\ Head(q) \in Events /\ Head(q) = q[1]
  OBVIOUS
<1>2. PICK n \in Nat : Len(Tail(q)) = n /\ Len(q) = n + 1
  OBVIOUS
<1>3. \A i \in 1..n : Tail(q)[i] = q[i + 1]
  BY <1>2
<1>6. \E f \in Events : EndsIn(q, f)
  <2>1. n + 1 \in 1..Len(q) /\ Len(q) > 0
    BY <1>2
  <2>2. q[Len(q)] \in Events
    BY <1>2, <2>1
  <2> QED
    BY <2>1, <2>2, Zenon DEF EndsIn
<1>4. CASE n = 0
  <2>1. ~(n > 0) /\ n + 1 = 1
    BY <1>4
  <2>2. Len(q) = 1 /\ ~(Len(Tail(q)) > 0)
    BY <1>2, <2>1, Zenon
  <2> QED
    BY <1>1, <1>6, <2>2, Zenon DEF EndsIn
<1>5. CASE n # 0
  <2>1. n \in 1..n /\ Len(Tail(q)) > 0 /\ Len(q) > 0
    BY <1>2, <1>5
  <2>2. Tail(q)[Len(Tail(q))] = q[Len(q)]
    BY <1>2, <1>3, <2>1, Zenon
  <2>3. Len(q) # 1
    BY <1>2, <1>5
  <2> QED
    BY <1>1, <1>6, <2>1, <2>2, <2>3, Zenon DEF EndsIn
<1> QED
  BY <1>4, <1>5

(* Where a step leaves a record of the shared state, it is the next state.  *)
LEMMA BecomesIs ==
  ASSUME NEW s \in WifiStates, Becomes(s)
  PROVE  Now1' = s
BY DEF WifiStates, Becomes, Now1

LEMMA BecomesInHand ==
  ASSUME NEW s, Becomes(s), InHand(s, wk')
  PROVE  WifiInv'
<1>1. Now1' = s
  BY BecomesIs DEF InHand
<1> QED
  BY <1>1 DEF WifiInv

-----------------------------------------------------------------------------
(* The calls the actors are made of keep it.                               *)

LEMMA ConnectsInHand ==
  ASSUME NEW s, NEW w, NEW i, NEW t \in Connects(s, i),
         s \in WifiStates, w \in Works, ToTheDoor(s, w), Told(s)
  PROVE  /\ t \in WifiStates /\ ToTheDoor(t, w) /\ Told(t)
         /\ t.wst = s.wst /\ t.creds = s.creds /\ t.link = s.link
         /\ Retrying(s, w) \/ i \in DOMAIN s.creds => Retrying(t, w)
<1> DEFINE named == [s EXCEPT !.try = i, !.shown = s.creds[i]]
<1>1. CASE i \notin DOMAIN s.creds
  BY <1>1 DEF Connects
<1>2. CASE i \in DOMAIN s.creds
  <2>1. i \in Nat /\ s.creds[i] \in Networks /\ s.creds[i] # Down
    BY <1>2, DownApart DEF WifiStates
  <2>2. named \in WifiStates /\ named.armed = s.armed
    BY <2>1 DEF WifiStates
  <2>3. \/ /\ t = [named EXCEPT !.air = s.creds[i]] /\ s.link = Down /\ s.air = Down
        \/ \E n \in Nat : t = [named EXCEPT !.armed = s.armed \cup {"rc"}, !.stir = n]
    <3>1. s.stir \in Nat /\ s.stir + 1 \in Nat
      BY DEF WifiStates
    <3>2. t \in (IF s.link # Down \/ s.air # Down \/ "sta" \notin s.radio THEN {}
                 ELSE {[named EXCEPT !.air = s.creds[i]]})
                \cup {[named EXCEPT !.armed = s.armed \cup {"rc"}, !.stir = n] : n \in {s.stir, s.stir + 1}}
      <4>1. named.stir = s.stir
        BY <2>2 DEF WifiStates
      <4> QED
        BY <1>2, <2>2, <4>1 DEF Connects, Retries
    <3> QED
      BY <3>1, <3>2
  <2>4. CASE t = [named EXCEPT !.air = s.creds[i]] /\ s.link = Down /\ s.air = Down
    <3>1. /\ t \in WifiStates /\ t.air = s.creds[i]
          /\ t.wst = s.wst /\ t.ap = s.ap /\ t.shut = s.shut /\ t.armed = s.armed /\ t.bits = s.bits
          /\ t.link = s.link /\ t.evq = s.evq /\ t.creds = s.creds
      BY <2>1, <2>4 DEF WifiStates
    <3> QED
      BY <2>1, <2>4, <3>1 DEF ToTheDoor, Told, Retrying, Due
  <2>5. CASE \E n \in Nat : t = [named EXCEPT !.armed = s.armed \cup {"rc"}, !.stir = n]
    <3>0. PICK n \in Nat : t = [named EXCEPT !.armed = s.armed \cup {"rc"}, !.stir = n]
      BY <2>5
    <3>1. /\ t \in WifiStates /\ t.armed = s.armed \cup {"rc"}
          /\ t.wst = s.wst /\ t.ap = s.ap /\ t.shut = s.shut /\ t.air = s.air /\ t.bits = s.bits
          /\ t.link = s.link /\ t.evq = s.evq /\ t.creds = s.creds
      BY <2>1, <3>0 DEF WifiStates, Timers
    <3> QED
      BY <3>1 DEF ToTheDoor, Told, Retrying, Due
  <2> QED
    BY <2>3, <2>4, <2>5
<1> QED
  BY <1>1, <1>2

LEMMA LeavesIs ==
  ASSUME NEW s \in WifiStates, Told(s), s.evq = << >> \/ (s.link = Down /\ s.air = Down)
  PROVE  /\ Leaves1(s) \in WifiStates /\ Leaves1(s).link = Down /\ Leaves1(s).air = Down
         /\ Leaves1(s).wst = s.wst /\ Leaves1(s).ap = s.ap /\ Leaves1(s).armed = s.armed
         /\ Leaves1(s).bits = s.bits /\ Leaves1(s).creds = s.creds
         /\ Told(Leaves1(s))
<1>1. CASE s.link = Down /\ s.air = Down
  BY <1>1 DEF Leaves1, Told
<1>2. CASE ~(s.link = Down /\ s.air = Down)
  <2>1. Leaves1(s) = [s EXCEPT !.link = Down, !.air = Down, !.evq = Append(@, "leave")]
    BY <1>2, Zenon DEF Leaves1
  <2>2. /\ Append(s.evq, "leave") \in Seq(Events) /\ ~EndsIn(Append(s.evq, "leave"), "ip")
        /\ Len(Append(s.evq, "leave")) = 1
    BY <1>2, EndsAppend DEF WifiStates, Events
  <2>3. PICK t : t = [s EXCEPT !.link = Down, !.air = Down, !.evq = Append(@, "leave")]
    OBVIOUS
  <2>4. /\ t.link = Down /\ t.air = Down /\ t.evq = Append(s.evq, "leave")
        /\ t.wst = s.wst /\ t.ap = s.ap /\ t.armed = s.armed /\ t.bits = s.bits
        /\ t.creds = s.creds
    BY <2>3 DEF WifiStates
  <2>5. t \in WifiStates
    BY <2>2, <2>3 DEF WifiStates
  <2>6. Told(t)
    BY <2>2, <2>4 DEF Told
  <2> QED
    BY <2>1, <2>3, <2>4, <2>5, <2>6, Zenon
<1> QED
  BY <1>1, <1>2

(* An attempt begins: the fallback's timer runs, nothing is in the air.     *)
LEMMA BeginsInHand ==
  ASSUME NEW s, NEW w \in Works, s \in WifiStates, Told(s),
         s.evq = << >> \/ (s.link = Down /\ s.air = Down)
  PROVE  /\ Begins(s) \in WifiStates /\ InHand(Begins(s), w)
         /\ Begins(s).wst = "connecting" /\ Begins(s).creds = s.creds
         /\ Begins(s).link = Down
<1> DEFINE b == [s EXCEPT !.radio = @ \cup {"sta"}, !.wst = "connecting", !.fast = TRUE, !.shut = FALSE,
                          !.armed = (@ \ {"apd"}) \cup {"fb"}]
<1>1. /\ b \in WifiStates /\ b.wst = "connecting" /\ "fb" \in b.armed /\ b.creds = s.creds
      /\ b.link = s.link /\ b.air = s.air /\ b.evq = s.evq
  BY DEF WifiStates, Timers
<1>2. Begins(s) = Leaves1(b)
  BY Zenon DEF Begins
<1>3. Told(b)
  BY <1>1 DEF Told
<1> HIDE DEF b
<1>4. /\ Begins(s) \in WifiStates /\ Begins(s).wst = "connecting" /\ "fb" \in Begins(s).armed
      /\ Begins(s).creds = s.creds /\ Begins(s).link = Down /\ Told(Begins(s))
  BY <1>1, <1>2, <1>3, LeavesIs
<1> QED
  BY <1>4 DEF InHand, ToTheDoor, Retrying, Due

(* The access point opened or refused: it is up, or known to be shut.       *)
LEMMA OpensInHand ==
  ASSUME NEW s \in WifiStates, NEW t \in Opens(s)
  PROVE  /\ t \in WifiStates /\ (t.ap \/ t.shut) /\ t.wst = s.wst /\ t.armed = s.armed /\ t.bits = s.bits
         /\ t.air = s.air /\ t.link = s.link /\ t.evq = s.evq /\ t.creds = s.creds
<1>1. CASE t = StartsAp(s)
  BY <1>1 DEF StartsAp, WifiStates
<1>2. CASE t = ReturnsEarly(s)
  <2> PICK n : n = s.stir + 1
    OBVIOUS
  <2> PICK b : b \in BOOLEAN /\ b = ~s.ap
    OBVIOUS
  <2>1. n \in Nat /\ b \in BOOLEAN
    BY DEF WifiStates
  <2>2. t = [s EXCEPT !.radio = s.radio \cup {"ap"}, !.shut = b, !.stir = n]
    BY <1>2 DEF ReturnsEarly, WifiStates
  <2>3. /\ t \in WifiStates /\ t.ap = s.ap /\ t.shut = b /\ t.wst = s.wst /\ t.armed = s.armed /\ t.bits = s.bits
        /\ t.air = s.air /\ t.link = s.link /\ t.evq = s.evq /\ t.creds = s.creds
    BY <2>1, <2>2 DEF WifiStates
  <2>4. t.ap \/ t.shut
    BY <2>3, Zenon
  <2> QED
    BY <2>3, <2>4
<1> QED
  BY <1>1, <1>2, Zenon DEF Opens

LEMMA AloneInHand ==
  ASSUME NEW s, NEW w \in Works, s \in WifiStates, Told(s), s.evq = << >>, NEW t \in Alone(s)
  PROVE  InHand(t, w)
<1>1. PICK l : l = Leaves1(s) /\ l \in WifiStates /\ l.link = Down /\ Told(l)
  BY LeavesIs
<1>2. PICK m : m = [l EXCEPT !.radio = {"ap"}, !.shown = Down]
  OBVIOUS
<1>3. m \in WifiStates /\ m.link = Down /\ m.evq = l.evq
  <2>1. ASSUME NEW x \in WifiStates, NEW y, y = [x EXCEPT !.radio = {"ap"}, !.shown = Down]
        PROVE  y \in WifiStates /\ y.link = x.link /\ y.evq = x.evq
    <3>1. {"ap"} \in SUBSET {"ap", "sta"}
      OBVIOUS
    <3>2. y \in WifiStates
      BY <2>1, <3>1 DEF WifiStates
    <3>3. y.link = x.link /\ y.evq = x.evq
      BY <2>1 DEF WifiStates
    <3> QED
      BY <3>2, <3>3
  <2> QED
    BY <1>1, <1>2, <2>1
<1>4. PICK u \in Opens(m) : t = [u EXCEPT !.wst = "aponly"]
  BY <1>1, <1>2, Zenon DEF Alone
<1>5. u \in WifiStates /\ (u.ap \/ u.shut) /\ u.link = Down /\ u.evq = l.evq
  BY <1>3, OpensInHand
<1>6. /\ t \in WifiStates /\ t.wst = "aponly" /\ t.ap = u.ap /\ t.shut = u.shut
      /\ t.link = Down /\ t.evq = l.evq
  BY <1>4, <1>5 DEF WifiStates
<1>7. Told(t)
  BY <1>1, <1>6 DEF Told
<1>8. ToTheDoor(t, w) /\ Retrying(t, w)
  BY <1>5, <1>6 DEF ToTheDoor, Retrying
<1> QED
  BY <1>6, <1>7, <1>8, Zenon DEF InHand

-----------------------------------------------------------------------------
(* The steps. *)

LEMMA NowType == WifiInv => Now1 \in WifiStates /\ wk \in Works
BY DEF WifiInv, InHand

(* A job done leaves the rest.                                             *)
LEMMA DoneIs ==
  ASSUME wk \in Works, NEW job, Done(job)
  PROVE  wk' \in Works /\ wk'.todo = wk.todo \ {job} /\ ~Closing(wk')
<1>1. CASE wk.todo = {job}
  BY <1>1 DEF Done, NoWork, Works, Closing
<1>2. CASE wk.todo # {job}
  BY <1>2 DEF Done, Works, NoWork, Closing
<1> QED
  BY <1>1, <1>2

(* The event loop. *)
LEMMA EventInHand ==
  ASSUME WifiInv, EventLoop
  PROVE  WifiInv'
<1>1. PICK q \in Seq(Events) : q = evq /\ q # << >>
  BY DEF EventLoop, WifiInv, InHand, WifiStates, Now1
<1>2. PICK s : s = [Now1 EXCEPT !.evq = Tail(@)]
  OBVIOUS
<1>3. /\ Tail(q) \in Seq(Events) /\ Head(q) \in Events
      /\ \A f : EndsIn(q, f) => EndsIn(Tail(q), f) \/ Head(q) = f
      /\ \A f : EndsIn(Tail(q), f) => EndsIn(q, f) /\ Len(q) # 1
      /\ \E f \in Events : EndsIn(q, f)
      /\ Len(q) = 1 => \A f : EndsIn(q, f) => Head(q) = f
  BY <1>1, EndsTail
<1>4. /\ s \in WifiStates /\ s.evq = Tail(q) /\ s.wst = wst /\ s.ap = ap /\ s.shut = shut /\ s.armed = armed
      /\ s.bits = bits /\ s.link = link /\ s.air = air /\ s.creds = creds /\ s.try = tryIdx /\ s.fast = fast
  BY <1>1, <1>2, <1>3, NowType DEF WifiStates, Now1
<1>5. /\ wst = "connecting" => Due(s, wk, "fb")
      /\ wst = "fallback" => ~Closing(wk) /\ (ap \/ shut \/ "apon" \in wk.todo)
      /\ wst = "aponly" => ap \/ shut
      /\ wst = "connected" /\ link = Down => EndsIn(q, "lost")
      /\ air = Down \/ link = Down
      /\ EndsIn(q, "ip") => link # Down
      /\ EndsIn(q, "leave") => Len(q) = 1
      /\ wst = "fallback" /\ link = Down /\ creds # << >> =>
           air # Down \/ Due(s, wk, "rc") \/ "apon" \in wk.todo \/ EndsIn(q, "lost")
  BY <1>1, <1>4 DEF WifiInv, InHand, ToTheDoor, Told, Retrying, Due, Now1
<1>6. wk' = wk /\ wk \in Works
  BY NowType DEF EventLoop
<1>7. Told(s)
  BY <1>3, <1>4, <1>5 DEF Told
<1>11. Becomes(CASE Head(q) = "leave" -> s [] Head(q) = "lost" -> Lost(s) [] Head(q) = "ip" -> GotIp(s))
  BY <1>1, <1>2, Zenon DEF EventLoop
<1>8. CASE Head(q) = "leave"
  <2>1. Becomes(s)
    BY <1>1, <1>8, <1>11
  <2>2. ToTheDoor(s, wk) /\ Retrying(s, wk)
    BY <1>3, <1>4, <1>5, <1>8 DEF ToTheDoor, Retrying
  <2> QED
    BY <1>4, <1>6, <1>7, <2>1, <2>2, BecomesInHand DEF InHand
<1>9. CASE Head(q) = "lost"
  <2>1. PICK t : t = Lost(s) /\ Becomes(t)
    BY <1>1, <1>9, <1>11
  <2>2. \/ /\ t.wst = "connecting" /\ "fb" \in t.armed
        \/ /\ t.wst = "connecting" /\ s.wst = "connecting" /\ t.armed = s.armed /\ s.bits \subseteq t.bits
        \/ /\ t.wst = s.wst /\ s.wst # "connected" /\ t.armed = s.armed \cup {"rc"} /\ t.bits = s.bits
    BY <1>4, <2>1 DEF Lost, Asks, Rearmed, WifiStates
  <2>3. /\ t \in WifiStates /\ t.ap = s.ap /\ t.shut = s.shut /\ t.link = s.link /\ t.air = s.air
        /\ t.evq = s.evq /\ t.creds = s.creds
    <3>1. PICK m : m = [s EXCEPT !.wst = "connecting", !.fast = TRUE, !.armed = @ \cup {"fb"}]
      OBVIOUS
    <3>2. m \in WifiStates /\ m.ap = s.ap /\ m.shut = s.shut /\ m.link = s.link /\ m.air = s.air
          /\ m.evq = s.evq /\ m.creds = s.creds
      BY <1>4, <3>1 DEF WifiStates, Timers
    <3>3. \/ t = Asks(m, 1)
          \/ t = Asks(s, s.try + 1)
          \/ \E b \in BOOLEAN : t = [s EXCEPT !.armed = @ \cup {"rc"}, !.fast = b]
      BY <1>4, <2>1, <3>1 DEF Lost, Rearmed, WifiStates
    <3>4. ASSUME NEW u \in WifiStates, NEW j \in Nat, t = Asks(u, j)
          PROVE  /\ t \in WifiStates /\ t.ap = u.ap /\ t.shut = u.shut /\ t.link = u.link /\ t.air = u.air
                 /\ t.evq = u.evq /\ t.creds = u.creds
      BY <3>4, Strings DEF Asks, WifiStates
    <3>5. s.try + 1 \in Nat
      BY <1>4 DEF WifiStates
    <3>6. ASSUME NEW b \in BOOLEAN, t = [s EXCEPT !.armed = @ \cup {"rc"}, !.fast = b]
          PROVE  /\ t \in WifiStates /\ t.ap = s.ap /\ t.shut = s.shut /\ t.link = s.link /\ t.air = s.air
                 /\ t.evq = s.evq /\ t.creds = s.creds
      BY <1>4, <3>6 DEF WifiStates, Timers
    <3>7. CASE t = Asks(m, 1)
      BY <3>2, <3>4, <3>7
    <3>8. CASE t = Asks(s, s.try + 1)
      BY <1>4, <3>4, <3>5, <3>8
    <3> QED
      BY <3>3, <3>6, <3>7, <3>8
  <2>4. Told(t)
    BY <1>7, <2>3 DEF Told
  <2>5. ToTheDoor(t, wk)
    BY <1>4, <1>5, <2>2, <2>3 DEF ToTheDoor, Due
  <2>6. Retrying(t, wk)
    BY <2>2 DEF Retrying, Due
  <2> QED
    BY <1>6, <2>1, <2>3, <2>4, <2>5, <2>6, BecomesInHand DEF InHand
<1>10. CASE Head(q) = "ip"
  <2>1. PICK t : t = GotIp(s) /\ Becomes(t)
    BY <1>1, <1>10, <1>11
  <2>2. /\ t \in WifiStates /\ t.wst = "connected" /\ t.link = s.link /\ t.air = s.air
        /\ t.evq = s.evq
    BY <1>4, <2>1 DEF GotIp, WifiStates, Timers
  <2>3. Told(t) /\ Retrying(t, wk)
    BY <1>7, <2>2 DEF Told, Retrying
  <2>4. link = Down => EndsIn(Tail(q), "lost")
    BY <1>3, <1>5, <1>10 DEF Events
  <2>5. ToTheDoor(t, wk)
    BY <1>4, <2>2, <2>4 DEF ToTheDoor
  <2> QED
    BY <1>6, <2>1, <2>2, <2>3, <2>5, BecomesInHand DEF InHand
<1> QED
  BY <1>3, <1>8, <1>9, <1>10 DEF Events

(* A timer hands its job to the worker, the worker takes what has come.     *)
LEMMA HandedOn ==
  ASSUME WifiInv, (\E job \in Timers : WifiTimer(job)) \/ Takes
  PROVE  WifiInv'
<1>1. Now1 \in WifiStates /\ wk \in Works
  BY NowType
<1>2. /\ Now1' \in WifiStates /\ wk' \in Works /\ \A job : Due(Now1, wk, job) => Due(Now1, wk, job)'
      /\ wk.todo \subseteq wk'.todo /\ (Closing(wk') => Closing(wk))
      /\ UNCHANGED << wst, ap, shut, air, link, evq, creds >>
  <2>1. CASE \E job \in Timers : WifiTimer(job)
    <3>1. PICK job \in Timers : WifiTimer(job)
      BY <2>1
    <3>2. /\ wk' = wk /\ armed' = armed \ {job} /\ bits' = bits \cup {job} /\ stir' \in Nat
          /\ UNCHANGED << wst, fast, tryIdx, creds, shown, ap, radio, shut, link, air, evq >>
      BY <1>1, <3>1 DEF WifiTimer, Driver, WifiStates, Now1
    <3>3. armed' \in SUBSET Timers /\ bits' \in SUBSET ToSet(Order)
      BY <1>1, <3>2, Strings DEF WifiStates, Now1, Timers
    <3>4. Now1' \in WifiStates
      BY <1>1, <3>2, <3>3 DEF WifiStates, Now1
    <3>5. \A x : Due(Now1, wk, x) => Due(Now1, wk, x)'
      BY <3>2 DEF Due, Now1
    <3> QED
      BY <1>1, <3>2, <3>4, <3>5
  <2>2. CASE Takes
    <3>1. /\ wk = NoWork /\ bits' = {} /\ wk' = [at |-> "work", todo |-> bits]
          /\ UNCHANGED << wst, fast, tryIdx, creds, shown, ap, radio, shut, armed, link, air, evq, stir >>
      BY <2>2 DEF Takes, Driver
    <3>2. wk' \in Works
      BY <1>1, <3>1 DEF WifiStates, Now1, Works
    <3>3. wk.todo = {} /\ wk'.todo = bits /\ ~Closing(wk')
      BY <3>1 DEF NoWork, Closing
    <3>4. Now1' \in WifiStates
      BY <1>1, <3>1 DEF WifiStates, Now1
    <3>5. \A x : Due(Now1, wk, x) => Due(Now1, wk, x)'
      BY <3>1, <3>3 DEF Due, Now1
    <3> QED
      BY <3>1, <3>2, <3>3, <3>4, <3>5
  <2> QED
    BY <2>1, <2>2
<1>3. ToTheDoor(Now1, wk)'
  BY <1>2 DEF WifiInv, InHand, ToTheDoor, Now1
<1>4. Told(Now1)' /\ Retrying(Now1, wk)'
  BY <1>2 DEF WifiInv, InHand, Told, Retrying, Now1
<1> QED
  BY <1>2, <1>3, <1>4 DEF WifiInv, InHand

(* The worker. *)
LEMMA WorkerInHand ==
  ASSUME WifiInv, wk # NoWork, FallsBack \/ OpensAp \/ ConnectsNext \/ ClosesAp
  PROVE  WifiInv'
<1>1. /\ Now1 \in WifiStates /\ wk \in Works
      /\ ToTheDoor(Now1, wk) /\ Told(Now1) /\ Retrying(Now1, wk)
  BY DEF WifiInv, InHand
<1>2. CASE FallsBack
  <2>1. CASE wst = "connecting" /\ wk' = [wk EXCEPT !.at = "set"] /\ Becomes(Now1)
    <3>1. wk' \in Works /\ wk'.todo = wk.todo /\ ~Closing(wk')
      BY <1>1, <2>1 DEF Works, NoWork, Closing
    <3>2. ToTheDoor(Now1, wk') /\ Retrying(Now1, wk')
      BY <1>1, <3>1 DEF ToTheDoor, Retrying, Due
    <3> QED
      BY <1>1, <2>1, <3>1, <3>2, BecomesInHand DEF InHand
  <2>2. CASE wst # "connecting" /\ Done("fb") /\ Becomes(Now1)
    <3>1. wk' \in Works /\ wk'.todo = wk.todo \ {"fb"} /\ ~Closing(wk')
      BY <1>1, <2>2, DoneIs
    <3>2. ToTheDoor(Now1, wk') /\ Retrying(Now1, wk')
      BY <1>1, <2>2, <3>1 DEF ToTheDoor, Retrying, Due, Now1
    <3> QED
      BY <1>1, <2>2, <3>1, <3>2, BecomesInHand DEF InHand
  <2>3. CASE /\ wk' = [at |-> "work", todo |-> (wk.todo \ {"fb"}) \cup {"apon"}]
             /\ Becomes([Now1 EXCEPT !.wst = "fallback", !.fast = FALSE])
    <3>1. wk' \in Works /\ "apon" \in wk'.todo /\ ~Closing(wk')
      BY <1>1, <2>3, Strings DEF Works, NoWork, Closing
    <3>2. PICK t : t = [Now1 EXCEPT !.wst = "fallback", !.fast = FALSE] /\ Becomes(t)
      BY <2>3
    <3>3. /\ t \in WifiStates /\ t.wst = "fallback" /\ t.air = Now1.air /\ t.link = Now1.link
          /\ t.evq = Now1.evq
      BY <1>1, <3>2 DEF WifiStates
    <3>4. ToTheDoor(t, wk') /\ Retrying(t, wk') /\ Told(t)
      BY <1>1, <3>1, <3>3 DEF ToTheDoor, Retrying, Told
    <3> QED
      BY <3>1, <3>2, <3>3, <3>4, BecomesInHand DEF InHand
  <2> QED
    BY <1>2, <2>1, <2>2, <2>3 DEF FallsBack
<1>3. CASE OpensAp
  <2>1. wk' \in Works /\ wk'.todo = wk.todo \ {"apon"} /\ ~Closing(wk')
    BY <1>1, <1>3, DoneIs DEF OpensAp
  <2>2. PICK u \in Opens(Now1) : Becomes([u EXCEPT !.armed = @ \cup {"rc"}])
    BY <1>3 DEF OpensAp
  <2>3. PICK t : t = [u EXCEPT !.armed = @ \cup {"rc"}] /\ Becomes(t)
    BY <2>2
  <2>4. /\ u \in WifiStates /\ (u.ap \/ u.shut) /\ u.wst = wst /\ u.armed = armed /\ u.bits = bits
        /\ u.air = Now1.air /\ u.link = Now1.link /\ u.evq = Now1.evq
    BY <1>1, OpensInHand DEF Now1
  <2>5. /\ t \in WifiStates /\ (t.ap \/ t.shut) /\ t.wst = wst /\ t.armed = armed \cup {"rc"} /\ t.bits = bits
        /\ t.air = Now1.air /\ t.link = Now1.link /\ t.evq = Now1.evq
    BY <2>3, <2>4 DEF WifiStates, Timers
  <2>6. Told(t) /\ Retrying(t, wk')
    BY <1>1, <2>5 DEF Told, Retrying, Due
  <2>7. Due(Now1, wk, "fb") => Due(t, wk', "fb")
    BY <2>1, <2>5 DEF Due, Now1
  <2>8. ToTheDoor(t, wk')
    BY <1>1, <2>1, <2>5, <2>7 DEF ToTheDoor, Now1
  <2> QED
    BY <2>1, <2>3, <2>5, <2>6, <2>8, BecomesInHand DEF InHand
<1>4. CASE ConnectsNext
  <2>1. PICK i : /\ i = (IF NextJob = "connect" THEN tryIdx ELSE IF tryIdx < Len(creds) THEN tryIdx + 1 ELSE 1)
                 /\ \E t \in Connects(Now1, i) : Becomes(t)
    BY <1>4 DEF ConnectsNext
  <2>2. PICK job : job = NextJob /\ job \in {"connect", "rc"} /\ Done(job)
    BY <1>4 DEF ConnectsNext
  <2>3. wk' \in Works /\ wk'.todo = wk.todo \ {job} /\ ~Closing(wk')
    BY <1>1, <2>2, DoneIs
  <2>4. tryIdx \in Nat /\ creds \in Seq(Networks)
    BY <1>1 DEF WifiStates, Now1
  <2>6. job = "rc" /\ creds # << >> => i \in DOMAIN creds
    <3> SUFFICES ASSUME job = "rc", creds # << >> PROVE i \in DOMAIN creds
      OBVIOUS
    <3>1. i = IF tryIdx < Len(creds) THEN tryIdx + 1 ELSE 1
      BY <2>1, <2>2
    <3> QED
      BY <2>4, <3>1
  <2>7. ToTheDoor(Now1, wk')
    BY <1>1, <2>2, <2>3 DEF ToTheDoor, Due
  <2>8. Retrying(Now1, wk') \/ i \in DOMAIN Now1.creds
    <3>1. CASE job = "connect"
      BY <1>1, <2>3, <3>1 DEF Retrying, Due
    <3>2. CASE job = "rc"
      BY <2>6, <3>2 DEF Retrying, Now1
    <3> QED
      BY <2>2, <3>1, <3>2
  <2>9. PICK t \in Connects(Now1, i) : Becomes(t)
    BY <2>1
  <2>10. t \in WifiStates /\ ToTheDoor(t, wk') /\ Told(t) /\ Retrying(t, wk')
    BY <1>1, <2>3, <2>7, <2>8, ConnectsInHand
  <2> QED
    BY <2>3, <2>9, <2>10, BecomesInHand DEF InHand
<1>5. CASE ClosesAp
  <2>1. Now1.wst = wst /\ Now1.ap = ap /\ Now1.shut = shut
    BY DEF Now1
  <2>2. ASSUME NEW n, wk' = [wk EXCEPT !.at = n], n \in {"mode", "flag"}
        PROVE  wk' \in Works /\ wk'.todo = wk.todo /\ wk'.at = n
    BY <1>1, <2>2 DEF Works, NoWork
  <2>3. \/ Done("apd") /\ ~Closing(wk')
        \/ \E n \in {"mode", "flag"} : wk' = [wk EXCEPT !.at = n]
    BY <1>1, <1>5, DoneIs DEF ClosesAp
  <2>4. /\ wk' \in Works /\ (wk'.todo = wk.todo \/ wk'.todo = wk.todo \ {"apd"})
    BY <1>1, <2>2, <2>3, DoneIs
  <2>5. Closing(wk') => Closing(wk) \/ wst = "connected"
    <3>1. \/ wk.at = "work" /\ wst = "connected"
          \/ wk.at \in {"mode", "flag"}
          \/ Done("apd")
      BY <1>5 DEF ClosesAp
    <3>2. Done("apd") => ~Closing(wk')
      BY <1>1, DoneIs
    <3> QED
      BY <3>1, <3>2 DEF Closing
  <2>6. PICK t : /\ Becomes(t)
                 /\ \/ t = Now1
                    \/ t = [Now1 EXCEPT !.armed = @ \cup {"apd"}]
                    \/ t = [Now1 EXCEPT !.radio = {"sta"}]
                    \/ t = [Now1 EXCEPT !.stir = @ + 1]
                    \/ Closing(wk) /\ t = [Now1 EXCEPT !.ap = FALSE, !.shut = @ \/ wst = "aponly"]
    BY <1>5 DEF ClosesAp, Closing
  <2>7. /\ t \in WifiStates /\ t.wst = wst /\ t.air = Now1.air /\ t.link = Now1.link
        /\ t.evq = Now1.evq /\ t.creds = Now1.creds /\ t.bits = Now1.bits /\ Now1.armed \subseteq t.armed
        /\ (t.ap = ap /\ t.shut = shut) \/ (Closing(wk) /\ t.shut = (shut \/ wst = "aponly"))
    <3>1. {"sta"} \in SUBSET {"ap", "sta"} /\ "apd" \in Timers
      BY DEF Timers
    <3>2. CASE t = Now1
      BY <1>1, <2>1, <3>2
    <3>3. CASE t = [Now1 EXCEPT !.armed = @ \cup {"apd"}]
      BY <1>1, <2>1, <3>1, <3>3 DEF WifiStates
    <3>4. CASE t = [Now1 EXCEPT !.radio = {"sta"}]
      BY <1>1, <2>1, <3>1, <3>4 DEF WifiStates
    <3>5. CASE t = [Now1 EXCEPT !.stir = @ + 1]
      <4>1. Now1.stir + 1 \in Nat
        BY <1>1 DEF WifiStates
      <4> QED
        BY <1>1, <2>1, <3>5, <4>1 DEF WifiStates
    <3>6. CASE Closing(wk) /\ t = [Now1 EXCEPT !.ap = FALSE, !.shut = @ \/ wst = "aponly"]
      <4> PICK b \in BOOLEAN : b = (shut \/ wst = "aponly")
        OBVIOUS
      <4>1. t = [Now1 EXCEPT !.ap = FALSE, !.shut = b]
        BY <2>1, <3>6, Zenon
      <4> QED
        BY <1>1, <2>1, <3>6, <4>1 DEF WifiStates
    <3> QED
      BY <2>6, <3>2, <3>3, <3>4, <3>5, <3>6
  <2>8. ToTheDoor(t, wk')
    <3>1. wst = "connecting" => Due(t, wk', "fb")
      BY <1>1, <2>1, <2>4, <2>7 DEF ToTheDoor, Due
    <3>2. wst = "fallback" => ~Closing(wk) /\ ~Closing(wk') /\ (ap \/ shut \/ "apon" \in wk.todo)
      BY <1>1, <2>1, <2>5 DEF ToTheDoor
    <3>3. wst = "fallback" => ~Closing(wk') /\ (t.ap \/ t.shut \/ "apon" \in wk'.todo)
      BY <2>4, <2>7, <3>2
    <3>4. wst = "aponly" => t.ap \/ t.shut
      BY <1>1, <2>1, <2>7 DEF ToTheDoor
    <3>5. wst = "connected" /\ t.link = Down => EndsIn(t.evq, "lost")
      BY <1>1, <2>1, <2>7 DEF ToTheDoor
    <3> QED
      BY <2>7, <3>1, <3>3, <3>4, <3>5 DEF ToTheDoor
  <2>9. Retrying(t, wk') /\ Told(t)
    BY <1>1, <2>1, <2>4, <2>7 DEF Retrying, Told, Due
  <2> QED
    BY <2>4, <2>6, <2>7, <2>8, <2>9, BecomesInHand DEF InHand
<1> QED
  BY <1>2, <1>3, <1>4, <1>5

(* Users. *)
LEMMA LeastIndex ==
  ASSUME NEW S, S \subseteq Nat, S # {}
  PROVE  Min(S) \in S
<1>1. \E x \in S : \A y \in S : ~(<< y, x >> \in OpToRel(<, Nat))
  BY NatLessThanWellFounded, WFMin
<1>2. \A x, y \in Nat : y < x => << y, x >> \in OpToRel(<, Nat)
  BY Zenon DEF OpToRel
<1>3. PICK x \in S : \A y \in S : ~(y < x)
  BY <1>1, <1>2, Zenon
<1>4. \A y \in S : x <= y
  BY <1>3
<1> QED
  BY <1>4 DEF Min

LEMMA IndexOf ==
  ASSUME creds \in Seq(Networks), NEW n, IdxOf(n) > 0
  PROVE  IdxOf(n) \in 1..Len(creds)
<1> DEFINE S == {i \in 1..Len(creds) : creds[i] = n}
<1>1. IdxOf(n) = IF S # {} THEN Min(S) ELSE 0
  BY Zenon DEF IdxOf, SelectInSeq
<1>2. S \subseteq Nat /\ S \subseteq 1..Len(creds)
  OBVIOUS
<1>3. S # {} => Min(S) \in S
  BY <1>2, LeastIndex
<1> HIDE DEF S
<1>4. S # {}
  BY <1>1
<1> QED
  BY <1>1, <1>2, <1>3, <1>4

LEMMA CutType ==
  ASSUME NEW c \in Seq(Networks), NEW i \in 1..Len(c)
  PROVE  RemoveAt(c, i) \in Seq(Networks)
<1>1. SubSeq(c, 1, i - 1) \in Seq(Networks)
  OBVIOUS
<1>2. SubSeq(c, i + 1, Len(c)) \in Seq(Networks)
  OBVIOUS
<1> QED
  BY <1>1, <1>2 DEF RemoveAt

LEMMA AskingIs ==
  ASSUME Now1 \in WifiStates, Told(Now1), evq = << >>, NEW c \in Seq(Networks),
         NEW s, s = [Asking EXCEPT !.creds = c]
  PROVE  s \in WifiStates /\ Told(s) /\ s.evq = << >> /\ s.creds = c
<1>1. stir + 1 \in Nat
  BY DEF WifiStates, Now1
<1>2. PICK m : m = Asking
  OBVIOUS
<1>3. m = [Now1 EXCEPT !.stir = stir + 1]
  BY <1>2 DEF Asking, Now1
<1>4. m \in WifiStates /\ m.link = Now1.link /\ m.air = Now1.air /\ m.evq = evq
  BY <1>1, <1>3 DEF WifiStates, Now1
<1>5. s \in WifiStates /\ s.link = Now1.link /\ s.air = Now1.air /\ s.evq = evq /\ s.creds = c
  BY <1>2, <1>4 DEF WifiStates
<1> QED
  BY <1>5 DEF Told, Now1

(* An attempt that begins and is handed to the radio.                      *)
LEMMA BegunInHand ==
  ASSUME WifiInv, UNCHANGED wk, NEW s \in WifiStates, Told(s),
         s.evq = << >> \/ (s.link = Down /\ s.air = Down),
         NEW i, NEW t \in Connects(Begins(s), i), Becomes(t)
  PROVE  WifiInv'
<1>1. wk \in Works
  BY NowType
<1>2. /\ Begins(s) \in WifiStates /\ ToTheDoor(Begins(s), wk) /\ Told(Begins(s))
      /\ Begins(s).wst = "connecting"
  BY <1>1, BeginsInHand DEF InHand
<1>3. t \in WifiStates /\ ToTheDoor(t, wk) /\ Told(t) /\ t.wst = "connecting"
  BY <1>1, <1>2, ConnectsInHand
<1>4. Retrying(t, wk)
  BY <1>3 DEF Retrying
<1> QED
  BY <1>1, <1>3, <1>4, BecomesInHand DEF InHand

LEMMA UserInHand ==
  ASSUME WifiInv, WifiUser
  PROVE  WifiInv'
<1>1. /\ Now1 \in WifiStates /\ wk \in Works
      /\ ToTheDoor(Now1, wk) /\ Told(Now1) /\ Retrying(Now1, wk)
  BY DEF WifiInv, InHand
<1>2. creds \in Seq(Networks)
  BY <1>1 DEF WifiStates, Now1
<1>3. Asked => evq = << >> /\ wk' = wk
  BY DEF Asked
<1>4. PICK a : a = Asking
  OBVIOUS
<1>5. /\ a \in WifiStates /\ Told(a) /\ a.creds = creds
      /\ a.link = Now1.link /\ a.air = Now1.air /\ a.evq = evq
      /\ a.wst = wst /\ a.ap = ap /\ a.shut = shut /\ a.armed = armed /\ a.bits = bits /\ a.radio = radio
  <2>1. stir + 1 \in Nat
    BY <1>1 DEF WifiStates, Now1
  <2>2. a = [Now1 EXCEPT !.stir = stir + 1]
    BY <1>4 DEF Asking, Now1
  <2>3. /\ a \in WifiStates /\ a.creds = creds
        /\ a.link = Now1.link /\ a.air = Now1.air /\ a.evq = evq
        /\ a.wst = wst /\ a.ap = ap /\ a.shut = shut /\ a.armed = armed /\ a.bits = bits /\ a.radio = radio
    BY <1>1, <2>1, <2>2 DEF WifiStates, Now1
  <2> QED
    BY <1>1, <2>3 DEF Told, Now1
<1>6. ASSUME NEW n \in Networks, SetSta(n) PROVE WifiInv'
  <2>1. Asked
    BY <1>6 DEF SetSta
  <2>2. Saves(n) \in Seq(Networks)
    BY <1>2 DEF Saves
  <2>3. PICK s : s = [Asking EXCEPT !.creds = Saves(n)]
    OBVIOUS
  <2>4. s \in WifiStates /\ Told(s) /\ s.evq = << >>
    BY <1>1, <1>3, <2>1, <2>2, <2>3, AskingIs
  <2>5. CASE \E i : \E t \in Connects(Begins(s), i) : Becomes(t)
    BY <1>3, <2>1, <2>4, <2>5, BegunInHand
  <2>6. CASE \/ Becomes([Begins(s) EXCEPT !.shown = n, !.air = n])
             \/ Becomes([Begins(s) EXCEPT !.shown = n, !.stir = @ + 1])
    <3>1. PICK b : b = Begins(s)
      OBVIOUS
    <3>2. /\ b \in WifiStates /\ ToTheDoor(b, wk) /\ Told(b)
          /\ b.wst = "connecting" /\ b.link = Down
      BY <1>1, <2>4, <3>1, BeginsInHand DEF InHand
    <3>6. b.stir + 1 \in Nat
      BY <3>2 DEF WifiStates
    <3>3. PICK t : /\ t = [b EXCEPT !.shown = n, !.air = n] \/ t = [b EXCEPT !.shown = n, !.stir = b.stir + 1]
                   /\ Becomes(t)
      BY <2>6, <3>1, <3>2 DEF WifiStates
    <3>4. /\ t \in WifiStates /\ t.wst = "connecting" /\ t.link = Down /\ t.evq = b.evq
          /\ t.armed = b.armed /\ t.bits = b.bits /\ t.ap = b.ap
      <4>1. CASE t = [b EXCEPT !.shown = n, !.air = n]
        BY <3>2, <4>1 DEF WifiStates
      <4>2. CASE t = [b EXCEPT !.shown = n, !.stir = b.stir + 1]
        BY <3>2, <3>6, <4>2 DEF WifiStates
      <4> QED
        BY <3>3, <4>1, <4>2
    <3>5. ToTheDoor(t, wk) /\ Told(t) /\ Retrying(t, wk)
      BY <3>2, <3>4 DEF ToTheDoor, Told, Retrying, Due
    <3> QED
      BY <1>1, <1>3, <2>1, <3>3, <3>4, <3>5, BecomesInHand DEF InHand
  <2> QED
    BY <1>6, <2>3, <2>5, <2>6 DEF SetSta
<1>7. ASSUME NEW n \in Networks, ConnectSaved(n) PROVE WifiInv'
  <2>1. Asked /\ \E t \in Connects(Begins(a), IdxOf(n)) : Becomes(t)
    BY <1>4, <1>7 DEF ConnectSaved
  <2> QED
    BY <1>3, <1>5, <2>1, BegunInHand
<1>8. ASSUME NEW n \in Networks, RemoveCred(n) PROVE WifiInv'
  <2>1. Asked /\ IdxOf(n) > 0
    BY <1>8 DEF RemoveCred
  <2>2. IdxOf(n) \in 1..Len(creds)
    BY <1>2, <2>1, IndexOf
  <2>3. RemoveAt(creds, IdxOf(n)) \in Seq(Networks)
    BY <1>2, <2>2, CutType
  <2>4. PICK s : s = [Asking EXCEPT !.creds = RemoveAt(@, IdxOf(n))]
    OBVIOUS
  <2>5. s = [Asking EXCEPT !.creds = RemoveAt(creds, IdxOf(n))]
    BY <1>4, <1>5, <2>4
  <2>6. s \in WifiStates /\ Told(s) /\ s.evq = << >> /\ s.creds = RemoveAt(creds, IdxOf(n))
    BY <1>1, <1>3, <2>1, <2>3, <2>5, AskingIs
  <2>7. CASE Becomes(s)
    <3>1. /\ s.wst = wst /\ s.ap = ap /\ s.shut = shut /\ s.armed = armed /\ s.bits = bits /\ s.link = link
          /\ s.air = air /\ s.evq = evq
      BY <1>4, <1>5, <2>3, <2>5 DEF WifiStates, Now1
    <3>2. ToTheDoor(s, wk)
      BY <1>1, <3>1 DEF ToTheDoor, Due, Now1
    <3>3. creds # << >>
      BY <1>2, <2>2
    <3>4. Retrying(s, wk)
      BY <1>1, <3>1, <3>3 DEF Retrying, Due, Now1
    <3> QED
      BY <1>1, <1>3, <2>1, <2>6, <2>7, <3>2, <3>4, BecomesInHand DEF InHand
  <2>8. CASE \E t \in Alone(s) : Becomes(t)
    <3>1. PICK t \in Alone(s) : Becomes(t)
      BY <2>8
    <3>2. InHand(t, wk)
      BY <1>1, <2>6, AloneInHand
    <3> QED
      BY <1>3, <2>1, <3>1, <3>2, BecomesInHand
  <2>9. CASE \E t \in Connects(Begins(Leaves1(s)), 1) : Becomes(t)
    <3>1. PICK m : m = Leaves1(s) /\ m \in WifiStates /\ Told(m) /\ m.link = Down /\ m.air = Down
      BY <2>6, LeavesIs
    <3> QED
      BY <1>3, <2>1, <2>9, <3>1, BegunInHand
  <2> QED
    BY <1>8, <2>4, <2>7, <2>8, <2>9 DEF RemoveCred
<1>9. CASE ScanStart
  <2>1. PICK t : t = [a EXCEPT !.radio = {"ap", "sta"}] /\ Becomes(t)
    BY <1>4, <1>9 DEF ScanStart
  <2>2. /\ t \in WifiStates /\ t.creds = creds /\ t.link = Now1.link /\ t.air = Now1.air
        /\ t.evq = evq /\ t.wst = wst /\ t.ap = ap /\ t.shut = shut /\ t.armed = armed /\ t.bits = bits
    <3>1. {"ap", "sta"} \in SUBSET {"ap", "sta"}
      OBVIOUS
    <3> QED
      BY <1>5, <2>1, <3>1 DEF WifiStates
  <2>3. ToTheDoor(t, wk) /\ Told(t) /\ Retrying(t, wk)
    BY <1>1, <2>2 DEF ToTheDoor, Told, Retrying, Due, Now1
  <2> QED
    BY <1>1, <1>3, <1>9, <2>1, <2>2, <2>3, BecomesInHand DEF InHand, ScanStart
<1> QED
  BY <1>6, <1>7, <1>8, <1>9 DEF WifiUser, PortalConnect, PortalScan

(* The radio, the DNS task and the surroundings. *)
LEMMA RadioInHand ==
  ASSUME WifiInv, Attempt \/ LinkBreaks
  PROVE  WifiInv'
<1>1. /\ Now1 \in WifiStates /\ wk \in Works
      /\ ToTheDoor(Now1, wk) /\ Told(Now1) /\ Retrying(Now1, wk)
  BY DEF WifiInv, InHand
<1>2. PICK e \in {"ip", "lost"} :
        /\ evq' = Append(evq, e) /\ air' = Down /\ link' \in {link, air, Down}
        /\ e = "ip" => link' = air /\ air # Down
        /\ e = "lost" => link' = Down
        /\ UNCHANGED << wst, fast, tryIdx, creds, shown, ap, radio, shut, armed, bits, wk, stir >>
  <2>1. air = Down \/ link = Down
    BY <1>1 DEF Told, Now1
  <2>2. CASE Attempt
    BY <2>1, <2>2 DEF Attempt
  <2>3. CASE LinkBreaks
    BY <2>1, <2>3 DEF LinkBreaks
  <2> QED
    BY <2>2, <2>3
<1>3. evq \in Seq(Events) /\ link' \in Networks \cup {Down}
  BY <1>1, <1>2 DEF WifiStates, Now1
<1>4. evq' \in Seq(Events) /\ \A f : EndsIn(evq', f) <=> f = e
  BY <1>2, <1>3, EndsAppend DEF Events
<1>5. Now1' \in WifiStates
  BY <1>1, <1>2, <1>3, <1>4 DEF WifiStates, Now1
<1>6. Told(Now1)'
  BY <1>2, <1>4 DEF Told, Now1
<1>7. ToTheDoor(Now1, wk)'
  BY <1>1, <1>2, <1>4 DEF ToTheDoor, Due, Now1
<1>8. Retrying(Now1, wk)'
  BY <1>2, <1>4 DEF Retrying, Now1
<1> QED
  BY <1>1, <1>2, <1>5, <1>6, <1>7, <1>8 DEF WifiInv, InHand

LEMMA ApartInHand ==
  ASSUME WifiInv, DnsTask \/ Surroundings \/ UNCHANGED wifiVars
  PROVE  WifiInv'
<1>1. Now1 \in WifiStates /\ wk \in Works
  BY NowType
<1>2. /\ stir' \in Nat
      /\ UNCHANGED << wst, fast, tryIdx, creds, shown, ap, radio, shut, armed, bits, wk, link, air, evq >>
  BY <1>1 DEF DnsTask, Surroundings, wifiVars, Driver, WifiStates, Now1
<1>3. Now1' \in WifiStates
  BY <1>1, <1>2 DEF WifiStates, Now1
<1> QED
  BY <1>1, <1>2, <1>3 DEF WifiInv, InHand, ToTheDoor, Told, Retrying, Due, Now1

LEMMA WifiStart == WifiInit => WifiInv
<1> SUFFICES ASSUME WifiInit PROVE WifiInv
  OBVIOUS
<1>1. creds \in Seq(Networks)
  BY WifiAssumption DEF WifiInit
<1>2. /\ wk \in Works /\ wk = NoWork /\ link = Down /\ evq = << >> /\ bits = {} /\ tryIdx = 1 /\ stir \in Nat
      /\ fast \in BOOLEAN /\ ap \in BOOLEAN /\ shut \in BOOLEAN
  <2>1. /\ wk = NoWork /\ link = Down /\ evq = << >> /\ bits = {} /\ tryIdx = 1 /\ stir \in {0, 1}
    BY Zenon DEF WifiInit
  <2>2. wk \in Works
    BY <2>1 DEF Works
  <2>3. fast \in BOOLEAN
    BY DEF WifiInit
  <2>4. (stir = 0) \in BOOLEAN /\ (stir = 1) \in BOOLEAN
    OBVIOUS
  <2>5. ap \in BOOLEAN /\ shut \in BOOLEAN
    BY <2>4, Zenon DEF WifiInit
  <2> QED
    BY <2>1, <2>2, <2>3, <2>5
<1>3. CASE creds = << >>
  <2>1. wst = "aponly" /\ (ap \/ shut) /\ radio = {"ap"} /\ armed = {} /\ air = Down /\ shown = Down
    BY <1>3 DEF WifiInit
  <2>2. Now1 \in WifiStates
    BY <1>1, <1>2, <2>1 DEF WifiStates, Now1
  <2> QED
    BY <1>2, <2>1, <2>2 DEF WifiInv, InHand, ToTheDoor, Told, Retrying, EndsIn, Now1
<1>4. CASE creds # << >>
  <2>1. /\ wst = "connecting" /\ radio = {"sta"} /\ shown = creds[1]
        /\ armed \in {{"fb"}, {"fb", "rc"}} /\ air \in {creds[1], Down}
    BY <1>4 DEF WifiInit
  <2>2. creds[1] \in Networks
    BY <1>1, <1>4
  <2>3. Now1 \in WifiStates
    BY <1>1, <1>2, <2>1, <2>2 DEF WifiStates, Now1, Timers
  <2> QED
    BY <1>2, <2>1, <2>3 DEF WifiInv, InHand, ToTheDoor, Told, Retrying, Due, EndsIn, Now1
<1> QED
  BY <1>3, <1>4

LEMMA WifiStep == WifiInv /\ [WifiNext]_wifiVars => WifiInv'
<1> SUFFICES ASSUME WifiInv, [WifiNext]_wifiVars PROVE WifiInv'
  OBVIOUS
<1>1. CASE Worker
  BY <1>1, HandedOn, WorkerInHand DEF Worker
<1> QED
  BY <1>1, EventInHand, HandedOn, UserInHand, RadioInHand, ApartInHand DEF WifiNext

(* wifi_mgr.c: whatever events, timers, worker and users do to the state    *)
(* they share without a lock, a station without a link has its access       *)
(* point up, or it connects with the fallback's timer, bit or job behind    *)
(* it, or the worker has the access point to open, or the event loop has    *)
(* the loss to handle, which arms the timer again; unless the radio refused *)
(* the access point, or the worker closed it after the last network went.   *)
NeverShut ==
  link = Down /\ ~ap /\ ~shut =>
    \/ wst = "connecting" /\ "fb" \in armed \cup bits \cup wk.todo
    \/ wst = "fallback" /\ "apon" \in wk.todo
    \/ wst = "connected" /\ evq # << >> /\ evq[Len(evq)] = "lost"

(* And with networks saved it goes on trying: an attempt is in the air, a   *)
(* retry is armed or handed on, or what comes next starts one.              *)
NeverGivesUp ==
  link = Down /\ creds # << >> /\ wst # "aponly" =>
    \/ air # Down \/ "rc" \in armed \cup bits \cup wk.todo
    \/ wst = "connecting" /\ "fb" \in armed \cup bits \cup wk.todo
    \/ "apon" \in wk.todo
    \/ evq # << >> /\ evq[Len(evq)] = "lost"

(* The safety half of DoorOpens and of Reconnects, for any networks and     *)
(* any number of refusals, requests and losses: no interleaving leaves the  *)
(* device where nothing is left to bring it back, but the two that shut the  *)
(* access point, and those only until the next attempt. That what is due    *)
(* happens is fairness, which the runs assume.                             *)
THEOREM WayBackSound == WifiSpec => [](NeverShut /\ NeverGivesUp)
<1>1. WifiInv => NeverShut /\ NeverGivesUp
  <2> SUFFICES ASSUME WifiInv PROVE NeverShut /\ NeverGivesUp
    OBVIOUS
  <2>1. evq \in Seq(Events) /\ wst \in {"connecting", "connected", "fallback", "aponly"}
    BY NowType DEF WifiStates, Now1
  <2>2. \A f : EndsIn(evq, f) => evq # << >> /\ evq[Len(evq)] = f
    BY <2>1 DEF EndsIn
  <2>3. /\ wst = "connecting" => "fb" \in armed \cup bits \cup wk.todo
        /\ wst = "fallback" => ap \/ shut \/ "apon" \in wk.todo
        /\ wst = "aponly" => ap \/ shut
        /\ wst = "connected" /\ link = Down => EndsIn(evq, "lost")
    BY DEF WifiInv, InHand, ToTheDoor, Due, Now1
  <2>4. wst = "fallback" /\ link = Down /\ creds # << >> =>
          air # Down \/ "rc" \in armed \cup bits \cup wk.todo \/ "apon" \in wk.todo \/ EndsIn(evq, "lost")
    BY DEF WifiInv, InHand, Retrying, Due, Now1
  <2>5. NeverShut
    BY <2>1, <2>2, <2>3 DEF NeverShut
  <2>6. NeverGivesUp
    BY <2>1, <2>2, <2>3, <2>4 DEF NeverGivesUp
  <2> QED
    BY <2>5, <2>6
<1> QED
  BY <1>1, WifiStart, WifiStep, PTL DEF WifiSpec
=============================================================================
