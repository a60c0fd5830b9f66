---------------------------- MODULE WriteBehind ----------------------------
(***************************************************************************)
(* What deye_ctrl promises its callers, without saying how: a request is   *)
(* accepted at once, the device catches up in the background, and the      *)
(* background work is over only when the device runs the last request.     *)
(***************************************************************************)
CONSTANT Requests

VARIABLES want,     \* the last request
          current,  \* TRUE: the device runs it
          busy      \* background work is outstanding

vars == << want, current, busy >>

Init == want \in Requests /\ current \in BOOLEAN /\ busy = ~current

(* Somebody asks: the device may or may not be there already. *)
Ask == want' \in Requests /\ current' \in BOOLEAN /\ busy' = TRUE

(* The device changes only while work is outstanding. *)
Work == busy /\ current' \in BOOLEAN /\ UNCHANGED << want, busy >>

Done == busy /\ current' /\ busy' = FALSE /\ UNCHANGED want

Next == Ask \/ Work \/ Done

(* Outstanding work always comes to an end. *)
Spec == Init /\ [][Next]_vars /\ []<>~busy
=============================================================================
