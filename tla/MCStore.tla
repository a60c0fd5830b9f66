------------------------------ MODULE MCStore ------------------------------
(***************************************************************************)
(* What the device must not lose, for TLC: the learned load profile, the   *)
(* long-term sums of the Deye, the ring in flash, the energy counters, and *)
(* the discharge limit the Fronius storage has to give back. They share no *)
(* state, so one run checks them part by part and spares the product of    *)
(* their states; the parts at rest keep one initial state.                 *)
(***************************************************************************)
EXTENDS FroniusStorage, LoadProfile, DeyeLive, FlashRing, Counters

VARIABLE part
bydVars == vars
storeVars == << lpVars, liveVars, ringVars, ctrVars, bydVars, part >>

InLp(A) == part = "lp" /\ A /\ UNCHANGED << liveVars, ringVars, ctrVars, bydVars, part >>
InLive(A) == part = "live" /\ A /\ UNCHANGED << lpVars, ringVars, ctrVars, bydVars, part >>
InRing(A) == part = "ring" /\ A /\ UNCHANGED << lpVars, liveVars, ctrVars, bydVars, part >>
InCtr(A) == part = "ctr" /\ A /\ UNCHANGED << lpVars, liveVars, ringVars, bydVars, part >>
InByd(A) == part = "byd" /\ A /\ UNCHANGED << lpVars, liveVars, ringVars, ctrVars, part >>

StoreInit ==
  /\ part \in {"lp", "live", "ring", "ctr", "byd"}
  /\ LpInit /\ LiveInit /\ RingInit /\ CtrInit /\ Init
  /\ part # "ctr" => register = 0

StoreNext ==
  \/ InLp(LpNext) \/ InLive(LiveNext) \/ InRing(RingNext) \/ InCtr(CtrNext) \/ InByd(Next)

(* The fairness of Counters and of FroniusStorage, each while its part runs. *)
StoreSpec ==
  /\ StoreInit /\ [][StoreNext]_storeVars
  /\ WF_storeVars(InCtr(Reading)) /\ WF_storeVars(InByd(Tick))
=============================================================================
