---------------------------- MODULE EnergyModel ----------------------------
(***************************************************************************)
(* The aggregator of main/modbus_tcp.c: agg_task() builds the energy model *)
(* from what the devices last contributed and from the Deye that the RS485 *)
(* master reads. A value is the set of devices it is computed from.        *)
(***************************************************************************)
EXTENDS Integers

CONSTANTS
  Kinds,     \* the devices: "grid", "pv", "hybrid", "acmeter", "deye"
  DevStale,  \* MB_DEV_STALE_FACTOR intervals, at least MB_DEV_STALE_MIN_MS
  RtuStale   \* MB_RTU_DEYE_MAX_AGE_MS

VARIABLES
  age,     \* age of the contribution of each device; Never: none (s_valid)
  rtu,     \* age of the Deye's values from the RS485 master (s_rtu_deye_ms)
  status,  \* s_st: the devices its values come from, "rtu" for the master
  passed   \* ghost: the aggregator has passed since the clock moved

modelVars == << age, rtu, status, passed >>

Max2(a, b) == IF a > b THEN a ELSE b
Top == Max2(DevStale, RtuStale) + 1
Never == Top + 1

ModelInit ==
  /\ age = [k \in Kinds |-> Never] /\ rtu = Never
  /\ status = [pv |-> {}, netz |-> {}, house |-> {}, deye |-> {}, byd |-> {}]
  /\ passed = TRUE

(* worker_task(): a device answered. *)
Answer(k) == age' = [age EXCEPT ![k] = 0] /\ UNCHANGED << rtu, status, passed >>

(* modbus_tcp_set_rtu_deye(): a round of the master, or its bus is off. *)
SetRtuDeye(ok) == rtu' = (IF ok THEN 0 ELSE Never) /\ UNCHANGED << age, status, passed >>

(* reconfigure_apply() *)
Forget ==
  /\ age' = [k \in Kinds |-> Never]
  /\ status' = [status EXCEPT !.pv = {}, !.netz = {}, !.house = {}, !.deye = {}, !.byd = {}]
  /\ UNCHANGED << rtu, passed >>

-----------------------------------------------------------------------------
Heard == {k \in Kinds : age[k] <= DevStale}
Of(k) == Heard \cap {k}
First(a, b) == IF a # {} THEN a ELSE b

Battery == IF rtu <= RtuStale THEN {"rtu"} ELSE Of("deye")
DeyePower == First(Of("acmeter"), Battery)
Pv == First(Of("pv") \cup Of("hybrid"), Of("deye"))
Netz == First(Of("grid"), Of("deye"))
House == IF Pv # {} /\ Netz # {} THEN Pv \cup Netz \cup Of("hybrid") \cup DeyePower
         ELSE Of("deye")

(* agg_task(): a device counts only while it answers; what no device gives *)
(* keeps its last value in the status, except for the Deye.                *)
Aggregate ==
  /\ status' = IF Heard = {} THEN status
               ELSE [pv |-> First(Pv, status.pv), netz |-> First(Netz, status.netz),
                     house |-> First(House, status.house), deye |-> DeyePower,
                     byd |-> First(Of("hybrid"), status.byd)]
  /\ passed' = TRUE
  /\ UNCHANGED << age, rtu >>

ModelClock ==
  /\ age' = [k \in Kinds |-> IF age[k] < Top THEN age[k] + 1 ELSE age[k]]
  /\ rtu' = IF rtu < Top THEN rtu + 1 ELSE rtu
  /\ passed' = FALSE
  /\ UNCHANGED status

ModelNext == (\E k \in Kinds : Answer(k)) \/ (\E b \in BOOLEAN : SetRtuDeye(b))
             \/ Forget \/ Aggregate \/ ModelClock
ModelSpec == ModelInit /\ [][ModelNext]_modelVars

-----------------------------------------------------------------------------
(* The comment at MB_DEV_STALE_FACTOR (main/modbus_tcp.c): a contribution  *)
(* counts only while its device still answers. Stated of the status, which *)
(* the history, the learned load profile and MQTT take their values from:  *)
(* once the aggregator has passed, the house load does not contain a       *)
(* device that went quiet while others go on answering.                    *)
QuietNotCounted ==
  passed /\ Heard # {} => \A k \in status.house \cap Kinds : age[k] <= DevStale
=============================================================================
