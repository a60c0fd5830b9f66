------------------------------ MODULE Counters ------------------------------
(***************************************************************************)
(* The energy sums Home Assistant keeps its statistics by. A meter's own    *)
(* counter is read and sieved (main/energy_ctr.h, eltako_energy() in        *)
(* main/modbus_tcp.c); the BYD has none, so the display integrates its       *)
(* power and saves the sum now and then (main/byd_energy.c). Energy is       *)
(* counted in what flows in one tick.                                       *)
(***************************************************************************)
EXTENDS Integers

CONSTANTS
  Rate, Jitter,            \* ENERGY_CTR_MAX_W, and the 0.1 kWh for jitter
  MaxRejects,             \* ENERGY_CTR_MAX_REJECTS
  TopCount,               \* bound: where the register wraps in this model
  Hybrids,                \* device slots that report a BYD
  GapTicks, SaveTicks,    \* max_gap_ms, BYD_ENERGY_SAVE_MS
  MaxSum, MaxGarbles, MaxFails   \* bounds: energy counted, faults, failed writes

ASSUME CounterAssumption ==
  /\ {Rate, Jitter, MaxRejects, TopCount, GapTicks, SaveTicks, MaxSum, MaxGarbles, MaxFails} \subseteq Nat
  /\ MaxRejects > 0

VARIABLES
  register, ctr, ctrAge,   \* the meter, energy_ctr_t, ticks since c->ms
  sum, kept, have,         \* s_sum and the record in flash, s_have
  slotB, lastB, keptAge,   \* s_slot, ticks since s_last_ms (-1 = 0), ticks since s_saved_ms
  told,                   \* what Home Assistant was last told of the BYD
  garbled, swaps, cutsB, failsB   \* faults so far
ctrVars == << register, ctr, ctrAge, sum, kept, have, slotB, lastB, keptAge, told, garbled, swaps, cutsB, failsB >>
Sieve == << register, ctr, ctrAge, garbled, swaps >>
Sum == << sum, kept, have, slotB, lastB, keptAge, told, cutsB, failsB >>

AtMost(n, top) == IF n < top THEN n ELSE top
CtrUnset == [valid |-> FALSE, val |-> 0, rejects |-> 0]
NoSlot == 0

CtrInit ==
  /\ register \in 0 .. TopCount /\ ctr = CtrUnset /\ ctrAge = 0
  /\ sum = 0 /\ kept = 0 /\ have = FALSE
  /\ slotB = NoSlot /\ lastB = -1 /\ keptAge = 0 /\ told = 0
  /\ garbled = 0 /\ swaps = 0 /\ cutsB = 0 /\ failsB = 0

----------------------------------------------------------------------------
(* energy_ctr_step_ok(): forward, and no faster than energy can flow.        *)
StepOk(now) ==
  /\ now >= ctr.val
  /\ now - ctr.val <= Rate * ctrAge + Jitter

(* energy_ctr_feed(): the first reading, a plausible one, or the third in a  *)
(* row that is not.                                                          *)
AcceptedIfPlausible(raw) == ~ctr.valid \/ StepOk(raw)
Accepted(raw) == ~ctr.valid \/ StepOk(raw) \/ ctr.rejects + 1 >= MaxRejects
Feed(raw) ==
  IF Accepted(raw)
  THEN ctr' = [valid |-> TRUE, val |-> raw, rejects |-> 0] /\ ctrAge' = 0
  ELSE ctr' = [ctr EXCEPT !.rejects = AtMost(@ + 1, MaxRejects)] /\ UNCHANGED ctrAge

(* eltako_energy(): a reading that arrives, whole or garbled; a negative     *)
(* one is dropped before it reaches the counter, and so is a failed read.    *)
Reading ==
  /\ Feed(register)
  /\ UNCHANGED << register, garbled, swaps, Sum >>
GarbledReading ==
  /\ garbled < MaxGarbles /\ garbled' = garbled + 1
  /\ \E raw \in (0 .. TopCount) \ {register} : Feed(raw)
  /\ UNCHANGED << register, swaps, Sum >>
SwapsMeter ==
  /\ swaps < MaxGarbles /\ swaps' = swaps + 1
  /\ \E r \in 0 .. TopCount : register' = r
  /\ UNCHANGED << ctr, ctrAge, garbled, Sum >>
(* modbus_tcp_apply(): other meters may sit in the slots now.               *)
ClearsCounters ==
  /\ ctr.valid /\ ctr' = CtrUnset /\ ctrAge' = 0
  /\ UNCHANGED << register, garbled, swaps, Sum >>

----------------------------------------------------------------------------
(* save(): only what changed, and not before a quarter hour has passed; a   *)
(* failed write is tried again with the next sample.                       *)
Saves(s, age, force) == s # kept /\ (force \/ age >= SaveTicks)
Save(s, age, force) ==
  \/ Saves(s, age, force) /\ kept' = s /\ keptAge' = 0 /\ failsB' = failsB
  \/ ~Saves(s, age, force) /\ kept' = kept /\ keptAge' = age /\ failsB' = failsB
  \/ /\ Saves(s, age, force) /\ failsB < MaxFails /\ failsB' = failsB + 1
     /\ kept' = kept /\ keptAge' = age

(* byd_energy_sample(): one unit of power since the last sample of this     *)
(* slot, unless the gap was too long; another slot waits until this one is  *)
(* quiet.                                                                   *)
CtrTaken(h) == slotB \in {NoSlot, h} \/ lastB = -1 \/ lastB > GapTicks
Sample(h) ==
  /\ CtrTaken(h)
  /\ LET dt == IF slotB = h THEN lastB ELSE -1
         s  == IF dt >= 0 /\ dt <= GapTicks THEN AtMost(sum + dt, MaxSum) ELSE sum
     IN  /\ sum' = s /\ have' = TRUE /\ slotB' = h /\ lastB' = 0
         /\ Save(s, keptAge, FALSE)
  /\ UNCHANGED << Sieve, told, cutsB >>

(* publish_battery_energy() with byd_energy_get().                          *)
Shows ==
  /\ have /\ told' = sum
  /\ UNCHANGED << Sieve, sum, kept, have, slotB, lastB, keptAge, cutsB, failsB >>

(* byd_energy_init() after an orderly restart, whose shutdown handler saves *)
(* (or fails to), and after a power cut, where it never ran.               *)
Starts == sum' = kept' /\ slotB' = NoSlot /\ lastB' = -1 /\ have' = (kept' > 0)
OrderlyRestart ==
  /\ Save(sum, 0, TRUE)
  /\ Starts
  /\ ctr' = CtrUnset /\ ctrAge' = 0
  /\ UNCHANGED << register, garbled, swaps, told, cutsB >>
PowerCut ==
  /\ cutsB < MaxGarbles /\ cutsB' = cutsB + 1 /\ kept' = kept /\ keptAge' = 0 /\ Starts
  /\ ctr' = CtrUnset /\ ctrAge' = 0
  /\ UNCHANGED << register, garbled, swaps, told, failsB >>

(* A tick passes; the register moves by what flowed. Ages stop where they    *)
(* make no more difference.                                                 *)
CtrTick ==
  /\ \E w \in 0 .. Rate : register' = AtMost(register + w, TopCount)
  /\ ctrAge' = AtMost(ctrAge + 1, TopCount)
  /\ keptAge' = AtMost(keptAge + 1, SaveTicks)
  /\ lastB' = IF lastB = -1 THEN lastB ELSE AtMost(lastB + 1, GapTicks + 1)
  /\ UNCHANGED << ctr, sum, kept, have, slotB, told, garbled, swaps, cutsB, failsB >>

CtrNext ==
  \/ Reading \/ GarbledReading \/ SwapsMeter \/ ClearsCounters
  \/ \E h \in Hybrids : Sample(h)
  \/ Shows \/ OrderlyRestart \/ PowerCut \/ CtrTick

(* The device is read again and again (its poll round).                     *)
CtrSpec == CtrInit /\ [][CtrNext]_ctrVars /\ WF_ctrVars(Reading)

----------------------------------------------------------------------------
(* A meter that was swapped, or a counter a garbled reading got into, does   *)
(* not freeze the sensor: the readings win in the end.                      *)
Follows == []<>(ctr.valid => ctr.val = register)

(* byd_energy.h: after a power cut "the sum does not go backwards".          *)
NeverBackwards == [][told' >= told]_ctrVars
=============================================================================
