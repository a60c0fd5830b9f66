# Verification of deye-inverter-display

The firmware in `src/main/` runs on an ESP32-P4 display between a Deye hybrid
inverter, up to three Fronius inverters with a BYD battery, and the smart meters of
a house. It reads all of them, answers the Deye in the place of its meter, drives
both batteries by hand, by sessions and by a plan against the hourly price, and
keeps the export under the rating of the main fuse. The modules beside this file
state what that logic promises; TLC checks them on small instances, TLAPS proves
the ones that matter most for every value of the constants. Where a comment of the
code or the wiki says something else than the code does, a run shows it (section 5).

1. [The system](#1-the-system) – components, tasks, shared state, hazards
2. [Modules](#2-modules) – how state and actions correspond to the code
3. [Runs](#3-runs) – what TLC checks, bounds, fairness
4. [Proofs](#4-proofs) – what holds for every value of the constants
5. [Disagreements](#5-disagreements) – where code and comments differ
6. [Not modelled](#6-not-modelled) – and what could come next

## 1. The system

### 1.1 Components

| component (`src/main/`) | state it keeps | hard behaviour | correct if | module |
|---|---|---|---|---|
| `deye_ctrl.c` | requested mode and power, user power, time limit, dirty flag, undo state, NVS record | callers race with a writer whose register writes block for a second; lost writes; restarts | the inverter ends where the module says it is; forced modes end | `DeyeCtrl` |
| `sls_guard.h`, `sls_guard_tick()` | time under the threshold, time of the last write | a control loop around an inverter that lags, an EEPROM that wears | the export falls under the limit, no oscillation | `SlsGuard` |
| `energy_mgr.c` (acting), `deye_force.c` | what the manager owns (charge, hold, BYD block), pause; the running session | read here, call there: others call in between | the user wins, nothing is forgotten | `BatteryArb` |
| `energy_mgr.c` (tick), `em_cfg.c`, `em_hist.c` | plan, requests, settings in RAM and NVS, the quarter hour being recorded | settings are changed by two tasks while a tick works with its copy | no old plan is acted on | `EmManager` |
| `fronius_storage.c` | the operator's register values, whether they are known, NVS record, four requests | registers that belong to somebody else; writes ignored or unconfirmed; restart at any point | the operator gets his values back | `FroniusStorage` |
| `eff_sweep.c` | steps, state of a step, expected mode and power | a Deye that falls silent, a user who interferes | the sweep yields, nothing forced left behind | `EffSweep` |
| `modbus_rtu.c`, master side | one request slot for registers, one per bus for the bridge, poll cadence | callers that give up while the exchange is on the wire; late echoes; a bus switched off | a result belongs to its request | `RtuBus` |
| `modbus_rtu.c`, poll round | live values, sums of energy, efficiency curve, NVS records | a round works on a copy while a page resets the sums | a reset is not undone; a power cut costs one interval | `DeyeLive` |
| `modbus_rtu.c`, slave side | setpoint, hold and lock, manipulation, staleness | a frozen reading in the loop of the inverter | no old value served, a held battery not driven | `MeterEmu` |
| `bat_lock.c` | two locks with an end, NVS | web server against the manager's tick, clock not set | a lock holds until it is lifted or ends | `BatLock` |
| `modbus_tcp.c` | a worker per address, the device list, latest values with their time | several devices on a socket, borrowed sockets, late answers, the list replaced under way | no foreign value is used, the grid meter is served | `TcpPoll` |
| `modbus_tcp.c`, aggregator | the energy model | several sources for one value | a device that is gone does not count | `EnergyModel` |
| `modbus_gw.c` | client slots, partial frames | slow and vanishing clients, a stream cut anywhere | answers go to their requests | `Gateway` |
| `fronius_meter.c` | energy counter, its record | gaps, switching, power cuts | every stretch counted once | `FroniusMeter` |
| `em_planner.c` | the plan under construction | local savings against the whole horizon | a saving is real | `EmPlanner` |
| `price_feed.c` | four jobs with backoff, series of two days | change of day, fallbacks, forced refreshes | a source that says "later" is left alone | `PriceFeed` |
| `pv_forecast.c` | planes, measured day (survives a software restart), factors | settings changed in the middle of a day | a factor is learnt from its own plane | `PvForecast` |
| `load_profile.c`, `keep_ram.c` | quarter hour, day in RAM that survives a restart | restarts and clock steps around midnight | what was measured is kept | `LoadProfile` |
| `load_hist.c`, `em_hist.c` | a ring of records in flash | power cut at any point of an erase or a write | the newest records survive | `FlashRing`, `OldestFirst` |
| `energy_ctr.h`, `byd_energy.c` | accepted counters; an integrated sum and its record | garbled readings, a swapped meter, power cuts | the counter follows the meter | `Counters` |
| `wifi_mgr.c`, `captive.c` | station, access point, timers, saved networks | four actors without a lock; a driver that refuses | a way in, and back to the network | `WifiMgr` |
| `mqtt_fwd.c` | client, what was announced, settings | reconnects, another broker, retained commands | what is announced is there; a command starts once | `MqttFwd` |
| `ota.c` | image slots, probation, the upload | power cut, a bad image, an upload that stalls | always an image that runs | `Ota` |
| `nvs_store.c`, `main.c`, `config_web.c` | records of three generations of firmware | update, rollback and update again; failed writes | settings survive | `Settings` |
| `ui_settings.c` | tabs that save a record each | a tab opened before somebody else saved | the same | `Settings` |
| `wg_client.c`, `ntp_client.c` | tunnel, its settings, SNTP | the clock comes late, the peer moves | the tunnel follows its settings | `Tunnel` |
| `ui_flow.c`, `display.c`, `web_mirror.c` | standby, blocker, pointers | finger, browser and update in any order | a waking tap presses nothing | `Panel` |
| `applog.c` | ring of lines | lines logged while an answer is being sent | (see section 5) | `AppLog` |
| `deye_web.c`, `meter_web.c`, `webauth.c` | – | translate requests into the calls above | – | the routes `SessionPage`, `LockPage`, `OnThePage`, `SweepPage`, `PostCfg`, `SwitchMeter` |
| fonts, board, `sunspec_mppt.c`, vendored WireGuard | – | – | – | not modelled |

### 1.2 How they interact

* **Calls.** Display, MQTT, web pages, sessions, manager and sweep all call
  `deye_ctrl_apply*()`; the last call wins. `deye_ctrl`'s task writes through
  `modbus_rtu_deye_write()`, i.e. through the slot of `RtuBus`. `fronius_storage`
  borrows the socket of a worker of `modbus_tcp`; the manager's tick calls the feeds,
  the planner, the locks and `fronius_storage` one after the other.
* **Shared state.** `s_mux` spinlocks protect copies, not read-decide-call
  sequences: a task that reads a mode and applies another one a moment later
  may overwrite what came in between. This is where most hazards lie.
* **Tasks** (FreeRTOS priorities): RTU buses 5, display 4, `deye_ctrl` 4, the TCP
  worker of the grid meter 3, manager 3, sweep 3, everything else 2. Every blocking
  call (a register exchange, an NVS write, a delay, a download) lets any other task
  run. The web server is one task: a request that waits holds up all others.
* **Failure.** Buses lose frames or echo them late, the Fronius acknowledges writes
  and ignores them, NVS refuses writes, the display restarts at any time (update,
  crash, power); NVS, the flash ring and the registers of the inverters outlive it,
  some RAM outlives a software restart but no power cut.

`PROJECT.json` lists the hazards with the line where each bites and the properties
that would catch it going wrong. Where the code does not prevent one in every case, the
property names the exempt case exactly and a `note` there says which it is.

## 2. Modules

Every module takes its limits as CONSTANTS with a named assumption. One action
stands for what a task does between two points at which others may run; a read that
a later call depends on is an action apart from the call. Where a value only
matters by where it came from, it is modelled as that: an energy is the set of the
rounds it was counted in, a mean the slot it belongs to, a reading the unit and the
register it was read from, a factor the settings it was learnt under.

### 2.1 Batteries

**`DeyeCtrl`** (`deye_ctrl.c`). `mode, power, userPower, limit, age, writeFull,
notified, undoPending, undoTries, failed` are the `s_*` variables, `nvsMode,
nvsPower` the record, `inv` the inverter's registers. A call is two actions (RAM,
then NVS), the writer task takes its job in one of `WakeUndo`, `WakeExpired`,
`WakePending`, writes one register per `WriteRegister` and closes in `EndWrite` or
`EndFallBack`. `Restart` keeps `nvs*` and `inv`. The six entries of the time-of-use
arrays are one register each. `WriteBehind` is the abstract specification: a request
is accepted at once, the device catches up, background work ends only with the last
request in the device; property `Contract` is the refinement.

**`SlsGuard`** (`sls_guard.h`). `sls_guard_decide()` as a set of operators
(`Excess`, `Headroom`, `Wanted`, `Target`, `MayWrite`) in a loop with a house load,
a user setting and an inverter that follows any time within `Lag`. A tick of the guard
is four steps (mode and reading, power, user's power with the decision, write), a call of
the user two, and they interleave; `tick.touched` notes what has changed since the guard
looked. Watts are small integers, time is in guard ticks.

**`BatteryArb`** (`energy_mgr.c`, `deye_force.c`). The manager's task has a `pc`
because others act between its read and its call; `deye_ctrl` is reduced to the
request it holds and its time limit. The ghost `seen` says that nobody else called
since the task looked, `req.by` who asked. `finish()` looks at the mode and puts Normal
in two steps on either task.

**`FroniusStorage`** (`fronius_storage.c`). Registers `ctl`, `out`, `in` of each
inverter, the ownership record in RAM (`own`) and NVS (`nvs`), the requests, the tick
as a sequence of single writes that may fail, be ignored, or stay unconfirmed. A save of
the record may be refused, which the code logs and passes over (`unsaved` until one goes
well), and the operator may set any rate by hand, 0 % too. The ghost `wish` holds the
values he may expect back; `orphans` are the inverters nobody can give them back to: the
display restarted after a refused save, or what the operator had shut to 0 % himself was
taken for a leftover and released. A forced mode is what the code compares, its mode and
its end.

**`EffSweep`** (`eff_sweep.c`). The tick of a second in three passes (checks, then
step) so that a call from elsewhere may come in between. The ghosts `touched` and
`unseen` record such calls.

**`BatLock`** (`bat_lock.c`). Two locks in RAM and NVS; a setting is an assignment, a
copy, an NVS write and the call that passes the lock on, each an action; the tick
expires, renews and passes on by its own copy, and may come later than a renewal lasts
(`TickMax` is above `Renew`). The clock may not be set.

### 2.2 Buses and sockets

**`RtuBus`** (`modbus_rtu.c`, master). `slot` is `s_deye_req`, `txn[b]` is `s_txn[b]`,
`inCall` and `gw` are the callers, `bus[b]` the bus task. Requests and results carry an
identity (`id`, `of`) the code does not have. `stray` is an echo that outlasts
`rtu_drain()`. A poll stands for a block of `poll_deye()`. `GwTimeout` is any second up to
the 5 that `clamp_cfg()` lets pass. The ghost `belated` collects the requests whose
exchange began with less of their caller's patience left than it may take, or with two
buses at the registers.

**`DeyeLive`** (`poll_deye()`). A round is four actions (begin, read blocks, count,
write back) so that a page may reset sums, a bus be set up anew or the device restart
between them; `asked`, misses and the retry of each optional block; the records of the
sums and of the efficiency curve.

**`MeterEmu`** (`do_slave()`, `compute_served()`). The readings with their age as each
task sees it, setpoint, hold, lock and manipulation, `told` the answer of the last
poll. One number stands for the three phases, which the code treats alike.

**`TcpPoll`** (`modbus_tcp.c`). A worker per slot polls the devices of one address
over one socket with its `backoff`; `fronius_storage` borrows the socket; the list is
replaced at any time. A late answer waits on the socket. What a worker still has to ask
in a round is a set, as the order of its devices decides nothing; the meter value the
code keeps for a Fronius whose meter block is skipped is left out, as nothing checked
reads it. **`EnergyModel`** is the
aggregator: a value is the set of devices it is computed from.

**`Gateway`** (`modbus_gw.c`). Connections, slots, and requests cut anywhere in the
stream; the idle reaper, both settings, the producer meter's silence.

**`FroniusMeter`** (`fronius_meter.c`). The counter over rounds, outages, switching and
restarts; what the Symo reads of it and books. The Deye draws a constant power, so
energy is time.

### 2.3 What the manager knows

**`EmManager`** (`em_task()`, `em_cfg.c`). The tick from the copy of the settings over
requests and feeds to the plan; writers of the settings step by step (check, NVS, RAM,
request) beside it; ghosts in `emPlan` say how old a plan is. The tick reads the clock
once, and a quarter hour may end at any point of it.

**`EmPlanner`** (`em_planner.c`). One pass of a loop a step: greedy additions, moves
and bridges, `release()`; `ctx_init()` values what is left at the end, flat or by the
forecast past the prices (`TermOf`). `Delta` stops where two trajectories meet, as `delta()` does;
the property compares it with the whole horizon. What a slot makes of the energy it
begins with (`SlotStep`), the horizon (`Run`) and the n-th best of a list (`Nth`) take
all they read as arguments, so they mean the same in a state and in the next one.

**`PriceFeed`**, **`PvForecast`** (`price_feed.c`, `pv_forecast.c`). One request a tick;
schedule, backoff, hold, stages, publishing and the roll at midnight. Planes and
factors, the measured day and its memory over a restart.

**`LoadProfile`**, **`FlashRing`** (`load_profile.c`, `load_hist.c`, `em_hist.c`). The
day from quarter hours to its record; the ring with scan, put, erase, torn cells and
read-back. `OldestFirst` is the abstract specification of the ring – a record stays
until it is among the oldest – and `KeepsLog` the refinement.

**`Counters`** (`energy_ctr.h`, `byd_energy.c`). What a counter accepts from a meter
that garbles or is swapped; the BYD sum, its record and what Home Assistant is told.

### 2.4 The device around it

**`Ota`**, **`Settings`**, **`WifiMgr`**, **`MqttFwd`**, **`Tunnel`**, **`Panel`**,
**`AppLog`** model update and probation; records in their layouts with export, import
and start-up; station, access point, timers and events; the MQTT client with what it
announces and obeys; the WireGuard task and the clock; standby, blocker and update;
the log ring and its answer. In all of them the tasks run apart and share variables
as the code does, without a lock where it has none. Three details decide what they
promise. `Settings`: a start without a network loads no device list and moves none, the
write that moves an older list may fail, and the page edits the list of its own layout;
so the first save may replace an older list unread, which the ghost `forgotten` records.
`WifiMgr`: every call to the radio may be refused, `start_ap()` included, whose result
nobody looks at, and closing the access point is three steps; the ghost `shut` says that
nothing opens it before the next attempt. `MqttFwd`: a client that could not be made is
not made again before the next edit of the settings.

### 2.5 Composition

`MCBattery`, `MCBus`, `MCNet`, `MCPlan`, `MCStore` and `MCBox` put modules of one layer
into one specification each: a `part` is chosen in the initial state and only its actions run,
the others keep one initial state. The parts of a sum share no variable – what one
needs of another, that one leaves free (`MeterEmu` lets a hold or lock be set at any
moment, `BatLock` says when it is) – so nothing could be reached by running them
together that is not reached by running each, and TLC is spared the product of their
states. Their proofs lie together for the same reason: `Net_proofs`, `Plan_proofs`,
`Store_proofs` and `Box_proofs` extend the parts of one sum each and prove of each part
what the sum checks of it (`Spec` there is that of `SlsGuard`, `EffSweep` and
`FroniusStorage`). `SlotInduction` has the induction over the numbers of an interval that two of
them need. Where components do interact through shared variables they are one module:
the writer and its callers, manager with session, user and `deye_ctrl`, locks with
tick and web server, workers with borrowers, tick with the writers of its settings.

## 3. Runs

| run | parts and bounds | distinct states | what it shows |
|---|---|---|---|
| `battery` | `DeyeCtrl` 2 callers, 3 calls, a guard, no lost writes; `BatteryArb` 2 plans of 2 slots, 5 ticks, 2 outside calls | 1.9 M | the inverter ends at the reported mode and power; `Contract`; forced modes end; nobody else's mode is overwritten knowingly, nothing is orphaned, all ends when the automation is off |
| `bus` | `DeyeCtrl` 1 caller, 2 calls, every write may fail, 1 restart; `RtuBus` 1 bus, 2 callers, 2 calls, 2 bridge requests at the longest timeout, 1 late echo, 1 switch | 448 k | the record is forgotten only after a confirmed fallback; the undo ends; every call returns, with its own result unless the exchange was begun too late; nothing is sent for a caller who has left |
| `net` | `TcpPoll` 2 slots, 1 change of list, 1 fault; `Gateway` 2 clients, 2 requests each; `FroniusMeter` 5 time units, 1 power cut; `MeterEmu` one manipulation (an absolute value), all ages up to the bridge; `BatLock` 2 settings, 1 restart, ticks up to 4 units apart with a renewal of 3; `SlsGuard` 3 changes, a call between any two steps of the guard | 372 k | no foreign value, the grid meter served, answers in order, time counted once, nothing old told, a lock in force for a renewal from every tick, the export guard converges |
| `plan` | `PriceFeed` a day of 12 units, 1 outage, 1 request; `EmPlanner` 5 slots, 180 inputs; `PvForecast` 2 planes, 2 events; `EmManager` 1 edit, 2 quarter hours that end at any point; `EffSweep` 2 powers a direction, 1 outside call, 2 starts | 754 k | sources left alone, savings real, factors fit, no stale plan, the sweep yields and ends |
| `store` | `LoadProfile` 2 slots a day, 2 mishaps; `DeyeLive` 3 rounds, 1 touch; `FlashRing` 3 sectors of 2, 7 records, 2 power cuts or refused writes; `Counters` 1 garble, 1 failed save; `FroniusStorage` 2 inverters, rates by hand from 0 to 100 %, 2 requests, 2 faults (failed or ignored writes, refused records), 1 restart | 748 k | what was measured, summed, filed and taken over is kept |
| `box` | `Ota` 3 requests, 1 cut; `WifiMgr` 2 networks, 2 asks, refusals or changes around it; `MqttFwd` 2 brokers, 2 events; `Settings` 3 steps over 3 layouts from any list found at the first start; `Tunnel` 2 edits; `Panel` | 332 k | an image that runs, settings kept, a way in and back, true announcements, one start per command, a tunnel that follows, a tap swallowed |
| `ctrl_restart`, `byd_back`, `tcp_quiet`, `log_answer`, `guard_user`, `rtu_late` | one statement each | | section 5 |

The bounds count what the environment does, not what the code does: each run lets
every action of its modules happen, and each property has a mutant of a modelled
definition that the same run refutes, so no property holds for want of the case it
is about. Two callers suffice where callers are interchangeable: a third could only
repeat what the second does, as each module keeps one slot (a mode, a request)
rather than a queue. Two plan slots hold every change between two acts; three
outside calls hold a call, one that replaces it and one that undoes it; three sectors
hold the one being erased, a full and a partly filled one. Time limits are ratios of
the code's numbers, rounded so that the order of events is the same (for `RtuBus`:
exchange 1, waiting 3, grace 3, bridge exchange 6 ticks for about 0.9, 3, 3 and 5.5
seconds with the longest bridge timeout, so that one exchange of the bridge outlasts
what a caller waits; the default is 0.8 s). Deadlock checking is off in all runs
since the environment's bounds run out and the tasks then rightly sleep.

### Fairness

Only tasks the scheduler runs are fair. All of them block in delays or I/O, so under
FreeRTOS's preemptive priorities none starves another for good:

* `DeyeCtrl`: the writer task, its callers inside a call, the clock.
* `SlsGuard`: the guard's tick. `EffSweep`: its task. `FroniusStorage`: its tick.
  `BatteryArb`: the manager, the end of a mode by time, the rest of a session's call.
* `RtuBus`: time, the bridge, each caller and each bus task.
* `TcpPoll`: what a worker does inside a round is weakly fair; that it gets the lock
  of its socket, and that a device's interval ends, strongly – the lock is free again
  and again, and a mutex of FreeRTOS goes to the waiter of the highest priority. The
  reload of a list, the clock and a borrower's return are weakly fair.
* `Counters`: the next reading comes. `MqttFwd`: its task and the client's.
* `WifiMgr`: the event loop, the worker, the DNS task, each timer that is armed, and
  the driver's reports of a failed attempt and of a lost link.
* `Tunnel`: the task and the end of a save; the name of the peer resolves if it is
  asked again and again (strong).

Nothing is assumed about users, operators, batteries, plans or faults: no action of
the environment is fair. The liveness properties are `EventuallyNormal`, `UndoEnds`,
`FreeAgain`, `CallsReturn`, `GridServed`, `Converges`, `EndsInNormal`, `Follows`,
`GivesBack`, `DoorOpens`, `Reconnects`, `AnnouncedIsTrue` and `TunnelFollows`.

## 4. Proofs

All proofs hold for every value of the constants that meets the named assumption of
its module, so also for every bound of the runs. Where a theorem needs more, the
hypothesis is named with it below, and a run's configuration meets it.

All safety properties of the passing runs are stated by a theorem, including both
refinements as far as they are safety. The argument is the same everywhere: an
invariant that every action keeps, with the property read off it, or off it and one
step.

### 4.1 Batteries

* `DeyeCtrl_proofs!TypeCorrect`: no power outside the inverter's range is requested
  or written. Strengthening: the job of the task is one of the register programs.
* `DeyeCtrl_proofs!FallBackSound`: the record is forgotten by a fallback only with
  registers 142 and 143 confirmed. The invariant `FallInv` ties the position in the
  program to the registers already confirmed: while none has failed, those
  already written hold their values. `FallBackConfirmed` alone is not inductive: it says nothing
  of the middle of a program.
* `DeyeCtrl_proofs!SettledRecorded`: with `WritesMayFail = FALSE` the inverter runs the
  reported mode when all is quiet, through restarts too, as long as one that finds
  Normal on record finds the Normal registers (`RestartsRecorded`). So the gap between
  the record and the register writes, which run `ctrl_restart` shows, is the only one.
  The invariant says for each disagreement between request and registers what is still
  on its way to remove it: `ModeOnWay` (a caller inside a call, the flag, the current
  program, or the undo: `UndoToCome`) and `PowerOnWay` for a retune or throttle.
  `SettledSound` is its case `MaxRestarts = 0`, where the hypothesis is met by itself.
* `DeyeCtrl_proofs!ReadBackSound`: with writes lost `SettledSound` is false; what holds
  is that, when all is quiet and no read-back is counted as failed, the inverter has the
  power `deye_ctrl` reports and in Normal is back at Zero Export. The sweep takes the
  count for just that (eff_sweep.c:141-148). `ReadInv` follows the count through the
  program as `FallInv` does. It is not said that the inverter runs the mode: see
  section 5. Hypothesis `RestartsUnforced`, the one above without the registers that
  are not read back.
* `DeyeCtrl_proofs!ContractSafe`, with `WritesMayFail = FALSE` and `MaxRestarts = 0` (a
  restart forgets what was asked): every step maps to a step of `WriteBehind` or to a
  stutter. A change of the request leaves work behind
  (`QuietKeepsRequest`), so while all is quiet nothing is asked, and when it becomes
  quiet `SettledSound` says that the device has the last request.
* `BatteryArb_proofs!NoOrphanSound` and `NoOverwriteSound`: a charge in force is
  recorded, being recorded, or will have ended with the pause; nothing but the
  manager's own mode is replaced as far as it has seen. The invariant ties what the
  task has decided to what it saw (`Known`) and a charge to the step that recorded it
  (`ChargeAt`). That the end of a plan's block is one time is shown with the least
  slot that differs, from the well-foundedness of `<` on the naturals.
* `Store_proofs!LimitsSound`: each register of each inverter but the orphans holds a
  value the operator may expect, or the record says what to put there, in NVS too unless
  the last save was refused; and no forced power meets a window that another write has
  shut. The invariant follows each single write: `Recorded` (what is owed is in NVS as in
  RAM unless `unsaved`, and the operator's), `Elsewhere` (nothing else differs),
  `Applying` with the places a program of writes may have come to (`Ahead`), from
  each of which the next write keeps the window open, and `HandGoes` for the page. There
  is no hypothesis on what the operator sets by hand or on what the flash takes.
  `NewForceSound`: a forced mode asked for while the tick ends the one before stays
  unless it has the mode and the end of that one; it needs only that every request
  and every restart is counted.
* `Plan_proofs!YieldsSound`: between two looks of the sweep only others change what
  `deye_ctrl` holds (`SweepInv`), so what differs from what it put is a call that it
  has not seen.
* `Net_proofs!InForce`: a lock of the Deye that a tick has seen is in force for the
  length of a renewal from every tick, however late ticks may come. `CopyCurrent`: the
  tick's copy is the present lock while it expires; `NoneUnderWay`: an older
  setting is no longer being passed on; `Renewing`: what is left of the lock and the time
  since the last renewal cover its length.

### 4.2 Buses and sockets

* `RtuBus_proofs!TypeCorrect` and `NoneForTheGone`: the waits keep their limits and no
  exchange starts for a request whose caller has left, for any number of buses and
  callers, any time limits and a bus that comes back at any moment. The invariant: an
  armed slot names a caller that holds the mutex (`Owned`, `Armed`), and an armed
  bridge slot the request the bridge waits for, unsignalled (`GwArmed`).
* `RtuBus_proofs!ResultsSound`: a result belongs to its request, and a success is of a
  write carried out, late echoes included, unless it comes from an exchange in `belated`:
  for any bridge timeout, any number of buses and of calls, and buses that go off and on
  while somebody waits. The code compares no identities; what makes it true is time, so
  the invariant `RInv` is about clocks. `OnWire`: an exchange begun in time finds its
  caller with as much patience left as it may still take (`OnTime` bounds what it has
  taken), so he does not leave before it ends and the slot is still his (`HisSlot`). An
  echo is of a write that was carried out (`CarriedOut`). `GwWire` and `HisTxn` say the
  same of the bridge. What the hypotheses of a closed schedule would say – that no
  exchange begins too late – is not true of the code: run `rtu_late`.
* `Net_proofs!CountedOnceSound`: neither the counter nor what the Symo books
  exceeds the time the Deye was heard. The invariant adds what the next tick will
  count (`Pending`) and what the Symo has yet to read (`Unbooked`); a restart may
  only set the counter back (`NvsBehind`).
* `Net_proofs!ToldRightSound`: no old power is told, nothing beyond the bridge,
  and never what would discharge a held battery. The invariant `Followed` bounds the
  age of the reading by the polls since: from the last fresh one, then from the first
  stale one.
* `Net_proofs!OwnAnswerSound`: whoever is at a socket has its lock (`LockHeld`), a worker
  polls the devices of its slot's address by its own copy of the list and a socket
  under way goes to that address (`AtOwnSocket`), so no late answer to a read of the
  phases becomes the grid power (`GridTotal`).
* `Net_proofs!AnswersSound`: a client gets the answers to its own requests in order. The
  invariant `Streams`: the buffer of its slot and what is under way are one sequence of
  halves of requests, without a gap, that starts after the last answer.
* `Net_proofs!PowerSound` and `RestoreSound`: the guard sets only powers the inverter
  accepts; if the hysteresis covers a step and the inverter follows within the hold
  (`Step <= Hyst`, `Lag <= Hold`), it never raises the power into an excess nor above the
  user's, unless a call came between its look and its write (run `guard_user` shows that
  this can happen). The invariant `LagInv`: what a tick has read is still so unless it is
  noted in `tick.touched`; and while the inverter still follows and the restore timer
  runs, what is left of the lag and the age of the timer add up to at most the lag.
* `Net_proofs!ExcessShort`: an excess the guard sees and can take back lasts at most the
  rate limit and two lags, also one it has made itself by a figure from before a call. `ShortInv` splits it into three stretches and bounds each:
  the inverter still has a raise before it, the write that takes off enough waits for
  the rate limit, the inverter follows that write. `FuseSound` puts both sides together.

### 4.3 What the manager knows

* `Plan_proofs!NoStalePlanSound`: the plan a tick acts on begins with the quarter hour
  the tick began in, and its prices and forecast are current, also when quarter hours end
  within ticks; so only the tick within which its quarter hour ended acts on one that is over. The
  invariant `Flagged`: whatever made a plan old has left a reason to plan again that
  only a new plan takes away.
* `Plan_proofs!SavingsSound`: the saving the planner decides by is the difference of the
  two whole horizons although `delta()` stops where they meet, and nothing it does makes
  the horizon dearer. `HorizonInv`: the trajectory kept beside the decisions is theirs.
  `Rides` is the invariant of the loop in `delta()`: what has been summed up is the
  difference of the two sums so far, and once they have met they run together. The
  arithmetic is exact; the rounding of floats and the tolerance within which two energies
  count as the same (`SAME_E_KWH`) are outside the model.
* `Plan_proofs!FactorSound`: the sums of today, the factors in RAM and their record fit
  the settings they were measured under (`PvInv`).
* `Plan_proofs!HoldSound`: whoever makes a job ask – schedule, backoff, fallback, a forced
  refresh – its time is never before the end of its pause. `FeedInv`: no attempt lies in
  the future.

### 4.4 What must not be lost

* `Store_proofs!MeasuredSound`: a quarter hour that was measured is in the day in memory
  or in the newest record of its date. `DaysOver` and `DayBegun`: a day in flash is over
  up to one tick by which the clock may step back, in which nothing can be measured;
  `NoneSmaller`: so a day begun again never replaces a record that holds more.
  Hypothesis `LongSlots`: a slot is longer than a tick (900 s in the code).
* `Store_proofs!SumsSound`: a reset in the middle of a round is seen by its write-back or
  came before its copy (`SumsFresh`); what NVS lacks is from the rounds since the last
  save (`SavedSoon`).
* `Store_proofs!RingSafe` and `RingAllSound`: the ring refines `OldestFirst`, memory
  knows what a scan would find, a record goes to a blank cell, and the average takes each
  date once. `RingInv`: seen from the newest record the cells are in the order of their
  numbers (`InOrder`), and of its sector what comes after it holds none (`RestFree`), so
  the sector entered next is the oldest. For the reader `ReadSoFar` is the invariant of
  its loop: what it has taken is the newest of the dates, and all that it passed unless
  it has enough. For any number and size of sectors, any dates, any power cuts.

### 4.5 The device around it

* `Box_proofs!RescueSound`: each of the two slots is proven, the last resort, or on trial
  with a proven one to fall back to (`OtaInv`, `Sound`), so the next boots end in an image
  that runs.
* `Box_proofs!SettingsSound`: what is stored, loaded, shown and exported is what the user
  set (`SetInv`), the list of devices in each of the layouts it had, whether or not it
  could be moved: what the firmware would load now is the user's (`ListOwned`) and so is
  what it uses (`ListUsed`), unless the list is in `forgotten`. Hypothesis
  `LayoutsApart`: no list of one layout has the length of a list of a later one. It holds
  for 42, 66 and 68 bytes and eight devices; `MCBox` assumes it for the sizes of the run.
* `Box_proofs!CommandsStartOnce` and `TapsSwallowed`: a start is counted against a
  command (`Counted`); a dark panel has its shield up or is held by an update, and a
  press that began on the shield stays there (`Covered`).

* `Box_proofs!WayBackSound`: a station without a link has its access point up or
  something in hand that opens it, and with networks saved something in hand that tries
  again, or it is `shut`: the radio refused the access point, or the worker closed the
  one a page had just opened; for any networks, refusals, losses and users. The
  invariant follows a timer through its bit to the job of the worker (`Due`): without a link `ToTheDoor` says what
  leads to the access point, `Retrying` what leads to the next attempt, and `Told` that
  the last event in the queue is what became of the link. It is what `DoorOpens`
  and `Reconnects` need apart from fairness: nothing is lost between the event loop,
  the timers and the worker, which share their state without a lock.

### 4.6 Only model-checked

All liveness – `EventuallyNormal`, `UndoEnds`, `FreeAgain`, `CallsReturn`, `GridServed`,
`Converges`, `EndsInNormal`, `Follows`, `GivesBack`, `DoorOpens`, `Reconnects`,
`AnnouncedIsTrue`, `TunnelFollows` and the fairness of `Contract` – as the prover has
no support for `WF_`, `SF_` and `ENABLED`. Of `DoorOpens` and `Reconnects` the part that
needs no fairness is `WayBackSound`. Loops over the slots of a horizon or the cells
of a ring are recursive functions on an interval; what they compute is proved by a set
of numbers that is shown to be the whole interval (`SlotInduction`), as no theorem of
the library that takes an operator can be used.

## 5. Disagreements

| run | statement | what the code does |
|---|---|---|
| `ctrl_restart` | wiki/Deye-Steuerung.md:96: after a power cut, a crash or an update the battery is back in normal operation | a restart between the NVS record and the register writes leaves a forced inverter without a record |
| `byd_back` | byd_energy.h:14-16: a power cut loses at most a quarter hour; the sum does not go backwards | MQTT publishes the running sum and the start takes the last saved one (byd_energy.c:49): Home Assistant sees it run backwards |
| `tcp_quiet` | the comment at modbus_tcp.c:790: a contribution counts only while its device answers | the status keeps the last house load when no other source replaces it (modbus_tcp.c:1189) |
| `log_answer` | applog.c:96: what is logged during the answer is not in this answer | once the ring wraps, newer lines overwrite the cells that are still to be sent (applog.c:104) |
| `guard_user` | sls_guard.h:64: the user's figure is never exceeded | the guard reads the power, decides and writes without a lock (modbus_tcp.c:1095-1102): a lower power set in between is replaced by the figure from the old one |
| `rtu_late` | the comment at modbus_rtu.c:569: results go back only if the request is still the one waited for | the test at :582 is whether some request is pending; with the bridge at its longest timeout the exchange of a caller who has left gives its result to the next |

Seen while modelling and not run:

* Batteries. A fallback that is writing stores Normal over a mode applied meanwhile
  (deye_ctrl.c:208 vs :321). A planned charge the user repeats with the same power is
  taken for the manager's (energy_mgr.c:233 vs energy_mgr.h:17); one longer than 12 h is
  cut by `deye_ctrl`. The sweep's `finish()` writes Normal over a user's mode at a stop
  (eff_sweep.c:206 vs :73), and its first put does not compare what `deye_ctrl` holds. A
  limit of 0 % the operator set cannot be told from a leftover of `fronius_storage`. A
  throttle or retune after a mode change that was not confirmed clears the count of
  failed read-backs (deye_ctrl.c:174, :185): no failure is shown while the inverter may still
  run another mode. `finish()` may replace a mode set since it looked (deye_force.c:28-29).
  A record that `fs_persist()` could not save (fronius_storage.c:312) is not missed before
  a restart, which then loses the operator's values.
* RS485. Two master buses share the register slot and may both serve one request (`Shared`);
  `eff_curve_save()` writes NVS outside the lock it copies
  under; settings changed during a poll round are written back with the round's
  `online`; `full_reset` publishes the new start before the sums are written back. The self-test
  checks the pair of roles when it is asked for (modbus_rtu.c:1656) and not again when a
  bus task takes the request (:1221): after a change of roles in between it may ask on a
  bus that has no partner.
* Settings. A first boot without the network does not read the list of devices
  (main.c:97-106), and one whose migration the flash refused has it in RAM only
  (modbus_tcp.c:181): a page saved then replaces the old list. A list emptied by the
  layout before is passed over, and the one before that comes back. `em_cfg` is read,
  changed and written by two tasks: updates can be lost and
  NVS and RAM part (em_cfg.h:84); the same between the settings page and
  `frm_set_handler()`. A chosen `min_spread` of 0 becomes the default although the
  check allows it. An import goes to NVS only, a page saved before the reboot overwrites
  it. `mqtt_save_cb` writes default texts as settings (ui_settings.c:1496-1519).
* Manager. `req = s_req; s_req = 0` may lose a request. The price recorded for a quarter
  hour is that of the one before (energy_mgr.c:362). A plan that fails at the start of a
  quarter hour is not tried again before the next.
* Records. The oldest date of a ring stays stale after an erase whose write failed. Two
  true readings refused after a plausible garble let a spike pass as the third. The
  producer meter's counter runs backwards after a power cut.
* Network. MQTT replays retained `deye/mode/set` commands; its "offline" is lost while
  connecting; the price curve is not sent again to a new connection. The access point may
  stay up (wifi_mgr.c:145); one the radio refused is not tried again (wifi_mgr.c:94,
  :195); one closed just after the last network was removed (wifi_mgr.c:158-174) leaves
  no way in until somebody acts at the display; a failed `esp_mqtt_client_init()`
  (mqtt_fwd.c:865) is never retried; a stale reconnect timer may undo a choice; a failed
  `esp_netif_sntp_init()` is never retried; tabs built without a network stay so.
* Update. An upload that arrives at a bad image on probation confirms it; a web request
  that pastes text waits without limit (web_mirror.c:221) and with it the web server; a
  finger held on a panel an update has darkened presses a widget at the thaw.
* `bat_lock`. A lock lapses until the next tick when a tick comes later than its 120 s,
  as after two downloads that both wait for an upload.

## 6. Not modelled

Left out for good: what is drawn, page texts, formatting and JSON, fonts and the
board's pins, drivers, vendored WireGuard, `sunspec_mppt.c` (one block of registers
decoded, nothing kept), the password of the web pages (one record that is compared),
and the arithmetic of irradiance, efficiency, charging losses and moving averages. The
`note` of each component in `PROJECT.json` says what of it is left out.

Next, in order of weight: what lost writes leave behind in the registers that are not
read back; the self-test between two buses; scan results of the WiFi page.
