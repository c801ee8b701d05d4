# Verification of the thatmotor firmware

thatmotor is the firmware of a trolling motor: an ESP32 reads an RC receiver, a GPS and a
compass, and drives an ESC and a steering servo; a web panel, a phone app and a USB console
command and configure it. This directory holds TLA+ models of the firmware, the TLC runs that
check them on small instances, and theorems about all of them, checked by TLAPS.

    tlc -config MCModes.cfg MCModes         # any run of the table below
    tlapm ControlCycleProofs.tla            # any of the eight proof modules

Contents: the system - the plan - the modules - how the models abstract the code - the runs -
what is proved - the disagreements found - what is not modelled.

## 1. The system

### Components, their state and operations

| component (source) | state | operations |
|---|---|---|
| state machine (`components/state_machine`) | one of DISARMED, ARMED, FAILSAFE, ESC_CALIBRATION, DEPLOY; the calibration step | `sm_step`, `calib_fsm_step`, entered and left by requests and by the link |
| RC validity (`components/rc_validity`) | count of bad frames and latched verdict; per-switch level candidate and stability count; open click burst | `channel_valid`, `rc_debounce_update`, `switch_debounce_update`, `click_counter_update` |
| signal chain (`components/signal_chain`) | ramp value and dwell left; slewed servo pulse | normalise, deadband, power limit, dwell, ramp, map, trim, clamp |
| spot-lock and goto (`components/control_loop/src/spot_lock.c`) | substate OFF/ACTIVE/PAUSED, owner of the target, target, count of the abort gesture | `spot_lock_step` |
| control cycle (`components/control_loop/src/loop_step.c`) | all of the above, entry-attempt record, last outputs | `loop_step`, once per 20 ms |
| control task (`components/control_loop/src/control_loop.c`) | active settings, two mailboxes of length one, commit debounce, goto latch and link stamp, published state | `run_one_cycle`, the post functions called by other tasks |
| RC capture (`components/rc_capture`) | per channel: last width, period, edge stamp; pending edge | capture interrupt, `rc_capture_read`, `rc_capture_now_ticks` |
| settings (`components/settings`) | the settings blob in NVS; report of its last load | mount, load, decode, validate and repair, encode, save |
| web panel and console (`components/web_panel`, `usb_console`) | nothing lasting; a request holds a copy of the settings | commands, partial settings edits, dump |
| blackbox (`components/blackbox`) | ring of flash sectors, write cursor, session counter, sampler statics | sample tick, append, boot scan, dump |
| telemetry push (`web_panel/src/ws_telemetry.c`, `ws_client_set.c`) | in-flight flag, client slots, timer | timer tick, queued push, handshake |
| GPS (`components/gps`) | line accumulator, last state, stamp of the last fix | reader task, NMEA parser, `gps_get_state` |
| compass (`components/imu`, `components/sh2`) | last heading and its stamp, reconfigure flag, the library's command in progress | `imu_start`, `imu_task`, the library's callbacks |
| PWM, LED, Wi-Fi (`components/...`) | drivers | device I/O |
| phone app and web page | intent of the user against telemetry | commands over HTTP |

### How they interact

The control task is the only writer of the settings, the goto latch, flash settings and outputs.
Other tasks reach it through two one-element mailboxes (`xQueueOverwrite`): commands in
`s_ui_queue`, settings in `s_pending_queue`. They read the settings (`control_loop_get_params`) and
the published state without a lock. GPS and compass readers publish under a mutex that the control
task only tries. The capture interrupt writes its samples under no lock; the control task copies
them word by word and reads the clock after. The telemetry timer hands each push to the server task,
which also runs every handler. The blackbox task reads the published snapshot every 100 ms and keeps
its own differences; the control task never waits for it.

### What is hard about it, and what makes each part correct

* **Modes**: requests of several sources in one cycle, the link lost and found at any moment. The
  link must win over everything, disarming over arming, and nothing may arm by itself.
* **Thrust**: four sources of command (stick, hold, goto, stop) share one ramp. No source change,
  mode change or failure may let thrust jump, cross neutral at once, or grow when nobody commands.
* **Sessions**: a hold or goto survives failing sensors, but not the stick gesture, a disarm or the
  switch; its target must be the one it was entered with; a client that repeats its goto must not
  undo the operator.
* **Settings**: whole-struct copies taken without a lock, edited, validated and staged, applied
  later in another state, and written later still to a flash that may fail.
* **Link**: a dead receiver must be noticed within the time-out whatever the phase of three clocks
  that wrap, and a healthy one never failed for an unlucky phase or a copy the interrupt tore.
* **Sensors**: bytes are lost, the hub resets, the bus dies; a position or heading handed out must be
  one that was measured, must age out, and must come back.
* **Stored settings**: what comes out of flash after a cut save, rot or another build must be what
  was saved here or defaults, and always settings the signal chain may run on.
* **Recording**: the write cursor and session counter are recovered from flash after any reset,
  over a ring that wraps, with appends that fail or are cut.

`PROJECT.json` lists these hazards one by one, each at its line, with the properties that cover it.

## 2. The plan

In order of importance; 1-11 are done.

1. Pure control core, bottom up: `StateMachine`, `RcDebounce`, `SignalChain`, `SpotLock`, composed
   by `LoopStep`. Open system `ControlCycle` with its invariant, abstract contract `ControlMode`,
   history `CycleMonitor`. Runs `modes`, `spotlock`, `monitor`.
2. Control task: `ControlLoop` composes `LoopStep` and `Switches` with mailboxes, settings, flash,
   clients and resets. Runs `panel`, `goto`.
3. `BlackBox`. Run `blackbox`.
4. Proofs: lemmas on each pure part in a module of its own, then the inductive invariant and the
   action properties of `ControlCycle`, and that it implements `ControlMode`.
5. `RcLink`: `channel_valid` over ticks modulo 2^w, with capture interrupt and reader, so that a
   frozen receiver is a behaviour of the model. Run `inputs`.
6. `Settings` and `SettingsStore`: codec, repair, provenance, and the life of the blob; proved in
   `SettingsProofs`. Run `inputs`.
7. GPS (`GpsReader`, `NmeaField`) and compass (`Compass`). Runs `inputs`, `services`, `coordinate`,
   `boot_hangs`.
8. `WsTelemetry`: timer, server task, in-flight flag, slots. Run `services`.
9. Proofs of `ControlLoop` (settings, goto latch, switches, arming) from the lemmas on `LoopStep` that
   4 proved for every settings record, of `BlackBox` (ids, damage, reasons) and of `GpsReader`.
10. Proofs of the link (`RcLink`), the compass driver, the telemetry push, the order and the dump of the
    recorder, the dwell of a flip, and the burst that disarms.
11. The core inside the task: invariant, contract and refinement of `LoopStep` restated for settings that
    change and resets, proved for `ControlCycle` and `ControlLoop` from one set of lemmas; and the
    coordinates.
12. Not done: the phone's reconciler of intent and telemetry against `ControlLoop`'s latch.

## 3. The modules

    StateMachine   RcDebounce   SignalChain   SpotLock   Switches
          \            \           |           /            |
           \____________\__ LoopStep _________/             |
                              /   \________________         |
     ControlMode <-- ControlCycle                  ControlLoop
     (abstract)     /      |     \                  /       \
        CycleMonitor   MCModes   MCSpotLock     MCPanel    MCGoto          BlackBox
             |                                                                |
         MCMonitor                                                        MCBlackBox

    RcDebounce   Settings                                    Compass   WsTelemetry
        |            |                                            \       /
     RcLink    SettingsStore   GpsReader   NmeaField             MCServices
         \___________|____________|___________/
                  MCInputs

    SignalChainProofs --> LoopStepProofs --> ControlCycleProofs (of ControlCycle, CycleMonitor)
                                      \____ ControlLoopProofs (of ControlLoop)
    SettingsProofs (of SettingsStore)       BlackBoxProofs (of BlackBox)
    InputProofs (of RcLink, GpsReader, NmeaField)   ServicesProofs (of Compass, WsTelemetry)

* `StateMachine` - `SmStep` is `sm_step` state by state: each `NextFrom...` is the C function of
  that name, with its checks in their order. `CalibStep` is `calib_fsm_step`. Inputs are a record;
  requests are a set because flags only ever accumulate.
* `RcDebounce` - the latched verdict on the link. `BadFrameMax` is the saturation bound (65535 in
  the code, just above the threshold in the runs, where it behaves the same).
* `SignalChain` - both chains over integers with C division, `ValidParams` (ranges and cross-field
  rules of `settings_validate`), ramp and dwell, servo slew and trim, the clamp at the outputs.
* `SpotLock` - `SpotLockStep` is `spot_lock_step`: override count, arbitration between hold and
  goto, entry gate, pause, drive; distance to thrust and heading error to servo.
* `Switches` - three-valued pulse (above, below, unusable), debounced switch, click gestures.
* `LoopStep` - the whole of `loop_step` as one action over `loopVars`: state machine, calibration,
  spot-lock with the attempt record, both chains, the goto latch clear. Constant `RcThreshold`
  etc. are the code's thresholds. It also states what the core promises: the invariant `CoreInv` and the
  contract of a cycle, `CoreContract(p)`, with the settings `p` of that cycle as a parameter.
* `ControlCycle` - `LoopStep` under fixed settings and any inputs of a set; the core's promises as its
  properties, `CycleInv` and the parts of the contract.
* `ControlMode` - what the cycle promises of mode, thrust and owner: which mode may follow which,
  that nobody owns thrust outside ARMED, that thrust only decays there, that it never crosses
  neutral in one step, that a goto never pushes astern. The refinement mapping takes `state`,
  `ramp.value`, and the owner from spot-lock's source or the stick. `ModeResetSpec` adds the reset, for
  the control task.
* `CycleMonitor` - adds the history of the propeller: last direction, cycles rested since, and
  whether it stopped against an opposing command, of the stick or of a session.
* `ControlLoop` - `RunOneCycle` is `run_one_cycle` in its order: take the pending settings if
  DISARMED, rebuild, take the command, trim, stage the goto, CH4, CH3, `LoopStep`, release the
  latch, commit. Clients are `PostCommand` and, per editing task, `BeginCopy`, `Decide`,
  `PostPending`. `Reset` keeps flash alone.
* `BlackBox` - `RecorderTick` is one tick of the recorder task with every append it makes;
  `Reboot` and `PowerCut` go through the boot scan; the dump is a function of flash.

* `RcLink` - from edge to verdict. A receiver pulses each line once per frame and may fall silent
  with the line low or high; `RisingEdge` and `FallingEdge` are the two branches of `on_cap`;
  `ReadWords` copies a sample word by word while edges of the same tick may fall between;
  `JudgeFrame` is `channel_valid` on both channels and the debounce.
* `GpsReader` - `FeedPiece` and `FeedTerminator` are `feed_byte` with the parser's effect on the
  state; `UpdateFreshness` ends a read. `NmeaField` is `parse_coord` in the code's integers: a field grows by
  one decimal per step and the digit loop runs along (`frac`), so each state is a complete field.
* `Compass` - `at` says where the driver is, in `imu_start` (boot task) or `imu_task`. The waits of
  the library are points of their own, and what they service runs the driver's callbacks there.
* `Settings` - pure: ranges, defaults, codec, repairs, provenance. `SettingsStore` - the load in its
  steps, edits and trims, the save as `nvs_set_blob` and `nvs_commit`, resets between any two, and
  what NVS, rot and other builds may leave.
* `WsTelemetry` - `OnTick` in the timer task; `PushBegins`, `PushSends`, `PushEnds` are `push_work`,
  member by member; `Handshake` is `ws_handler` with `ws_telemetry_register`.

Each definition's source lines are in `PROJECT.json` "map". Definitions with a comment `Faulty:` are
the broken variants used to show that a property can fail; they are used by nothing else.

## 4. How the models abstract the code

* **One cycle is one step.** `run_one_cycle` runs to completion in the highest-priority task; other
  tasks touch its state only through the mailboxes, each a single `xQueueOverwrite` or
  `xQueueReceive`. A post in the middle of a cycle is one before or after it. The one thing of the
  task that others read while it may be written is the settings struct: that copy is split in two
  steps (`BeginCopy` reads any of `CopySplits`, `Decide` the rest), so it can mix two versions.
* **Freshness is a choice.** GPS freshness, the fix and the compass are inputs of every cycle. The
  link stamp of a goto is fresh in the cycle of a command and either way in every other one: it expires
  at any time, and an edit of `goto_comms_timeout_ms` or the clock coming round may make it fresh again.
  `goto.fresh` is what the last cycle found; the stamp of boot is 0 and fresh, hence `GotoNone.fresh`.
* **Hold from the app** samples the fix by itself (`Grabs`): a separate read from the cycle's own,
  it may succeed or fail whatever the cycle sees.
* **Space is a line.** Positions are metres on a line and headings quarter turns: every branch of
  the drive laws is taken (ahead, abeam, astern, inside the deadband, slowdown, cap) and the cosine
  taper is 1 or its floor. The rest of `geo_math` is numerics.
* **Pulses and percentages are the code's integers**, with its truncating division; no product here
  comes near 2^31, as the field ranges bound every factor.
* **Counters**: the bad-frame count saturates at `BadFrameMax`, switch stability at its threshold,
  the attempt sequence wraps at `AttemptSeqMod`; the theorems hold for every value of them.
* **Flash**: a write may succeed, fail, or fail after storing the blob (NVS commits after set).
  Storing is atomic, as NVS promises.
* **Time** is counted in cycles in the control core; the sensor models count the units of their own
  clock and wrap it (`TickMod`, `MsMod`, `ImuMsMod`). Properties of freshness end where the clock
  has come round to the stamp, as `sensor_freshness.h` and `rc_capture.h` say of themselves.
* **Sentences** are classes by what the parser does with them, and arrive as two pieces and a
  terminator, each of which may be lost; a line with pieces of two sentences fails its checksum. A
  position is whether one was ever set. In `NmeaField` a coordinate is its digits.
* **A word of the blob** is a number, the CRC is the words it was computed over: rot is always found
  out, as CRC-32 does for the single words that rot here.
* **The hub** hands over packets in order, takes commands while the bus is up, and loses
  configuration and packets in a reset. A heading is its age.
* **A client** is a descriptor. The server gives the lowest free one, closes the least recently used
  when all are taken, and sends to any open session.
* **Independent parts share runs**: `MCInputs` and `MCServices` choose one part in the initial state
  and leave the others at rest, so the states add up and no interleaving is lost.
* **`calib_timeout`** is a variable input of the cycle but FALSE in `ControlLoop`: the code never
  sets it, though `esc_calibration.h:27` speaks of an idle timeout.
* **Blackbox**: a record is its kind, its number in the order of appends, its session id and its end
  reason. The number, and the number of the header a sample was taken under, are history: flash
  stores the session id in headers only. The adaptive rate is whether the error moved. A tear in an
  erase spoils the sector, a tear in a write spoils the slot; programming a slot that is not erased
  spoils it too.
* **Fairness** is used by three specifications. `MonitorSpec`: weak fairness of the cycle, for
  `SoftStopCompletes`; the control task has the highest application priority, is released every 20
  ms by `vTaskDelayUntil`, and the task watchdog panics and resets the chip if it stops
  (`sdkconfig.defaults:15-17`). `ImuFairness`: the reader task runs, time passes, a hub that can be
  reached takes a transfer in the end and sends the reports that are enabled; the bus need not come
  back (`HeadingComesBack` assumes it does, `BootGoesOn` does not). `TelemetryFairness`: the
  periodic timer fires and finds the server ready, and the server task works off its queue. Clients,
  posts, resets, faults and peers are never assumed fair.

## 5. The runs

| run | module, cfg | question and outcome | instance |
|---|---|---|---|
| `modes` | `MCModes` | Do modes follow the link and the requests, calibration pulses stay in calibration, thrust stay ramped; does the cycle implement `ControlMode`? Yes. | every link frame x 5 throttle positions x 11 sets of requests x 3 calibration events per cycle; ramps of 150/200 so that full thrust takes 6 cycles; dwell 3 cycles; threshold 3 bad frames |
| `spotlock` | `MCSpotLock` | Is a hold entered by an accepted attempt and kept at its target, and thrust of a session under its cap, paused or not? Does arming start the propeller only for a goto posted before it, or a hold left by the last disarm? Is `CycleInv` an invariant? Yes. | CH3 off, on, rising; goto to either of two targets over fresh and stale links; three poses, and a fourth for arming; sticks; three sensor failures |
| `monitor` | `MCMonitor` | Does a commanded flip rest the full dwell, whatever interrupts it, and does a stop come to rest? Yes, the second under fairness. | full ahead, full astern, neutral; all requests; link loss; dwell 3 cycles |
| `panel` | `MCPanel` | Can torn or stale edits, trims, failing flash and resets break the settings in force or in flash, or the invariant of the core that runs on them? No. | one client; two edits legal alone and illegal together; every split of the copy that tells them apart; trim steps that reach the limit |
| `goto` | `MCGoto` | Does every cycle keep the contract of the core, is an engaged goto latched and, over a fresh link, the newest one, does an ended goto stay ended, a hold live as long as its switch, and do CH4 clicks and commands arm, disarm and deploy only as meant? Yes. | one goto target, holds where the boat is, goto/hold/cancel/arm/disarm posts, CH3 up, down or unreadable while the link is lost, throttle, drift, sensor loss, resets; or, with CH4 enabled, its levels with throttle at rest or not, link loss and five posts (a calibration is entered and left with the link; its own buttons are inputs of `modes`), click window of 10 cycles; or CH4 clicks, arm and disarm posts, and a client that disables and enables CH4 in between |
| `blackbox` | `MCBlackBox` | Do ids stay unique, faults spoil one sector each at most, tails stay labelled; does a ring in order lose its oldest records first, and until it wraps the dump put samples under their own session, if its header was not lost to a fault? Yes. | 3 sectors of 2 records, 8 appends (the ring wraps), one fault or power cut, any number of reboots |
| `inputs` | `MCInputs` | Is a lost link noticed in time and a healthy one never failed; is a fix one that was measured, and does it expire; are coordinates exact; do saved settings come back, and does the unit run on safe ones? Yes. | two channels, frames of 3 ticks against cycles of 2, counters wrapping at 17 with the capture counter 7 ahead, two changes of the lines; ms wrapping at 9; seven kinds of sentences; coordinates at 0, 49 and 180 degrees with up to five decimals of 0, 1, 9; five foreign blobs, rot in version, CRC and a field, two settings in doubt |
| `services` | `MCServices` | Does a heading age out and come back, do pushes neither back up nor stop? Yes. | two resets of the hub, one outage of the bus at any point of start or pass; two slots, three sockets, any joining, leaving, vanishing and eviction |
| `hold_resume` | `MCMonitor`, `HoldResume.cfg` | Is a hold engaged only on a CH3 edge, as `spot_lock.h` says? No. | CH3, arm, disarm, drift |
| `reboot_overwrites` | `MCBlackBox`, `RebootOverwrites.cfg` | Does a reboot keep the newest records, as `blackbox.h` says? No. | as `blackbox` |
| `coordinate` | `NmeaField`, `Coordinate.cfg` | Is a coordinate exact whatever precision the receiver writes? No. | as `inputs`, with six decimals |
| `boot_hangs` | `Compass`, `BootHangs.cfg` | Does a failing compass never abort the boot, as `app_main.c` says? No. | one outage, no resets |

Why the bounds suffice: every counter is seen below, at and beyond its limit in the run whose
properties depend on it (three bad frames in `modes`, three cycles of the abort gesture in
`spotlock`, two in `goto`, ten cycles of click window in `goto`), and is as small as it gets
elsewhere; ramps are coarse so that the whole range is crossed in a handful of cycles, and the
ramp's rule does not depend on the step; the settings of each module are legal ones
(`CycleAssumption`, evaluated at every run), chosen so that cap, power limit and stick give
different thrusts. The click window and the dwell have several cycles, so that requests fall inside
and on their edges. Deadlock is checked in every run but `inputs` and `coordinate`, where a field
ends at its last decimal. `MaxRecords = 8` is two more than the capacity: the ring wraps, loses its
first sector and resumes both before and after. In `inputs` the clocks wrap several times within a
gap of the receiver, the frame and the cycle have no common period, so every phase comes up, and 17
ticks leave room for time-out, debounce and more below the wrap. `MaxFaults = 1` lets a fault fall
on any append of any kind; two independent faults are left to the proofs.

## 6. What is proved

### The control cycle

The theorems of `ControlCycleProofs` are about `CycleSafety` for **every** valid settings record,
**every** set of inputs of `InputType` (any pulse widths, positions, headings, requests), and every
value of the thresholds. They assume what the modules state: `CycleAssumption` (valid settings,
typed inputs), `LoopStepAssumption` and `RcDebounceAssumption` (positive thresholds, a saturation bound not
below its threshold).

The lemmas behind them are in `LoopStepProofs` and have the settings `p` of the cycle as a parameter, and
a bound on the dwell that is waited out: `CycleKeepsCore` (a cycle keeps `CoreInv`), `CycleKeepsContract`
(it keeps `CoreContract(p)`), and one lemma for each part of the contract. The control task uses the same
ones, see below.

The invariant is `CycleInv`, checked by run `spotlock` before it was proved: `CoreInv` with the dwell of the
settings as its bound, and `CalibrationPulsesConfined`. The safety invariants alone are not inductive:

* `CoreTypeOK` bounds the ramp, the dwell, the slewed pulse and the counters. The pulse written
  must stay in the window, so the lemmas of `SignalChainProofs` bound every stage of the chains
  (clamp, percentage, deadband, map, slew, trim), which is where the settings' cross-field rules
  are needed.
* `FailsafeIffLinkLost` compares the state with the *latched* link; it is kept by each transition
  (`LoopStepProofs`: what a lost and a valid link do in each state), and by the calibration's
  abort rules, which override the state machine.
* `CalibrationPulsesConfined` needs `PulseOfStep` (a calibrating cycle sent the pulse of its step) and
  `RampParkedInCalibration` (the ramp is at rest while calibrating, so the cycle that leaves sends
  a pulse of the map and not a jump).
* `RestsDuringDwell` (a running dwell means the ramp is at neutral) is needed because a dwelling
  cycle writes neutral whatever the ramp was: without it that could be a jump to zero.
* `EngagedOnlyWhenArmed` comes with the lemmas of `LoopStepProofs` on the regulator: the type of
  its results, when it may take the target, what a pause commands, and its caps.

There is one action, `Cycle`; the proof that it keeps the invariant has one lemma per component of the
state (`RampNext`, `PulseNext`, `TargetByOwner`, `ModeFollows` and the others). From it follow:

| theorem | says, for every instance |
|---|---|
| `CycleInvariant` | the inductive invariant, with the types |
| `FailsafeTracksLink` | FAILSAFE exactly while the debounced link is lost |
| `PulsesConfined`, `PulsesInOrder` | calibration pulses only in calibration, in their order |
| `SessionsNeedArmed` | sessions are engaged in ARMED only |
| `HoldNeedsAttempt` | a hold's target stays while the hold owns it, and is taken over by an accepted attempt only |
| `ThrustRamped`, `StopRamped` | thrust moves by the configured rates, and comes down by the whole rate out of ARMED, cycle by cycle |
| `ArmingThrust` | the cycle that arms adds thrust for an active goto (ahead) or a leftover hold only, within its cap; the stick adds none |
| `SessionCapped` | a session stays under its cap and adds no thrust while paused |
| `CycleImplementsMode` | `ControlCycle` implements `ControlMode`: initial states to initial states, each cycle to `Drive`, `Stop` or a stutter |
| `FlipRests` | a propeller stopped by an opposing command rests the full dwell before it turns the other way |

`FlipRests` is about `MonitorSpec`, the cycle with its history. Its invariant, `MonitorInv`, is an
account: after a flip, the cycles rested and the dwell that the ramp still owes add up to the configured
dwell or more, whatever disarms, link losses or new commands come between, and the calibration, which
writes pulses of its own, ends the account. Three lemmas carry it: what the history calls a flip
the ramp takes for one (`FlipIsReversal`); every cycle at neutral pays one frame of the dwell
(`DwellNext`); and the step keeps the account (`MonitorStep`).

### The stored settings

`SettingsProofs` is about `StoreSpec` for **every** set of edits, of foreign blobs and of words that
rot, from `StoreAssumption` alone: an edit is of known fields, the trim step a number.

* `DecodeEncode`: decoding inverts encoding on every record whose fields fit their words, the
  signed trim included. It is proved field by field from the ranges.
* Repairs: whatever is decoded, `Validated` gives settings in range and in every order of the signal
  chain (`Chain!ValidParams`). The order of the repairs matters: the ESC map is repaired last, and the
  lemmas show that it does not break the orders the signal chain needs.
* `StoreInvariant`: the inductive invariant. Running settings are `Safe`, which besides the rules
  says that every field is in its range, so that a trim, an edit of one field or a save starts from
  a record the codec inverts. That the load finds what was saved needs that flash holds the
  encoding of a member of `kept`, that every member is safe, and that between the two calls of a save
  the settings in force are one of them.
* `RunningSettings` and `SavedSettings` follow: the first is a conjunct, the second needs the round trip
  at the load.

| theorem | says, for every instance |
|---|---|
| `DecodeEncode`, `StoreInvariant` | the round trip; the invariant of the store |
| `RunningSettings` | the settings in force are safe, whatever was in flash |
| `SavedSettings` | what was saved comes back, while nothing else touches the flash |

### The control task

`ControlLoopProofs` is about `Spec` of `ControlLoop` for **every** boot record, sets of edits, splits of a
copy, frames, commands and targets, from `ControlLoopAssumption`: the boot settings are legal and
typed, frames are of `FrameType`, commands are keywords of `command_parse.c`. Run `goto` restricts this
specification (`GotoSpec`: one of three boot records, each with its frames, commands and edits), run
`panel` is an instance of it. `ArmingIsRequested` asks of the burst that its silence has lasted *at
least* the window in force, as an edit may have shortened the window since the click.

The cycle is the one of `ControlCycle` under settings that change, so the lemmas on the core, which
hold for every valid settings record, are used again; what is new is around it. Three invariants
carry the theorems:

* `SettingsInv`: what is in force, in flash, staged, and what a client has decided to post are `Legal`:
  valid, and records of the fields of `settings_params`, so that an overlay or a trim stays one. With
  nothing marked for the commit, flash holds what is in force. The copy a client is
  still holding may be torn and is *not* legal; only what `Accepts` lets pass is.
* `TaskInv`: mailboxes, switches and counters are typed; the count of the abort gesture stays below its
  limit between cycles, and an open burst of clicks below three.
* `LoopInv`: the core keeps `CoreInv` in the task, and the pulse written stays in the map of the settings
  *in force* (or is a calibration pulse, or the one of boot), although an edit may move the map. With the
  ramp at rest or not: the settings applied in DISARMED are those the running-down of a propeller
  goes on with. Two things had to be found for it. A dwell that is waited out was armed under the settings of
  its cycle, so it is bounded by the longest the ranges allow (`DwellMax`), not by the one in force;
  and the settings of a cycle are applied *before* its core runs, so the contract that a cycle keeps is that of
  the new settings, `CoreContract(params')`. For the old ones the statement is false, and its proof fails.

`TaskContract` is the contract of the core for the whole task: whatever clients copy, edit, post and
repeat, every cycle ramps, stops, arms, caps its sessions and keeps its hold targets by the settings it
runs with. `TaskRefinesMode` is the same of the abstract specification: a cycle maps to a step of
`ControlMode` or a stutter, posts and edits to stutters, a reset to `ModeReset`. Both need of the task that
the inputs it builds from frames, switches, commands and latch are inputs of the core
(`TaskCycleIsCoreCycle`).

The latch theorems (`GotoLatched`, `GotoNeverWaits`) need one fact more, found in `LatchNext`: the core
clears the latch in the same cycle in which it takes the target from the goto, and adopts a goto in
no cycle in which the latch is cleared; and in a cycle over a fresh link the regulator takes the latch's
target.

| theorem | says, for every instance |
|---|---|
| `SettingsInvariant`, `SettingsStayValid`, `CleanIsPersisted`, `SettingsFrozen` | settings in force, staged and in flash are legal; clean means persisted; who may change them, when |
| `LoopInvariant` | the invariant of the core under changing settings and resets; domains of mailboxes, latch, switches, counters |
| `TaskContract`, `TaskRefinesMode` | every cycle keeps the contract of the core under the settings it runs with; the task implements `ControlMode` |
| `GotoLatched`, `GotoNeverWaits`, `GotoEndsForGood` | an engaged goto is latched, and the newest one over a fresh link, none waits behind CH3, an ended one stays ended |
| `GestureDropsHold`, `HoldNeedsRisingCh3` | how a hold ends under CH3, and begins |
| `DisarmWins`, `ArmingNeedsRequest` | a disarm that is seen disarms; arming takes a command, or one click and silence |
| `DisarmingClickIsNoDeploy` | the click that disarms leaves no burst to go on from; DEPLOY takes a command or a third click in DISARMED |

`DisarmingClickNeverDeploys` has one exception in it, which the code has: while CH4 is disabled its burst
is frozen, so an app that disables CH4 within a burst, arms, disarms and enables it again lets the
old clicks count on. TLC finds that behaviour in the third instance of run `goto`, where the property
without the exception fails.

### The blackbox

`BlackBoxProofs` is about `Spec` of `BlackBox` for **every** geometry of two or more sectors, every set of
published states, and any number of appends and faults; the states are records nothing is assumed
of. `BlackBoxInv` says that

* headers on flash have distinct ids up to the recorder's (`Distinct`);
* samples under one header agree on their reason, and those under the header in use have the reason
  the recorder keeps, hence none while the session goes on (`Agreed`); a tail is owed only under a
  header (`RecorderOK`), so that the recorder of a fresh boot, which has none, adds nothing to an old
  drop;
* no more sectors are damaged than there were faults: spoiled, or not erased from the cursor to their end,
  so that the next appends will spoil them (`Damaged`). Whether that end is erased must be counted too: a
  write that is done but reported as failed spoils nothing yet, and the append that repeats it does.

Two more arguments are about order. For `OldestLostFirst`, `Front` describes what one tick has done to the
ring, fault or not: the first so many slots ahead of the cursor hold nothing or new records, the
others are as they were; as those first slots held the oldest records, no record that is lost is newer
than one that is kept. `RowsCarryTheirSession` has two halves. `LinearInv` says that until the first wrap
and the first fault the cursor counts the records, slot by slot in the order of appends, and that the
last header before each sample is the one it was taken under; a reboot keeps this, as the scan finds
the cursor where it was. With faults, `SortedInv` says that until the first wrap the records get newer from
slot to slot, and that no header is of a time between a sample and the header it was taken under: so if
that one is on flash, it is the last before the sample.

`OldestGoesFirst` speaks of a ring that is `InOrder`: a reboot that finds the ring wrapped may leave a
cursor that is not at the oldest record (disagreement 2 below), and from then on the claim is not made.

`Touched` says what one append, done, failed or cut, may make of a region, and carries the proof
through the one or two appends of a tick and the power cut in either. `Damaged` needs the arithmetic of
the ring, quotients and remainders by any capacity; the scan needs that `Max` exists, which is
well-foundedness of the naturals (`MaxOfBounded`).

| theorem | says, for every instance |
|---|---|
| `BlackBoxInvariant`, `IdsUnique` | the invariant; ids on flash are unique, the next is above them |
| `FaultsSpoilOneSector` | a fault spoils one sector at most, and nothing else spoils any |
| `ReasonKept` | the samples of a tail keep the reason of the drop |
| `OldestLostFirst` | a ring in order loses its oldest records first, and a tick without a fault leaves it in order |
| `RowsCarryTheirSession` | until the ring wraps, the dump puts each sample under its session unless a fault took the header of that |

### The RC link

`InputProofs` is about `RcSpec` for **every** set of channels, pulse and frame length, length of a cycle,
modulus of the clock, offset of the capture counter, bands, time-out, thresholds and schedule of lines
that fall silent. `RcLinkAssumption` and `BandAssumption` are what the build guarantees (a pulse is
shorter than a frame may be; the time-out and the debounce fit in one turn of the clock);
`HealthyReceiver` is what is asked of a receiver (pulse and frame inside the bands, a frame shorter than
the time-out) before `HealthyStaysValid` promises it a link. `settings_ranges.h` allows
`failsafe_timeout_ms` = 20, which some receivers' frames exceed: of those the theorem says nothing, and
their last edge is too old in a part of the cycles, and they may lose the link. The failsafe theorem
does not depend on it. `RcInv` is a conjunction of

* `EdgeInv`: the last stamp of each channel tells the ticks since its last edge, until the clock has come
  round to it; the copied stamp is that one unless an edge falls in this very tick; and every verdict on
  an edge older than the time-out has been counted by the debounce;
* `WidthInv`: the two clocks of the interrupt agree on its rising edges, so that a stored width tells
  how long ago its pulse ended; and a copy with no edge between its words holds the interrupt's words;
* `SteadyInv`: how long every line has carried pulses, and which words of state and copy have become
  those of good pulses since: after two edges the interrupt's, after the next copy the task's, after
  the debounce the verdict.

| theorem | says, for every instance |
|---|---|
| `RcInvariant` | the invariant of interrupt, copy and verdict |
| `FailsafeIsTimely` | a channel without an edge for time-out and debounce drops the link, until the clock comes round |
| `HealthyStaysValid` | a healthy receiver is never judged invalid, in any phase, torn copies included |
| `WidthIsRecent` | an outdated width passes in a torn copy only |

### The GPS reader

`InputProofs` is also about `GpsSpec` for **every** clock width, staleness window and read time-out of
`GpsAssumption` (window and time-out together shorter than a turn of the clock). `GpsInv` says that
the age of the stamp modulo the clock *is* the time since a sentence was accepted under a fix, for
as long as that is less than a turn, and that what was published fresh was younger than the window
then. `FixIsLocated` and `FreshnessRunsOut` follow.

### The coordinates

`CoordinateIsExact` is about `FieldSpec` for **every** degree, minute, digit and hemisphere, and up to five
decimals; with six it is false (disagreement 3). The digit loop is a variable of the model, so what would
be an induction over the digits is an invariant, `FieldInv`: there are as many digits read as written,
the scale is their power of ten, and value times 100000 by the scale is what the digits are worth.

### The compass and the telemetry push

`ServicesProofs` is about the driver under `ImuSpec` for **every** modulus of the clock, staleness window,
period of the service pass and number of resets and outages. `ImuInv` says that while a heading is ok
its stamp tells its age (`StampTellsAge`); that between two passes it is older than the window by no more
than the time slept since the last check (`CheckedLately`); and that no report reaches the driver before
it has asked for one (`NothingReported`), as imu_start would otherwise leave an ok heading with no task
to let it age. `HeadingRunsOut` is the second of these at the end of the sleep.

Of the push it shows for **every** number of slots and descriptors that the flag stands for exactly one
push, queued or running (`FlagInvariant`): a flag left set would silence the telemetry, one cleared too
early would let pushes pile up. `OnePushAtATime` follows.

### Only model-checked

Liveness (`SoftStopCompletes`, `HeadingComesBack`, `TelemetryGoesOn`), which is out of this prover's
reach; of the first, `StopRamped` proves the safety half, that every cycle out of ARMED takes the whole
rate off the thrust. Every other property that a passing run checks is a theorem, and `StopRamped`,
`SessionsNeedArmed`, `PulsesInOrder` and `TaskRefinesMode` are theorems that no run needs to check.

## 7. Where the code and its comments disagree

Each is a run of its own, with the counterexample TLC finds; `PROJECT.json` quotes the lines.

1. **`hold_resume`** - disarming clears the regulator's substate but not its source and target, so
   arming with CH3 still on resumes the old hold, at its old target, with no edge and no gate. In
   the same way a goto engaged over a stale link after arming steers to the target of before.
2. **`reboot_overwrites`** - after the ring has wrapped, a reboot puts the cursor at the end of the
   region; the next append erases the first sector, the newest records.
3. **`coordinate`** - the loop over the decimals takes a sixth, and the scale then divides to zero: the
   whole fraction of the minute is dropped, up to 1.8 km. Receivers that write up to five decimals
   are read exactly.
4. **`boot_hangs`** - the library repeats a refused transfer without limit and the calibration command
   waits without time-out; both run in the boot task before the control task exists. A compass
   that dies between its soft reset and its first report keeps the unit from ever being driven.

The models hold further statements of the sources that TLC refutes when they are put in a cfg; none
of the runs above checks them.

| definition | statement | what the code does |
|---|---|---|
| `CycleMonitor!DwellBeforeReverse` | `signal_chain.h:78`: the output "NEVER crosses ... until the full dwell has elapsed" | a stick that rests one cycle at neutral reverses without dwell |
| `CycleMonitor!DeployLeftOnlyToDisarmed` | `state_machine.h:30-34`: DEPLOY survives the loss of the link | goes to FAILSAFE and centres the servo |
| `ControlLoop!TrimChangesOnlyByTrimming` | `params_api.c:79`: a partial edit updates a subset | posts a whole older copy, and so undoes a trim made in between |
| `BlackBox!SessionIdsNotReused` | `blackbox.h:23-25`: a reboot records on "without reusing a session id" | the counter is recovered from the headers on flash; once the ring has overwritten the header of the newest session, the next boot gives its id out again |
| `Compass!OkMeansFlowing` | `imu.h:26`, `:31`: ok is "true while fresh ... data is flowing" | a pass that waits for the bus does not come to its staleness check, and ok stays |
| `GpsReader!FixlessSentencesExpire` | `gps_reader.c:72-73`: "a fixless sentence must not keep GPS fresh" | a void RMC leaves fix as it was and renews the stamp |
| `SettingsStore!OtherVersionIsNoError` | `nvs_provenance.c:21-23`: another version is no error | only at the same length; versions have differed in length, which reports corruption |
| `SettingsStore!RepairsAreConsistent` | `settings_validate.c:172-173`: repaired groups stay consistent | the repair of the ESC map puts back an end point alone, and may leave it below its own start; the signal chain does not rely on that order |
| `WsTelemetry!ClientsAreNeverEvicted` | `http_server.c:274-275`: `lru_purge` never evicts a telemetry client | sends do not count as use and clients beyond the cap keep their sockets, so a client may be the least recently used |
| `WsTelemetry!FramesGoToWebSockets` | `ws_client_set.h`: the set holds connected WS descriptors | a slot outlives its connection until a send fails; a descriptor given out again meanwhile receives frames |

Noted while reading, without a definition:

* `settings_model.h:25-26` says a stale link pauses an active goto; the code only stops retargeting
  it. `settings_ranges.h:117-121` speaks of "repeating the goto command (~2 Hz)", the app
  (`AppModel.swift:8-9`) sends it once, without keep-alive.
* CH4 enabled again after a pause reads the old level as an edge and goes on with an old burst
  (`control_loop.c:180-186`); `DisarmingClickNeverDeploys` excepts that burst.
* The flash write of a commit may fall in the cycle that disarmed a turning propeller, and blocks it.
* A torn copy of an RC sample lets one edge after a loss of the link be judged with an outdated
  width. The age of an edge is taken in ticks of 12.5 ns modulo 2^32, so a frozen sample reads as
  recent once in 53.7 s (`RcLink` stops short of it, see section 4).
* Rot that makes NVS report "not found" gives the defaults without an alert, and a partition NVS
  refuses for another reason aborts the boot, at every boot (`app_main`, `ESP_ERROR_CHECK`).
* A power cut in a write makes the boot resume on the torn slot, which spoils the next record; the
  dump prints samples older than the newest header under it once the ring has wrapped
  (`usb_console.c:49` knows orphans only); attempts rejected during a tail are never logged.
* Boot and calibration send 1500 us as neutral whatever `esc_neutral_us` is.
* A client beyond the cap of the telemetry set keeps its socket and gets no frames; a timer that
  cannot be created leaves its client in its slot; nothing calls `ws_telemetry_stop`.

## 8. What is not modelled, and why

* **Device I/O without protocol state**: PWM (the last pulse written is the variable `out`), LED, Wi-Fi
  configuration, the drivers below I2C, UART, NVS and HTTP. What the code relies on in them is modelled
  where it is used and is marked external.
* **The sensor library** (`components/sh2`, vendored) beyond what the driver waits on: the assembly of
  packets, timestamps, and commands nothing uses.
* **The phone app and the web page**: their commands reach `ControlLoop` in any order. The app's
  reconciler of intent and telemetry (stage 12) is not modelled, nor are the views, JSON and HTML.
* **Numerics without state**: `geo_math`, quaternion to heading, speed and course of the GPS, PWM duty.
* **Real time within a cycle**: execution time, and the blocking of the loop by a flash write.
* **What TLC does not finish**: a client of all settings together with all buttons (run `goto` has one that
  edits the CH4 switch alone), several independent faults of the recorder, two editing clients.
