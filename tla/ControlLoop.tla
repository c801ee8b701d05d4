----------------------------- MODULE ControlLoop -----------------------------
(***************************************************************************)
(* The control task around the pure core (components/control_loop/src/     *)
(* control_loop.c) with the tasks that talk to it: the HTTP server behind  *)
(* the panel and the app, and the USB console.                             *)
(*                                                                         *)
(* The tasks share two mailboxes of length one, where the newest post      *)
(* overwrites an unread one, and read the active settings and the last     *)
(* published state without a lock.  The control task alone writes the      *)
(* settings, the goto latch and flash.  One run_one_cycle is one step: a   *)
(* post during a cycle counts as one before or after it.                   *)
(***************************************************************************)
EXTENDS LoopStep, Switches

CONSTANTS
  Boot,          \* the settings flash holds at the first boot
  Frames,        \* what the RC receiver and the sensors may show in a cycle
  Keywords,      \* the commands the panel and the app post
  Targets,       \* the positions a goto may name
  Clients,       \* the tasks that edit settings, a subset of {"panel", "console"}
  Edits,         \* per client, the partial settings it may ask for
  CopySplits,    \* the sets of fields a copy may have read when preempted
  TrimStep,      \* SERVO_TRIM_STEP_US
  CommitCycles   \* COMMIT_DEBOUNCE_DEFAULT_MS, in control cycles

VARIABLES
  params,    \* s_params, the active settings
  nvs,       \* the settings in flash
  pending,   \* s_pending_queue: settings waiting to be applied, or Empty
  ui_queue,  \* s_ui_queue: the command waiting for the next cycle, or Empty
  commit,    \* s_commit and s_force_commit: [dirty, force, age]
  goto,      \* s_goto_*: [engage, target, fresh], fresh the link in the last cycle
  ch3, ch4,  \* the switch debouncers
  clicks,    \* s_click, the open CH4 burst
  client     \* what each editing task is doing: [pc, copy]

taskVars == <<params, nvs, pending, ui_queue, commit, goto, ch3, ch4, clicks, client>>
vars == <<loopVars, taskVars>>

\* No message, and no copy; of the types of both mailboxes.
Empty == [none |-> TRUE]

FrameType ==
  [frame_valid : BOOLEAN, ch1_us : Nat, ch2_us : Nat, ch3 : Levels, ch4 : Levels,
   gps_fresh : BOOLEAN, gps_fix : BOOLEAN, pos : Int, imu_ok : BOOLEAN, heading : Headings]

CommandKeywords ==
  {"arm", "disarm", "deploy", "stow", "calib_start", "calib_next", "calib_cancel",
   "trim_left", "trim_right", "trim_save", "goto", "goto_cancel", "hold"}

\* The fields of settings_params the control task reads.
ParamNames ==
  {"rc_min_us", "rc_mid_us", "rc_max_us", "steer_deadband_us", "throttle_deadband_us",
   "servo_reverse", "throttle_reverse", "servo_slew_us_per_cycle", "servo_min_us",
   "servo_max_us", "servo_trim_us", "deploy_servo_us", "esc_ramp_up_us_per_cycle",
   "esc_ramp_down_us_per_cycle", "max_throttle_fwd_pct", "max_throttle_rev_pct",
   "reverse_neutral_dwell_ms", "esc_neutral_us", "esc_forward_max_us", "esc_reverse_max_us",
   "spot_lock_deadband_m", "spot_lock_max_throttle_pct", "spot_lock_throttle_gain",
   "spot_lock_servo_gain", "goto_slowdown_distance_m", "ch4_mode_switch_enabled",
   "click_window_ms"}

ASSUME ControlLoopAssumption ==
  /\ ValidParams(Boot) /\ DOMAIN Boot = ParamNames
  /\ Keywords \subseteq CommandKeywords
  /\ Frames \subseteq FrameType
  /\ Targets \subseteq Int /\ Targets # {}
  /\ Clients \subseteq {"panel", "console"}
  /\ TrimStep \in Nat /\ CommitCycles \in Nat

-----------------------------------------------------------------------------
(* The commands (command_parse.c, http_server.c).                          *)

NoEvents ==
  [req |-> {}, calib_event |-> "NONE", trim |-> "none", goto |-> "none", target |-> 0]

Event(keyword, target) ==
  CASE keyword \in {"arm", "disarm", "deploy", "stow"} -> [NoEvents EXCEPT !.req = {keyword}]
    [] keyword = "calib_start"  -> [NoEvents EXCEPT !.req = {"calib", "confirm"}]
    [] keyword = "calib_next"   -> [NoEvents EXCEPT !.calib_event = "NEXT"]
    [] keyword = "calib_cancel" -> [NoEvents EXCEPT !.calib_event = "CANCEL"]
    [] keyword = "trim_left"    -> [NoEvents EXCEPT !.trim = "left"]
    [] keyword = "trim_right"   -> [NoEvents EXCEPT !.trim = "right"]
    [] keyword = "trim_save"    -> [NoEvents EXCEPT !.trim = "save"]
    [] keyword = "goto"         -> [NoEvents EXCEPT !.goto = "goto", !.target = target]
    [] keyword = "goto_cancel"  -> [NoEvents EXCEPT !.goto = "cancel"]
    [] keyword = "hold"         -> [NoEvents EXCEPT !.goto = "hold"]

Post(keyword, target) ==
  /\ ui_queue' = Event(keyword, target)
  /\ UNCHANGED <<loopVars, params, nvs, pending, commit, goto, ch3, ch4, clicks, client>>

PostCommand == \E keyword \in Keywords, target \in Targets : Post(keyword, target)

-----------------------------------------------------------------------------
(* Editing settings: copy the active ones, overlay the fields asked for,   *)
(* validate, and stage the whole struct.  The copy is not atomic.          *)

ClientIdle == [pc |-> "idle", copy |-> Empty]

BeginCopy(c) ==
  /\ client[c].pc = "idle"
  /\ \E early \in CopySplits :
       client' = [client EXCEPT ![c] =
         [pc |-> "copying", copy |-> [field \in early |-> params[field]]]]
  /\ UNCHANGED <<loopVars, params, nvs, pending, ui_queue, commit, goto, ch3, ch4, clicks>>

\* The edit over the fields copied early over those read now.
Merged(edit, copy) ==
  [field \in DOMAIN params |->
     IF field \in DOMAIN edit THEN edit[field]
     ELSE IF field \in DOMAIN copy THEN copy[field] ELSE params[field]]

\* Faulty: fields are checked one by one, not against each other.
AcceptsFieldwise(c, candidate) ==
  FieldsInRange(candidate) /\ (c = "panel" => state = "DISARMED")

\* Invalid settings are refused; the panel also refuses unless the last published
\* state is DISARMED, the console stages in any state.
Accepts(c, candidate) == ValidParams(candidate) /\ (c = "panel" => state = "DISARMED")

Decide(c) ==
  /\ client[c].pc = "copying"
  /\ \E edit \in Edits[c] :
       LET candidate == Merged(edit, client[c].copy)
       IN  client' = [client EXCEPT ![c] =
             IF Accepts(c, candidate) THEN [pc |-> "accepted", copy |-> candidate]
             ELSE ClientIdle]
  /\ UNCHANGED <<loopVars, params, nvs, pending, ui_queue, commit, goto, ch3, ch4, clicks>>

\* The state may have changed since the decision.
PostPending(c) ==
  /\ client[c].pc = "accepted"
  /\ pending' = client[c].copy
  /\ client' = [client EXCEPT ![c] = ClientIdle]
  /\ UNCHANGED <<loopVars, params, nvs, ui_queue, commit, goto, ch3, ch4, clicks>>

-----------------------------------------------------------------------------
(* The parts of run_one_cycle, in order.                                   *)

ShouldApplyPending(s) == s = "DISARMED"
TrimAllowed(s) == s \in {"DISARMED", "ARMED"}

\* Faulty: the state is not checked again when the settings are applied.
AppliesInAnyState == pending # Empty

Applies == pending # Empty /\ ShouldApplyPending(state)

Trimmed(p, trim) ==
  IF ~TrimAllowed(state) \/ trim \notin {"left", "right"} THEN p
  ELSE [p EXCEPT !.servo_trim_us =
          ServoTrimStepped(@, IF trim = "right" THEN 1 ELSE -1, TrimStep)]

\* A goto names its target; a hold is a goto to where the boat is, if the fix it
\* grabs is usable.  The grab samples the fix apart from the rest of the cycle.
Grabs(ev) == IF ev.goto = "hold" THEN BOOLEAN ELSE {FALSE}

GotoStaged(ev, f, grabbed) ==
  CASE ev.goto = "goto"   -> [goto EXCEPT !.engage = TRUE, !.target = ev.target]
    [] grabbed            -> [goto EXCEPT !.engage = TRUE, !.target = f.pos]
    [] ev.goto = "cancel" -> [goto EXCEPT !.engage = FALSE]
    [] OTHER              -> goto

\* The link goes stale some time after the last stamp; settings with a longer time-out, or
\* the clock coming round, make it fresh again.
LinkFreshness(ev, grabbed) == IF ev.goto = "goto" \/ grabbed THEN {TRUE} ELSE BOOLEAN

ClickWindowFrames(p) == (p.click_window_ms + LoopPeriodMs - 1) \div LoopPeriodMs

\* Faulty: the click that disarms counts as the first of a burst.
Ch4BurstKept(cl) == cl.burst

\* Bursts are counted in DISARMED and DEPLOY only.
Ch4Burst(cl) == IF state \in {"DISARMED", "DEPLOY"} THEN cl.burst ELSE ClicksReset

\* What a click, or the gesture it completes, requests in each state.
Ch4Requests(click, gesture) ==
  CASE state = "ARMED" /\ click                      -> {"disarm"}
    [] state = "DISARMED" /\ gesture = "SINGLE"      -> {"arm"}
    [] state = "DISARMED" /\ gesture = "TRIPLE"      -> {"deploy"}
    [] state = "DEPLOY" /\ gesture = "TRIPLE"        -> {"stow"}
    [] OTHER                                         -> {}

\* CH4 in this cycle: its debouncer, the burst and the requests it adds.
Ch4Cycle(level, p) ==
  LET sw    == SwitchUpdate(ch4, level)
      click == SwitchEdge(ch4, sw)
      cl    == ClickUpdate(clicks, click, ClickWindowFrames(p))
  IN  IF p.ch4_mode_switch_enabled
        THEN [sw |-> sw, burst |-> Ch4Burst(cl), req |-> Ch4Requests(click, cl.gesture)]
        ELSE [sw |-> ch4, burst |-> clicks, req |-> {}]

CycleInputs(f, ev, g, fresh, ch4req, ch3new) ==
  [frame_valid |-> f.frame_valid, ch1_us |-> f.ch1_us, ch2_us |-> f.ch2_us,
   req |-> ev.req \cup ch4req, calib_event |-> ev.calib_event, calib_timeout |-> FALSE,
   ch3_on |-> ch3new.is_high, ch3_edge |-> SwitchRises(ch3, ch3new),
   gps_fresh |-> f.gps_fresh, gps_fix |-> f.gps_fix, pos |-> f.pos, imu_ok |-> f.imu_ok,
   heading |-> f.heading, goto_engage |-> g.engage, goto_target |-> g.target,
   comms_fresh |-> fresh]

CommitClean == [dirty |-> FALSE, force |-> FALSE, age |-> 0]

\* Faulty: applied settings are not marked for the commit.
CommitMarkedTrimsOnly(ev) ==
  LET trims == TrimAllowed(state) /\ ev.trim # "none"
  IN  [dirty |-> commit.dirty \/ trims, force |-> commit.force \/ (trims /\ ev.trim = "save"),
       age |-> IF trims THEN 0 ELSE IF commit.age < CommitCycles THEN commit.age + 1 ELSE commit.age]

\* The commit debounce after the changes of this cycle, before the commit.
CommitMarked(ev) ==
  LET trims == TrimAllowed(state) /\ ev.trim # "none"
  IN  [dirty |-> commit.dirty \/ Applies \/ trims,
       force |-> commit.force \/ (trims /\ ev.trim = "save"),
       age |-> IF Applies \/ trims THEN 0
               ELSE IF commit.dirty /\ commit.age < CommitCycles THEN commit.age + 1
               ELSE commit.age]

\* Written only if the cycle ends DISARMED; a failed write stays dirty, and one that
\* reports a failure may still have stored the blob.
CommitDue(marked, s) ==
  ShouldApplyPending(s) /\ marked.dirty /\ (marked.force \/ marked.age >= CommitCycles)

RunOneCycle(f) ==
  LET ev     == IF ui_queue = Empty THEN NoEvents ELSE ui_queue
      p      == Trimmed(IF Applies THEN pending ELSE params, ev.trim)
      button == Ch4Cycle(f.ch4, p)
      ch3new == SwitchUpdate(ch3, f.ch3)
      marked == CommitMarked(ev)
  IN  /\ ui_queue' = Empty
      /\ pending' = IF Applies THEN Empty ELSE pending
      /\ params' = p
      /\ ch3' = ch3new /\ ch4' = button.sw /\ clicks' = button.burst
      /\ \E grabbed \in Grabs(ev) : \E fresh \in LinkFreshness(ev, grabbed) :
           LET g == GotoStaged(ev, f, grabbed)
           IN  /\ LoopStep(CycleInputs(f, ev, g, fresh, button.req, ch3new), p)
               /\ goto' = [g EXCEPT !.fresh = fresh, !.engage = @ /\ ~out'.goto_latch_clear]
      /\ \E stored, ok \in IF CommitDue(marked, state') THEN BOOLEAN ELSE {FALSE} :
           /\ ok => stored
           /\ nvs' = IF stored THEN p ELSE nvs
           /\ commit' = IF ok THEN CommitClean ELSE marked
      /\ UNCHANGED client

-----------------------------------------------------------------------------
(* Boot, and a reset at any moment (brown-out, watchdog): only flash stays. *)

\* The stamp boots at 0, so the link reads fresh until the first timeout expires.
GotoNone == [engage |-> FALSE, target |-> 0, fresh |-> TRUE]
ClientsIdle == [c \in Clients |-> ClientIdle]

InitOf(boot) ==
  /\ params = boot      /\ nvs = boot
  /\ pending = Empty    /\ ui_queue = Empty   /\ commit = CommitClean
  /\ goto = GotoNone    /\ client = ClientsIdle
  /\ ch3 = SwitchInit   /\ ch4 = SwitchInit   /\ clicks = ClicksReset
  /\ LoopInit(boot)

Init == InitOf(Boot)

Reset ==
  /\ params' = nvs      /\ UNCHANGED nvs
  /\ pending' = Empty   /\ ui_queue' = Empty  /\ commit' = CommitClean
  /\ goto' = GotoNone   /\ client' = ClientsIdle
  /\ ch3' = SwitchInit  /\ ch4' = SwitchInit  /\ clicks' = ClicksReset
  /\ LoopReset(nvs)

Next ==
  \/ PostCommand
  \/ \E c \in Clients : BeginCopy(c) \/ Decide(c) \/ PostPending(c)
  \/ \E f \in Frames : RunOneCycle(f)
  \/ Reset

Spec == Init /\ [][Next]_vars

-----------------------------------------------------------------------------
(* Type invariant.                                                         *)

Staged == {pending} \cup {client[c].copy : c \in {d \in Clients : client[d].pc = "accepted"}}

\* The longest dwell the settings allow: one that is waited out was armed under the settings
\* of its cycle, and they may have changed since.
DwellMax == ReverseDwellFrames([reverse_neutral_dwell_ms |-> 2000])

\* Every mailbox, latch and counter stays in its domain; a settings record keeps
\* its fields through every copy, overlay and post.
LoopTypeOK ==
  /\ CoreTypeOK(DwellMax)
  /\ \A p \in {params, nvs} \cup (Staged \ {Empty}) :
       DOMAIN p = DOMAIN Boot /\ FieldsInRange(p)
  /\ commit \in [dirty : BOOLEAN, force : BOOLEAN, age : 0..CommitCycles]
  /\ goto.engage \in BOOLEAN /\ goto.fresh \in BOOLEAN /\ goto.target \in Int
  /\ ch3 \in SwitchType /\ ch4 \in SwitchType
  /\ clicks \in [count : 0..(ClickTripleCount - 1),
                 frames_since_last : 0..(ClickWindowFrames([click_window_ms |-> 1000]) - 1)]
  /\ \A c \in Clients : client[c].pc \in {"idle", "copying", "accepted"}

-----------------------------------------------------------------------------
(* The core in the task.                                                   *)

\* Under settings that change between cycles, and over resets, the core keeps its
\* invariant, and the pulse stays in the map of the settings in force.
LoopInv == LoopTypeOK /\ CoreInv(DwellMax) /\ PulseConfinedTo(params)

\* Every cycle of the task keeps the contract of the core under the settings it runs with:
\* ramps, caps and stops follow an edit at once, and no edit, command or latch gets round
\* them.
TaskKeepsContract == [][Reset \/ CoreContract(params')]_loopVars

\* The task, with its mailboxes, edits and resets, implements the abstract contract.
TaskImplementsMode == Mode!ModeResetSpec

-----------------------------------------------------------------------------
(* Settings.                                                               *)

\* The settings in force, in flash and waiting satisfy the cross-field rules
\* together, though clients validate edits of a copy that may be torn or stale.
SettingsAlwaysValid ==
  /\ ValidParams(params) /\ ValidParams(nvs)
  /\ pending # Empty => ValidParams(pending)

\* A clean commit state means flash holds the settings in force: whatever was
\* applied, trimmed or failed to be written, a reset then loses nothing.
CleanMeansPersisted == ~commit.dirty => nvs = params

\* Settings change only in a cycle begun in DISARMED, except for the servo trim in
\* ARMED, whatever the state was when the change was accepted and staged.
SettingsFrozenOutsideDisarmed ==
  [][params' # params =>
       \/ state = "DISARMED" \/ Reset
       \/ state = "ARMED" /\ params' = [params EXCEPT !.servo_trim_us = params'.servo_trim_us]]_vars

-----------------------------------------------------------------------------
(* Arming.                                                                 *)

Consumed(request) == ui_queue # Empty /\ ui_queue' = Empty /\ request \in ui_queue.req

Ch4Clicked == ch4.initialised /\ ch4'.initialised /\ ch4'.is_high # ch4.is_high

\* A disarm command reaching a cycle, or one accepted CH4 click, ends ARMED in that
\* cycle, whatever else was requested in it.
DisarmEndsArmed ==
  [][(state = "ARMED" /\ (Consumed("disarm") \/ Ch4Clicked)) => state' # "ARMED"]_vars

\* The unit is armed only on an arm command, or on a CH4 burst of exactly one click
\* that a full silent window closed: never by two or three clicks, nor by the
\* clicks that follow the one that disarmed it.
ArmingIsRequested ==
  [][(state # "ARMED" /\ state' = "ARMED") =>
       \/ Consumed("arm")
       \/ /\ clicks.count = 1 /\ clicks'.count = 0
          /\ clicks.frames_since_last + 1 >= ClickWindowFrames(params')]_vars

\* The motor goes up only on a deploy command, or on a third click in DISARMED; and the click
\* that disarms is none of the three: the burst is empty after it, or frozen as CH4 is disabled.
DisarmingClickNeverDeploys ==
  [][/\ (state = "ARMED" /\ state' = "DISARMED") =>
          clicks'.count = 0 \/ (~params.ch4_mode_switch_enabled /\ clicks' = clicks)
     /\ (state # "DEPLOY" /\ state' = "DEPLOY") =>
          \/ Consumed("deploy")
          \/ state = "DISARMED" /\ clicks.count = ClickTripleCount - 1 /\ Ch4Clicked]_vars

-----------------------------------------------------------------------------
(* Goto and hold.                                                          *)

Engaged(source) == spot_lock.substate # "OFF" /\ spot_lock.source = source

\* An engaged goto is a latched one: the regulator never drives to a target the task has
\* let go of, and after a cycle that found the link fresh it drives to the one commanded
\* last.  (Over a stale link it may keep an older one, even of before a disarm.)
EngagedGotoIsLatched ==
  Engaged("GOTO") => goto.engage /\ (goto.fresh => spot_lock.ref = goto.target)

\* While CH3 is on in ARMED no goto waits behind it to resume when it is released.
NoGotoBehindCh3 == (state = "ARMED" /\ ch3.is_high) => ~goto.engage

\* A goto that ends while the unit stays ARMED (throttle gesture, CH3 or cancel)
\* ends for good: only a new command engages it again, not the end of the gesture.
EndedGotoStaysEnded ==
  [][(Engaged("GOTO") /\ state' = "ARMED" /\ ~(spot_lock'.source = "GOTO"))
       => ~goto'.engage]_vars

\* In ARMED, a hold whose switch stays on is dropped only by the completed throttle
\* gesture: bumps of the sticks, sensor losses and app commands never drop it.
HoldDroppedOnlyByGesture ==
  [][(Engaged("HOLD") /\ ch3'.is_high /\ state' = "ARMED" /\ spot_lock'.substate = "OFF")
       => spot_lock.override_frames = OverrideHoldFrames - 1]_vars

\* A hold is entered anew only on a rising CH3 this cycle: a switch that was on at
\* boot, or that stayed on through the throttle gesture, never enters one.
HoldEnteredOnRisingCh3 ==
  [][(spot_lock.source # "HOLD" /\ spot_lock'.source = "HOLD")
       => ch3.initialised /\ ~ch3.is_high /\ ch3'.is_high]_vars

-----------------------------------------------------------------------------
(* What comments in the code say of it, and the code does not do.          *)

\* params_api.c: a partial post updates a subset of the settings, so the servo
\* trim, which no edit here names, changes only by trim commands (and a reset).
TrimChangesOnlyByTrimming ==
  [][params'.servo_trim_us # params.servo_trim_us =>
       Reset \/ (ui_queue # Empty /\ ui_queue.trim \in {"left", "right"})]_vars
=============================================================================
