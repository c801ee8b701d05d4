-------------------------- MODULE ControlLoopProofs --------------------------
(***************************************************************************)
(* The control task keeps its settings, its latches and its sessions in    *)
(* step with clients, flash and resets, for every settings in flash, every *)
(* edit, every split of a copy and every input.                            *)
(*                                                                         *)
(* Two invariants: SettingsInv on settings in force, in flash, staged and  *)
(* decided, and TaskInv on the types of the rest.  Each has a lemma per    *)
(* kind of step.                                                           *)
(***************************************************************************)
EXTENDS ControlLoop, LoopStepProofs

-----------------------------------------------------------------------------
(* Settings.                                                               *)

\* Settings that are valid, and have the fields the control task reads.
Legal(p) == DOMAIN p = ParamNames /\ ValidParams(p)

SettingsInv ==
  /\ Legal(params) /\ Legal(nvs)
  /\ pending # Empty => Legal(pending)
  /\ DOMAIN client = Clients
  /\ \A c \in Clients : client[c].pc = "accepted" => Legal(client[c].copy)
  /\ commit.dirty \in BOOLEAN
  /\ ~commit.dirty => nvs = params

\* Only the servo trim differs: the other fields keep their ranges and orders.
LEMMA TrimReplaced ==
  ASSUME NEW p, Legal(p), NEW v \in -TrimMax..TrimMax
  PROVE  Legal([p EXCEPT !.servo_trim_us = v])
<1> DEFINE q == [p EXCEPT !.servo_trim_us = v]
<1>1. DOMAIN q = ParamNames
  BY DEF Legal
<1>2. \A f \in ParamNames : q[f] = IF f = "servo_trim_us" THEN v ELSE p[f]
  BY DEF Legal
<1>3. /\ q.rc_min_us = p.rc_min_us /\ q.rc_mid_us = p.rc_mid_us /\ q.rc_max_us = p.rc_max_us
      /\ q.steer_deadband_us = p.steer_deadband_us
      /\ q.throttle_deadband_us = p.throttle_deadband_us
      /\ q.servo_reverse = p.servo_reverse /\ q.throttle_reverse = p.throttle_reverse
  BY <1>2 DEF ParamNames
<1>4. /\ q.servo_slew_us_per_cycle = p.servo_slew_us_per_cycle
      /\ q.servo_min_us = p.servo_min_us /\ q.servo_max_us = p.servo_max_us
      /\ q.servo_trim_us = v /\ q.deploy_servo_us = p.deploy_servo_us
  BY <1>2 DEF ParamNames
<1>5. /\ q.esc_ramp_up_us_per_cycle = p.esc_ramp_up_us_per_cycle
      /\ q.esc_ramp_down_us_per_cycle = p.esc_ramp_down_us_per_cycle
      /\ q.max_throttle_fwd_pct = p.max_throttle_fwd_pct
      /\ q.max_throttle_rev_pct = p.max_throttle_rev_pct
      /\ q.reverse_neutral_dwell_ms = p.reverse_neutral_dwell_ms
  BY <1>2 DEF ParamNames
<1>6. /\ q.esc_neutral_us = p.esc_neutral_us /\ q.esc_forward_max_us = p.esc_forward_max_us
      /\ q.esc_reverse_max_us = p.esc_reverse_max_us
  BY <1>2 DEF ParamNames
<1>7. /\ q.spot_lock_deadband_m = p.spot_lock_deadband_m
      /\ q.spot_lock_max_throttle_pct = p.spot_lock_max_throttle_pct
      /\ q.spot_lock_throttle_gain = p.spot_lock_throttle_gain
      /\ q.spot_lock_servo_gain = p.spot_lock_servo_gain
      /\ q.goto_slowdown_distance_m = p.goto_slowdown_distance_m
  BY <1>2 DEF ParamNames
<1>8. /\ q.ch4_mode_switch_enabled = p.ch4_mode_switch_enabled
      /\ q.click_window_ms = p.click_window_ms
  BY <1>2 DEF ParamNames
<1> HIDE DEF q
<1>9. /\ RcFields(p) /\ ServoFields(p) /\ ThrottleFields(p) /\ EscFields(p)
      /\ SpotLockFields(p) /\ Ch4Fields(p) /\ FieldsInOrder(p)
  BY Zenon DEF Legal, ValidParams, FieldsInRange
<1>10. /\ RcFields(q)
       /\ ThrottleFields(q)
       /\ EscFields(q)
       /\ SpotLockFields(q)
       /\ Ch4Fields(q)
  <2>1. RcFields(q)
    BY <1>3, <1>9 DEF RcFields
  <2>2. ThrottleFields(q)
    BY <1>5, <1>9 DEF ThrottleFields
  <2>3. EscFields(q)
    BY <1>6, <1>9 DEF EscFields
  <2>4. SpotLockFields(q)
    BY <1>7, <1>9 DEF SpotLockFields
  <2>5. Ch4Fields(q)
    BY <1>8, <1>9 DEF Ch4Fields
  <2> QED BY <2>1, <2>2, <2>3, <2>4, <2>5
<1>11. ServoFields(q)
  BY <1>4, <1>9 DEF ServoFields
<1>12. FieldsInOrder(q)
  BY <1>3, <1>4, <1>6, <1>9 DEF FieldsInOrder
<1> QED
  BY <1>1, <1>10, <1>11, <1>12, Zenon DEF Legal, ValidParams, FieldsInRange, q

\* A trim command keeps settings legal.
LEMMA TrimmedLegal ==
  ASSUME NEW p, Legal(p), NEW trim
  PROVE  Legal(Trimmed(p, trim))
<1>1. CASE ~TrimAllowed(state) \/ trim \notin {"left", "right"}
  BY <1>1 DEF Trimmed
<1>2. CASE TrimAllowed(state) /\ trim \in {"left", "right"}
  <2> DEFINE direction == IF trim = "right" THEN 1 ELSE -1
             v == ServoTrimStepped(p.servo_trim_us, direction, TrimStep)
  <2>1. Trimmed(p, trim) = [p EXCEPT !.servo_trim_us = v]
    <3>1. "servo_trim_us" \in DOMAIN p
      BY DEF Legal, ParamNames
    <3> QED
      BY <1>2, <3>1 DEF Trimmed
  <2>2. p.servo_trim_us \in Int
    <3>1. p.servo_trim_us \in -TrimMax..TrimMax
      BY ServoParams DEF Legal
    <3> QED
      BY <3>1 DEF TrimMax
  <2>3. direction * TrimStep \in Int
    <3>1. TrimStep \in Nat /\ direction \in {-1, 1}
      BY ControlLoopAssumption
    <3> QED
      BY <3>1
  <2>4. v \in -TrimMax..TrimMax
    <3> HIDE DEF direction
    <3>1. v = Clamp(p.servo_trim_us + direction * TrimStep, -TrimMax, TrimMax)
      BY DEF ServoTrimStepped
    <3>2. p.servo_trim_us + direction * TrimStep \in Int
      BY <2>2, <2>3
    <3>3. -TrimMax \in Int /\ TrimMax \in Int /\ -TrimMax <= TrimMax
      BY DEF TrimMax
    <3> QED
      BY <3>1, <3>2, <3>3, ClampInWindow, Zenon
  <2> HIDE DEF v
  <2> QED
    BY <2>1, <2>4, TrimReplaced
<1> QED
  BY <1>1, <1>2

\* The overlaid copy has the fields of the settings in force.
LEMMA DecidedLegal ==
  ASSUME NEW c, NEW edit, NEW copy, Legal(params), Accepts(c, Merged(edit, copy))
  PROVE  Legal(Merged(edit, copy))
<1>1. DOMAIN Merged(edit, copy) = DOMAIN params
  BY DEF Merged
<1> QED
  BY <1>1 DEF Legal, Accepts

-----------------------------------------------------------------------------
(* One control cycle, by its intermediate results.                         *)

Ev == IF ui_queue = Empty THEN NoEvents ELSE ui_queue
InForce == Trimmed(IF Applies THEN pending ELSE params, Ev.trim)
Button(f) == Ch4Cycle(f.ch4, InForce)
Ch3New(f) == SwitchUpdate(ch3, f.ch3)
Staging(f, grabbed) == GotoStaged(Ev, f, grabbed)
Inputs(f, grabbed, fresh) ==
  CycleInputs(f, Ev, Staging(f, grabbed), fresh, Button(f).req, Ch3New(f))

\* A cycle is a step of the core on its inputs, and what the task does around it.
LEMMA CycleShape ==
  ASSUME NEW f, RunOneCycle(f)
  PROVE  /\ ui_queue' = Empty
         /\ pending' = IF Applies THEN Empty ELSE pending
         /\ params' = InForce
         /\ ch3' = Ch3New(f) /\ ch4' = Button(f).sw /\ clicks' = Button(f).burst
         /\ \E grabbed \in Grabs(Ev) : \E fresh \in LinkFreshness(Ev, grabbed) :
              /\ LoopStep(Inputs(f, grabbed, fresh), InForce)
              /\ goto' = [Staging(f, grabbed) EXCEPT
                            !.fresh = fresh, !.engage = @ /\ ~out'.goto_latch_clear]
         /\ \E stored, ok \in IF CommitDue(CommitMarked(Ev), state') THEN BOOLEAN ELSE {FALSE} :
              /\ ok => stored
              /\ nvs' = IF stored THEN InForce ELSE nvs
              /\ commit' = IF ok THEN CommitClean ELSE CommitMarked(Ev)
         /\ UNCHANGED client
  BY Zenon DEF RunOneCycle, Ev, InForce, Button, Ch3New, Staging, Inputs

\* The settings a cycle puts in force: what was staged if the unit is DISARMED, and a
\* trim.
LEMMA InForceLegal ==
  ASSUME SettingsInv
  PROVE  Legal(InForce)
<1>1. Legal(IF Applies THEN pending ELSE params)
  BY DEF SettingsInv, Applies
<1> QED
  BY <1>1, TrimmedLegal DEF InForce

\* Without an applied edit or a trim the settings in force stay, and with one the
\* commit is marked.
LEMMA UnmarkedMeansUnchanged ==
  ASSUME SettingsInv, ~CommitMarked(Ev).dirty
  PROVE  InForce = params /\ ~commit.dirty
<1> DEFINE trims == TrimAllowed(state) /\ Ev.trim # "none"
<1>1. CommitMarked(Ev).dirty = (commit.dirty \/ Applies \/ trims)
  BY DEF CommitMarked
<1>2. ~commit.dirty /\ ~Applies /\ ~trims
  BY <1>1
<1>3. InForce = Trimmed(params, Ev.trim)
  BY <1>2 DEF InForce
<1>4. Trimmed(params, Ev.trim) = params
  BY <1>2 DEF Trimmed
<1> QED
  BY <1>2, <1>3, <1>4

\* A cycle keeps the settings legal and knows whether flash has them.
LEMMA CycleKeepsSettings ==
  ASSUME SettingsInv, NEW f, RunOneCycle(f)
  PROVE  SettingsInv'
<1>1. Legal(params')
  BY CycleShape, InForceLegal
<1>2. PICK stored, ok \in IF CommitDue(CommitMarked(Ev), state') THEN BOOLEAN ELSE {FALSE} :
        /\ ok => stored
        /\ nvs' = IF stored THEN InForce ELSE nvs
        /\ commit' = IF ok THEN CommitClean ELSE CommitMarked(Ev)
  BY CycleShape
<1>3. Legal(nvs')
  BY <1>2, InForceLegal DEF SettingsInv
<1>4. pending' # Empty => Legal(pending')
  BY CycleShape DEF SettingsInv
<1>5. commit'.dirty \in BOOLEAN
  <2>1. CommitMarked(Ev).dirty \in BOOLEAN /\ CommitClean.dirty \in BOOLEAN
    BY DEF CommitMarked, CommitClean
  <2> QED BY <1>2, <2>1
<1>6. ~commit'.dirty => nvs' = params'
  <2>1. CASE ok
    BY <1>2, <2>1, CycleShape
  <2>2. CASE ~ok
    <3>1. ASSUME ~commit'.dirty
          PROVE  nvs' = params'
      <4>1. InForce = params /\ ~commit.dirty
        BY <1>2, <2>2, <3>1, UnmarkedMeansUnchanged
      <4> QED BY <1>2, <4>1, CycleShape DEF SettingsInv
    <3> QED BY <3>1
  <2> QED BY <2>1, <2>2
<1>7. client' = client
  BY CycleShape
<1> QED
  BY <1>1, <1>3, <1>4, <1>5, <1>6, <1>7 DEF SettingsInv

\* The steps of a client keep what it has decided on legal.
LEMMA ClientKeepsSettings ==
  ASSUME SettingsInv, NEW c \in Clients, BeginCopy(c) \/ Decide(c) \/ PostPending(c)
  PROVE  SettingsInv'
<1>1. CASE BeginCopy(c)
  BY <1>1 DEF BeginCopy, SettingsInv
<1>2. CASE Decide(c)
  <2>1. PICK edit \in Edits[c] :
          client' = [client EXCEPT ![c] =
            IF Accepts(c, Merged(edit, client[c].copy))
              THEN [pc |-> "accepted", copy |-> Merged(edit, client[c].copy)]
              ELSE ClientIdle]
    BY <1>2 DEF Decide
  <2>2. Accepts(c, Merged(edit, client[c].copy)) => Legal(Merged(edit, client[c].copy))
    BY DecidedLegal DEF SettingsInv
  <2>3. UNCHANGED <<params, nvs, pending, commit>>
    BY <1>2 DEF Decide
  <2>4. client'[c].pc = "accepted" => Legal(client'[c].copy)
    BY <2>1, <2>2 DEF SettingsInv, ClientIdle
  <2>5. /\ DOMAIN client' = Clients
        /\ \A d \in Clients : d # c => client'[d] = client[d]
    BY <2>1 DEF SettingsInv
  <2> QED BY <2>3, <2>4, <2>5 DEF SettingsInv
<1>3. CASE PostPending(c)
  <2>1. Legal(pending')
    BY <1>3 DEF PostPending, SettingsInv
  <2>2. /\ DOMAIN client' = Clients /\ client'[c] = ClientIdle
        /\ \A d \in Clients : d # c => client'[d] = client[d]
        /\ UNCHANGED <<params, nvs, commit>>
    BY <1>3 DEF PostPending, SettingsInv
  <2> QED BY <2>1, <2>2 DEF SettingsInv, ClientIdle
<1> QED
  BY <1>1, <1>2, <1>3

\* At boot flash holds the settings in force, and nothing is staged.
LEMMA SettingsInit == Init => SettingsInv
  BY ControlLoopAssumption
     DEF Init, InitOf, SettingsInv, Legal, CommitClean, ClientsIdle, ClientIdle

\* Every step of the control task keeps the settings invariant.
LEMMA SettingsStep == SettingsInv /\ [Next]_vars => SettingsInv'
<1> SUFFICES ASSUME SettingsInv, [Next]_vars
             PROVE  SettingsInv'
  OBVIOUS
<1>1. CASE PostCommand
  BY <1>1 DEF PostCommand, Post, SettingsInv
<1>2. CASE \E c \in Clients : BeginCopy(c) \/ Decide(c) \/ PostPending(c)
  BY <1>2, ClientKeepsSettings
<1>3. CASE \E f \in Frames : RunOneCycle(f)
  BY <1>3, CycleKeepsSettings
<1>4. CASE Reset
  BY <1>4 DEF Reset, SettingsInv, CommitClean, ClientsIdle, ClientIdle
<1>5. CASE UNCHANGED vars
  BY <1>5 DEF vars, taskVars, SettingsInv
<1> QED
  BY <1>1, <1>2, <1>3, <1>4, <1>5 DEF Next

\* The settings invariant of the control task holds.
THEOREM SettingsInvariant == Spec => []SettingsInv
  BY SettingsInit, SettingsStep, PTL DEF Spec

\* Whatever clients copy, overlay and post, whatever is trimmed and whichever write
\* fails, the settings in force, in flash and staged keep every range and order.
THEOREM SettingsStayValid == Spec => []SettingsAlwaysValid
<1>1. SettingsInv => SettingsAlwaysValid
  BY DEF SettingsInv, SettingsAlwaysValid, Legal
<1> QED BY <1>1, SettingsInvariant, PTL

\* With nothing marked for the commit, flash holds the settings in force.
THEOREM CleanIsPersisted == Spec => []CleanMeansPersisted
<1>1. SettingsInv => CleanMeansPersisted
  BY DEF SettingsInv, CleanMeansPersisted
<1> QED BY <1>1, SettingsInvariant, PTL

\* Settings change in a cycle begun in DISARMED only, but for the trim in ARMED and a
\* reset.
THEOREM SettingsFrozen == Spec => SettingsFrozenOutsideDisarmed
<1> DEFINE Frozen ==
  params' # params =>
    \/ state = "DISARMED" \/ Reset
    \/ state = "ARMED" /\ params' = [params EXCEPT !.servo_trim_us = params'.servo_trim_us]
<1>1. [Next]_vars => [Frozen]_vars
  <2>1. ASSUME NEW f, RunOneCycle(f)
        PROVE  Frozen
    <3>1. params' = InForce
      BY <2>1, CycleShape
    <3>2. CASE Applies
      BY <3>2 DEF Applies, ShouldApplyPending
    <3>3. CASE ~Applies
      <4>1. params' = Trimmed(params, Ev.trim)
        BY <3>1, <3>3 DEF InForce
      <4> QED BY <4>1 DEF Trimmed, TrimAllowed
    <3> QED BY <3>2, <3>3
  <2>2. PostCommand => Frozen
    BY DEF PostCommand, Post
  <2>3. \A c \in Clients : BeginCopy(c) \/ Decide(c) \/ PostPending(c) => Frozen
    BY DEF BeginCopy, Decide, PostPending
  <2>4. Reset => Frozen
    OBVIOUS
  <2> HIDE DEF Frozen
  <2> QED BY <2>1, <2>2, <2>3, <2>4 DEF Next
<1> QED BY <1>1, PTL DEF Spec, SettingsFrozenOutsideDisarmed

-----------------------------------------------------------------------------
(* The core in a cycle, with settings p and inputs in.                     *)

\* What the task reads of a step of the core.
LEMMA CoreShape ==
  ASSUME NEW in, NEW p, LoopStep(in, p)
  PROVE  /\ state' = ControlStateNext(SmOf(in, p), CalOf(in))
         /\ spot_lock' = SlOf(in, p).st
         /\ out'.goto_latch_clear = GotoLatchClear(in, SmOf(in, p), SlOf(in, p))
<1>1. /\ state' = ControlStateNext(SmOf(in, p), CalOf(in))
      /\ spot_lock' = SlOf(in, p).st
      /\ out' = [esc_us |-> EscNext(p, SmOf(in, p), CalOf(in), ramp'.value),
                 servo_us |-> ServoUs(servo_slew', p),
                 goto_latch_clear |-> GotoLatchClear(in, SmOf(in, p), SlOf(in, p))]
  BY StepShape
<1> QED BY <1>1

\* The unit ends the cycle ARMED exactly when the state machine says so, which never
\* happens against a disarm request, nor without one to arm.
LEMMA ModeNext ==
  ASSUME state \in SmStates, NEW in, NEW p, LoopStep(in, p)
  PROVE  /\ state' \in SmStates
         /\ state' = "ARMED" <=> SmOf(in, p).state = "ARMED"
         /\ state = "ARMED" /\ state' = "ARMED" => "disarm" \notin in.req
         /\ state # "ARMED" /\ state' = "ARMED" => state = "DISARMED" /\ "arm" \in in.req
<1> DEFINE si == SmInputs(in, p, RcOf(in).valid)
           s == NextState(state, si)
<1>1. SmOf(in, p).state = s /\ si.req = in.req
  BY DEF SmOf, SmStep, SmInputs
<1>2. s \in SmStates
  BY NextStateFailsafe
<1>3. /\ state = "ARMED" /\ s = "ARMED" => "disarm" \notin si.req
      /\ state # "ARMED" /\ s = "ARMED" => state = "DISARMED" /\ "arm" \in si.req
  <2> HIDE DEF si
  <2> QED
    BY DEF s, NextState, SmStates, NextFromDisarmed, NextFromDeploy, NextFromArmed,
           NextFromFailsafe, NextFromCalibration, CanArm
<1> HIDE DEF s, si
<1>4. state' = ControlStateNext(SmOf(in, p), CalOf(in))
  BY CoreShape
<1>5. state' = s \/ (Calibrating(SmOf(in, p)) /\ state' \in {"FAILSAFE", "DISARMED"})
  BY <1>1, <1>4 DEF ControlStateNext
<1> QED
  BY <1>1, <1>2, <1>3, <1>5 DEF Calibrating, SmStates

\* An engaged session, driving or paused, keeps the source that owns its target.
LEMMA EngagedKeepsSource ==
  ASSUME NEW in, NEW p, NEW st, {"substate", "source"} \subseteq DOMAIN st
  PROVE  /\ HoldOrPause(in, p, st).st.substate # "OFF"
         /\ HoldOrPause(in, p, st).st.source = st.source
         /\ HoldOrPause(in, p, st).manual_override = FALSE
  BY DEF HoldOrPause

\* A decision in ARMED: what a goto needs, when it goes on, and when a hold ends.
LEMMA DecisionSources ==
  ASSUME NEW in, NEW p, NEW n \in Nat, NEW st \in SpotLockType(n), in.armed = TRUE
  PROVE  LET r == SpotLockStep(in, p, st, n + 1)
         IN  /\ r.st.substate # "OFF" /\ r.st.source = "GOTO"
                  => in.goto_engage /\ ~in.ch3_on /\ r.manual_override = FALSE
             /\ st.source = "GOTO" /\ in.goto_engage /\ ~in.ch3_on /\ ~r.manual_override
                  => r.st.source = "GOTO"
             /\ r.st.source = "GOTO" /\ in.comms_fresh => r.st.ref = in.goto_target
             /\ st.source = "HOLD" /\ in.ch3_on /\ r.st.substate = "OFF"
                  => st.override_frames = n
<1> DEFINE r == SpotLockStep(in, p, st, n + 1)
           frames == OverrideFrames(in, st)
           counted == [st EXCEPT !.override_frames = frames]
<1>1. counted.source = st.source /\ DOMAIN counted = {"substate", "source", "ref", "override_frames"}
  BY DEF SpotLockType
<1> DEFINE off == MakeOff(counted, FALSE)
<1>2. off.st.source = "NONE" /\ off.st.substate = "OFF" /\ off.manual_override = FALSE
  BY <1>1 DEF MakeOff
<1> HIDE DEF counted, off
<1>4. CASE in.full_deflect /\ frames >= n + 1
  <2>1. r = MakeOff(st, TRUE)
    BY <1>4 DEF SpotLockStep
  <2>2. frames = st.override_frames + 1
    BY <1>4 DEF OverrideFrames
  <2>3. st.override_frames \in 0..n /\ DOMAIN st = {"substate", "source", "ref", "override_frames"}
    BY DEF SpotLockType
  <2>4. st.override_frames = n
    BY <1>4, <2>2, <2>3
  <2>5. r.st.source = "NONE" /\ r.manual_override = TRUE
    <3>1. MakeOff(st, TRUE).st.source = "NONE" /\ MakeOff(st, TRUE).manual_override = TRUE
      BY <2>3 DEF MakeOff
    <3> QED BY <2>1, <3>1
  <2> HIDE DEF r
  <2> QED BY <2>4, <2>5 DEF r
<1>5. CASE ~(in.full_deflect /\ frames >= n + 1) /\ in.ch3_on
  <2>1. r = RunCh3Hold(in, p, counted)
    BY <1>5 DEF SpotLockStep, counted
  <2> DEFINE taken == [counted EXCEPT !.source = "HOLD", !.ref = in.pos]
  <2>2. {"substate", "source"} \subseteq DOMAIN taken /\ taken.source = "HOLD"
    BY <1>1
  <2>3. \/ counted.source = "HOLD" /\ r = HoldOrPause(in, p, counted)
        \/ counted.source # "HOLD" /\ r = HoldOrPause(in, p, taken)
        \/ counted.source # "HOLD" /\ r = off
    BY <2>1 DEF RunCh3Hold, off
  <2> HIDE DEF r, taken
  <2>4. /\ HoldOrPause(in, p, counted).st.substate # "OFF"
        /\ HoldOrPause(in, p, counted).st.source = counted.source
    BY <1>1, EngagedKeepsSource
  <2>5. HoldOrPause(in, p, taken).st.source = "HOLD"
    <3>1. HoldOrPause(in, p, taken).st.source = taken.source
      BY <2>2 DEF HoldOrPause
    <3> QED BY <2>2, <3>1
  <2>6. r.st.source # "GOTO" /\ (counted.source = "HOLD" => r.st.substate # "OFF")
    BY <1>2, <2>3, <2>4, <2>5
  <2> QED BY <1>1, <1>5, <2>6 DEF r
<1>6. CASE ~(in.full_deflect /\ frames >= n + 1) /\ ~in.ch3_on /\ in.goto_engage
  <2>1. r = RunGoto(in, p, counted)
    BY <1>6 DEF SpotLockStep, counted
  <2> DEFINE entering == counted.source # "GOTO"
             taken == [counted EXCEPT !.source = "GOTO",
                         !.ref = IF entering \/ in.comms_fresh THEN in.goto_target ELSE @]
  <2>2. /\ {"substate", "source"} \subseteq DOMAIN taken /\ taken.source = "GOTO"
        /\ in.comms_fresh => taken.ref = in.goto_target
    BY <1>1
  <2>3. \/ counted.source # "GOTO" /\ r = off
        \/ r = HoldOrPause(in, p, taken)
    BY <2>1 DEF RunGoto, off
  <2> HIDE DEF r, taken, entering
  <2>4. /\ HoldOrPause(in, p, taken).st.source = "GOTO"
        /\ HoldOrPause(in, p, taken).st.ref = taken.ref
        /\ HoldOrPause(in, p, taken).manual_override = FALSE
    <3>1. /\ HoldOrPause(in, p, taken).st.source = taken.source
          /\ HoldOrPause(in, p, taken).st.ref = taken.ref
          /\ HoldOrPause(in, p, taken).manual_override = FALSE
      BY <2>2 DEF HoldOrPause
    <3> QED BY <2>2, <3>1
  <2>5. /\ r.manual_override = FALSE /\ (counted.source = "GOTO" => r.st.source = "GOTO")
        /\ r.st.source = "GOTO" /\ in.comms_fresh => r.st.ref = in.goto_target
    BY <1>2, <2>2, <2>3, <2>4
  <2> QED BY <1>1, <1>6, <2>5 DEF r
<1>7. CASE ~(in.full_deflect /\ frames >= n + 1) /\ ~in.ch3_on /\ ~in.goto_engage
  <2>1. r = off
    BY <1>7 DEF SpotLockStep, counted, off
  <2> HIDE DEF r
  <2>2. r.st.source = "NONE"
    BY <1>2, <2>1
  <2> QED BY <1>7, <2>2 DEF r
<1> QED BY <1>4, <1>5, <1>6, <1>7

-----------------------------------------------------------------------------
(* The types of the task's state.                                          *)

EventType ==
  [req : SUBSET Requests, calib_event : CalibEvents,
   trim : {"none", "left", "right", "save"}, goto : {"none", "goto", "cancel", "hold"},
   target : Int]

ClickType == [count : 0..(ClickTripleCount - 1), frames_since_last : 0..49]

TaskInv ==
  /\ state \in SmStates
  /\ spot_lock \in SpotLockType(OverrideHoldFrames - 1)
  /\ ui_queue \in {Empty} \cup EventType
  /\ goto \in [engage : BOOLEAN, target : Int, fresh : BOOLEAN]
  /\ ch3 \in SwitchType /\ ch4 \in SwitchType
  /\ clicks \in ClickType
  /\ commit \in [dirty : BOOLEAN, force : BOOLEAN, age : 0..CommitCycles]
  /\ \A c \in Clients : client[c].pc \in {"idle", "copying", "accepted"}

\* Every command is an event.
LEMMA EventTyped ==
  ASSUME NEW keyword \in Keywords, NEW target \in Targets
  PROVE  Event(keyword, target) \in EventType
<1>1. keyword \in CommandKeywords /\ target \in Int
  BY ControlLoopAssumption
<1>2. CASE keyword \in {"arm", "disarm", "deploy", "stow"}
  <2>1. Event(keyword, target) = [NoEvents EXCEPT !.req = {keyword}]
    BY <1>2 DEF Event
  <2> QED BY <1>2, <2>1 DEF NoEvents, EventType, Requests, CalibEvents
<1>3. CASE keyword = "calib_start"
  <2>1. Event(keyword, target) = [NoEvents EXCEPT !.req = {"calib", "confirm"}]
    BY <1>3 DEF Event
  <2> QED BY <2>1 DEF NoEvents, EventType, Requests, CalibEvents
<1>4. CASE keyword \in {"calib_next", "calib_cancel"}
  <2>1. Event(keyword, target) \in
          {[NoEvents EXCEPT !.calib_event = event] : event \in {"NEXT", "CANCEL"}}
    BY <1>4 DEF Event
  <2> QED BY <2>1 DEF NoEvents, EventType, Requests, CalibEvents
<1>5. CASE keyword \in {"trim_left", "trim_right", "trim_save"}
  <2>1. Event(keyword, target) \in
          {[NoEvents EXCEPT !.trim = trim] : trim \in {"left", "right", "save"}}
    BY <1>5 DEF Event
  <2> QED BY <2>1 DEF NoEvents, EventType, Requests, CalibEvents
<1>6. CASE keyword = "goto"
  <2>1. Event(keyword, target) = [NoEvents EXCEPT !.goto = "goto", !.target = target]
    BY <1>6 DEF Event
  <2> QED BY <1>1, <2>1 DEF NoEvents, EventType, Requests, CalibEvents
<1>7. CASE keyword \in {"goto_cancel", "hold"}
  <2>1. Event(keyword, target) \in {[NoEvents EXCEPT !.goto = asked] : asked \in {"cancel", "hold"}}
    BY <1>7 DEF Event
  <2> QED BY <2>1 DEF NoEvents, EventType, Requests, CalibEvents
<1> QED
  BY <1>1, <1>2, <1>3, <1>4, <1>5, <1>6, <1>7 DEF CommandKeywords

\* No event is the empty mailbox.
LEMMA EventsAreNotEmpty == Empty \notin EventType
  BY DEF Empty, EventType

\* So is what a cycle finds in the mailbox.
LEMMA EvTyped ==
  ASSUME TaskInv
  PROVE  Ev \in EventType
  BY DEF TaskInv, Ev, NoEvents, EventType, Requests, CalibEvents

\* A debounced switch stays one.
LEMMA SwitchTyped ==
  ASSUME NEW sw \in SwitchType, NEW level \in Levels
  PROVE  SwitchUpdate(sw, level) \in SwitchType
<1>1. sw.stable_frames \in 0..DebounceFrames /\ DebounceFrames \in Nat \ {0}
  BY SwitchesAssumption DEF SwitchType
<1>2. \A high \in BOOLEAN : StableFrames(sw, high) \in 0..DebounceFrames
  BY <1>1 DEF StableFrames
<1>3. CASE level = "none"
  <2>1. SwitchUpdate(sw, level) = [sw EXCEPT !.candidate = sw.is_high, !.stable_frames = 0]
    BY <1>3 DEF SwitchUpdate
  <2>2. sw.is_high \in BOOLEAN /\ 0 \in 0..DebounceFrames
    BY <1>1 DEF SwitchType
  <2> QED BY <2>1, <2>2 DEF SwitchType
<1>4. CASE level # "none"
  <2> DEFINE high == level = "high"
             frames == StableFrames(sw, high)
  <2>1. SwitchUpdate(sw, level) =
          [is_high |-> IF frames >= DebounceFrames THEN high ELSE sw.is_high,
           candidate |-> high, stable_frames |-> frames,
           initialised |-> sw.initialised \/ frames >= DebounceFrames]
    BY <1>4 DEF SwitchUpdate
  <2>2. high \in BOOLEAN /\ frames \in 0..DebounceFrames
    BY <1>2
  <2>3. sw.is_high \in BOOLEAN /\ sw.initialised \in BOOLEAN
    BY DEF SwitchType
  <2> HIDE DEF high, frames
  <2> QED BY <2>1, <2>2, <2>3 DEF SwitchType
<1> QED BY <1>3, <1>4

\* The click window is at most 50 cycles.
LEMMA WindowBounded ==
  ASSUME NEW p, Legal(p)
  PROVE  ClickWindowFrames(p) \in 1..50
<1>1. p.click_window_ms \in 200..1000
  BY Zenon DEF Legal, ValidParams, FieldsInRange, Ch4Fields
<1> QED BY <1>1 DEF ClickWindowFrames, LoopPeriodMs

\* A burst stays below three clicks and below its window; a single-click gesture closes a
\* burst of one.
LEMMA ClicksTyped ==
  ASSUME NEW burst \in ClickType, NEW click \in BOOLEAN, NEW window \in 1..50
  PROVE  LET cl == ClickUpdate(burst, click, window)
         IN  /\ cl.burst \in ClickType
             /\ cl.gesture = "SINGLE" => /\ burst.count = 1 /\ cl.burst = ClicksReset
                                         /\ burst.frames_since_last + 1 >= window
<1>1. burst.count \in 0..2 /\ burst.frames_since_last \in 0..49
  BY DEF ClickType, ClickTripleCount
<1>2. ClicksReset \in ClickType
  BY DEF ClicksReset, ClickType, ClickTripleCount
<1>3. CASE click
  BY <1>1, <1>2, <1>3 DEF ClickUpdate, ClickTripleCount, ClickType, ClicksReset
<1>4. CASE ~click /\ (burst.count = 0 \/ burst.frames_since_last + 1 < window)
  BY <1>1, <1>4 DEF ClickUpdate, ClickTripleCount, ClickType
<1>5. CASE ~click /\ ~(burst.count = 0 \/ burst.frames_since_last + 1 < window)
  <2>1. ClickUpdate(burst, click, window) =
          [burst |-> ClicksReset, gesture |-> ClosedGesture(burst.count)]
    BY <1>5 DEF ClickUpdate
  <2> QED BY <1>1, <1>2, <1>5, <2>1 DEF ClosedGesture
<1> QED BY <1>3, <1>4, <1>5

\* The button: its debouncer and burst keep their types; while ARMED an accepted change of
\* CH4 asks to disarm, and it asks to arm only when silence closes a burst of one click.
LEMMA ButtonFacts ==
  ASSUME TaskInv, SettingsInv, NEW f \in Frames
  PROVE  /\ Button(f).sw \in SwitchType /\ Button(f).burst \in ClickType
         /\ state = "ARMED" /\ ch4.initialised /\ Button(f).sw.is_high # ch4.is_high
              => "disarm" \in Button(f).req
         /\ "arm" \in Button(f).req
              => /\ clicks.count = 1 /\ Button(f).burst.count = 0
                 /\ clicks.frames_since_last + 1 >= ClickWindowFrames(InForce)
<1> DEFINE sw    == SwitchUpdate(ch4, f.ch4)
           click == SwitchEdge(ch4, sw)
           w     == ClickWindowFrames(InForce)
           cl    == ClickUpdate(clicks, click, w)
<1>1. f.ch4 \in Levels
  BY ControlLoopAssumption DEF FrameType
<1>2. sw \in SwitchType /\ ch4 \in SwitchType /\ clicks \in ClickType
  BY <1>1, SwitchTyped DEF TaskInv
<1>3. click \in BOOLEAN
  BY <1>2 DEF SwitchEdge, SwitchType
<1>4. w \in 1..50
  BY InForceLegal, WindowBounded
<1> HIDE DEF w
<1>5. /\ cl.burst \in ClickType
      /\ cl.gesture = "SINGLE" => /\ clicks.count = 1 /\ cl.burst = ClicksReset
                                  /\ clicks.frames_since_last + 1 >= w
  BY <1>2, <1>3, <1>4, ClicksTyped
<1>6. ClicksReset \in ClickType /\ ClicksReset.count = 0
  BY DEF ClicksReset, ClickType, ClickTripleCount
<1>7. Button(f) = IF InForce.ch4_mode_switch_enabled
                    THEN [sw |-> sw, burst |-> Ch4Burst(cl),
                          req |-> Ch4Requests(click, cl.gesture)]
                    ELSE [sw |-> ch4, burst |-> clicks, req |-> {}]
  BY DEF Button, Ch4Cycle, w
<1>8. state = "ARMED" /\ ch4.initialised /\ sw.is_high # ch4.is_high => click
  BY DEF SwitchEdge
<1> HIDE DEF sw, click, cl
<1>9. Ch4Burst(cl) \in ClickType /\ (cl.burst = ClicksReset => Ch4Burst(cl).count = 0)
  BY <1>5, <1>6 DEF Ch4Burst
<1>10. /\ state = "ARMED" /\ click => "disarm" \in Ch4Requests(click, cl.gesture)
       /\ "arm" \in Ch4Requests(click, cl.gesture) => cl.gesture = "SINGLE"
  BY DEF Ch4Requests
<1> QED
  BY <1>2, <1>5, <1>7, <1>8, <1>9, <1>10 DEF w

\* The frames the receiver and the sensors show.
LEMMA FrameFacts ==
  ASSUME NEW f \in Frames
  PROVE  f.pos \in Int /\ f.heading \in Headings /\ f.ch3 \in Levels /\ f.ch4 \in Levels
  BY ControlLoopAssumption DEF FrameType

\* What a cycle stages of a goto, and what the core gets to see of it and of the switches.
LEMMA StagingFacts ==
  ASSUME TaskInv, NEW f \in Frames, NEW grabbed, NEW fresh
  PROVE  LET in == Inputs(f, grabbed, fresh)
             g  == Staging(f, grabbed)
         IN  /\ g \in [engage : BOOLEAN, target : Int, fresh : BOOLEAN]
             /\ in.pos \in Int /\ in.heading \in Headings /\ in.goto_target \in Int
             /\ in.goto_engage = g.engage /\ in.goto_target = g.target /\ in.comms_fresh = fresh
             /\ in.ch3_on = Ch3New(f).is_high /\ in.ch3_edge = SwitchRises(ch3, Ch3New(f))
             /\ in.req = Ev.req \cup Button(f).req
<1> DEFINE g == Staging(f, grabbed)
<1>1. g \in [engage : BOOLEAN, target : Int, fresh : BOOLEAN]
  <2>1. Ev.target \in Int /\ f.pos \in Int
    BY EvTyped, FrameFacts DEF EventType
  <2>2. goto \in [engage : BOOLEAN, target : Int, fresh : BOOLEAN]
    BY DEF TaskInv
  <2>3. g \in {[goto EXCEPT !.engage = TRUE, !.target = Ev.target],
               [goto EXCEPT !.engage = TRUE, !.target = f.pos],
               [goto EXCEPT !.engage = FALSE], goto}
    <3>1. CASE Ev.goto = "goto"
      BY <3>1 DEF Staging, GotoStaged
    <3>2. CASE Ev.goto # "goto" /\ grabbed
      BY <3>2, Zenon DEF Staging, GotoStaged
    <3>3. CASE Ev.goto # "goto" /\ ~grabbed /\ Ev.goto = "cancel"
      BY <3>3, Zenon DEF Staging, GotoStaged
    <3>4. CASE Ev.goto # "goto" /\ ~grabbed /\ Ev.goto # "cancel"
      BY <3>4, Zenon DEF Staging, GotoStaged
    <3> QED BY <3>1, <3>2, <3>3, <3>4
  <2> HIDE DEF g
  <2> QED BY <2>1, <2>2, <2>3
<1> HIDE DEF g
<1>2. g.target \in Int
  BY <1>1
<1> QED
  BY <1>1, <1>2, FrameFacts DEF Inputs, CycleInputs, g

\* The session after a cycle, by the source that owns its target.
LEMMA SessionNext ==
  ASSUME TaskInv, NEW in, NEW p, ValidParams(p), LoopStep(in, p),
         in.pos \in Int, in.heading \in Headings, in.goto_target \in Int
  PROVE  /\ spot_lock' \in SpotLockType(OverrideHoldFrames - 1)
         /\ spot_lock.source # "HOLD" /\ spot_lock'.source = "HOLD" => in.ch3_edge
         /\ spot_lock'.substate # "OFF" /\ spot_lock'.source = "GOTO"
              => /\ in.goto_engage /\ ~out'.goto_latch_clear
                 /\ in.comms_fresh => spot_lock'.ref = in.goto_target
         /\ spot_lock.source = "GOTO" /\ state' = "ARMED" /\ in.goto_engage
              /\ ~out'.goto_latch_clear => spot_lock'.source = "GOTO"
         /\ spot_lock.source = "HOLD" /\ state' = "ARMED" /\ in.ch3_on
              /\ spot_lock'.substate = "OFF"
              => spot_lock.override_frames = OverrideHoldFrames - 1
<1> DEFINE n   == OverrideHoldFrames - 1
           si  == SpotLockInputs(in, p)
           r   == SpotLockStep(si, p, spot_lock, OverrideHoldFrames)
<1>1. OverrideHoldFrames \in Nat \ {0} /\ n \in Nat /\ n + 1 = OverrideHoldFrames
  BY LoopStepAssumption
<1>2. spot_lock \in SpotLockType(n)
  BY DEF TaskInv
<1>3. /\ si.armed = TRUE /\ si.pos \in Int /\ si.goto_target \in Int /\ si.heading \in Headings
      /\ si.ch3_on = in.ch3_on /\ si.ch3_edge = in.ch3_edge /\ si.goto_engage = in.goto_engage
      /\ si.goto_target = in.goto_target /\ si.comms_fresh = in.comms_fresh
  BY DEF SpotLockInputs
<1>4. /\ spot_lock' = SlOf(in, p).st
      /\ out'.goto_latch_clear = GotoLatchClear(in, SmOf(in, p), SlOf(in, p))
  BY CoreShape
<1>5. state' = "ARMED" <=> SmOf(in, p).state = "ARMED"
  BY ModeNext DEF TaskInv
<1>6. CASE SmOf(in, p).state = "ARMED"
  <2>1. SlOf(in, p) = r
    BY <1>6, Zenon DEF SlOf, ResolveSpotLock
  <2>2. GotoLatchClear(in, SmOf(in, p), r) =
          (in.goto_engage /\ (r.manual_override \/ in.ch3_on))
    BY <1>6 DEF GotoLatchClear
  <2> HIDE DEF si
  <2>3. DecisionOK(r, si, p, spot_lock, n)
    BY <1>1, <1>2, <1>3, SpotLockStepOK
  <2>4. /\ r.st.substate # "OFF" /\ r.st.source = "GOTO"
             => si.goto_engage /\ ~si.ch3_on /\ r.manual_override = FALSE
        /\ spot_lock.source = "GOTO" /\ si.goto_engage /\ ~si.ch3_on /\ ~r.manual_override
             => r.st.source = "GOTO"
        /\ r.st.source = "GOTO" /\ si.comms_fresh => r.st.ref = si.goto_target
        /\ spot_lock.source = "HOLD" /\ si.ch3_on /\ r.st.substate = "OFF"
             => spot_lock.override_frames = n
    <3> DEFINE d == SpotLockStep(si, p, spot_lock, n + 1)
    <3>1. r = d
      BY <1>1
    <3> HIDE DEF n
    <3>2. /\ d.st.substate # "OFF" /\ d.st.source = "GOTO"
               => si.goto_engage /\ ~si.ch3_on /\ d.manual_override = FALSE
          /\ spot_lock.source = "GOTO" /\ si.goto_engage /\ ~si.ch3_on /\ ~d.manual_override
               => d.st.source = "GOTO"
          /\ d.st.source = "GOTO" /\ si.comms_fresh => d.st.ref = si.goto_target
          /\ spot_lock.source = "HOLD" /\ si.ch3_on /\ d.st.substate = "OFF"
               => spot_lock.override_frames = n
      BY <1>1, <1>2, <1>3, DecisionSources
    <3> HIDE DEF r, d
    <3> QED BY <3>1, <3>2
  <2> HIDE DEF r, n
  <2>5. /\ r.st \in SpotLockType(n)
        /\ spot_lock.source # "HOLD" /\ r.st.source = "HOLD" => si.ch3_edge
    BY <2>3 DEF DecisionOK
  <2> QED BY <1>3, <1>4, <2>1, <2>2, <2>4, <2>5 DEF n
<1>7. CASE SmOf(in, p).state # "ARMED"
  <2>1. spot_lock' = [spot_lock EXCEPT !.substate = "OFF"]
    BY <1>4, <1>7 DEF SlOf, ResolveSpotLock
  <2> HIDE DEF n
  <2>2. spot_lock' \in SpotLockType(n) /\ spot_lock'.substate = "OFF"
        /\ spot_lock'.source = spot_lock.source
    BY <1>2, <2>1 DEF SpotLockType, SubStates
  <2> QED BY <1>5, <1>7, <2>2 DEF n
<1> QED BY <1>6, <1>7

\* The commit debounce stays in its type.
LEMMA CommitTyped ==
  ASSUME TaskInv
  PROVE  /\ CommitMarked(Ev) \in [dirty : BOOLEAN, force : BOOLEAN, age : 0..CommitCycles]
         /\ CommitClean \in [dirty : BOOLEAN, force : BOOLEAN, age : 0..CommitCycles]
<1>1. CommitCycles \in Nat /\ commit.age \in 0..CommitCycles
  BY ControlLoopAssumption DEF TaskInv
<1>2. 0 \in 0..CommitCycles /\ (commit.age < CommitCycles => commit.age + 1 \in 0..CommitCycles)
  BY <1>1
<1> QED BY <1>1, <1>2 DEF CommitMarked, CommitClean

\* A cycle keeps the types.
LEMMA CycleKeepsTask ==
  ASSUME TaskInv, SettingsInv, NEW f \in Frames, RunOneCycle(f)
  PROVE  TaskInv'
<1>0. PICK grabbed \in Grabs(Ev) : \E fresh \in LinkFreshness(Ev, grabbed) :
        /\ LoopStep(Inputs(f, grabbed, fresh), InForce)
        /\ goto' = [Staging(f, grabbed) EXCEPT
                      !.fresh = fresh, !.engage = @ /\ ~out'.goto_latch_clear]
  BY CycleShape
<1>1. PICK fresh \in LinkFreshness(Ev, grabbed) :
        /\ LoopStep(Inputs(f, grabbed, fresh), InForce)
        /\ goto' = [Staging(f, grabbed) EXCEPT
                      !.fresh = fresh, !.engage = @ /\ ~out'.goto_latch_clear]
  BY <1>0
<1>2. ValidParams(InForce)
  BY InForceLegal DEF Legal
<1>3. state' \in SmStates
  BY <1>1, ModeNext DEF TaskInv
<1>4. spot_lock' \in SpotLockType(OverrideHoldFrames - 1)
  BY <1>1, <1>2, StagingFacts, SessionNext
<1>5. goto' \in [engage : BOOLEAN, target : Int, fresh : BOOLEAN]
  <2>1. fresh \in BOOLEAN
    BY DEF LinkFreshness
  <2>2. Staging(f, grabbed) \in [engage : BOOLEAN, target : Int, fresh : BOOLEAN]
    BY StagingFacts
  <2> QED BY <1>1, <2>1, <2>2
<1>6. ch3' \in SwitchType /\ ch4' \in SwitchType /\ clicks' \in ClickType
  <2>1. ch3' = SwitchUpdate(ch3, f.ch3) /\ ch4' = Button(f).sw /\ clicks' = Button(f).burst
    BY CycleShape DEF Ch3New
  <2>2. f.ch3 \in Levels /\ ch3 \in SwitchType
    BY FrameFacts DEF TaskInv
  <2>3. SwitchUpdate(ch3, f.ch3) \in SwitchType
    BY <2>2, SwitchTyped
  <2>4. Button(f).sw \in SwitchType /\ Button(f).burst \in ClickType
    BY ButtonFacts
  <2> QED BY <2>1, <2>3, <2>4
<1>7. commit' \in [dirty : BOOLEAN, force : BOOLEAN, age : 0..CommitCycles]
  BY CycleShape, CommitTyped
<1>8. ui_queue' = Empty /\ client' = client
  BY CycleShape
<1> QED
  BY <1>3, <1>4, <1>5, <1>6, <1>7, <1>8 DEF TaskInv

\* The state of a boot has the types.
LEMMA BootTyped ==
  /\ SpotLockBoot \in SpotLockType(OverrideHoldFrames - 1)
  /\ GotoNone \in [engage : BOOLEAN, target : Int, fresh : BOOLEAN]
  /\ SwitchInit \in SwitchType /\ ClicksReset \in ClickType
  /\ CommitClean \in [dirty : BOOLEAN, force : BOOLEAN, age : 0..CommitCycles]
<1>1. 0 \in 0..(OverrideHoldFrames - 1) /\ 0 \in 0..DebounceFrames /\ 0 \in 0..CommitCycles
  BY LoopStepAssumption, SwitchesAssumption, ControlLoopAssumption
<1> QED
  BY <1>1 DEF SpotLockBoot, SpotLockType, SubStates, Sources, GotoNone, SwitchInit, SwitchType,
              ClicksReset, ClickType, ClickTripleCount, CommitClean

\* The invariant of the task holds at boot.
LEMMA TaskInit == Init => TaskInv
  BY BootTyped DEF Init, InitOf, LoopInit, TaskInv, SmStates, ClientsIdle, ClientIdle

\* Every step of the control task keeps its invariant.
LEMMA TaskStep == TaskInv /\ SettingsInv /\ [Next]_vars => TaskInv'
<1> SUFFICES ASSUME TaskInv, SettingsInv, [Next]_vars
             PROVE  TaskInv'
  OBVIOUS
<1>1. CASE PostCommand
  <2>1. ui_queue' \in EventType
    BY <1>1, EventTyped DEF PostCommand, Post
  <2>2. UNCHANGED <<loopVars, commit, goto, ch3, ch4, clicks, client>>
    BY <1>1 DEF PostCommand, Post
  <2> QED BY <2>1, <2>2 DEF TaskInv, loopVars
<1>2. CASE \E c \in Clients : BeginCopy(c) \/ Decide(c) \/ PostPending(c)
  <2>1. PICK c \in Clients : BeginCopy(c) \/ Decide(c) \/ PostPending(c)
    BY <1>2
  <2>2. UNCHANGED <<loopVars, ui_queue, commit, goto, ch3, ch4, clicks>>
    BY <2>1 DEF BeginCopy, Decide, PostPending
  <2>3. \E to : /\ client' = [client EXCEPT ![c] = to]
                /\ to.pc \in {"idle", "copying", "accepted"}
    BY <2>1, Zenon DEF BeginCopy, Decide, PostPending, ClientIdle
  <2>4. \A d \in Clients : client'[d].pc \in {"idle", "copying", "accepted"}
    BY <2>3 DEF TaskInv, SettingsInv
  <2> QED BY <2>2, <2>4 DEF TaskInv, loopVars
<1>3. CASE \E f \in Frames : RunOneCycle(f)
  BY <1>3, CycleKeepsTask
<1>4. CASE Reset
  BY <1>4, BootTyped DEF Reset, LoopReset, TaskInv, SmStates, ClientsIdle, ClientIdle
<1>5. CASE UNCHANGED vars
  BY <1>5 DEF vars, loopVars, taskVars, TaskInv
<1> QED
  BY <1>1, <1>2, <1>3, <1>4, <1>5 DEF Next

\* Both invariants of the control task hold.
THEOREM TaskInvariant == Spec => [](TaskInv /\ SettingsInv)
  BY TaskInit, TaskStep, SettingsInit, SettingsStep, PTL DEF Spec

-----------------------------------------------------------------------------
(* The core under the settings of the task.                                *)

\* The button asks for nothing the state machine does not know.
LEMMA ButtonRequests ==
  ASSUME NEW f
  PROVE  Button(f).req \subseteq Requests
<1> DEFINE click   == SwitchEdge(ch4, SwitchUpdate(ch4, f.ch4))
           gesture == ClickUpdate(clicks, click, ClickWindowFrames(InForce)).gesture
<1>1. Ch4Requests(click, gesture) \subseteq Requests
  BY DEF Ch4Requests, Requests
<1>2. Button(f).req \in {Ch4Requests(click, gesture), {}}
  BY DEF Button, Ch4Cycle
<1> HIDE DEF click, gesture
<1> QED BY <1>1, <1>2

\* What the task hands to the core has the types the core is proved for.
LEMMA InputsTyped ==
  ASSUME TaskInv, NEW f \in Frames, NEW grabbed, NEW fresh \in BOOLEAN
  PROVE  Inputs(f, grabbed, fresh) \in InputType
<1> DEFINE in  == Inputs(f, grabbed, fresh)
           g   == Staging(f, grabbed)
           sw  == Ch3New(f)
           req == Ev.req \cup Button(f).req
<1>1. f \in FrameType
  BY ControlLoopAssumption
<1>2. g.engage \in BOOLEAN /\ g.target \in Int
  <2>1. g \in [engage : BOOLEAN, target : Int, fresh : BOOLEAN]
    BY StagingFacts
  <2> HIDE DEF g
  <2> QED BY <2>1
<1>3. sw.is_high \in BOOLEAN /\ SwitchRises(ch3, sw) \in BOOLEAN
  <2>1. sw \in SwitchType
    BY FrameFacts, SwitchTyped DEF TaskInv, Ch3New
  <2> HIDE DEF sw
  <2>2. sw.is_high \in BOOLEAN
    BY <2>1 DEF SwitchType
  <2>3. SwitchRises(ch3, sw) = (SwitchEdge(ch3, sw) /\ sw.is_high)
    BY DEF SwitchRises
  <2> QED BY <2>2, <2>3
<1>4. req \in SUBSET Requests /\ Ev.calib_event \in CalibEvents
  <2>1. Ev.req \subseteq Requests /\ Ev.calib_event \in CalibEvents
    BY EvTyped DEF EventType
  <2> QED BY <2>1, ButtonRequests
<1>5. in = [frame_valid |-> f.frame_valid, ch1_us |-> f.ch1_us, ch2_us |-> f.ch2_us,
            req |-> req, calib_event |-> Ev.calib_event, calib_timeout |-> FALSE,
            ch3_on |-> sw.is_high, ch3_edge |-> SwitchRises(ch3, sw),
            gps_fresh |-> f.gps_fresh, gps_fix |-> f.gps_fix, pos |-> f.pos,
            imu_ok |-> f.imu_ok, heading |-> f.heading,
            goto_engage |-> g.engage, goto_target |-> g.target, comms_fresh |-> fresh]
  BY Zenon DEF Inputs, CycleInputs
<1> HIDE DEF in, g, sw, req
<1>6. in \in InputType
  BY <1>1, <1>2, <1>3, <1>4, <1>5 DEF FrameType, InputType
<1> QED BY <1>6 DEF in

\* The longest dwell is a number of cycles.
LEMMA DwellMaxIsNat == DwellMax \in Nat
<1>1. DwellMax = 100
  BY DEF DwellMax, ReverseDwellFrames, LoopPeriodMs
<1> QED BY <1>1

\* A cycle of the task is one of the core, with legal settings and typed inputs.
LEMMA TaskCycleIsCoreCycle ==
  ASSUME TaskInv, SettingsInv, CoreInv(DwellMax), NEW f \in Frames, RunOneCycle(f)
  PROVE  \E in : CoreCycle(in, InForce, DwellMax)
<1>1. PICK grabbed \in Grabs(Ev) : \E fresh \in LinkFreshness(Ev, grabbed) :
        LoopStep(Inputs(f, grabbed, fresh), InForce)
  BY CycleShape
<1>2. PICK fresh \in LinkFreshness(Ev, grabbed) : LoopStep(Inputs(f, grabbed, fresh), InForce)
  BY <1>1
<1>3. fresh \in BOOLEAN
  BY DEF LinkFreshness
<1>4. Inputs(f, grabbed, fresh) \in InputType
  BY <1>3, InputsTyped
<1>5. ValidParams(InForce)
  BY InForceLegal DEF Legal
<1>6. ReverseDwellFrames(InForce) \in 0..DwellMax
  BY <1>5, DwellFramesIsNat DEF DwellMax
<1>7. CoreCycle(Inputs(f, grabbed, fresh), InForce, DwellMax)
  BY <1>2, <1>4, <1>5, <1>6, DwellMaxIsNat, Zenon DEF CoreCycle
<1> QED BY <1>7

\* What a cycle of the task does to the core.
LEMMA TaskCycle ==
  ASSUME TaskInv, SettingsInv, CoreInv(DwellMax), NEW f \in Frames, RunOneCycle(f)
  PROVE  /\ CoreInv(DwellMax)' /\ PulseConfinedTo(params)'
         /\ CoreContract(params')
<1>1. PICK in : CoreCycle(in, InForce, DwellMax)
  BY TaskCycleIsCoreCycle
<1>2. params' = InForce
  BY CycleShape
<1>3. CoreInv(DwellMax)'
  BY <1>1, CycleKeepsCore
<1>4. PulseConfinedTo(params)'
  BY <1>1, <1>2, PulseNext DEF PulseConfinedTo
<1>5. CoreContract(params')
  BY <1>1, <1>2, CycleKeepsContract
<1> QED BY <1>3, <1>4, <1>5

\* The steps that are no cycle leave the core and the settings in force alone, or boot.
LEMMA IdleSteps ==
  ASSUME [Next]_vars, ~(\E f \in Frames : RunOneCycle(f))
  PROVE  Reset \/ UNCHANGED <<loopVars, params>>
  BY DEF Next, PostCommand, Post, BeginCopy, Decide, PostPending, vars, taskVars

\* The core keeps its invariant under settings that change, and over resets, and the pulse
\* stays in the map of the settings in force.
LEMMA CoreInvariant == Spec => [](CoreInv(DwellMax) /\ PulseConfinedTo(params))
<1>1. Init => CoreInv(DwellMax) /\ PulseConfinedTo(params)
  <2> SUFFICES ASSUME Init
               PROVE  CoreInv(DwellMax) /\ PulseConfinedTo(params)
    OBVIOUS
  <2>1. LoopInit(Boot) /\ ValidParams(Boot)
    BY ControlLoopAssumption DEF Init, InitOf
  <2>2. CoreInv(DwellMax)
    BY <2>1, CoreInit, DwellMaxIsNat
  <2> QED BY <2>1, <2>2 DEF LoopInit, OutBoot, PulseConfinedTo
<1>2. TaskInv /\ SettingsInv /\ CoreInv(DwellMax) /\ PulseConfinedTo(params) /\ [Next]_vars
        => (CoreInv(DwellMax) /\ PulseConfinedTo(params))'
  <2> SUFFICES ASSUME TaskInv, SettingsInv, CoreInv(DwellMax), PulseConfinedTo(params), [Next]_vars
               PROVE  CoreInv(DwellMax)' /\ PulseConfinedTo(params)'
    OBVIOUS
  <2>1. CASE \E f \in Frames : RunOneCycle(f)
    BY <2>1, TaskCycle
  <2>2. CASE Reset
    <3>1. LoopReset(nvs) /\ ValidParams(nvs)
      BY <2>2 DEF Reset, SettingsInv, Legal
    <3>2. CoreInv(DwellMax)'
      BY <3>1, CoreReset, DwellMaxIsNat
    <3> QED BY <3>1, <3>2 DEF LoopReset, OutBoot, PulseConfinedTo
  <2>3. CASE UNCHANGED <<loopVars, params>>
    <3>1. CoreInv(DwellMax)'
      BY <2>3, CoreStutter
    <3> QED BY <2>3, <3>1 DEF PulseConfinedTo, loopVars
  <2> QED BY <2>1, <2>2, <2>3, IdleSteps
<1> QED BY <1>1, <1>2, TaskInvariant, PTL DEF Spec

\* Under edits, trims, commands and resets the core keeps its invariant; every mailbox,
\* latch and counter stays in its domain, and settings keep their fields.
THEOREM LoopInvariant == Spec => []LoopInv
<1>1. TaskInv /\ SettingsInv /\ CoreInv(DwellMax) /\ PulseConfinedTo(params) => LoopInv
  <2> SUFFICES ASSUME TaskInv, SettingsInv, CoreInv(DwellMax)
               PROVE  LoopTypeOK
    BY DEF LoopInv
  <2>1. \A p \in {params, nvs} \cup (Staged \ {Empty}) : DOMAIN p = DOMAIN Boot /\ FieldsInRange(p)
    <3>1. \A p \in {params, nvs} \cup (Staged \ {Empty}) : Legal(p)
      BY DEF SettingsInv, Staged
    <3> QED BY <3>1, ControlLoopAssumption DEF Legal, ValidParams
  <2>2. ClickWindowFrames([click_window_ms |-> 1000]) - 1 = 49
    BY DEF ClickWindowFrames, LoopPeriodMs
  <2>3. clicks \in [count : 0..(ClickTripleCount - 1),
                    frames_since_last : 0..(ClickWindowFrames([click_window_ms |-> 1000]) - 1)]
    BY <2>2 DEF TaskInv, ClickType
  <2>4. goto.engage \in BOOLEAN /\ goto.fresh \in BOOLEAN /\ goto.target \in Int
    BY DEF TaskInv
  <2>5. CoreTypeOK(DwellMax)
    BY DEF CoreInv
  <2> QED BY <2>1, <2>3, <2>4, <2>5 DEF TaskInv, LoopTypeOK
<1> QED BY <1>1, TaskInvariant, CoreInvariant, PTL

\* Every cycle of the task keeps the contract of the core under the settings it runs with,
\* edited, staged, trimmed or read back from flash as they may be.
THEOREM TaskContract == Spec => TaskKeepsContract
<1>1. TaskInv /\ SettingsInv /\ CoreInv(DwellMax) /\ [Next]_vars
        => [Reset \/ CoreContract(params')]_loopVars
  <2> SUFFICES ASSUME TaskInv, SettingsInv, CoreInv(DwellMax), [Next]_vars
               PROVE  Reset \/ CoreContract(params') \/ UNCHANGED loopVars
    OBVIOUS
  <2>1. CASE \E f \in Frames : RunOneCycle(f)
    BY <2>1, TaskCycle
  <2> QED BY <2>1, IdleSteps
<1> QED BY <1>1, TaskInvariant, CoreInvariant, PTL DEF Spec, TaskKeepsContract

\* The task implements the abstract contract on modes, thrust and its owner: a reset is the
\* only way past it.
THEOREM TaskRefinesMode == Spec => TaskImplementsMode
<1>1. Init => Mode!ModeInit
  BY DEF Init, InitOf, LoopInit, RampAtRest, SpotLockBoot, Mode!ModeInit
<1>2. TaskInv /\ SettingsInv /\ CoreInv(DwellMax) /\ [Next]_vars
        => [Mode!ModeNext \/ Mode!ModeReset]_(Mode!modeVars)
  <2> SUFFICES ASSUME TaskInv, SettingsInv, CoreInv(DwellMax), [Next]_vars
               PROVE  Mode!ModeNext \/ Mode!ModeReset \/ UNCHANGED Mode!modeVars
    OBVIOUS
  <2>1. CASE \E f \in Frames : RunOneCycle(f)
    BY <2>1, TaskCycle DEF CoreContract
  <2>2. CASE Reset
    BY <2>2 DEF Reset, LoopReset, RampAtRest, SpotLockBoot, Mode!ModeReset
  <2>3. CASE UNCHANGED <<loopVars, params>>
    BY <2>3 DEF loopVars, Mode!modeVars
  <2> QED BY <2>1, <2>2, <2>3, IdleSteps
<1> QED BY <1>1, <1>2, TaskInvariant, CoreInvariant, PTL DEF Spec, TaskImplementsMode, Mode!ModeResetSpec

-----------------------------------------------------------------------------
(* Goto and hold.                                                          *)

\* What a cycle does to the latch of the goto and to the session, in terms of the state
\* before and after it.
LEMMA LatchNext ==
  ASSUME TaskInv, SettingsInv, NEW f \in Frames, RunOneCycle(f)
  PROVE  /\ spot_lock'.substate # "OFF" /\ spot_lock'.source = "GOTO"
              => goto'.engage /\ (goto'.fresh => spot_lock'.ref = goto'.target)
         /\ state' = "ARMED" /\ ch3'.is_high => ~goto'.engage
         /\ spot_lock.source = "GOTO" /\ state' = "ARMED" /\ spot_lock'.source # "GOTO"
              => ~goto'.engage
         /\ spot_lock.source = "HOLD" /\ state' = "ARMED" /\ ch3'.is_high
              /\ spot_lock'.substate = "OFF"
              => spot_lock.override_frames = OverrideHoldFrames - 1
         /\ spot_lock.source # "HOLD" /\ spot_lock'.source = "HOLD"
              => ch3.initialised /\ ~ch3.is_high /\ ch3'.is_high
<1>1. PICK grabbed \in Grabs(Ev) : \E fresh \in LinkFreshness(Ev, grabbed) :
        /\ LoopStep(Inputs(f, grabbed, fresh), InForce)
        /\ goto' = [Staging(f, grabbed) EXCEPT
                      !.fresh = fresh, !.engage = @ /\ ~out'.goto_latch_clear]
  BY CycleShape
<1>2. PICK fresh \in LinkFreshness(Ev, grabbed) :
        /\ LoopStep(Inputs(f, grabbed, fresh), InForce)
        /\ goto' = [Staging(f, grabbed) EXCEPT
                      !.fresh = fresh, !.engage = @ /\ ~out'.goto_latch_clear]
  BY <1>1
<1> DEFINE in == Inputs(f, grabbed, fresh)
           g  == Staging(f, grabbed)
           latch_clear == out'.goto_latch_clear
<1>3. /\ g \in [engage : BOOLEAN, target : Int, fresh : BOOLEAN]
      /\ in.pos \in Int /\ in.heading \in Headings /\ in.goto_target \in Int
      /\ in.goto_engage = g.engage /\ in.goto_target = g.target /\ in.comms_fresh = fresh
      /\ in.ch3_on = Ch3New(f).is_high /\ in.ch3_edge = SwitchRises(ch3, Ch3New(f))
  BY StagingFacts
<1>4. ch3' = Ch3New(f)
  BY CycleShape
<1>5. ValidParams(InForce)
  BY InForceLegal DEF Legal
<1>6. goto'.engage = (g.engage /\ ~latch_clear) /\ goto'.target = g.target /\ goto'.fresh = fresh
  BY <1>2, <1>3
<1> HIDE DEF in, g
<1>7. LoopStep(in, InForce)
  BY <1>2 DEF in
<1>8. state' = "ARMED" /\ in.goto_engage /\ in.ch3_on => latch_clear
  <2>1. latch_clear = GotoLatchClear(in, SmOf(in, InForce), SlOf(in, InForce))
    BY <1>7, CoreShape
  <2>2. state' = "ARMED" => SmOf(in, InForce).state = "ARMED"
    BY <1>7, ModeNext DEF TaskInv
  <2> HIDE DEF latch_clear
  <2> QED BY <2>1, <2>2 DEF GotoLatchClear
<1>9. /\ spot_lock.source # "HOLD" /\ spot_lock'.source = "HOLD" => in.ch3_edge
      /\ spot_lock'.substate # "OFF" /\ spot_lock'.source = "GOTO"
           => /\ in.goto_engage /\ ~latch_clear
              /\ in.comms_fresh => spot_lock'.ref = in.goto_target
      /\ spot_lock.source = "GOTO" /\ state' = "ARMED" /\ in.goto_engage /\ ~latch_clear
           => spot_lock'.source = "GOTO"
      /\ spot_lock.source = "HOLD" /\ state' = "ARMED" /\ in.ch3_on
           /\ spot_lock'.substate = "OFF"
           => spot_lock.override_frames = OverrideHoldFrames - 1
  BY <1>3, <1>5, <1>7, SessionNext
<1>10. in.ch3_edge => ch3.initialised /\ ~ch3.is_high /\ ch3'.is_high
  <2>1. ch3.is_high \in BOOLEAN /\ ch3'.is_high \in BOOLEAN
    <3>1. TaskInv'
      BY CycleKeepsTask
    <3> QED BY <3>1 DEF TaskInv, SwitchType
  <2> QED BY <1>3, <1>4, <2>1 DEF SwitchRises, SwitchEdge
<1> HIDE DEF latch_clear
<1> QED BY <1>3, <1>4, <1>6, <1>8, <1>9, <1>10

\* The steps that are no cycle leave mode, session, latch and switches alone, or boot.
LEMMA OtherSteps ==
  ASSUME [Next]_vars, ~(\E f \in Frames : RunOneCycle(f))
  PROVE  Reset \/ UNCHANGED <<state, spot_lock, goto, ch3, ch4, clicks, params>>
  BY DEF Next, PostCommand, Post, BeginCopy, Decide, PostPending, vars, loopVars, taskVars

\* Both invariants of the goto latch hold.
LEMMA LatchInvariant == Spec => [](EngagedGotoIsLatched /\ NoGotoBehindCh3)
<1>1. Init => EngagedGotoIsLatched /\ NoGotoBehindCh3
  BY DEF Init, InitOf, LoopInit, SpotLockBoot, EngagedGotoIsLatched, NoGotoBehindCh3, Engaged
<1>2. TaskInv /\ SettingsInv /\ EngagedGotoIsLatched /\ NoGotoBehindCh3 /\ [Next]_vars
        => (EngagedGotoIsLatched /\ NoGotoBehindCh3)'
  <2> SUFFICES ASSUME TaskInv, SettingsInv, EngagedGotoIsLatched, NoGotoBehindCh3, [Next]_vars
               PROVE  (EngagedGotoIsLatched /\ NoGotoBehindCh3)'
    OBVIOUS
  <2>1. CASE \E f \in Frames : RunOneCycle(f)
    BY <2>1, LatchNext DEF EngagedGotoIsLatched, NoGotoBehindCh3, Engaged
  <2>2. CASE Reset
    BY <2>2 DEF Reset, LoopReset, SpotLockBoot, EngagedGotoIsLatched, NoGotoBehindCh3, Engaged
  <2>3. CASE UNCHANGED <<state, spot_lock, goto, ch3, ch4, clicks, params>>
    BY <2>3 DEF EngagedGotoIsLatched, NoGotoBehindCh3, Engaged
  <2> QED BY <2>1, <2>2, <2>3, OtherSteps
<1> QED BY <1>1, <1>2, TaskInvariant, PTL DEF Spec

\* The regulator never drives to a target the task has let go of, nor, over a fresh link, to
\* any but the one commanded last.
THEOREM GotoLatched == Spec => []EngagedGotoIsLatched
BY LatchInvariant, PTL

\* While CH3 is on in ARMED, no goto waits behind it for the switch to go off.
THEOREM GotoNeverWaits == Spec => []NoGotoBehindCh3
BY LatchInvariant, PTL

\* A goto that ends while the unit stays ARMED is not engaged again by the latch.
THEOREM GotoEndsForGood == Spec => EndedGotoStaysEnded
<1> DEFINE Ends == (Engaged("GOTO") /\ state' = "ARMED" /\ ~(spot_lock'.source = "GOTO"))
                     => ~goto'.engage
<1>1. TaskInv /\ SettingsInv /\ [Next]_vars => [Ends]_vars
  <2> SUFFICES ASSUME TaskInv, SettingsInv, [Next]_vars
               PROVE  Ends
    OBVIOUS
  <2>1. CASE \E f \in Frames : RunOneCycle(f)
    BY <2>1, LatchNext DEF Engaged
  <2>2. CASE Reset
    BY <2>2 DEF Reset, LoopReset
  <2>3. CASE UNCHANGED <<state, spot_lock, goto, ch3, ch4, clicks, params>>
    BY <2>3 DEF Engaged
  <2> QED BY <2>1, <2>2, <2>3, OtherSteps
<1> QED BY <1>1, TaskInvariant, PTL DEF Spec, EndedGotoStaysEnded

\* Only the completed throttle gesture drops a hold whose switch stays on in ARMED.
THEOREM GestureDropsHold == Spec => HoldDroppedOnlyByGesture
<1> DEFINE Drops ==
  (Engaged("HOLD") /\ ch3'.is_high /\ state' = "ARMED" /\ spot_lock'.substate = "OFF")
    => spot_lock.override_frames = OverrideHoldFrames - 1
<1>1. TaskInv /\ SettingsInv /\ [Next]_vars => [Drops]_vars
  <2> SUFFICES ASSUME TaskInv, SettingsInv, [Next]_vars
               PROVE  Drops
    OBVIOUS
  <2>1. CASE \E f \in Frames : RunOneCycle(f)
    BY <2>1, LatchNext DEF Engaged
  <2>2. CASE Reset
    BY <2>2 DEF Reset, LoopReset
  <2>3. CASE UNCHANGED <<state, spot_lock, goto, ch3, ch4, clicks, params>>
    BY <2>3 DEF Engaged
  <2> QED BY <2>1, <2>2, <2>3, OtherSteps
<1> QED BY <1>1, TaskInvariant, PTL DEF Spec, HoldDroppedOnlyByGesture

\* A hold takes the target over on a rising CH3 of this very cycle.
THEOREM HoldNeedsRisingCh3 == Spec => HoldEnteredOnRisingCh3
<1> DEFINE Enters == (spot_lock.source # "HOLD" /\ spot_lock'.source = "HOLD")
                       => ch3.initialised /\ ~ch3.is_high /\ ch3'.is_high
<1>1. TaskInv /\ SettingsInv /\ [Next]_vars => [Enters]_vars
  <2> SUFFICES ASSUME TaskInv, SettingsInv, [Next]_vars
               PROVE  Enters
    OBVIOUS
  <2>1. CASE \E f \in Frames : RunOneCycle(f)
    BY <2>1, LatchNext
  <2>2. CASE Reset
    BY <2>2 DEF Reset, LoopReset, SpotLockBoot
  <2>3. CASE UNCHANGED <<state, spot_lock, goto, ch3, ch4, clicks, params>>
    BY <2>3
  <2> QED BY <2>1, <2>2, <2>3, OtherSteps
<1> QED BY <1>1, TaskInvariant, PTL DEF Spec, HoldEnteredOnRisingCh3

-----------------------------------------------------------------------------
(* Arming.                                                                 *)

\* What a cycle needs to arm, and what keeps it from staying armed.
LEMMA ArmingNext ==
  ASSUME TaskInv, SettingsInv, NEW f \in Frames, RunOneCycle(f)
  PROVE  /\ state = "ARMED" /\ (Consumed("disarm") \/ Ch4Clicked) => state' # "ARMED"
         /\ state # "ARMED" /\ state' = "ARMED" =>
              \/ Consumed("arm")
              \/ /\ clicks.count = 1 /\ clicks'.count = 0
                 /\ clicks.frames_since_last + 1 >= ClickWindowFrames(params')
<1>1. PICK grabbed \in Grabs(Ev) : \E fresh \in LinkFreshness(Ev, grabbed) :
        LoopStep(Inputs(f, grabbed, fresh), InForce)
  BY CycleShape
<1>2. PICK fresh \in LinkFreshness(Ev, grabbed) : LoopStep(Inputs(f, grabbed, fresh), InForce)
  BY <1>1
<1> DEFINE in == Inputs(f, grabbed, fresh)
<1>3. in.req = Ev.req \cup Button(f).req
  BY StagingFacts
<1> HIDE DEF in
<1>4. /\ state = "ARMED" /\ state' = "ARMED" => "disarm" \notin in.req
      /\ state # "ARMED" /\ state' = "ARMED" => "arm" \in in.req
  BY <1>2, ModeNext DEF TaskInv, in
<1>5. ui_queue' = Empty /\ ch4' = Button(f).sw /\ clicks' = Button(f).burst /\ params' = InForce
  BY CycleShape
<1>6. Ev.req = IF ui_queue = Empty THEN {} ELSE ui_queue.req
  BY DEF Ev, NoEvents
<1>7. /\ state = "ARMED" /\ ch4.initialised /\ Button(f).sw.is_high # ch4.is_high
           => "disarm" \in Button(f).req
      /\ "arm" \in Button(f).req
           => /\ clicks.count = 1 /\ Button(f).burst.count = 0
              /\ clicks.frames_since_last + 1 >= ClickWindowFrames(InForce)
  BY ButtonFacts
<1>8. \A r : r \in Ev.req <=> Consumed(r)
  BY <1>5, <1>6 DEF Consumed
<1>9. Ch4Clicked /\ state = "ARMED" => "disarm" \in Button(f).req
  BY <1>5, <1>7 DEF Ch4Clicked
<1>10. "arm" \in Button(f).req
         => /\ clicks.count = 1 /\ clicks'.count = 0
            /\ clicks.frames_since_last + 1 >= ClickWindowFrames(params')
  BY <1>5, <1>7
<1> QED BY <1>3, <1>4, <1>8, <1>9, <1>10

\* A post is not a command taken.
LEMMA OnlyCyclesConsume ==
  ASSUME TaskInv, [Next]_vars, ~(\E f \in Frames : RunOneCycle(f)), ~Reset, NEW r
  PROVE  ~Consumed(r)
<1>1. CASE PostCommand
  <2>1. ui_queue' \in EventType
    BY <1>1, EventTyped DEF PostCommand, Post
  <2> QED BY <2>1, EventsAreNotEmpty DEF Consumed
<1>2. CASE ~PostCommand
  <2>1. UNCHANGED ui_queue
    BY <1>2 DEF Next, BeginCopy, Decide, PostPending, vars, taskVars
  <2> QED BY <2>1 DEF Consumed
<1> QED BY <1>1, <1>2

\* A disarm command or a CH4 click that a cycle sees ends ARMED in it.
THEOREM DisarmWins == Spec => DisarmEndsArmed
<1> DEFINE Ends == (state = "ARMED" /\ (Consumed("disarm") \/ Ch4Clicked)) => state' # "ARMED"
<1>1. TaskInv /\ SettingsInv /\ [Next]_vars => [Ends]_vars
  <2> SUFFICES ASSUME TaskInv, SettingsInv, [Next]_vars
               PROVE  Ends
    OBVIOUS
  <2>1. CASE \E f \in Frames : RunOneCycle(f)
    BY <2>1, ArmingNext
  <2>2. CASE Reset
    BY <2>2 DEF Reset, LoopReset
  <2>3. CASE ~(\E f \in Frames : RunOneCycle(f)) /\ ~Reset
    <3>1. ~Consumed("disarm")
      BY <2>3, OnlyCyclesConsume
    <3>2. ~Ch4Clicked
      BY <2>3, OtherSteps DEF Ch4Clicked
    <3> QED BY <3>1, <3>2
  <2> QED BY <2>1, <2>2, <2>3
<1> QED BY <1>1, TaskInvariant, PTL DEF Spec, DisarmEndsArmed

\* The unit is armed by a command or by one click and the silence after it.
THEOREM ArmingNeedsRequest == Spec => ArmingIsRequested
<1> DEFINE Asked ==
  (state # "ARMED" /\ state' = "ARMED") =>
    \/ Consumed("arm")
    \/ /\ clicks.count = 1 /\ clicks'.count = 0
       /\ clicks.frames_since_last + 1 >= ClickWindowFrames(params')
<1>1. TaskInv /\ SettingsInv /\ [Next]_vars => [Asked]_vars
  <2> SUFFICES ASSUME TaskInv, SettingsInv, [Next]_vars
               PROVE  Asked
    OBVIOUS
  <2>1. CASE \E f \in Frames : RunOneCycle(f)
    BY <2>1, ArmingNext
  <2>2. CASE Reset
    BY <2>2 DEF Reset, LoopReset
  <2>3. CASE UNCHANGED <<state, spot_lock, goto, ch3, ch4, clicks, params>>
    BY <2>3
  <2> QED BY <2>1, <2>2, <2>3, OtherSteps
<1> QED BY <1>1, TaskInvariant, PTL DEF Spec, ArmingIsRequested


\* The burst that ARMED leaves behind is empty, or frozen with CH4 disabled; the button raises
\* the motor with the third click in DISARMED only.
LEMMA ButtonDeploys ==
  ASSUME TaskInv, SettingsInv, NEW f \in Frames
  PROVE  /\ state = "ARMED" => \/ Button(f).burst.count = 0
                               \/ ~params.ch4_mode_switch_enabled /\ Button(f).burst = clicks
         /\ "deploy" \in Button(f).req
              => /\ state = "DISARMED" /\ clicks.count = ClickTripleCount - 1
                 /\ ch4.initialised /\ Button(f).sw.initialised
                 /\ Button(f).sw.is_high # ch4.is_high
<1> DEFINE sw    == SwitchUpdate(ch4, f.ch4)
           click == SwitchEdge(ch4, sw)
           cl    == ClickUpdate(clicks, click, ClickWindowFrames(InForce))
<1>1. Button(f) = IF InForce.ch4_mode_switch_enabled
                    THEN [sw |-> sw, burst |-> Ch4Burst(cl),
                          req |-> Ch4Requests(click, cl.gesture)]
                    ELSE [sw |-> ch4, burst |-> clicks, req |-> {}]
  BY DEF Button, Ch4Cycle
<1>2. state = "ARMED" => Ch4Burst(cl).count = 0
  BY DEF Ch4Burst, ClicksReset
<1>3. "deploy" \in Ch4Requests(click, cl.gesture) => state = "DISARMED" /\ cl.gesture = "TRIPLE"
  BY DEF Ch4Requests
<1>4. cl.gesture = "TRIPLE" => click /\ clicks.count = ClickTripleCount - 1
  <2>1. clicks.count \in 0..2
    BY DEF TaskInv, ClickType, ClickTripleCount
  <2> QED BY <2>1 DEF ClickUpdate, ClosedGesture, ClickTripleCount
<1>5. click => ch4.initialised /\ sw.initialised /\ sw.is_high # ch4.is_high
  <2>1. ch4 \in SwitchType
    BY DEF TaskInv
  <2>2. ch4.initialised => sw.initialised
    BY <2>1 DEF SwitchUpdate, SwitchType
  <2> QED BY <2>2 DEF SwitchEdge
<1>6. state = "ARMED" => InForce.ch4_mode_switch_enabled = params.ch4_mode_switch_enabled
  <2>1. SUFFICES ASSUME state = "ARMED"
                 PROVE  InForce.ch4_mode_switch_enabled = params.ch4_mode_switch_enabled
    OBVIOUS
  <2>2. InForce = Trimmed(params, Ev.trim)
    BY <2>1 DEF InForce, Applies, ShouldApplyPending
  <2>3. "ch4_mode_switch_enabled" \in DOMAIN params
    BY DEF SettingsInv, Legal, ParamNames
  <2> QED BY <2>2, <2>3 DEF Trimmed
<1> HIDE DEF sw, click, cl
<1> QED BY <1>1, <1>2, <1>3, <1>4, <1>5, <1>6

\* A cycle enters DEPLOY on a request only.
LEMMA DeployNext ==
  ASSUME state \in SmStates, NEW in, NEW p, LoopStep(in, p), state # "DEPLOY", state' = "DEPLOY"
  PROVE  "deploy" \in in.req
<1> DEFINE si == SmInputs(in, p, RcOf(in).valid)
           s == NextState(state, si)
<1>1. SmOf(in, p).state = s /\ si.req = in.req
  BY DEF SmOf, SmStep, SmInputs
<1>2. s = "DEPLOY" => "deploy" \in si.req
  <2> HIDE DEF si
  <2> QED
    BY DEF s, NextState, SmStates, NextFromDisarmed, NextFromDeploy, NextFromArmed,
           NextFromFailsafe, NextFromCalibration
<1> HIDE DEF s, si
<1>3. state' = ControlStateNext(SmOf(in, p), CalOf(in))
  BY CoreShape
<1>4. state' = s
  BY <1>1, <1>3 DEF ControlStateNext
<1> QED BY <1>1, <1>2, <1>4

\* The motor goes up on a command or on three clicks, of which the one that disarmed is none.
THEOREM DisarmingClickIsNoDeploy == Spec => DisarmingClickNeverDeploys
<1> DEFINE Deploys ==
  /\ (state = "ARMED" /\ state' = "DISARMED") =>
       clicks'.count = 0 \/ (~params.ch4_mode_switch_enabled /\ clicks' = clicks)
  /\ (state # "DEPLOY" /\ state' = "DEPLOY") =>
       \/ Consumed("deploy")
       \/ state = "DISARMED" /\ clicks.count = ClickTripleCount - 1 /\ Ch4Clicked
<1>1. TaskInv /\ SettingsInv /\ [Next]_vars => [Deploys]_vars
  <2> SUFFICES ASSUME TaskInv, SettingsInv, [Next]_vars
               PROVE  Deploys
    OBVIOUS
  <2>1. CASE \E f \in Frames : RunOneCycle(f)
    <3>1. PICK f \in Frames : RunOneCycle(f)
      BY <2>1
    <3>2. ui_queue' = Empty /\ ch4' = Button(f).sw /\ clicks' = Button(f).burst
      BY <3>1, CycleShape
    <3>3. PICK grabbed \in Grabs(Ev) : \E fresh \in LinkFreshness(Ev, grabbed) :
            LoopStep(Inputs(f, grabbed, fresh), InForce)
      BY <3>1, CycleShape
    <3>4. PICK fresh \in LinkFreshness(Ev, grabbed) : LoopStep(Inputs(f, grabbed, fresh), InForce)
      BY <3>3
    <3> DEFINE in == Inputs(f, grabbed, fresh)
    <3>5. in.req = Ev.req \cup Button(f).req
      BY StagingFacts
    <3> HIDE DEF in
    <3>6. state # "DEPLOY" /\ state' = "DEPLOY" => "deploy" \in Ev.req \cup Button(f).req
      BY <3>4, <3>5, DeployNext DEF TaskInv, in
    <3>7. "deploy" \in Ev.req => Consumed("deploy")
      BY <3>2 DEF Ev, NoEvents, Consumed
    <3> QED BY <3>2, <3>6, <3>7, ButtonDeploys DEF Ch4Clicked
  <2>2. CASE Reset
    BY <2>2 DEF Reset, LoopReset, ClicksReset
  <2>3. CASE UNCHANGED <<state, spot_lock, goto, ch3, ch4, clicks, params>>
    BY <2>3
  <2> QED BY <2>1, <2>2, <2>3, OtherSteps
<1> QED BY <1>1, TaskInvariant, PTL DEF Spec, DisarmingClickNeverDeploys
=============================================================================
