------------------------------ MODULE Compass ------------------------------
(***************************************************************************)
(* The compass (components/imu, bno085.c): imu_start in the boot task, then *)
(* the reader task, over the I2C bus and the sensor hub behind it.         *)
(*                                                                         *)
(* Two waits of the sensor-hub library decide what a dead bus does to the  *)
(* driver: a transfer that hal_write answers with 0 is repeated for ever,  *)
(* and the calibration command waits for its answer with no time-out.      *)
(* Both keep servicing the bus, so the callbacks run inside them.          *)
(*                                                                         *)
(* The hub is external: it loses its configuration when it resets, tells   *)
(* so with a packet, and sends reports while they are enabled.  A heading  *)
(* is abstracted to its age.                                               *)
(***************************************************************************)
EXTENDS Naturals, Sequences

CONSTANTS
  ImuMsMod,        \* now_ms wraps there (2^32)
  ImuStaleAfterMs, \* IMU_STALE_AFTER_MS
  ServicePeriodMs, \* IMU_SERVICE_PERIOD_MS
  MaxResets,       \* bound: resets of the hub after the first
  MaxOutages       \* bound: how often the bus fails

ASSUME CompassAssumption ==
  /\ {ImuMsMod, ImuStaleAfterMs, ServicePeriodMs} \subseteq Nat \ {0}
  /\ ImuStaleAfterMs + ServicePeriodMs + 1 < ImuMsMod
  /\ {MaxResets, MaxOutages} \subseteq Nat

VARIABLES
  at,              \* where the driver is
  need_reconfig,   \* s_need_reconfig
  ok,              \* s_state.ok
  last_report_ms,  \* s_last_report_ms
  imu_ms,          \* now_ms
  slept,           \* ms of the delay at the end of a pass
  booted,          \* app_main has gone on past imu_start, to the control task
  \* external
  bus,             \* the hub answers on the I2C bus
  hub,             \* its configuration, and the packets it has to hand over
  resets, outages, \* how often it reset and the bus failed
  \* what no variable of the code holds, for the properties
  report_age       \* ms since the last report, up to ImuMsMod

driverVars == <<at, need_reconfig, slept, booted>>
headingVars == <<ok, last_report_ms, report_age>>
worldVars == <<bus, hub, resets, outages>>
imuVars == <<imu_ms, driverVars, headingVars, worldVars>>

\* imu_start: the soft reset, the wait for its notice, calibration, reports.
\* imu_task: the top of a pass, reports and calibration again, service and staleness.
StartPoints == {"open", "await_reset", "send_cal", "await_cal", "send_rv"}
TaskPoints == {"top", "resend_rv", "resend_cal", "await_recal", "service", "check"}
NoTask == "no_task"
Sending == {"send_cal", "send_rv", "resend_rv", "resend_cal"}
Awaiting == {"await_cal", "await_recal"}

\* Where the driver goes once what it does at a point has succeeded.
Following ==
  [open |-> "await_reset", await_reset |-> "send_cal", send_cal |-> "await_cal",
   await_cal |-> "send_rv", send_rv |-> "top", resend_rv |-> "resend_cal",
   resend_cal |-> "await_recal", await_recal |-> "service", service |-> "check"]

HubReset == [reports |-> FALSE, packets |-> <<"reset">>]

ImuInit ==
  /\ at = "open"
  /\ need_reconfig = FALSE
  /\ ok = FALSE
  /\ last_report_ms = 0
  /\ imu_ms = 0
  /\ slept = 0
  /\ booted = FALSE
  /\ bus \in BOOLEAN
  /\ hub = [reports |-> FALSE, packets |-> << >>]
  /\ resets = 0
  /\ outages = 0
  /\ report_age = ImuMsMod

\* Faulty: the age is a signed difference.
ImuStaleSigned(now, last) == now > last + ImuStaleAfterMs

ImuStale(now, last) == (now + ImuMsMod - last) % ImuMsMod > ImuStaleAfterMs

(* The hub and the bus. *)

\* Time passes where the driver waits.
ImuTick ==
  /\ \/ at \in {"await_reset", NoTask}
     \/ at \in Sending /\ ~bus
     \/ at \in Awaiting /\ (~bus \/ hub.packets = << >>)
     \/ at = "top" /\ slept < ServicePeriodMs
  /\ imu_ms' = (imu_ms + 1) % ImuMsMod
  /\ slept' = IF at = "top" THEN slept + 1 ELSE slept
  /\ report_age' = IF report_age < ImuMsMod THEN report_age + 1 ELSE report_age
  /\ UNCHANGED <<at, need_reconfig, booted, ok, last_report_ms, worldVars>>

BusFails ==
  /\ bus
  /\ outages < MaxOutages
  /\ bus' = FALSE
  /\ outages' = outages + 1
  /\ UNCHANGED <<imu_ms, driverVars, headingVars, hub, resets>>

BusRecovers ==
  /\ ~bus
  /\ bus' = TRUE
  /\ UNCHANGED <<imu_ms, driverVars, headingVars, hub, resets, outages>>

HubResets ==
  /\ at # "open"
  /\ resets < MaxResets
  /\ hub' = HubReset
  /\ resets' = resets + 1
  /\ UNCHANGED <<imu_ms, driverVars, headingVars, bus, outages>>

HubReports ==
  /\ hub.reports
  /\ \A i \in DOMAIN hub.packets : hub.packets[i] # "report"
  /\ hub' = [hub EXCEPT !.packets = Append(@, "report")]
  /\ UNCHANGED <<imu_ms, driverVars, headingVars, bus, resets, outages>>

(* The callbacks: shtp_service hands over one packet. *)

\* What a packet does to the flag and to where the driver is; a reset aborts the
\* calibration command, on which imu_start gives up and imu_task goes on.
\* Faulty: while a command waits for its answer the reset notice only aborts it.
EventCbOnlyAborts(packet) ==
  /\ need_reconfig' = (need_reconfig \/ (packet = "reset" /\ at \notin Awaiting))
  /\ booted' = (booted \/ (packet = "reset" /\ at = "await_cal"))

EventCb(packet) ==
  /\ need_reconfig' = (need_reconfig \/ packet = "reset")
  /\ booted' = (booted \/ (packet = "reset" /\ at = "await_cal"))

SensorCb(packet) ==
  IF packet = "report" /\ at # "await_reset"
  THEN ok' = TRUE /\ last_report_ms' = imu_ms /\ report_age' = 0
  ELSE UNCHANGED headingVars

Service ==
  /\ bus
  /\ hub.packets # << >>
  /\ hub' = [hub EXCEPT !.packets = Tail(@)]
  /\ EventCb(Head(hub.packets))
  /\ SensorCb(Head(hub.packets))
  /\ UNCHANGED <<imu_ms, slept, bus, resets, outages>>

(* imu_start, in the boot task. *)

OpenHub ==
  /\ at = "open"
  /\ bus
  /\ hub' = HubReset
  /\ at' = Following[at]
  /\ UNCHANGED <<imu_ms, need_reconfig, slept, booted, headingVars, bus, resets, outages>>

\* The bus refuses the soft reset ten times: imu_start fails, and the boot goes on.
OpenFails ==
  /\ at = "open"
  /\ ~bus
  /\ at' = NoTask
  /\ booted' = TRUE
  /\ UNCHANGED <<imu_ms, need_reconfig, slept, headingVars, worldVars>>

\* sh2_open returns once the reset notice is in, or when it has waited long enough.
AwaitReset ==
  /\ at = "await_reset"
  /\ Service
  /\ at' = IF Head(hub.packets) = "reset" THEN Following[at] ELSE at

AwaitResetTimesOut ==
  /\ at = "await_reset"
  /\ at' = Following[at]
  /\ UNCHANGED <<imu_ms, need_reconfig, slept, booted, headingVars, worldVars>>

(* A command: the transfer, repeated until the hub takes it, and the answer. *)

Accepted(h) ==
  IF at \in {"send_rv", "resend_rv"} THEN [h EXCEPT !.reports = TRUE]
  ELSE [h EXCEPT !.packets = Append(@, "cal_answer")]

SendAccepted ==
  /\ at \in Sending
  /\ bus
  /\ hub' = Accepted(hub)
  /\ at' = Following[at]
  /\ booted' = (booted \/ at = "send_rv")
  /\ last_report_ms' = IF at = "send_rv" THEN imu_ms ELSE last_report_ms
  /\ UNCHANGED <<imu_ms, need_reconfig, slept, ok, report_age, bus, resets, outages>>

\* hal_write gave 0: the library services the bus and tries again.
SendRefused ==
  /\ at \in Sending
  /\ UNCHANGED at
  /\ Service

AwaitAnswer ==
  /\ at \in Awaiting
  /\ Service
  /\ at' = CASE Head(hub.packets) = "cal_answer" -> Following[at]
             [] Head(hub.packets) = "reset" /\ at = "await_recal" -> Following[at]
             [] Head(hub.packets) = "reset" /\ at = "await_cal" -> NoTask
             [] OTHER -> at

(* imu_task: one pass. *)

PassBegins ==
  /\ at = "top"
  /\ slept = ServicePeriodMs
  /\ slept' = 0
  /\ at' = IF need_reconfig THEN "resend_rv" ELSE "service"
  /\ need_reconfig' = FALSE
  /\ UNCHANGED <<imu_ms, booted, headingVars, worldVars>>

ServicePass ==
  /\ at = "service"
  /\ at' = Following[at]
  /\ \/ Service
     \/ /\ ~bus \/ hub.packets = << >>
        /\ UNCHANGED <<imu_ms, need_reconfig, slept, booted, headingVars, worldVars>>

CheckStale ==
  /\ at = "check"
  /\ at' = "top"
  /\ ok' = (ok /\ ~ImuStale(imu_ms, last_report_ms))
  /\ UNCHANGED <<imu_ms, need_reconfig, slept, booted, last_report_ms, report_age, worldVars>>

DriverNext ==
  \/ OpenHub \/ OpenFails \/ AwaitReset \/ AwaitResetTimesOut
  \/ SendAccepted \/ SendRefused \/ AwaitAnswer
  \/ PassBegins \/ ServicePass \/ CheckStale

ImuNext ==
  \/ ImuTick \/ BusFails \/ BusRecovers \/ HubResets \/ HubReports
  \/ DriverNext

\* The boot task and the reader task are scheduled, time passes, and a hub that can be
\* reached takes a transfer in the end and sends the reports it was asked for.  Nothing
\* obliges the bus to come back.
ImuFairness ==
  /\ WF_imuVars(DriverNext)
  /\ WF_imuVars(SendAccepted)
  /\ WF_imuVars(ImuTick)
  /\ WF_imuVars(HubReports)

ImuSpec == ImuInit /\ [][ImuNext]_imuVars /\ ImuFairness
-----------------------------------------------------------------------------
\* With the bus up from some time on, the reader task has an ok heading again and again:
\* neither a reset nor a wait inside the configuration stops it for good.
HeadingComesBack == <>[](bus /\ at \in TaskPoints) => []<>ok

HeadingExpired == ImuStaleAfterMs + ServicePeriodMs < report_age /\ report_age < ImuMsMod

\* A heading older than the window and one pass is not handed out as ok while the task
\* makes its passes, whatever the clock shows.
HeadingGoesStale == at = "top" /\ HeadingExpired => ~ok

\* What imu.h says of ok ("true while fresh rotation-vector data is flowing"), wherever
\* the task is.
OkMeansFlowing == HeadingExpired => ~ok

\* What app_main.c says of the compass ("a start error is logged but never aborts the
\* boot, and losing it has no effect on arming/steering/failsafe").
BootGoesOn == <>booted
=============================================================================
