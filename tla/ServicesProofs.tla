--------------------------- MODULE ServicesProofs ---------------------------
(***************************************************************************)
(* Proofs about what runs beside the control task: a heading of the        *)
(* compass goes stale in every phase of its wrapping clock, and pushes of  *)
(* the telemetry never back up.                                            *)
(***************************************************************************)
EXTENDS Compass, WsTelemetry, TLAPS

(* The compass. *)

\* Before the reports are asked for, and after imu_start has given up.
Unconfigured == at \in StartPoints \cup {NoTask}

ImuTypes ==
  /\ at \in StartPoints \cup TaskPoints \cup {NoTask}
  /\ ok \in BOOLEAN /\ bus \in BOOLEAN
  /\ imu_ms \in 0..(ImuMsMod - 1) /\ last_report_ms \in 0..(ImuMsMod - 1)
  /\ report_age \in 0..ImuMsMod
  /\ slept \in 0..ServicePeriodMs
  /\ at # "top" => slept = 0
  /\ hub \in [reports : BOOLEAN, packets : Seq({"reset", "cal_answer", "report"})]

\* No report reaches the driver before it has asked for one.
NothingReported ==
  Unconfigured => ~ok /\ ~hub.reports /\ hub.packets \in Seq({"reset", "cal_answer"})

\* While a heading is ok the stamp tells its age, until the clock has come round to it.
StampTellsAge ==
  ok /\ report_age < ImuMsMod => (imu_ms + ImuMsMod - last_report_ms) % ImuMsMod = report_age

\* Between two passes an ok heading is older than the window by no more than the delay.
CheckedLately ==
  at = "top" /\ ok /\ report_age < ImuMsMod => report_age <= ImuStaleAfterMs + slept

ImuInv == ImuTypes /\ NothingReported /\ StampTellsAge /\ CheckedLately

-----------------------------------------------------------------------------
\* What the clock shows since a stamp; it ages with every tick until it has come round.
LEMMA ImuElapsed ==
  ASSUME NEW now \in 0..(ImuMsMod - 1), NEW last \in 0..(ImuMsMod - 1)
  PROVE  LET age  == (now + ImuMsMod - last) % ImuMsMod
             next == (((now + 1) % ImuMsMod) + ImuMsMod - last) % ImuMsMod
         IN  /\ age \in 0..(ImuMsMod - 1)
             /\ (now + 1) % ImuMsMod \in 0..(ImuMsMod - 1)
             /\ next = IF age = ImuMsMod - 1 THEN 0 ELSE age + 1
             /\ (now + ImuMsMod - now) % ImuMsMod = 0
<1> DEFINE m == ImuMsMod
           now1 == (now + 1) % m
<1>1. m \in Nat \ {0}
  BY CompassAssumption
<1>2. now1 \in 0..(m - 1) /\ now1 = (IF now = m - 1 THEN 0 ELSE now + 1)
  <2> HIDE DEF m
  <2> QED BY <1>1 DEF m
<1>3. \A n \in 0..(m - 1) :
        (n + m - last) % m = IF n >= last THEN n - last ELSE n - last + m
  <2> HIDE DEF m
  <2> QED BY <1>1 DEF m
<1>4. (now + m - now) % m = 0
  <2> HIDE DEF m
  <2> QED BY <1>1 DEF m
<1> HIDE DEF m, now1
<1>5. (now1 + m - last) % m
        = IF (now + m - last) % m = m - 1 THEN 0 ELSE ((now + m - last) % m) + 1
  BY <1>1, <1>2, <1>3 DEF m
<1> QED BY <1>1, <1>2, <1>3, <1>4, <1>5 DEF m, now1

\* What a packet does to the heading: a report of a configured hub stamps it.
LEMMA ServiceKeepsHeading ==
  ASSUME ImuInv, Service
  PROVE  /\ ok' \in BOOLEAN /\ last_report_ms' \in 0..(ImuMsMod - 1)
         /\ report_age' \in 0..ImuMsMod
         /\ bus' = bus /\ imu_ms' = imu_ms /\ slept' = slept
         /\ hub' \in [reports : BOOLEAN, packets : Seq({"reset", "cal_answer", "report"})]
         /\ hub'.reports = hub.reports
         /\ Unconfigured => ok' = ok /\ hub'.packets \in Seq({"reset", "cal_answer"})
         /\ StampTellsAge'
<1>1. /\ bus /\ hub.packets # << >> /\ hub' = [hub EXCEPT !.packets = Tail(@)]
      /\ SensorCb(Head(hub.packets))
      /\ UNCHANGED <<imu_ms, slept, bus>>
  BY DEF Service
<1>2. /\ hub' \in [reports : BOOLEAN, packets : Seq({"reset", "cal_answer", "report"})]
      /\ hub'.reports = hub.reports
  <2>1. Tail(hub.packets) \in Seq({"reset", "cal_answer", "report"})
    BY <1>1 DEF ImuInv, ImuTypes
  <2> QED BY <1>1, <2>1 DEF ImuInv, ImuTypes
<1>3. ASSUME Unconfigured
      PROVE  hub'.packets \in Seq({"reset", "cal_answer"}) /\ Head(hub.packets) # "report"
  <2>1. hub.packets \in Seq({"reset", "cal_answer"}) /\ hub'.packets = Tail(hub.packets)
    BY <1>1, <1>3 DEF ImuInv, ImuTypes, NothingReported
  <2>2. Tail(hub.packets) \in Seq({"reset", "cal_answer"})
    BY <1>1, <2>1
  <2>3. Head(hub.packets) \in {"reset", "cal_answer"}
    BY <1>1, <2>1
  <2> QED BY <2>1, <2>2, <2>3
<1>4. CASE Head(hub.packets) = "report" /\ at # "await_reset"
  <2>1. ok' = TRUE /\ last_report_ms' = imu_ms /\ report_age' = 0
    BY <1>1, <1>4 DEF SensorCb
  <2>2. (imu_ms + ImuMsMod - imu_ms) % ImuMsMod = 0 /\ ImuMsMod \in Nat \ {0}
    BY ImuElapsed, CompassAssumption DEF ImuInv, ImuTypes
  <2>3. StampTellsAge'
    BY <1>1, <2>1, <2>2 DEF StampTellsAge
  <2>4. imu_ms \in 0..(ImuMsMod - 1) /\ report_age' \in 0..ImuMsMod
    BY <2>1, <2>2 DEF ImuInv, ImuTypes
  <2> QED BY <1>1, <1>2, <1>3, <1>4, <2>1, <2>3, <2>4
<1>5. CASE ~(Head(hub.packets) = "report" /\ at # "await_reset")
  <2>1. UNCHANGED headingVars
    BY <1>1, <1>5 DEF SensorCb
  <2> QED BY <1>1, <1>2, <1>3, <2>1 DEF ImuInv, ImuTypes, StampTellsAge, headingVars
<1> QED BY <1>4, <1>5

\* Every step of the hub, the bus and the driver keeps the invariant.
LEMMA ImuStep == ImuInv /\ [ImuNext]_imuVars => ImuInv'
<1> SUFFICES ASSUME ImuInv, [ImuNext]_imuVars PROVE ImuInv'
  OBVIOUS
<1> USE DEF StartPoints, TaskPoints, NoTask, Sending, Awaiting
<1>0. ImuMsMod \in Nat \ {0} /\ ImuStaleAfterMs \in Nat /\ ServicePeriodMs \in Nat \ {0}
  BY CompassAssumption
<1>1. CASE ImuTick
  <2>1. /\ imu_ms' = (imu_ms + 1) % ImuMsMod
        /\ report_age' = (IF report_age < ImuMsMod THEN report_age + 1 ELSE report_age)
        /\ UNCHANGED <<at, ok, last_report_ms, bus, hub>>
    BY <1>1 DEF ImuTick, worldVars
  <2>2. slept' = (IF at = "top" THEN slept + 1 ELSE slept) /\ slept' \in 0..ServicePeriodMs
    BY <1>0, <1>1 DEF ImuTick, ImuInv, ImuTypes
  <2>3. ImuTypes'
    <3>1. imu_ms' \in 0..(ImuMsMod - 1)
      BY <2>1, ImuElapsed DEF ImuInv, ImuTypes
    <3>2. report_age' \in 0..ImuMsMod
      BY <1>0, <2>1 DEF ImuInv, ImuTypes
    <3> QED BY <2>1, <2>2, <3>1, <3>2 DEF ImuInv, ImuTypes
  <2>4. ASSUME report_age' < ImuMsMod
        PROVE  report_age \in Nat /\ report_age < ImuMsMod - 1 /\ report_age' = report_age + 1
    BY <1>0, <2>1, <2>4 DEF ImuInv, ImuTypes
  <2>5. StampTellsAge'
    <3> SUFFICES ASSUME ok', report_age' < ImuMsMod
                 PROVE  (imu_ms' + ImuMsMod - last_report_ms') % ImuMsMod = report_age'
      BY DEF StampTellsAge
    <3>1. (imu_ms + ImuMsMod - last_report_ms) % ImuMsMod = report_age
      BY <1>0, <2>1, <2>4 DEF ImuInv, StampTellsAge
    <3>2. ImuMsMod - 1 # report_age
      BY <1>0, <2>4
    <3>3. (((imu_ms + 1) % ImuMsMod) + ImuMsMod - last_report_ms) % ImuMsMod = report_age + 1
      BY <3>1, <3>2, ImuElapsed DEF ImuInv, ImuTypes
    <3> QED BY <2>1, <2>4, <3>3
  <2>6. CheckedLately'
    BY <1>0, <2>1, <2>2, <2>4 DEF ImuInv, ImuTypes, CheckedLately
  <2> QED BY <2>1, <2>3, <2>5, <2>6 DEF ImuInv, NothingReported, Unconfigured
<1>2. ASSUME UNCHANGED <<imu_ms, driverVars, headingVars>>, bus' \in BOOLEAN,
             hub' \in [reports : BOOLEAN, packets : Seq({"reset", "cal_answer", "report"})],
             Unconfigured => ~hub'.reports /\ hub'.packets \in Seq({"reset", "cal_answer"})
      PROVE  ImuInv'
  BY <1>2 DEF ImuInv, ImuTypes, NothingReported, Unconfigured, StampTellsAge, CheckedLately,
              driverVars, headingVars
<1>3. CASE BusFails \/ BusRecovers
  BY <1>2, <1>3 DEF BusFails, BusRecovers, ImuInv, ImuTypes, NothingReported
<1>4. CASE HubResets
  BY <1>2, <1>4 DEF HubResets, HubReset, ImuInv, ImuTypes
<1>5. CASE HubReports
  <2>1. /\ hub.reports /\ ~Unconfigured /\ hub' = [hub EXCEPT !.packets = Append(@, "report")]
        /\ UNCHANGED <<imu_ms, driverVars, headingVars, bus>>
    BY <1>5 DEF HubReports, ImuInv, NothingReported
  <2>2. Append(hub.packets, "report") \in Seq({"reset", "cal_answer", "report"})
    BY DEF ImuInv, ImuTypes
  <2>3. hub' \in [reports : BOOLEAN, packets : Seq({"reset", "cal_answer", "report"})]
    BY <2>1, <2>2 DEF ImuInv, ImuTypes
  <2>4. bus' \in BOOLEAN
    BY <2>1 DEF ImuInv, ImuTypes
  <2> QED BY <1>2, <2>1, <2>3, <2>4
<1>6. CASE OpenHub
  BY <1>0, <1>6 DEF OpenHub, HubReset, Following, headingVars, ImuInv, ImuTypes, NothingReported,
                    Unconfigured, StampTellsAge, CheckedLately
<1>7. CASE OpenFails
  BY <1>7 DEF OpenFails, headingVars, worldVars, ImuInv, ImuTypes, NothingReported,
              Unconfigured, StampTellsAge, CheckedLately
<1>8. ASSUME Service, at # "top", at' # "top", at' \in StartPoints \cup TaskPoints \cup {NoTask},
             at' \in StartPoints \cup {NoTask} => Unconfigured
      PROVE  ImuInv'
  BY <1>8, ServiceKeepsHeading DEF ImuInv, ImuTypes, NothingReported, Unconfigured, CheckedLately
<1>9. CASE AwaitReset
  BY <1>8, <1>9 DEF AwaitReset, Following, Unconfigured
<1>10. ASSUME UNCHANGED <<imu_ms, slept, headingVars, worldVars>>, at # "top", at' # "top",
              at' \in StartPoints \cup TaskPoints \cup {NoTask},
              at' \in StartPoints \cup {NoTask} => Unconfigured
       PROVE  ImuInv'
  BY <1>10 DEF ImuInv, ImuTypes, NothingReported, Unconfigured, StampTellsAge, CheckedLately,
               headingVars, worldVars
<1>11. CASE AwaitResetTimesOut
  BY <1>10, <1>11 DEF AwaitResetTimesOut, Following, Unconfigured
<1>12. CASE SendAccepted
  <2>1. /\ hub' = Accepted(hub) /\ at' = Following[at] /\ at \in Sending
        /\ last_report_ms' = (IF at = "send_rv" THEN imu_ms ELSE last_report_ms)
        /\ UNCHANGED <<imu_ms, slept, ok, report_age, bus>>
    BY <1>12 DEF SendAccepted
  <2>2. /\ hub' \in [reports : BOOLEAN, packets : Seq({"reset", "cal_answer", "report"})]
        /\ at = "send_cal" =>
             ~hub'.reports /\ hub'.packets \in Seq({"reset", "cal_answer"})
    <3>1. Append(hub.packets, "cal_answer") \in Seq({"reset", "cal_answer", "report"})
      BY DEF ImuInv, ImuTypes
    <3>2. at = "send_cal" => /\ ~hub.reports
                             /\ Append(hub.packets, "cal_answer") \in Seq({"reset", "cal_answer"})
      BY DEF ImuInv, NothingReported, Unconfigured
    <3>3. CASE at \in {"send_rv", "resend_rv"}
      BY <2>1, <3>3 DEF Accepted, ImuInv, ImuTypes
    <3>4. CASE at \notin {"send_rv", "resend_rv"}
      BY <2>1, <3>1, <3>2, <3>4 DEF Accepted, ImuInv, ImuTypes
    <3> QED BY <3>3, <3>4
  <2>3. at' = (CASE at = "send_cal" -> "await_cal" [] at = "send_rv" -> "top"
                 [] at = "resend_rv" -> "resend_cal" [] at = "resend_cal" -> "await_recal")
    BY <2>1 DEF Following
  <2>4. at = "send_rv" => ~ok
    BY DEF ImuInv, NothingReported, Unconfigured
  <2> QED BY <2>1, <2>2, <2>3, <2>4
             DEF ImuInv, ImuTypes, NothingReported, Unconfigured, StampTellsAge, CheckedLately
<1>13. CASE SendRefused
  BY <1>8, <1>13 DEF SendRefused, Unconfigured
<1>14. CASE AwaitAnswer
  <2>1. at \in Awaiting /\ Service
        /\ at' \in (IF at = "await_cal" THEN {"send_rv", NoTask, at} ELSE {"service", at})
    BY <1>14 DEF AwaitAnswer, Following
  <2> QED BY <1>8, <2>1 DEF Unconfigured
<1>15. CASE PassBegins
  <2>1. /\ at = "top" /\ slept' = 0 /\ at' \in {"resend_rv", "service"}
        /\ UNCHANGED <<imu_ms, headingVars, worldVars>>
    BY <1>15 DEF PassBegins
  <2> QED BY <1>0, <2>1 DEF ImuInv, ImuTypes, NothingReported, Unconfigured, StampTellsAge,
                            CheckedLately, headingVars, worldVars
<1>16. CASE ServicePass
  BY <1>8, <1>10, <1>16 DEF ServicePass, Following, Unconfigured
<1>17. CASE CheckStale
  <2>1. /\ at = "check" /\ at' = "top" /\ ok' = (ok /\ ~ImuStale(imu_ms, last_report_ms))
        /\ UNCHANGED <<imu_ms, slept, last_report_ms, report_age, worldVars>>
    BY <1>17 DEF CheckStale
  <2>2. ok' \in BOOLEAN /\ ok' => ok
    BY <2>1
  <2>3. ok' /\ report_age < ImuMsMod => report_age <= ImuStaleAfterMs
    <3> SUFFICES ASSUME ok', report_age < ImuMsMod PROVE report_age <= ImuStaleAfterMs
      OBVIOUS
    <3>1. ok /\ ~ImuStale(imu_ms, last_report_ms)
      BY <2>1
    <3>2. (imu_ms + ImuMsMod - last_report_ms) % ImuMsMod = report_age
      BY <3>1 DEF ImuInv, StampTellsAge
    <3>3. ~(report_age > ImuStaleAfterMs)
      BY <3>1, <3>2 DEF ImuStale
    <3> QED BY <1>0, <3>3 DEF ImuInv, ImuTypes
  <2>4. slept = 0 /\ report_age \in Nat
    BY <2>1 DEF ImuInv, ImuTypes
  <2> QED BY <1>0, <2>1, <2>2, <2>3, <2>4
             DEF ImuInv, ImuTypes, NothingReported, Unconfigured, StampTellsAge, CheckedLately, worldVars
<1>18. CASE UNCHANGED imuVars
  BY <1>10, <1>18 DEF imuVars, driverVars, headingVars, worldVars, ImuInv, ImuTypes, NothingReported,
                      Unconfigured, StampTellsAge, CheckedLately
<1> QED BY <1>1, <1>3, <1>4, <1>5, <1>6, <1>7, <1>9, <1>11, <1>12, <1>13, <1>14, <1>15, <1>16,
           <1>17, <1>18 DEF ImuNext, DriverNext

\* The inductive invariant of the compass: no report before it is asked for, stamps that tell
\* their age, and a check behind every delay.
THEOREM ImuInvariant == ImuSpec => []ImuInv
<1>1. ImuInit => ImuInv
  <2> SUFFICES ASSUME ImuInit PROVE ImuInv
    OBVIOUS
  <2>1. /\ ImuMsMod \in Nat /\ 0 \in 0..(ImuMsMod - 1) /\ ImuMsMod \in 0..ImuMsMod
        /\ 0 \in 0..ServicePeriodMs
    BY CompassAssumption
  <2>2. << >> \in Seq({"reset", "cal_answer"}) /\ << >> \in Seq({"reset", "cal_answer", "report"})
    OBVIOUS
  <2>3. ImuTypes
    BY <2>1, <2>2 DEF ImuInit, ImuTypes, StartPoints
  <2>4. NothingReported /\ StampTellsAge /\ CheckedLately
    BY <2>2 DEF ImuInit, NothingReported, StampTellsAge, CheckedLately
  <2> QED BY <2>3, <2>4 DEF ImuInv
<1> QED BY <1>1, ImuStep, PTL DEF ImuSpec

\* A heading is not handed out as ok past IMU_STALE_AFTER_MS and one pass, through resets of
\* the hub, outages of the bus and wraps of now_ms (bno085.c).
THEOREM HeadingRunsOut == ImuSpec => []HeadingGoesStale
<1>1. ImuInv => HeadingGoesStale
  BY CompassAssumption DEF ImuInv, ImuTypes, CheckedLately, HeadingGoesStale, HeadingExpired
<1> QED BY <1>1, ImuInvariant, PTL

-----------------------------------------------------------------------------
(* The telemetry push. *)

\* The flag stands for the one push that is queued or running.
FlagIsThePush ==
  /\ queued \in Nat /\ push \in {"none", "sending"}
  /\ in_flight => queued + (IF push = "none" THEN 0 ELSE 1) = 1
  /\ ~in_flight => queued = 0 /\ push = "none"

\* Every step of the timer, the push and the handlers keeps the flag and the push together.
LEMMA TelemetryStep == FlagIsThePush /\ [TelemetryNext]_telemetryVars => FlagIsThePush'
<1> SUFFICES ASSUME FlagIsThePush, [TelemetryNext]_telemetryVars PROVE FlagIsThePush'
  OBVIOUS
<1>1. CASE OnTick
  BY <1>1 DEF OnTick, FlagIsThePush, pushVars
<1>2. CASE PushBegins
  BY <1>2 DEF PushBegins, FlagIsThePush
<1>3. CASE PushSends
  BY <1>3 DEF PushSends, FlagIsThePush
<1>4. CASE PushEnds
  BY <1>4 DEF PushEnds, FlagIsThePush
<1>5. ASSUME UNCHANGED <<in_flight, queued, push>>
      PROVE  FlagIsThePush'
  BY <1>5 DEF FlagIsThePush
<1>6. CASE Connect
  BY <1>5, <1>6 DEF Connect, pushVars
<1>7. ASSUME NEW fd \in Descriptors, Handshake(fd) \/ Request(fd) \/ Disconnect(fd) \/ Vanish(fd)
      PROVE  FlagIsThePush'
  BY <1>5, <1>7 DEF Handshake, Request, Disconnect, Vanish, pushVars
<1>8. CASE UNCHANGED telemetryVars
  BY <1>5, <1>8 DEF telemetryVars, pushVars
<1> QED BY <1>1, <1>2, <1>3, <1>4, <1>6, <1>7, <1>8 DEF TelemetryNext, Push

\* The flag is set exactly while a push is queued or running, so that a lost client, a push
\* dropped or an empty list never leaves it behind (ws_telemetry.c, on_tick and push_work).
THEOREM FlagInvariant == TelemetrySpec => []FlagIsThePush
<1>1. TelemetryInit => FlagIsThePush
  BY DEF TelemetryInit, FlagIsThePush
<1> QED BY <1>1, TelemetryStep, PTL DEF TelemetrySpec

\* A slow push never backs up: at most one is queued or running, whatever the clients do.
THEOREM OnePushAtATime == TelemetrySpec => []PushesNeverBackUp
<1>1. FlagIsThePush => PushesNeverBackUp
  BY DEF FlagIsThePush, PushesNeverBackUp
<1> QED BY <1>1, FlagInvariant, PTL
=============================================================================
