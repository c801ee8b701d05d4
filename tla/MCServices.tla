----------------------------- MODULE MCServices -----------------------------
(***************************************************************************)
(* What runs beside the control task, one service at a time: the compass   *)
(* and the telemetry push.  They share no state, and the other rests.      *)
(***************************************************************************)
EXTENDS Compass, WsTelemetry

VARIABLE service

servicesVars == <<service, imuVars, telemetryVars>>

Init ==
  /\ service \in {"compass", "telemetry"}
  /\ ImuInit /\ TelemetryInit
  /\ service # "compass" => bus

Imu == service = "compass" /\ ImuNext /\ UNCHANGED telemetryVars
Telemetry == service = "telemetry" /\ TelemetryNext /\ UNCHANGED imuVars

Next == (Imu \/ Telemetry) /\ UNCHANGED service

Spec ==
  /\ Init
  /\ [][Next]_servicesVars
  /\ service = "compass" => ImuFairness
  /\ service = "telemetry" => TelemetryFairness
=============================================================================
