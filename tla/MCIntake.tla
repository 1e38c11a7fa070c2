------------------------------- MODULE MCIntake -------------------------------
(* Two deliveries, whose goroutines run side by side, and one schedule. *)
EXTENDS Intake

CONSTANTS i1, i2, s1

TwoDeliveries == {i1, i2}
OneSchedule   == {s1}
=============================================================================
