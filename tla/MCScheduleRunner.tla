-------------------------- MODULE MCScheduleRunner --------------------------
(***************************************************************************)
(* Model-checking instances of ScheduleRunner.                              *)
(***************************************************************************)
EXTENDS ScheduleRunner

\* Model values of the configurations.
CONSTANTS s1, s2, d1, d2

=============================================================================
