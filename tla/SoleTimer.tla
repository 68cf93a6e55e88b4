----------------------------- MODULE SoleTimer -----------------------------
(***************************************************************************)
(* The global timer with a single run of dsp, self, which then has a       *)
(* stopwatch.  With two runs it has none: the second XTime_SetTime turns   *)
(* the first one's clock back.                                             *)
(***************************************************************************)
EXTENDS GlobalTimer

CONSTANT self

ASSUME SoleAssumption == Procs = {self}

\* The stopwatch runs from the moment the counter is enabled.
Stopped == pc[self] \in {"upper", "enable"}

Watch == INSTANCE Stopwatch WITH
           elapsed <- IF Stopped THEN 0 ELSE elapsed[self] - lag[self],
           begun <- begun[self] - lag[self],
           calling <- pc[self] \in {"readLow", "recheck", "retry"},
           now <- now[self]

(***************************************************************************)
(* Every reading of XTime_GetTime (timer.c:68-81) is the time at some      *)
(* instant of its call, and nothing but self sets its clock back.          *)
(***************************************************************************)
ImplementsStopwatch == Watch!Spec
=============================================================================
