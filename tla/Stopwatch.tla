----------------------------- MODULE Stopwatch -----------------------------
(***************************************************************************)
(* What a process may rely on when it reads the global timer after having  *)
(* set it to zero: a reading is the number of ticks that had passed at     *)
(* some instant of the call.  The readings need not be instantaneous; they *)
(* are never ahead of the clock and never older than the call.             *)
(*                                                                         *)
(* GlobalTimer is shown to implement this module, and Dsp reads the time   *)
(* as this module allows.                                                  *)
(***************************************************************************)
EXTENDS Naturals

VARIABLES
  elapsed,    \* ticks since the stopwatch was set to zero
  begun,      \* elapsed when the latest call to read it began
  calling,    \* is a call in progress?
  now         \* the latest value returned

vars == <<elapsed, begun, calling, now>>

Init ==
  /\ elapsed = 0
  /\ begun = 0
  /\ calling = FALSE
  /\ now = 0

Tick ==
  /\ elapsed' = elapsed + 1
  /\ UNCHANGED <<begun, calling, now>>

\* The stopwatch is set again only between two calls.
Reset ==
  /\ ~calling
  /\ elapsed' = 0
  /\ begun' = 0
  /\ now' = 0
  /\ UNCHANGED calling

Call ==
  /\ ~calling
  /\ calling' = TRUE
  /\ begun' = elapsed
  /\ UNCHANGED <<elapsed, now>>

Return ==
  /\ calling
  /\ calling' = FALSE
  /\ now' \in begun .. elapsed
  /\ UNCHANGED <<elapsed, begun>>

Next == Tick \/ Reset \/ Call \/ Return

Spec == Init /\ [][Next]_vars
=============================================================================
