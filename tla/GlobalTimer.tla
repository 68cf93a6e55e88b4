---------------------------- MODULE GlobalTimer ----------------------------
(***************************************************************************)
(* timer.c: the Zynq global timer, a free-running counter behind two       *)
(* 32-bit registers that every process with /dev/mem mapped reads and      *)
(* writes without a lock, one register at a time.                          *)
(*                                                                         *)
(* A process p is a run of dsp: it calls XTime_SetTime(0) and then         *)
(* XTime_GetTime again and again (execActionTable, dsp.c:206-209).  Each   *)
(* volatile access is a step, and the counter may tick between any two.    *)
(* Several processes exist when the server has started dsp more than once. *)
(*                                                                         *)
(* Simplifications: the registers are numbers below LoRange (2^32 in the   *)
(* hardware) and the upper one does not wrap, which takes 2^64 ticks, some *)
(* 1700 years.  USE_AMP is not defined by the build, so lines 39-45 of     *)
(* timer.c are not part of the program.                                    *)
(***************************************************************************)
EXTENDS Integers

CONSTANTS
  Procs,      \* the runs of dsp that share the timer
  LoRange,    \* number of values of the lower register
  MaxTime     \* bound: nobody's clock runs further than this

ASSUME LoRangeAssumption == LoRange \in Nat \ {0}
ASSUME MaxTimeAssumption == MaxTime \in Nat

VARIABLES
  hi, lo,     \* the two halves of the counter register
  enabled,    \* bit 0 of the control register
  pc,         \* pc[p]: the next access of process p
  high, low,  \* the locals of p's XTime_GetTime
  now         \* now[p]: the caller's variable that XTime_GetTime fills in

\* History variables, which no step of the program reads.
VARIABLES
  elapsed,    \* elapsed[p]: ticks since p wrote the lower half
  lag,        \* lag[p]: the ticks of elapsed[p] before p enabled the counter
  begun,      \* begun[p]: elapsed[p] when p's latest XTime_GetTime began
  disturbed   \* disturbed[p]: has another process written to p's running timer?

hardware == <<hi, lo, enabled>>
locals == <<high, low, now>>
history == <<elapsed, lag, begun, disturbed>>
vars == <<hi, lo, enabled, pc, high, low, now, elapsed, lag, begun, disturbed>>

Steps == {"idle", "disable", "lower", "upper", "enable",
          "ready", "readLow", "recheck", "retry"}

\* The steps at which p has set the lower half to zero and its time runs.
Counting(p) == pc[p] \notin {"idle", "disable", "lower"}

\* The steps at which p has its timer running.
Running(p) == pc[p] \in {"ready", "readLow", "recheck", "retry"}

\* The 64-bit value that two register halves stand for.
Count(h, l) == h * LoRange + l

Init ==
  /\ hi \in 0 .. 1
  /\ lo \in 0 .. LoRange - 1
  /\ enabled \in BOOLEAN
  /\ pc = [p \in Procs |-> "idle"]
  /\ high = [p \in Procs |-> 0]
  /\ low = [p \in Procs |-> 0]
  /\ now = [p \in Procs |-> 0]
  /\ elapsed = [p \in Procs |-> 0]
  /\ lag = [p \in Procs |-> 0]
  /\ begun = [p \in Procs |-> 0]
  /\ disturbed = [p \in Procs |-> FALSE]

(***************************************************************************)
(* The hardware.  Time passes for every process; the counter follows only  *)
(* while it is enabled, the lower half carrying into the upper one.        *)
(***************************************************************************)
Tick ==
  /\ \A p \in Procs : elapsed[p] < MaxTime
  /\ enabled => Count(hi, lo) < MaxTime
  /\ elapsed' = [p \in Procs |-> IF Counting(p) THEN elapsed[p] + 1 ELSE elapsed[p]]
  /\ lo' = IF enabled THEN (IF lo + 1 = LoRange THEN 0 ELSE lo + 1) ELSE lo
  /\ hi' = IF enabled /\ lo + 1 = LoRange THEN hi + 1 ELSE hi
  /\ UNCHANGED <<enabled, pc, locals, lag, begun, disturbed>>

Goto(p, from, to) ==
  /\ pc[p] = from
  /\ pc' = [pc EXCEPT ![p] = to]

(***************************************************************************)
(* XTime_SetTime(0): stop the counter, write the halves, start it again.   *)
(***************************************************************************)

\* A new run of dsp: it has no reading and has not set the timer yet.
StartRun(p) ==
  /\ pc[p] \in {"idle", "ready"}
  /\ pc' = [pc EXCEPT ![p] = "disable"]
  /\ now' = [now EXCEPT ![p] = 0]
  /\ lag' = [lag EXCEPT ![p] = 0]
  /\ begun' = [begun EXCEPT ![p] = 0]
  /\ elapsed' = [elapsed EXCEPT ![p] = 0]
  /\ disturbed' = [disturbed EXCEPT ![p] = FALSE]
  /\ UNCHANGED <<hardware, high, low>>

\* p writes to the timer while that of every process past XTime_SetTime runs.
Disturb(p) ==
  /\ disturbed' = [q \in Procs |-> disturbed[q] \/ (q # p /\ Running(q))]
  /\ UNCHANGED <<elapsed, lag, begun>>

DisableTimer(p) ==
  /\ Goto(p, "disable", "lower")
  /\ enabled' = FALSE
  /\ Disturb(p)
  /\ UNCHANGED <<hi, lo, locals>>

\* Mutant: the lower half is not written.
SkipLower(p) ==
  /\ Goto(p, "lower", "upper")
  /\ Disturb(p)
  /\ UNCHANGED <<hardware, locals>>

WriteLower(p) ==
  /\ Goto(p, "lower", "upper")
  /\ lo' = 0
  /\ Disturb(p)
  /\ UNCHANGED <<hi, enabled, locals>>

WriteUpper(p) ==
  /\ Goto(p, "upper", "enable")
  /\ hi' = 0
  /\ Disturb(p)
  /\ UNCHANGED <<lo, enabled, locals>>

EnableTimer(p) ==
  /\ Goto(p, "enable", "ready")
  /\ enabled' = TRUE
  /\ lag' = [lag EXCEPT ![p] = elapsed[p]]
  /\ begun' = [begun EXCEPT ![p] = elapsed[p]]
  /\ UNCHANGED <<hi, lo, locals, elapsed, disturbed>>

(***************************************************************************)
(* XTime_GetTime: read the upper half, the lower half, and the upper half  *)
(* again; start over if it has changed.                                    *)
(***************************************************************************)
ReadHigh(p) ==
  /\ pc[p] \in {"ready", "retry"}
  /\ pc' = [pc EXCEPT ![p] = "readLow"]
  /\ high' = [high EXCEPT ![p] = hi]
  /\ begun' = [begun EXCEPT ![p] = IF pc[p] = "ready" THEN elapsed[p] ELSE @]
  /\ UNCHANGED <<hardware, low, now, elapsed, lag, disturbed>>

\* Mutant: the upper half is read where the lower one is meant.
ReadUpperAsLow(p) ==
  /\ Goto(p, "readLow", "recheck")
  /\ low' = [low EXCEPT ![p] = hi]
  /\ UNCHANGED <<hardware, high, now, history>>

ReadLow(p) ==
  /\ Goto(p, "readLow", "recheck")
  /\ low' = [low EXCEPT ![p] = lo]
  /\ UNCHANGED <<hardware, high, now, history>>

\* Mutant: the upper half is not compared.
ReturnUnchecked(p) ==
  /\ Goto(p, "recheck", "ready")
  /\ now' = [now EXCEPT ![p] = Count(high[p], low[p])]
  /\ UNCHANGED <<hardware, high, low, history>>

\* Mutant: the upper half read last goes with the lower half read before it.
ReturnLatest(p) ==
  /\ Goto(p, "recheck", "ready")
  /\ now' = [now EXCEPT ![p] = Count(hi, low[p])]
  /\ UNCHANGED <<hardware, high, low, history>>

\* The upper half is still the one read first: the two halves belong together.
Return(p) ==
  /\ hi = high[p]
  /\ Goto(p, "recheck", "ready")
  /\ now' = [now EXCEPT ![p] = Count(high[p], low[p])]
  /\ UNCHANGED <<hardware, high, low, history>>

Retry(p) ==
  /\ hi # high[p]
  /\ Goto(p, "recheck", "retry")
  /\ UNCHANGED <<hardware, locals, history>>

SetTime(p) == StartRun(p) \/ DisableTimer(p) \/ WriteLower(p) \/ WriteUpper(p) \/ EnableTimer(p)
GetTime(p) == ReadHigh(p) \/ ReadLow(p) \/ Return(p) \/ Retry(p)

Next == Tick \/ \E p \in Procs : SetTime(p) \/ GetTime(p)

Spec == Init /\ [][Next]_vars
-----------------------------------------------------------------------------

\* Type correctness of the registers, the locals and the history.
TypeOK ==
  /\ hi \in Nat
  /\ lo \in 0 .. LoRange - 1
  /\ enabled \in BOOLEAN
  /\ pc \in [Procs -> Steps]
  /\ high \in [Procs -> Nat]
  /\ low \in [Procs -> 0 .. LoRange - 1]
  /\ now \in [Procs -> Nat]
  /\ elapsed \in [Procs -> Nat]
  /\ lag \in [Procs -> Nat]
  /\ begun \in [Procs -> Nat]
  /\ disturbed \in [Procs -> BOOLEAN]

(***************************************************************************)
(* A reading is never ahead of the time that has passed since the process  *)
(* set the timer, whatever carry happens between the two register reads    *)
(* and whatever other run of dsp stops, clears or starts the counter in    *)
(* between.  It is what keeps an action from being output before its time. *)
(***************************************************************************)
NeverAhead == \A p \in Procs : Counting(p) => now[p] <= elapsed[p]

(***************************************************************************)
(* As long as no other run of dsp writes to the timer after the process    *)
(* has started it, a reading is no older than the call, but for the ticks  *)
(* lost while XTime_SetTime had the counter stopped: a carry between the   *)
(* two reads of XTime_GetTime (timer.c:74-78) cannot make the clock jump   *)
(* back by a whole lower half.  Runs that set the timer earlier, or were   *)
(* in the middle of setting it, do no harm.                                *)
(***************************************************************************)
FreshReading ==
  \A p \in Procs : pc[p] = "ready" /\ ~disturbed[p] => begun[p] <= now[p] + lag[p]
=============================================================================
