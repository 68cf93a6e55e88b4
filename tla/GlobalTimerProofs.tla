------------------------- MODULE GlobalTimerProofs -------------------------
(***************************************************************************)
(* The global timer for any number of runs of dsp and any register width:  *)
(* a reading is never ahead of the time that has passed.                   *)
(*                                                                         *)
(* NeverAhead is not inductive: it says nothing of a reading that is under *)
(* way.  The invariant below follows the value from the counter, through   *)
(* the halves in the locals of XTime_GetTime, to the caller's variable.    *)
(***************************************************************************)
EXTENDS GlobalTimer, TLAPS

\* Steps at which p has cleared both halves of the counter.
Cleared == {"enable", "ready", "readLow", "recheck", "retry"}

(***************************************************************************)
(* Between the two halves of XTime_SetTime only the lower half is known to *)
(* be bounded.  After ReadHigh it is the upper half read then, with the    *)
(* lower half as it is now, that is bounded: another run may have cleared  *)
(* the upper half since, but nobody can make the lower half grow faster    *)
(* than time.                                                              *)
(***************************************************************************)
NotAhead(p) ==
  /\ pc[p] = "upper" => lo <= elapsed[p]
  /\ pc[p] \in Cleared => Count(hi, lo) <= elapsed[p]
  /\ pc[p] = "readLow" => Count(high[p], lo) <= elapsed[p]
  /\ pc[p] = "recheck" => Count(high[p], low[p]) <= elapsed[p]
  /\ now[p] <= elapsed[p]

NotAheadInv == \A p \in Procs : NotAhead(p)
-----------------------------------------------------------------------------

\* What two halves stand for, and what a carry makes of it.
LEMMA CountFacts ==
  ASSUME NEW h \in Nat, NEW l \in Nat
  PROVE  /\ Count(h, l) \in Nat
         /\ Count(0, l) = l
         /\ Count(h, l + 1) = Count(h, l) + 1
         /\ l + 1 = LoRange => Count(h + 1, 0) = Count(h, l) + 1
         /\ Count(h, 0) <= Count(h, l)
         /\ l <= Count(h, l)
<1>1. LoRange \in Nat
  BY LoRangeAssumption
<1>2. h * LoRange \in Nat /\ 0 * LoRange = 0 /\ (h + 1) * LoRange = h * LoRange + LoRange
  BY <1>1
<1> QED
  BY <1>1, <1>2 DEF Count

\* The lower half is a natural number; it carries or stays in its range.
LEMMA LowerRange ==
  ASSUME NEW l \in 0 .. LoRange - 1
  PROVE  /\ l \in Nat
         /\ l + 1 = LoRange \/ l + 1 \in 0 .. LoRange - 1
         /\ 0 \in 0 .. LoRange - 1
BY LoRangeAssumption

(***************************************************************************)
(* Every register half, local and history variable keeps its type: in      *)
(* particular the lower half never leaves its range.                       *)
(***************************************************************************)
THEOREM TypeCorrect == Spec => []TypeOK
<1>1. Init => TypeOK
  BY LoRangeAssumption DEF Init, TypeOK, Steps
<1>2. TypeOK /\ [Next]_vars => TypeOK'
  <2> SUFFICES ASSUME TypeOK, [Next]_vars PROVE TypeOK'
    OBVIOUS
  <2> USE DEF TypeOK
  <2>1. CASE Tick
    <3>1. lo' \in 0 .. LoRange - 1
      BY <2>1, LowerRange DEF Tick
    <3>2. hi' \in Nat /\ elapsed' \in [Procs -> Nat]
      BY <2>1 DEF Tick
    <3> QED
      BY <2>1, <3>1, <3>2 DEF Tick, locals
  <2>2. ASSUME NEW p \in Procs, SetTime(p) PROVE TypeOK'
    <3>1. CASE StartRun(p)
      BY <3>1 DEF StartRun, hardware, Steps
    <3>2. CASE DisableTimer(p)
      BY <3>2 DEF DisableTimer, Disturb, Goto, locals, Steps
    <3>3. CASE WriteLower(p)
      BY <3>3, LowerRange DEF WriteLower, Disturb, Goto, locals, Steps
    <3>4. CASE WriteUpper(p)
      BY <3>4 DEF WriteUpper, Disturb, Goto, locals, Steps
    <3>5. CASE EnableTimer(p)
      BY <3>5 DEF EnableTimer, Goto, locals, Steps
    <3> QED
      BY <2>2, <3>1, <3>2, <3>3, <3>4, <3>5 DEF SetTime
  <2>3. ASSUME NEW p \in Procs, GetTime(p) PROVE TypeOK'
    <3>1. CASE ReadHigh(p)
      BY <3>1 DEF ReadHigh, hardware, Steps
    <3>2. CASE ReadLow(p)
      BY <3>2 DEF ReadLow, Goto, hardware, history, Steps
    <3>3. CASE Return(p)
      <4>1. Count(high[p], low[p]) \in Nat
        BY CountFacts, LoRangeAssumption
      <4> QED
        BY <3>3, <4>1 DEF Return, Goto, hardware, history, Steps
    <3>4. CASE Retry(p)
      BY <3>4 DEF Retry, Goto, hardware, locals, history, Steps
    <3> QED
      BY <2>3, <3>1, <3>2, <3>3, <3>4 DEF GetTime
  <2>4. CASE UNCHANGED vars
    BY <2>4 DEF vars
  <2> QED
    BY <2>1, <2>2, <2>3, <2>4 DEF Next
<1> QED
  BY <1>1, <1>2, PTL DEF Spec
-----------------------------------------------------------------------------

LEMMA InvInit == Init => NotAheadInv
<1> SUFFICES ASSUME Init, NEW p \in Procs PROVE NotAhead(p)
  BY DEF NotAheadInv
<1>1. pc[p] = "idle" /\ now[p] = 0 /\ elapsed[p] = 0
  BY DEF Init
<1> QED
  BY <1>1 DEF NotAhead, Cleared

\* The hardware: the counter and every running clock advance together.
LEMMA InvTick ==
  ASSUME TypeOK, NotAheadInv, Tick, NEW p \in Procs
  PROVE  NotAhead(p)'
<1> DEFINE t == elapsed[p]
<1>1. lo \in Nat /\ hi \in Nat /\ t \in Nat /\ high[p] \in Nat /\ low[p] \in Nat /\ LoRange \in Nat
  BY LowerRange, LoRangeAssumption DEF TypeOK
<1>2. NotAhead(p)
  BY DEF NotAheadInv
<1>3. elapsed'[p] = IF Counting(p) THEN t + 1 ELSE t
  BY DEF Tick, TypeOK
<1>4. \/ lo' = lo /\ hi' = hi
      \/ lo' = lo + 1 /\ hi' = hi
      \/ lo + 1 = LoRange /\ lo' = 0 /\ hi' = hi + 1
  BY DEF Tick
<1>5. /\ Count(hi, lo + 1) = Count(hi, lo) + 1
      /\ Count(high[p], lo + 1) = Count(high[p], lo) + 1
      /\ Count(high[p], 0) <= Count(high[p], lo)
      /\ lo + 1 = LoRange => Count(hi + 1, 0) = Count(hi, lo) + 1
      /\ Count(hi, lo) \in Nat /\ Count(high[p], lo) \in Nat
      /\ Count(high[p], 0) \in Nat /\ Count(high[p], low[p]) \in Nat
  BY <1>1, CountFacts
<1>6. /\ lo' \in Nat /\ lo' <= lo + 1
      /\ Count(hi', lo') \in Nat /\ Count(hi', lo') <= Count(hi, lo) + 1
      /\ Count(high[p], lo') \in Nat /\ Count(high[p], lo') <= Count(high[p], lo) + 1
  <2>1. CASE lo' = lo /\ hi' = hi
    BY <1>1, <1>5, <2>1
  <2>2. CASE lo' = lo + 1 /\ hi' = hi
    BY <1>1, <1>5, <2>2
  <2>3. CASE lo + 1 = LoRange /\ lo' = 0 /\ hi' = hi + 1
    BY <1>1, <1>5, <2>3
  <2> QED
    BY <1>4, <2>1, <2>2, <2>3
<1>7. UNCHANGED <<pc, high, low, now>>
  BY DEF Tick, locals
<1>8. now[p] \in Nat
  BY DEF TypeOK
<1>9. pc[p] = "upper" \/ pc[p] \in Cleared => Counting(p)
  BY DEF Cleared, Counting
<1>10. (pc[p] = "readLow" \/ pc[p] = "recheck") => pc[p] \in Cleared
  BY DEF Cleared
<1> HIDE DEF t
<1> QED
  BY <1>1, <1>2, <1>3, <1>5, <1>6, <1>7, <1>8, <1>9, <1>10 DEF NotAhead, Counting, t

(***************************************************************************)
(* The steps of XTime_SetTime.  One run's stores only make the counter     *)
(* smaller for the others.                                                 *)
(***************************************************************************)
LEMMA InvSetTime ==
  ASSUME TypeOK, NotAheadInv, NEW q \in Procs, SetTime(q), NEW p \in Procs
  PROVE  NotAhead(p)'
<1>1. /\ lo \in Nat /\ hi \in Nat /\ high[p] \in Nat /\ low[p] \in Nat
      /\ elapsed[p] \in Nat /\ now[p] \in Nat /\ LoRange \in Nat
  BY LowerRange, LoRangeAssumption DEF TypeOK
<1>2. NotAhead(p)
  BY DEF NotAheadInv
<1>3. /\ Count(hi, lo) \in Nat /\ Count(high[p], lo) \in Nat /\ Count(high[p], low[p]) \in Nat
      /\ Count(hi, 0) \in Nat /\ Count(hi, 0) <= Count(hi, lo)
      /\ Count(high[p], 0) \in Nat /\ Count(high[p], 0) <= Count(high[p], lo)
      /\ Count(0, lo) = lo /\ lo <= Count(hi, lo)
  BY <1>1, CountFacts
<1>4. CASE StartRun(q)
  BY <1>1, <1>2, <1>4 DEF StartRun, hardware, NotAhead, Cleared, TypeOK
<1>5. CASE DisableTimer(q)
  BY <1>1, <1>2, <1>5 DEF DisableTimer, Disturb, Goto, locals, NotAhead, Cleared, TypeOK
<1>6. CASE WriteLower(q)
  BY <1>1, <1>2, <1>3, <1>6 DEF WriteLower, Disturb, Goto, locals, NotAhead, Cleared, TypeOK
<1>7. CASE WriteUpper(q)
  BY <1>1, <1>2, <1>3, <1>7 DEF WriteUpper, Disturb, Goto, locals, NotAhead, Cleared, TypeOK
<1>8. CASE EnableTimer(q)
  BY <1>1, <1>2, <1>3, <1>8 DEF EnableTimer, Goto, locals, NotAhead, Cleared, TypeOK
<1> QED
  BY <1>4, <1>5, <1>6, <1>7, <1>8 DEF SetTime

\* The steps of XTime_GetTime.
LEMMA InvGetTime ==
  ASSUME TypeOK, NotAheadInv, NEW q \in Procs, GetTime(q), NEW p \in Procs
  PROVE  NotAhead(p)'
<1>1. NotAhead(p)
  BY DEF NotAheadInv
<1>2. CASE ReadHigh(q)
  BY <1>1, <1>2 DEF ReadHigh, hardware, NotAhead, Cleared, TypeOK
<1>3. CASE ReadLow(q)
  BY <1>1, <1>3 DEF ReadLow, Goto, hardware, history, NotAhead, Cleared, TypeOK
<1>4. CASE Return(q)
  BY <1>1, <1>4 DEF Return, Goto, hardware, history, NotAhead, Cleared, TypeOK
<1>5. CASE Retry(q)
  BY <1>1, <1>5 DEF Retry, Goto, hardware, locals, history, NotAhead, Cleared, TypeOK
<1> QED
  BY <1>2, <1>3, <1>4, <1>5 DEF GetTime

(***************************************************************************)
(* Whatever the number of runs of dsp that stop, clear and start the timer *)
(* under each other, and wherever a carry falls between two reads, no      *)
(* reading is ahead of the time since its process set the timer.           *)
(***************************************************************************)
THEOREM ReadingsNeverAhead == Spec => []NeverAhead
<1>1. TypeOK /\ NotAheadInv /\ [Next]_vars => NotAheadInv'
  <2> SUFFICES ASSUME TypeOK, NotAheadInv, [Next]_vars, NEW p \in Procs PROVE NotAhead(p)'
    BY DEF NotAheadInv
  <2>1. CASE Tick
    BY <2>1, InvTick
  <2>2. CASE \E q \in Procs : SetTime(q) \/ GetTime(q)
    BY <2>2, InvSetTime, InvGetTime
  <2>3. CASE UNCHANGED vars
    BY <2>3 DEF NotAheadInv, NotAhead, Cleared, Count, vars
  <2> QED
    BY <2>1, <2>2, <2>3 DEF Next
<1>2. NotAheadInv => NeverAhead
  BY DEF NotAheadInv, NotAhead, NeverAhead
<1> QED
  BY <1>1, <1>2, InvInit, TypeCorrect, PTL DEF Spec
-----------------------------------------------------------------------------
(***************************************************************************)
(* A reading is not too old.  While p's timer runs undisturbed the counter   *)
(* is behind p's clock by no more than the ticks it was stopped for, and   *)
(* its upper half does not go down: if it is the same before and after,    *)
(* the lower half that was read between belongs to it.                     *)
(***************************************************************************)
Fresh(p) ==
  Running(p) /\ ~disturbed[p] =>
    /\ enabled
    /\ begun[p] <= elapsed[p]
    /\ elapsed[p] <= Count(hi, lo) + lag[p]
    /\ pc[p] \in {"readLow", "recheck"} => high[p] <= hi
    /\ pc[p] = "recheck" /\ hi = high[p] => begun[p] <= Count(high[p], low[p]) + lag[p]
    /\ pc[p] = "ready" => begun[p] <= now[p] + lag[p]

FreshInv == \A p \in Procs : Fresh(p)

LEMMA FreshInit == Init => FreshInv
<1> SUFFICES ASSUME Init, NEW p \in Procs PROVE Fresh(p)
  BY DEF FreshInv
<1>1. pc[p] = "idle"
  BY DEF Init
<1> QED
  BY <1>1 DEF Fresh, Running

\* The naturals that Fresh compares.
LEMMA FreshTypes ==
  ASSUME TypeOK, NEW p \in Procs
  PROVE  /\ hi \in Nat /\ lo \in Nat /\ LoRange \in Nat
         /\ high[p] \in Nat /\ low[p] \in Nat /\ now[p] \in Nat
         /\ elapsed[p] \in Nat /\ lag[p] \in Nat /\ begun[p] \in Nat
         /\ Count(hi, lo) \in Nat /\ Count(high[p], low[p]) \in Nat
<1>1. /\ hi \in Nat /\ lo \in Nat /\ LoRange \in Nat
      /\ high[p] \in Nat /\ low[p] \in Nat /\ now[p] \in Nat
      /\ elapsed[p] \in Nat /\ lag[p] \in Nat /\ begun[p] \in Nat
  BY LowerRange, LoRangeAssumption DEF TypeOK
<1> QED
  BY <1>1, CountFacts

\* The hardware: an enabled counter keeps up with the clock.
LEMMA FreshTick ==
  ASSUME TypeOK, FreshInv, Tick, NEW p \in Procs
  PROVE  Fresh(p)'
<1>1. Fresh(p)
  BY DEF FreshInv
<1>2. UNCHANGED <<enabled, pc, high, low, now, lag, begun, disturbed>>
  BY DEF Tick, locals
<1>3. SUFFICES ASSUME Running(p), ~disturbed[p] PROVE Fresh(p)'
  BY <1>2 DEF Fresh, Running
<1>4. enabled
  BY <1>1, <1>3 DEF Fresh
<1>5. elapsed'[p] = elapsed[p] + 1
  BY <1>3 DEF Tick, TypeOK, Running, Counting
<1>6. hi' \in Nat /\ hi' >= hi /\ Count(hi', lo') = Count(hi, lo) + 1
  <2>1. hi \in Nat /\ lo \in Nat
    BY FreshTypes
  <2>2. /\ Count(hi, lo + 1) = Count(hi, lo) + 1
        /\ lo + 1 = LoRange => Count(hi + 1, 0) = Count(hi, lo) + 1
    BY <2>1, CountFacts
  <2>3. CASE lo + 1 = LoRange
    <3>1. hi' = hi + 1 /\ lo' = 0
      BY <1>4, <2>3 DEF Tick
    <3> QED
      BY <2>1, <2>2, <2>3, <3>1
  <2>4. CASE lo + 1 # LoRange
    <3>1. hi' = hi /\ lo' = lo + 1
      BY <1>4, <2>4 DEF Tick
    <3> QED
      BY <2>1, <2>2, <3>1
  <2> QED
    BY <2>3, <2>4
<1>7. (high[p] <= hi => high[p] <= hi') /\ (high[p] <= hi /\ hi' = high[p] => hi = high[p])
  BY <1>6, FreshTypes
<1> QED
  BY <1>1, <1>2, <1>3, <1>5, <1>6, <1>7, FreshTypes DEF Fresh, Running

\* The steps of XTime_SetTime: those of another process disturb p, or start the counter.
LEMMA FreshSetTime ==
  ASSUME TypeOK, FreshInv, NEW q \in Procs, SetTime(q), NEW p \in Procs
  PROVE  Fresh(p)'
<1> USE DEF TypeOK, Goto, Disturb, locals, hardware, Fresh, Running
<1>1. Fresh(p)
  BY DEF FreshInv
<1>2. CASE StartRun(q)
  BY <1>1, <1>2 DEF StartRun
<1>3. CASE DisableTimer(q)
  BY <1>1, <1>3 DEF DisableTimer
<1>4. CASE WriteLower(q)
  BY <1>1, <1>4 DEF WriteLower
<1>5. CASE WriteUpper(q)
  BY <1>1, <1>5 DEF WriteUpper
<1>6. CASE EnableTimer(q)
  BY <1>1, <1>6, FreshTypes DEF EnableTimer
<1> QED
  BY <1>2, <1>3, <1>4, <1>5, <1>6 DEF SetTime

\* The steps of XTime_GetTime.
LEMMA FreshGetTime ==
  ASSUME TypeOK, FreshInv, NEW q \in Procs, GetTime(q), NEW p \in Procs
  PROVE  Fresh(p)'
<1> USE DEF TypeOK, Goto, locals, hardware, history, Fresh, Running
<1>1. Fresh(p)
  BY DEF FreshInv
<1>2. CASE ReadHigh(q)
  BY <1>1, <1>2, FreshTypes DEF ReadHigh
<1>3. CASE ReadLow(q)
  BY <1>1, <1>3, FreshTypes DEF ReadLow
<1>4. CASE Return(q)
  BY <1>1, <1>4, FreshTypes DEF Return
<1>5. CASE Retry(q)
  BY <1>1, <1>5 DEF Retry
<1> QED
  BY <1>2, <1>3, <1>4, <1>5 DEF GetTime

LEMMA FreshInvariant == Spec => []FreshInv
<1>1. TypeOK /\ FreshInv /\ [Next]_vars => FreshInv'
  <2> SUFFICES ASSUME TypeOK, FreshInv, [Next]_vars, NEW p \in Procs PROVE Fresh(p)'
    BY DEF FreshInv
  <2>1. CASE Tick
    BY <2>1, FreshTick
  <2>2. CASE \E q \in Procs : SetTime(q) \/ GetTime(q)
    BY <2>2, FreshSetTime, FreshGetTime
  <2>3. CASE UNCHANGED vars
    BY <2>3 DEF FreshInv, Fresh, Running, Count, vars
  <2> QED
    BY <2>1, <2>2, <2>3 DEF Next
<1> QED
  BY <1>1, FreshInit, TypeCorrect, PTL DEF Spec

(***************************************************************************)
(* For any number of runs and any register width: a process whose running  *)
(* timer no other run writes to reads the time at or after its call, but   *)
(* for the ticks that XTime_SetTime lost.                                  *)
(***************************************************************************)
THEOREM ReadingsFresh == Spec => []FreshReading
<1>1. FreshInv => FreshReading
  BY DEF FreshInv, Fresh, Running, FreshReading
<1> QED
  BY <1>1, FreshInvariant, PTL
=============================================================================
