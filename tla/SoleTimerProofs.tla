-------------------------- MODULE SoleTimerProofs --------------------------
(***************************************************************************)
(* A run of dsp that has the global timer to itself has a stopwatch, for   *)
(* any register width.                                                     *)
(***************************************************************************)
EXTENDS SoleTimer, GlobalTimerProofs

(***************************************************************************)
(* Up to the end of XTime_SetTime the counter stands still and is cleared  *)
(* half by half; from then on it is the time that self has been running.   *)
(* The two halves that XTime_GetTime has read never stand for more than    *)
(* that time: the lower one was read when the upper one was already what   *)
(* has been read, or more.                                                 *)
(***************************************************************************)
Setting == pc[self] \in {"idle", "disable", "lower", "upper", "enable"}

Exact ==
  /\ Setting => lag[self] = 0 /\ begun[self] = 0 /\ now[self] = 0
  /\ pc[self] \in {"idle", "disable", "lower"} => elapsed[self] = 0
  /\ pc[self] \in {"lower", "upper", "enable"} => ~enabled
  /\ pc[self] \in {"upper", "enable"} => lo = 0
  /\ pc[self] = "enable" => hi = 0
  /\ Running(self) => enabled /\ Count(hi, lo) + lag[self] = elapsed[self]
  /\ pc[self] \in {"readLow", "recheck"} => high[self] <= hi
  /\ pc[self] = "recheck" => Count(high[self], low[self]) + lag[self] <= elapsed[self]
  /\ ~disturbed[self]

SoleInv == TypeOK /\ FreshInv /\ Exact

LEMMA SelfIsProc == self \in Procs /\ \A p \in Procs : p = self
BY SoleAssumption

LEMMA CountMonotonic ==
  ASSUME NEW g \in Nat, NEW h \in Nat, g <= h, NEW l \in Nat
  PROVE  Count(g, l) <= Count(h, l)
<1>1. PICK d \in Nat : h = g + d
  <2>1. h - g \in Nat /\ h = g + (h - g)
    OBVIOUS
  <2> QED
    BY <2>1
<1>2. (g + d) * LoRange = g * LoRange + d * LoRange /\ d * LoRange \in Nat /\ g * LoRange \in Nat
  BY LoRangeAssumption
<1> QED
  BY <1>1, <1>2 DEF Count

LEMMA ExactInit == Init => Exact
BY SelfIsProc DEF Init, Exact, Setting, Running

\* The hardware: the counter and the clock of a running timer go together.
LEMMA ExactTick ==
  ASSUME TypeOK, Exact, Tick
  PROVE  Exact'
<1>1. UNCHANGED <<enabled, pc, high, low, now, lag, begun, disturbed>>
  BY DEF Tick, locals
<1>2. elapsed'[self] = IF Counting(self) THEN elapsed[self] + 1 ELSE elapsed[self]
  BY SelfIsProc DEF Tick
<1>3. ~enabled => lo' = lo /\ hi' = hi
  BY DEF Tick
<1>4. enabled => hi' \in Nat /\ hi' >= hi /\ Count(hi', lo') = Count(hi, lo) + 1
  <2>1. hi \in Nat /\ lo \in Nat
    BY SelfIsProc, FreshTypes
  <2>2. /\ Count(hi, lo + 1) = Count(hi, lo) + 1
        /\ lo + 1 = LoRange => Count(hi + 1, 0) = Count(hi, lo) + 1
    BY <2>1, CountFacts
  <2>3. CASE enabled /\ lo + 1 = LoRange
    BY <2>1, <2>2, <2>3 DEF Tick
  <2>4. CASE enabled /\ lo + 1 # LoRange
    BY <2>1, <2>2, <2>4 DEF Tick
  <2> QED
    BY <2>3, <2>4
<1> QED
  BY <1>1, <1>2, <1>3, <1>4, SelfIsProc, FreshTypes DEF Exact, Setting, Running, Counting

\* XTime_SetTime.
LEMMA ExactSetTime ==
  ASSUME TypeOK, Exact, SetTime(self)
  PROVE  Exact'
<1> USE DEF TypeOK, Exact, Setting, Running, Goto, Disturb, hardware, locals
<1>1. CASE StartRun(self)
  BY <1>1, SelfIsProc DEF StartRun
<1>2. CASE DisableTimer(self)
  BY <1>2, SelfIsProc DEF DisableTimer
<1>3. CASE WriteLower(self)
  BY <1>3, SelfIsProc DEF WriteLower
<1>4. CASE WriteUpper(self)
  BY <1>4, SelfIsProc DEF WriteUpper
<1>5. CASE EnableTimer(self)
  <2>1. Count(0, 0) = 0
    BY CountFacts
  <2> QED
    BY <1>5, <2>1, SelfIsProc DEF EnableTimer
<1> QED
  BY <1>1, <1>2, <1>3, <1>4, <1>5 DEF SetTime

\* XTime_GetTime.
LEMMA ExactGetTime ==
  ASSUME TypeOK, Exact, GetTime(self)
  PROVE  Exact'
<1> USE DEF TypeOK, Exact, Setting, Running, Goto, hardware, locals, history
<1>1. CASE ReadHigh(self)
  BY <1>1, SelfIsProc DEF ReadHigh
<1>2. CASE ReadLow(self)
  <2>1. /\ Count(high[self], lo) <= Count(hi, lo)
        /\ Count(hi, lo) \in Nat /\ Count(high[self], lo) \in Nat
    <3>1. high[self] \in Nat /\ hi \in Nat /\ lo \in Nat /\ high[self] <= hi
      BY <1>2, SelfIsProc, FreshTypes DEF ReadLow
    <3> QED
      BY <3>1, CountMonotonic, CountFacts
  <2>2. UNCHANGED <<hi, lo, enabled, high, now, elapsed, lag, begun, disturbed>>
    BY <1>2 DEF ReadLow
  <2>3. pc[self] = "readLow" /\ pc'[self] = "recheck" /\ low'[self] = lo
    BY <1>2, SelfIsProc DEF ReadLow
  <2> QED
    BY <2>1, <2>2, <2>3, SelfIsProc, FreshTypes
<1>3. CASE Return(self)
  BY <1>3, SelfIsProc DEF Return
<1>4. CASE Retry(self)
  BY <1>4, SelfIsProc DEF Retry
<1> QED
  BY <1>1, <1>2, <1>3, <1>4 DEF GetTime

LEMMA ExactStep == TypeOK /\ Exact /\ [Next]_vars => Exact'
<1> SUFFICES ASSUME TypeOK, Exact, [Next]_vars PROVE Exact'
  OBVIOUS
<1>1. CASE UNCHANGED vars
  BY <1>1 DEF vars, Exact, Setting, Running, Count
<1> QED
  BY <1>1, ExactTick, ExactSetTime, ExactGetTime, SelfIsProc DEF Next
-----------------------------------------------------------------------------
(***************************************************************************)
(* The steps as steps of a stopwatch.                                      *)
(***************************************************************************)
LEMMA WatchInit == Init => Watch!Init
BY SelfIsProc DEF Init, Watch!Init, Stopped

LEMMA TickIsTick ==
  ASSUME TypeOK, Exact, Tick
  PROVE  [Watch!Next]_(Watch!vars)
<1>1. UNCHANGED <<pc, now, lag, begun>>
  BY DEF Tick, locals
<1>2. elapsed'[self] = IF Counting(self) THEN elapsed[self] + 1 ELSE elapsed[self]
  BY SelfIsProc DEF Tick
<1>3. elapsed[self] \in Nat /\ lag[self] \in Nat
  BY SelfIsProc, FreshTypes
<1>4. CASE Counting(self) /\ ~Stopped
  BY <1>1, <1>2, <1>3, <1>4 DEF Stopped, Watch!Next, Watch!Tick
<1>5. CASE ~Counting(self) \/ Stopped
  BY <1>1, <1>2, <1>5 DEF Stopped, Watch!vars
<1> QED
  BY <1>4, <1>5

LEMMA SetTimeIsReset ==
  ASSUME TypeOK, Exact, SetTime(self)
  PROVE  [Watch!Next]_(Watch!vars)
<1> USE SelfIsProc DEF TypeOK, Exact, Setting, Goto, Disturb, hardware, locals, Stopped
<1>1. CASE StartRun(self)
  BY <1>1 DEF StartRun, Watch!Next, Watch!Reset
<1>2. CASE DisableTimer(self)
  BY <1>2 DEF DisableTimer, Watch!vars
<1>3. CASE WriteLower(self)
  BY <1>3 DEF WriteLower, Watch!vars
<1>4. CASE WriteUpper(self)
  BY <1>4 DEF WriteUpper, Watch!vars
<1>5. CASE EnableTimer(self)
  BY <1>5 DEF EnableTimer, Watch!vars
<1> QED
  BY <1>1, <1>2, <1>3, <1>4, <1>5 DEF SetTime

LEMMA GetTimeIsCall ==
  ASSUME TypeOK, FreshInv, Exact, GetTime(self)
  PROVE  [Watch!Next]_(Watch!vars)
<1> USE SelfIsProc DEF TypeOK, Goto, hardware, locals, history, Stopped
<1>1. CASE ReadHigh(self) /\ pc[self] = "ready"
  BY <1>1 DEF ReadHigh, Watch!Next, Watch!Call
<1>2. CASE ReadHigh(self) /\ pc[self] = "retry"
  BY <1>2 DEF ReadHigh, Watch!vars
<1>3. CASE ReadLow(self)
  BY <1>3 DEF ReadLow, Watch!vars
<1>4. CASE Return(self)
  <2> DEFINE n == Count(high[self], low[self])
  <2>1. n \in Nat /\ begun[self] \in Nat /\ lag[self] \in Nat /\ elapsed[self] \in Nat
    BY FreshTypes
  <2>2. begun[self] <= n + lag[self] /\ n + lag[self] <= elapsed[self]
    BY <1>4 DEF Return, FreshInv, Fresh, Exact, Running
  <2>3. n \in (begun[self] - lag[self]) .. (elapsed[self] - lag[self])
    BY <2>1, <2>2
  <2>4. /\ pc[self] = "recheck" /\ pc'[self] = "ready" /\ now'[self] = n
        /\ UNCHANGED <<elapsed, lag, begun>>
    BY <1>4 DEF Return
  <2> QED
    BY <2>3, <2>4 DEF Watch!Next, Watch!Return
<1>5. CASE Retry(self)
  BY <1>5 DEF Retry, Watch!vars
<1> QED
  BY <1>1, <1>2, <1>3, <1>4, <1>5 DEF GetTime, ReadHigh

(***************************************************************************)
(* For any register width: each reading of XTime_GetTime (timer.c:68-81)   *)
(* is the time at some instant of its call, across any number of carries,  *)
(* and only XTime_SetTime sets it back.                                    *)
(***************************************************************************)
THEOREM SoleRunHasStopwatch == Spec => ImplementsStopwatch
<1>1. SoleInv /\ [Next]_vars => [Watch!Next]_(Watch!vars)
  <2> SUFFICES ASSUME SoleInv, [Next]_vars PROVE [Watch!Next]_(Watch!vars)
    OBVIOUS
  <2>1. CASE UNCHANGED vars
    BY <2>1 DEF vars, Watch!vars, Stopped
  <2> QED
    BY <2>1, TickIsTick, SetTimeIsReset, GetTimeIsCall, SelfIsProc DEF Next, SoleInv
<1>2. Spec => []SoleInv
  BY ExactInit, ExactStep, FreshInvariant, TypeCorrect, PTL DEF SoleInv, Spec
<1> QED
  BY WatchInit, <1>1, <1>2, PTL DEF Spec, ImplementsStopwatch, Watch!Spec
=============================================================================
