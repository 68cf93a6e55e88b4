--------------------------- MODULE ExposureProofs ---------------------------
(***************************************************************************)
(* Exposures of any cameras and lights, by any number of clients.          *)
(***************************************************************************)
EXTENDS Exposure, TLAPS

-----------------------------------------------------------------------------
(***************************************************************************)
(* The arguments of arcl.  Sorting keeps the times of a list, so that none *)
(* is longer than Longest, and puts them in order.                         *)
(***************************************************************************)
Calls == {call0 \in [cameras : Nat, lights : Seq(Nat \X Times)] :
  \A i, j \in 1 .. Len(call0.lights) : i < j => call0.lights[i][2] <= call0.lights[j][2]}

LEMMA LongestFacts ==
  /\ Times \subseteq Nat /\ 0 \in Times
  /\ Longest \in Nat /\ \A t \in Times : t <= Longest
<1>1. \A e \in Exposures : \A l \in Range(e.lights) : l[2] \in Nat
  <2> SUFFICES ASSUME NEW e \in Exposures, NEW l \in Range(e.lights) PROVE l[2] \in Nat
    OBVIOUS
  <2>1. e.lights \in Seq(Nat \X Nat)
    BY ExposureAssumption
  <2>2. PICK i \in DOMAIN e.lights : l = e.lights[i]
    BY DEF Range
  <2> QED
    BY <2>1, <2>2
<1>2. Times \subseteq Nat /\ 0 \in Times
  BY <1>1 DEF Times
<1>3. Longest \in Times /\ \A t \in Times : t <= Longest
  BY ExposureAssumption DEF Longest
<1> QED
  BY <1>2, <1>3

LEMMA SortedCalls ==
  ASSUME NEW e \in Exposures, NEW sorted \in SortedByTime(e.lights)
  PROVE  [cameras |-> e.cameras, lights |-> sorted] \in Calls
<1>1. e.cameras \in Nat /\ e.lights \in Seq(Nat \X Nat)
  BY ExposureAssumption
<1> DEFINE n == Len(e.lights)
<1>2. PICK p \in Bijection(1 .. n, 1 .. n) : sorted = [i \in 1 .. n |-> e.lights[p[i]]]
  BY <1>1 DEF SortedByTime
<1>3. p \in [1 .. n -> 1 .. n]
  BY <1>2 DEF Bijection, Injection
<1>4. \A i \in 1 .. n : e.lights[i] \in Nat \X Times
  <2> SUFFICES ASSUME NEW i \in 1 .. n PROVE e.lights[i] \in Nat \X Times
    OBVIOUS
  <2>1. e.lights[i] \in Nat \X Nat /\ e.lights[i] \in Range(e.lights)
    BY <1>1 DEF Range
  <2>2. e.lights[i][2] \in Times
    BY <2>1 DEF Times
  <2> QED
    BY <2>1, <2>2
<1>5. sorted \in [1 .. n -> Nat \X Times] /\ n \in Nat
  BY <1>1, <1>2, <1>3, <1>4
<1>6. sorted \in Seq(Nat \X Times) /\ Len(sorted) = n
  BY <1>5
<1>7. \A i, j \in 1 .. n : i < j => sorted[i][2] <= sorted[j][2]
  BY <1>1, <1>2 DEF SortedByTime
<1> QED
  BY <1>1, <1>6, <1>7 DEF Calls

LEMMA NoCallSorted == NoCall \in Calls /\ NoCall.lights = <<>>
BY DEF NoCall, Calls

LEMMA LightFacts ==
  ASSUME NEW k \in Calls
  PROVE  /\ Len(k.lights) \in Nat
         /\ \A i \in 1 .. Len(k.lights) : k.lights[i][2] \in Nat /\ k.lights[i][2] <= Longest
         /\ \A i, j \in 1 .. Len(k.lights) : i < j => k.lights[i][2] <= k.lights[j][2]
<1>1. k.lights \in Seq(Nat \X Times)
  BY DEF Calls
<1>2. \A i \in 1 .. Len(k.lights) : k.lights[i] \in Nat \X Times
  BY <1>1
<1>3. \A i \in 1 .. Len(k.lights) : k.lights[i][2] \in Nat /\ k.lights[i][2] <= Longest
  BY <1>2, LongestFacts
<1> QED
  BY <1>1, <1>3 DEF Calls
-----------------------------------------------------------------------------
(***************************************************************************)
(* Control: what each call has computed at each place in arcl.             *)
(***************************************************************************)
Writing(c) == pc[c] \in Regs
Looping(c) == pc[c] \in {"loop", "wait", "final"}

\* The lights that have been waited for.
Awaited(c) == IF pc[c] = "wait" THEN next[c] ELSE next[c] - 1

TypeInv ==
  /\ pc \in [Clients -> {"idle", "loop", "wait", "final", "abortN"} \cup Regs]
  /\ phase \in [Clients -> {"none", "first", "drop", "last"}]
  /\ call \in [Clients -> Calls]
  /\ next \in [Clients -> Nat] /\ DOMAIN level = Clients /\ DOMAIN reg = Regs
  /\ curTime \in [Clients -> Nat] /\ left \in [Clients -> Nat]
  /\ lit \in [Clients -> Nat] /\ waited \in [Clients -> Nat]
  /\ DOMAIN disturbed = Clients

ControlOf(c) ==
  /\ phase[c] = "none" <=> pc[c] \in {"idle", "abortN"}
  /\ phase[c] = "last" => Writing(c) /\ level[c] = 0
  /\ next[c] >= 1 /\ next[c] <= Len(call[c].lights) + 1
  /\ pc[c] = "wait" => next[c] <= Len(call[c].lights)
  /\ pc[c] = "loop" => Len(call[c].lights) > 0
  /\ pc[c] \notin {"wait", "final"} => left[c] = 0
  /\ phase[c] = "none" => next[c] = 1 /\ curTime[c] = 0 /\ lit[c] = 0 /\ waited[c] = 0

(***************************************************************************)
(* The clocks of a call: the time asked for is that of the last light that *)
(* was waited for.                                                         *)
(***************************************************************************)
ClocksOf(c) ==
  /\ waited[c] = curTime[c] /\ curTime[c] <= Longest
  /\ curTime[c] = IF Awaited(c) = 0 THEN 0 ELSE call[c].lights[Awaited(c)][2]

CallOf(c) == ControlOf(c) /\ ClocksOf(c)
ClockInv == TypeInv /\ \A c \in Clients : CallOf(c)

LEMMA ClockInit == Init => ClockInv
<1> SUFFICES ASSUME Init PROVE ClockInv
  OBVIOUS
<1>1. TypeInv
  BY NoCallSorted DEF Init, TypeInv, Regs, Dark
<1> QED
  BY <1>1, NoCallSorted, LongestFacts DEF Init, ClockInv, CallOf, ControlOf, ClocksOf, Awaited,
    Writing, Regs
\* What a step leaves alone at a client stays true of it.
LEMMA Untouched ==
  ASSUME NEW d \in Clients, CallOf(d),
         pc'[d] = pc[d], phase'[d] = phase[d], call'[d] = call[d], next'[d] = next[d],
         level'[d] = level[d], curTime'[d] = curTime[d], left'[d] = left[d],
         lit'[d] = lit[d], waited'[d] = waited[d]
  PROVE  CallOf(d)'
BY DEF CallOf, ControlOf, ClocksOf, Awaited, Writing

\* One step of arcl in client c.
LEMMA ArclStep ==
  ASSUME ClockInv, NEW c \in Clients, arcl(c)
  PROVE  TypeInv' /\ CallOf(c)'
<1> USE DEF Go, Set, locals, history, Store, Disturb
<1>0. /\ TypeInv /\ CallOf(c) /\ ControlOf(c) /\ ClocksOf(c) /\ call[c] \in Calls
      /\ next[c] \in Nat /\ curTime[c] \in Nat /\ left[c] \in Nat
      /\ lit[c] \in Nat /\ waited[c] \in Nat
  BY DEF ClockInv, TypeInv, CallOf
<1> DEFINE n == Len(call[c].lights)
<1>a. /\ n \in Nat
      /\ \A i \in 1 .. n : call[c].lights[i][2] \in Nat /\ call[c].lights[i][2] <= Longest
      /\ \A i, j \in 1 .. n : i < j => call[c].lights[i][2] <= call[c].lights[j][2]
  BY <1>0, LightFacts
<1>1. CASE Start(c)
  <2>1. PICK k \in Calls : /\ call' = [call EXCEPT ![c] = k]
                           /\ pc[c] = "idle" /\ pc' = [pc EXCEPT ![c] = "led"]
                           /\ phase' = [phase EXCEPT ![c] = "first"]
                           /\ DOMAIN level' = Clients /\ DOMAIN disturbed' = Clients
                           /\ UNCHANGED <<next, curTime, left, reg, lit, waited>>
    BY <1>0, <1>1, SortedCalls DEF Start, TypeInv
  <2>2. TypeInv'
    BY <1>0, <2>1 DEF TypeInv, Regs
  <2>3. /\ pc'[c] = "led" /\ phase'[c] = "first" /\ call'[c] = k /\ Len(k.lights) \in Nat
        /\ next'[c] = 1 /\ left'[c] = 0 /\ curTime'[c] = 0 /\ lit'[c] = 0 /\ waited'[c] = 0
    BY <1>0, <2>1, LightFacts DEF TypeInv, ControlOf
  <2> QED
    BY <2>2, <2>3, LongestFacts DEF CallOf, ControlOf, ClocksOf, Awaited, Writing, Regs
<1>2. CASE StoreLed(c) \/ StoreP(c) \/ StoreN(c)
  <2>1. PICK to \in {"P", "N", "final", "loop"} :
          /\ pc[c] \in Regs /\ pc' = [pc EXCEPT ![c] = to]
          /\ to \in {"final", "loop"} => phase[c] # "last"
          /\ to = "loop" => call[c].lights # <<>>
          /\ DOMAIN reg' = Regs /\ DOMAIN disturbed' = Clients
          /\ UNCHANGED <<phase, locals, left, lit, waited>>
    BY <1>0, <1>2 DEF StoreLed, StoreP, StoreN, TypeInv, Regs
  <2>2. TypeInv'
    BY <1>0, <2>1 DEF TypeInv, Regs
  <2>3. pc'[c] = to /\ (to = "loop" => n > 0)
    BY <1>0, <1>a, <2>1 DEF TypeInv, Calls
  <2> QED
    BY <1>0, <1>a, <2>1, <2>2, <2>3 DEF CallOf, ControlOf, ClocksOf, Awaited, Writing, Regs
<1>3. CASE Wait(c) \/ FinalWait(c)
  <2>1. PICK t \in Nat, to \in {"wait", "final"} :
          /\ to = "wait" => next[c] <= n /\ t = call[c].lights[next[c]][2]
          /\ to = "final" => next[c] = n + 1 /\ n > 0 /\ t = call[c].lights[n][2]
          /\ pc[c] = "loop" /\ pc' = [pc EXCEPT ![c] = to] /\ WaitUntil(c, t, to)
    <3>1. pc[c] = "loop" /\ n > 0 /\ next[c] \in 1 .. n + 1
      BY <1>0, <1>a, <1>3 DEF Wait, FinalWait, WaitUntil, ControlOf
    <3>2. CASE Wait(c)
      <4>1. next[c] \in 1 .. n /\ call[c].lights[next[c]][2] \in Nat
        BY <1>a, <3>1, <3>2 DEF Wait, LightsLeft
      <4>2. WaitUntil(c, call[c].lights[next[c]][2], "wait")
        BY <3>2 DEF Wait, Light
      <4>3. pc' = [pc EXCEPT ![c] = "wait"]
        BY <4>2 DEF WaitUntil
      <4> QED
        BY <3>1, <4>1, <4>2, <4>3
    <3>3. CASE FinalWait(c)
      <4>1. next[c] = n + 1 /\ call[c].lights[n][2] \in Nat
        BY <1>a, <3>1, <3>3 DEF FinalWait, LightsLeft
      <4> QED
        BY <3>1, <3>3, <4>1 DEF FinalWait, WaitUntil, TotalTime, Last
    <3> QED
      BY <1>3, <3>2, <3>3
  <2>2. t <= Longest
    BY <1>0, <1>a, <2>1 DEF ControlOf
  <2>3. t >= curTime[c] /\ left[c] = 0 /\ phase[c] \notin {"none", "last"}
    <3>1. left[c] = 0 /\ phase[c] \notin {"none", "last"} /\ next[c] \in 1 .. n + 1
      BY <1>0, <1>a, <2>1 DEF ControlOf, Writing, Regs
    <3>2. CASE next[c] = 1
      BY <1>0, <2>1, <3>1, <3>2 DEF ClocksOf, Awaited
    <3>3. CASE next[c] # 1
      <4>1. curTime[c] = call[c].lights[next[c] - 1][2] /\ next[c] - 1 \in 1 .. n
        BY <1>0, <1>a, <2>1, <3>1, <3>3 DEF ClocksOf, Awaited
      <4>2. CASE to = "wait"
        BY <1>a, <2>1, <3>1, <4>1, <4>2
      <4>3. CASE to = "final"
        <5>1. next[c] - 1 = n
          BY <1>a, <2>1, <4>3
        <5> QED
          BY <1>a, <2>1, <4>1, <4>3, <5>1, <3>1
      <4> QED
        BY <4>2, <4>3
    <3> QED
      BY <3>2, <3>3
  <2>4. /\ left' = [left EXCEPT ![c] = t - curTime[c]] /\ t - curTime[c] \in Nat
        /\ curTime' = [curTime EXCEPT ![c] = t]
        /\ waited' = [waited EXCEPT ![c] = t]
        /\ UNCHANGED <<phase, call, next, level, reg, lit, disturbed>>
    <3>1. t - curTime[c] \in Nat /\ (t - curTime[c] > 0 \/ t - curTime[c] = 0)
      BY <1>0, <2>3
    <3>2. left' = [left EXCEPT ![c] = t - curTime[c]]
      BY <2>1, <3>1 DEF WaitUntil
    <3>3. left'[c] = t - curTime[c]
      BY <1>0, <3>2 DEF TypeInv
    <3>4. waited[c] + left'[c] = t
      BY <1>0, <3>1, <3>3 DEF ClocksOf
    <3> QED
      BY <2>1, <3>1, <3>2, <3>4 DEF WaitUntil
  <2>5. TypeInv'
    BY <1>0, <2>1, <2>2, <2>4 DEF TypeInv
  <2>6. pc'[c] = to /\ left'[c] = t - curTime[c] /\ curTime'[c] = t /\ waited'[c] = t
    BY <1>0, <2>1, <2>4 DEF TypeInv
  <2>7. ControlOf(c)'
    BY <1>0, <1>a, <2>1, <2>3, <2>4, <2>6 DEF ControlOf, Writing, Regs
  <2>8. ClocksOf(c)'
    <3>0. next' = next /\ call' = call /\ lit' = lit /\ next[c] \in 1 .. n + 1
      BY <1>0, <1>a, <2>4 DEF ControlOf
    <3>a. Awaited(c)' = IF to = "wait" THEN next[c] ELSE next[c] - 1
      BY <2>6, <3>0 DEF Awaited
    <3>1. Awaited(c)' \in 1 .. n /\ t = call[c].lights[Awaited(c)'][2]
      <4>1. CASE to = "wait"
        BY <1>a, <2>1, <3>0, <3>a, <4>1
      <4>2. CASE to = "final"
        <5>1. Awaited(c)' = n
          BY <1>a, <2>1, <3>0, <3>a, <4>2
        <5> QED
          BY <1>a, <2>1, <4>2, <5>1
      <4> QED
        BY <4>1, <4>2
    <3> QED
      BY <1>0, <1>a, <2>2, <2>6, <3>0, <3>1 DEF ClocksOf
  <2> QED
    BY <2>5, <2>7, <2>8 DEF CallOf
<1>4. CASE Drop(c)
  <2>1. /\ left[c] = 0 /\ pc[c] = "wait" /\ next[c] <= n /\ next[c] + 1 \in Nat
        /\ pc' = [pc EXCEPT ![c] = "led"] /\ phase' = [phase EXCEPT ![c] = "drop"]
        /\ next' = [next EXCEPT ![c] = next[c] + 1] /\ DOMAIN level' = Clients
        /\ UNCHANGED <<call, curTime, left, reg, history>>
    BY <1>0, <1>4 DEF Drop, TypeInv, ControlOf
  <2>2. TypeInv'
    BY <1>0, <2>1 DEF TypeInv, Regs
  <2>3. pc'[c] = "led" /\ phase'[c] = "drop" /\ next'[c] = next[c] + 1
    BY <1>0, <2>1 DEF TypeInv
  <2>4. ControlOf(c)'
    BY <1>0, <1>a, <2>1, <2>3 DEF ControlOf, Writing, Regs
  <2>5. curTime[c] = call[c].lights[next[c]][2]
    BY <1>0, <1>a, <2>1 DEF ControlOf, ClocksOf, Awaited
  <2> QED
    BY <1>0, <1>a, <2>1, <2>2, <2>3, <2>4, <2>5 DEF CallOf, ControlOf, ClocksOf, Awaited
<1>5. CASE LastLevel(c)
  <2>1. /\ left[c] = 0 /\ pc[c] = "final"
        /\ pc' = [pc EXCEPT ![c] = "led"] /\ phase' = [phase EXCEPT ![c] = "last"]
        /\ level' = [level EXCEPT ![c] = 0]
        /\ UNCHANGED <<call, next, curTime, left, reg, history>>
    BY <1>5 DEF LastLevel
  <2>2. TypeInv' /\ pc'[c] = "led" /\ phase'[c] = "last" /\ level'[c] = 0
    BY <1>0, <2>1 DEF TypeInv, Regs
  <2> QED
    BY <1>0, <2>1, <2>2 DEF CallOf, ControlOf, ClocksOf, Awaited, Writing, Regs
<1>6. CASE Finish(c)
  <2>1. /\ pc[c] = "N" /\ pc' = [pc EXCEPT ![c] = "idle"] /\ phase' = [phase EXCEPT ![c] = "none"]
        /\ call' = [call EXCEPT ![c] = NoCall] /\ next' = [next EXCEPT ![c] = 1]
        /\ curTime' = [curTime EXCEPT ![c] = 0] /\ lit' = [lit EXCEPT ![c] = 0]
        /\ waited' = [waited EXCEPT ![c] = 0] /\ left[c] = 0 /\ UNCHANGED left
        /\ DOMAIN level' = Clients /\ DOMAIN reg' = Regs /\ DOMAIN disturbed' = Clients
    BY <1>0, <1>6 DEF Finish, TypeInv, ControlOf
  <2>2. TypeInv'
    BY <1>0, <2>1, NoCallSorted DEF TypeInv
  <2>3. /\ pc'[c] = "idle" /\ phase'[c] = "none" /\ call'[c] = NoCall /\ next'[c] = 1
        /\ curTime'[c] = 0 /\ lit'[c] = 0 /\ waited'[c] = 0 /\ left'[c] = 0
    BY <1>0, <2>1 DEF TypeInv
  <2> QED
    BY <2>2, <2>3, NoCallSorted, LongestFacts DEF CallOf, ControlOf, ClocksOf, Awaited, Writing,
      Regs
<1> QED
  BY <1>1, <1>2, <1>3, <1>4, <1>5, <1>6 DEF arcl
LEMMA ClockStep ==
  ASSUME ClockInv, [Next]_vars
  PROVE  ClockInv'
<1>0. TypeInv /\ \A c \in Clients : CallOf(c)
  BY DEF ClockInv
<1>1. ASSUME NEW c \in Clients, arcl(c) PROVE ClockInv'
  <2>1. TypeInv' /\ CallOf(c)'
    BY <1>1, ArclStep
  <2>2. ASSUME NEW d \in Clients, d # c PROVE CallOf(d)'
    <3>1. /\ pc'[d] = pc[d] /\ phase'[d] = phase[d] /\ call'[d] = call[d] /\ next'[d] = next[d]
          /\ level'[d] = level[d] /\ curTime'[d] = curTime[d] /\ left'[d] = left[d]
          /\ lit'[d] = lit[d] /\ waited'[d] = waited[d]
      BY <1>0, <1>1, <2>2 DEF arcl, Start, StoreLed, StoreP, StoreN, Wait, Drop, FinalWait,
        LastLevel, Finish, Store, WaitUntil, Go, Set, TypeInv, locals, history
    <3> QED
      BY <1>0, <3>1, Untouched
  <2> QED
    BY <2>1, <2>2 DEF ClockInv
<1>2. ASSUME NEW c \in Clients, Abort(c) PROVE ClockInv'
  <2>1. PICK from, to : /\ <<from, to>> \in {<<"idle", "abortN">>, <<"abortN", "idle">>}
                        /\ pc[c] = from /\ pc' = [pc EXCEPT ![c] = to]
                        /\ DOMAIN reg' = Regs /\ DOMAIN disturbed' = Clients
                        /\ UNCHANGED <<phase, locals, left, lit, waited>>
    BY <1>0, <1>2 DEF Abort, AbortStore, Disturb, Go, TypeInv
  <2>2. TypeInv'
    BY <1>0, <2>1 DEF TypeInv, locals
  <2>3. CallOf(c)'
    BY <1>0, <2>1 DEF TypeInv, CallOf, ControlOf, ClocksOf, Awaited, Writing, Regs, locals
  <2>4. ASSUME NEW d \in Clients, d # c PROVE CallOf(d)'
    BY <1>0, <2>1, <2>4, Untouched DEF TypeInv, locals
  <2> QED
    BY <2>2, <2>3, <2>4 DEF ClockInv
<1>3. CASE Tick
  <2>1. TypeInv'
    BY <1>0, <1>3 DEF Tick, TypeInv, locals
  <2>2. ASSUME NEW c \in Clients PROVE CallOf(c)'
    <3>1. UNCHANGED <<pc, phase, call, next, level, curTime, waited>>
      BY <1>3 DEF Tick, locals
    <3>2. /\ left[c] \in Nat /\ lit[c] \in Nat /\ curTime[c] \in Nat
          /\ left'[c] = IF left[c] > 0 THEN left[c] - 1 ELSE 0
          /\ lit'[c] = IF LightsOn(c) /\ lit[c] < Longest THEN lit[c] + 1 ELSE lit[c]
      BY <1>0, <1>3 DEF Tick, TypeInv
    <3>3. LightsOn(c) => phase[c] # "none"
      BY DEF LightsOn, InProgress
    <3>4. ControlOf(c)'
      BY <1>0, <3>1, <3>2, <3>3 DEF CallOf, ControlOf, Writing
    <3>5. ClocksOf(c)'
      BY <1>0, <3>1 DEF CallOf, ClocksOf, Awaited
    <3> QED
      BY <3>4, <3>5 DEF CallOf
  <2> QED
    BY <2>1, <2>2 DEF ClockInv
<1>4. CASE UNCHANGED vars
  <2>1. TypeInv'
    BY <1>0, <1>4 DEF TypeInv, vars, locals, history
  <2>2. \A c \in Clients : CallOf(c)'
    BY <1>0, <1>4, Untouched DEF vars, locals, history
  <2> QED
    BY <2>1, <2>2 DEF ClockInv
<1> QED
  BY <1>1, <1>2, <1>3, <1>4 DEF Next

(***************************************************************************)
(* The waits of a call up to a light's end add up to that light's time.    *)
(***************************************************************************)
THEOREM LightsNotLonger == Spec => []NotLonger
<1>1. ASSUME ClockInv PROVE NotLonger
  <2>1. ASSUME NEW c \in Clients, NEW i \in Gone(c), i = next[c] - 1, pc[c] # "wait"
        PROVE waited[c] = call[c].lights[i][2]
    BY <1>1, <2>1 DEF ClockInv, TypeInv, CallOf, ClocksOf, Awaited, Gone
  <2> QED
    BY <2>1 DEF NotLonger
<1> QED
  BY ClockInit, ClockStep, <1>1, PTL DEF Spec
-----------------------------------------------------------------------------
(***************************************************************************)
(* Darkness.  A register that is not zero has been written by a call that  *)
(* is in progress and has still to write its last level, zero, to it; the  *)
(* others may only have made it zero since.                                *)
(***************************************************************************)
WillDarken(c, r) == InProgress(c) /\ (phase[c] = "last" => Pending(c, r))
DarkInv ==
  /\ reg = [r \in Regs |-> reg[r]]
  /\ \A r \in Regs : reg[r] = 0 \/ \E c \in Clients : WillDarken(c, r)

LEMMA DarkInit == Init => DarkInv
BY DEF Init, DarkInv, Dark

LEMMA PartOfZero == \A r \in Regs : Part(r, 0) = 0
<1>1. \A k \in Nat \ {0} : 0 % k = 0 /\ 0 \div k = 0
  OBVIOUS
<1>2. 0 % PinRange = 0 /\ 0 \div PinRange = 0
  BY <1>1, ExposureAssumption
<1> QED
  BY <1>2 DEF Part

LEMMA DarkStep ==
  ASSUME ClockInv, DarkInv, [Next]_vars
  PROVE  DarkInv'
<1> USE DEF DarkInv, WillDarken, InProgress, Pending, Regs
<1>0. /\ TypeInv /\ \A c \in Clients : ControlOf(c)
  BY DEF ClockInv, CallOf
<1>1. ASSUME NEW c \in Clients, Start(c) \/ Wait(c) \/ FinalWait(c) \/ Drop(c) \/ LastLevel(c)
      PROVE DarkInv'
  BY <1>0, <1>1 DEF TypeInv, Start, Wait, FinalWait, WaitUntil, Drop, LastLevel, Go, Set
<1>2. ASSUME NEW c \in Clients, StoreLed(c) \/ StoreP(c) \/ StoreN(c) \/ Finish(c)
      PROVE DarkInv'
  <2>1. PICK r \in Regs, to \in {"P", "N", "loop", "final", "idle"} : Store(c, r, to)
    BY <1>2 DEF StoreLed, StoreP, StoreN, Finish
  <2>2. /\ pc[c] = r /\ pc' = [pc EXCEPT ![c] = to] /\ phase[c] # "none"
        /\ reg' = [reg EXCEPT ![r] = Part(r, level[c])]
    BY <1>0, <2>1 DEF ControlOf, Store, Go
  <2>3. phase[c] = "last" => Part(r, level[c]) = 0
    BY <1>0, PartOfZero DEF ControlOf
  <2>4. CASE phase[c] # "last"
    <3>1. phase' = phase
      BY <1>2, <2>4 DEF StoreLed, StoreP, StoreN, Finish
    <3>2. \A q \in Regs : WillDarken(c, q)'
      BY <1>0, <2>2, <2>4, <3>1
    <3> QED
      BY <2>2, <3>2
  <2>5. CASE phase[c] = "last"
    <3>1. ASSUME NEW q \in Regs, NEW d \in Clients, d # c, WillDarken(d, q)
          PROVE  WillDarken(d, q)'
      <4>1. pc'[d] = pc[d] /\ phase'[d] = phase[d]
        BY <1>0, <1>2, <2>2, <3>1 DEF TypeInv, StoreLed, StoreP, StoreN, Finish, Set
      <4> QED
        BY <3>1, <4>1
    <3>2. ASSUME NEW q \in Regs, q # r, WillDarken(c, q)
          PROVE  WillDarken(c, q)'
      <4>1. Pending(c, q) /\ pc[c] # "N"
        BY <2>2, <2>5, <3>2
      <4>2. /\ phase' = phase
            /\ \/ pc[c] = "led" /\ pc' = [pc EXCEPT ![c] = "P"]
               \/ pc[c] = "P" /\ pc' = [pc EXCEPT ![c] = "N"]
        BY <1>2, <4>1 DEF StoreLed, StoreP, StoreN, Finish, Store, Go
      <4> QED
        BY <1>0, <2>2, <2>5, <3>2, <4>1, <4>2 DEF TypeInv
    <3>3. ASSUME NEW q \in Regs, q # r PROVE reg'[q] = reg[q]
      BY <2>2, <3>3
    <3>4. reg'[r] = 0
      BY <2>2, <2>3, <2>5
    <3>5. reg' = [q \in Regs |-> reg'[q]]
      BY <2>2
    <3>6. ASSUME NEW q \in Regs PROVE reg'[q] = 0 \/ \E d \in Clients : WillDarken(d, q)'
      BY <3>1, <3>2, <3>3, <3>4
    <3> QED
      BY <3>5, <3>6
  <2> QED
    BY <2>4, <2>5
<1>3. ASSUME NEW c \in Clients, Abort(c) PROVE DarkInv'
  BY <1>0, <1>3 DEF TypeInv, ControlOf, Abort, AbortStore, Go
<1>4. CASE Tick \/ UNCHANGED vars
  BY <1>4 DEF Tick, vars
<1> QED
  BY <1>1, <1>2, <1>3, <1>4 DEF Next, arcl

(***************************************************************************)
(* When no call is in progress all registers are dark, for any number of   *)
(* clients that expose and abort in any interleaving (server.py:183-187).  *)
(***************************************************************************)
THEOREM AllDark == Spec => []QuietIsDark
<1>1. ASSUME ClockInv, DarkInv PROVE QuietIsDark
  <2>1. ASSUME \A c \in Clients : pc[c] = "idle" PROVE \A c \in Clients : phase[c] = "none"
    BY <1>1, <2>1 DEF ClockInv, CallOf, ControlOf
  <2>2. ASSUME \A c \in Clients : pc[c] = "idle" PROVE reg = Dark
    <3>1. \A r \in Regs : reg[r] = 0
      BY <1>1, <2>1, <2>2 DEF DarkInv, WillDarken, InProgress
    <3> QED
      BY <1>1, <3>1 DEF DarkInv, Dark
  <2> QED
    BY <2>2 DEF QuietIsDark
<1> QED
  BY ClockInit, ClockStep, DarkInit, DarkStep, <1>1, PTL DEF Spec
=============================================================================
