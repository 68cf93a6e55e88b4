---------------------------- MODULE ServerProofs ----------------------------
(***************************************************************************)
(* The calls of rpServer, for any number of clients and of runs.           *)
(***************************************************************************)
EXTENDS Server, TLAPS

-----------------------------------------------------------------------------
(***************************************************************************)
(* Type correctness.  What is read through mine[c] has a type only if c    *)
(* has started a run when it gets there.                                   *)
(***************************************************************************)
HasRun == {"demoPid", "demoDrop", "trigPid", "wait", "report"}
TypeInv == TypeOK /\ \A c \in Clients : pc[c] \in HasRun => mine[c] \in Runs

LEMMA TypeInit == Init => TypeInv
<1> SUFFICES ASSUME Init PROVE TypeInv
  OBVIOUS
<1>1. /\ pc \in [Clients -> {"idle"}] /\ arg \in [Clients -> {None}] /\ mine \in [Clients -> {None}]
      /\ proc \in [Pids -> {"free"}] /\ fate \in [Runs -> {"none"}] /\ at \in [Runs -> {None}]
      /\ out \in [Outputs -> {"clear"}]
  BY DEF Init, Dark
<1> QED
  BY <1>1 DEF Init, TypeInv, TypeOK, HasRun, None

LEMMA TypeStep ==
  ASSUME TypeInv, [Next]_vars
  PROVE  TypeInv'
<1> USE DEF TypeInv, TypeOK, HasRun, Step, None, Pids, Runs, Outputs, Dark, runner, system,
           DemoSteps, TrigSteps, AbortSteps, Remember
<1>1. ASSUME NEW c \in Clients, Call(c) PROVE TypeInv'
  <2>1. CASE CallDemo(c)
    BY <2>1 DEF CallDemo
  <2>2. CASE CallTrigCollect(c)
    BY <2>2 DEF CallTrigCollect
  <2>3. CASE CallAbort(c)
    BY <2>3 DEF CallAbort
  <2>4. CASE MoveAbsoluteADU(c)
    BY <2>4 DEF MoveAbsoluteADU
  <2> QED
    BY <1>1, <2>1, <2>2, <2>3, <2>4 DEF Call
<1>2. ASSUME NEW c \in Clients, Demo(c) \/ Trig(c) PROVE TypeInv'
  <2>1. CASE DemoOpen(c)
    BY <2>1 DEF DemoOpen
  <2>2. CASE DemoClose(c)
    BY <2>2 DEF DemoClose
  <2>3. CASE DemoFlag(c)
    BY <2>3 DEF DemoFlag
  <2>4. CASE Test(c, "demoTest", "demoPopen")
    BY <2>4 DEF Test
  <2>5. CASE Popen(c, "demoPopen", "demoPid")
    BY <2>5 DEF Popen, Launch, MayGet, Reaped
  <2>6. CASE StorePid(c, "demoPid", "demoDrop")
    BY <2>6 DEF StorePid
  <2>7. CASE Drop(c)
    BY <2>7 DEF Drop
  <2>8. CASE Test(c, "trigTest", "trigPopen")
    BY <2>8 DEF Test
  <2>9. CASE Refuse(c)
    BY <2>9 DEF Refuse
  <2>10. CASE Popen(c, "trigPopen", "trigPid")
    BY <2>10 DEF Popen, Launch, MayGet, Reaped
  <2>11. CASE StorePid(c, "trigPid", "wait")
    BY <2>11 DEF StorePid
  <2>12. CASE DemoFails(c)
    BY <2>12 DEF DemoFails
  <2>13. CASE PopenFails(c, "demoPopen")
    BY <2>13 DEF PopenFails, Reaped
  <2>14. CASE PopenFails(c, "trigPopen")
    BY <2>14 DEF PopenFails, Reaped
  <2> QED
    BY <1>2, <2>1, <2>2, <2>3, <2>4, <2>5, <2>6, <2>7, <2>8, <2>9, <2>10, <2>11, <2>12, <2>13, <2>14
      DEF Demo, Trig
<1>3. ASSUME NEW c \in Clients, Wait(c) \/ Report(c) \/ Abort(c) PROVE TypeInv'
  <2>1. CASE Wait(c)
    BY <2>1 DEF Wait
  <2>2. CASE Report(c)
    BY <2>2 DEF Report
  <2>3. CASE AbortTest(c)
    <3>1. PICK s \in {"abortArg", "abortP"} : Step(c, "abortTest", s)
      BY <2>3 DEF AbortTest
    <3> QED
      BY <2>3, <3>1 DEF AbortTest
  <2>4. CASE AbortArg(c)
    BY <2>4 DEF AbortArg, Reaped
  <2>5. CASE AbortKill(c)
    BY <2>5 DEF AbortKill, Killed
  <2>6. CASE AbortReset(c)
    BY <2>6 DEF AbortReset
  <2>7. CASE Clear(c, "P", "abortP", "abortN")
    BY <2>7 DEF Clear
  <2>8. CASE Clear(c, "N", "abortN", "idle")
    BY <2>8 DEF Clear
  <2>9. CASE AbortFails(c)
    BY <2>9 DEF AbortFails, Reaped
  <2> QED
    BY <1>3, <2>1, <2>2, <2>3, <2>4, <2>5, <2>6, <2>7, <2>8, <2>9 DEF Abort
<1>4. ASSUME NEW n \in Runs, Advance(n) \/ DspWrites(n) PROVE TypeInv'
  <2>1. CASE DspPlays(n)
    BY <2>1 DEF DspPlays
  <2>2. CASE DspFails(n)
    <3>1. out' \in [Outputs -> {"clear", "table"}]
      BY <2>2 DEF DspFails
    <3>2. fate' = [fate EXCEPT ![n] = "failed"] /\ proc' = [proc EXCEPT ![at[n]] = "zombie"]
      BY <2>2 DEF DspFails, End
    <3> QED
      BY <2>2, <3>1, <3>2 DEF DspFails
  <2>3. CASE DspExits(n)
    BY <2>3 DEF DspExits, End
  <2>4. CASE DspWrites(n)
    BY <2>4 DEF DspWrites
  <2>5. CASE DspStops(n)
    BY <2>5 DEF DspStops
  <2> QED
    BY <1>4, <2>1, <2>2, <2>3, <2>4, <2>5 DEF Advance
<1>5. ASSUME NEW p \in Pids, OtherStarts(p) \/ OtherEnds(p) PROVE TypeInv'
  <2>1. CASE OtherStarts(p)
    BY <2>1 DEF OtherStarts
  <2>2. CASE OtherEnds(p)
    BY <2>2 DEF OtherEnds
  <2> QED
    BY <1>5, <2>1, <2>2
<1>6. CASE UNCHANGED vars
  BY <1>6 DEF vars, runner, system
<1> QED
  BY <1>1, <1>2, <1>3, <1>4, <1>5, <1>6 DEF Next, Thread

(***************************************************************************)
(* Every variable keeps its type, and a pid whose Popen object a thread    *)
(* holds is not free (TypeOK of Server).                                   *)
(***************************************************************************)
THEOREM TypeCorrect == Spec => []TypeOK
<1>1. TypeInv => TypeOK
  BY DEF TypeInv
<1> QED
  BY TypeInit, TypeStep, <1>1, PTL DEF Spec
-----------------------------------------------------------------------------
(***************************************************************************)
(* trigCollect.  A live run has a process of its own, so that a thread     *)
(* that has waited for its process has waited for its run, whatever pids   *)
(* have been given out again.                                              *)
(***************************************************************************)
ProcInv ==
  /\ \A n \in LiveRuns : at[n] \in Pids /\ proc[at[n]] = "dsp"
  /\ \A m, n \in LiveRuns : at[m] = at[n] => m = n
  /\ \A c \in Clients : pc[c] \in HasRun => fate[mine[c]] # "none"
  /\ DoneMeansOver

LEMMA ProcInit == Init => ProcInv
BY DEF Init, ProcInv, LiveRuns, Live, HasRun, DoneMeansOver

LEMMA ProcStep ==
  ASSUME TypeInv, ProcInv, [Next]_vars
  PROVE  ProcInv'
<1> USE DEF TypeInv, TypeOK, ProcInv, LiveRuns, Live, HasRun, DoneMeansOver, Step, None, Pids, Runs,
           runner, system
<1>1. ASSUME NEW c \in Clients, Call(c) PROVE ProcInv'
  <2>1. CASE CallDemo(c)
    BY <2>1 DEF CallDemo
  <2>2. CASE CallTrigCollect(c)
    BY <2>2 DEF CallTrigCollect
  <2>3. CASE CallAbort(c)
    BY <2>3 DEF CallAbort
  <2>4. CASE MoveAbsoluteADU(c)
    BY <2>4 DEF MoveAbsoluteADU
  <2> QED
    BY <1>1, <2>1, <2>2, <2>3, <2>4 DEF Call
<1>2. ASSUME NEW c \in Clients, Demo(c) \/ Trig(c) PROVE ProcInv'
  <2>1. CASE DemoOpen(c)
    BY <2>1 DEF DemoOpen
  <2>2. CASE DemoClose(c)
    BY <2>2 DEF DemoClose
  <2>3. CASE DemoFlag(c)
    BY <2>3 DEF DemoFlag
  <2>4. CASE Test(c, "demoTest", "demoPopen")
    BY <2>4 DEF Test
  <2>5. CASE Popen(c, "demoPopen", "demoPid")
    BY <2>5 DEF Popen, Launch, MayGet, Reaped
  <2>6. CASE StorePid(c, "demoPid", "demoDrop")
    BY <2>6 DEF StorePid
  <2>7. CASE Drop(c)
    BY <2>7 DEF Drop
  <2>8. CASE Test(c, "trigTest", "trigPopen")
    BY <2>8 DEF Test
  <2>9. CASE Refuse(c)
    BY <2>9 DEF Refuse
  <2>10. CASE Popen(c, "trigPopen", "trigPid")
    BY <2>10 DEF Popen, Launch, MayGet, Reaped
  <2>11. CASE StorePid(c, "trigPid", "wait")
    BY <2>11 DEF StorePid
  <2>12. CASE DemoFails(c)
    BY <2>12 DEF DemoFails
  <2>13. CASE PopenFails(c, "demoPopen")
    BY <2>13 DEF PopenFails, Reaped
  <2>14. CASE PopenFails(c, "trigPopen")
    BY <2>14 DEF PopenFails, Reaped
  <2> QED
    BY <1>2, <2>1, <2>2, <2>3, <2>4, <2>5, <2>6, <2>7, <2>8, <2>9, <2>10, <2>11, <2>12, <2>13, <2>14
      DEF Demo, Trig
<1>3. ASSUME NEW c \in Clients, Wait(c) \/ Report(c) \/ Abort(c) PROVE ProcInv'
  <2>1. CASE Wait(c)
    BY <2>1 DEF Wait
  <2>2. CASE Report(c)
    BY <2>2 DEF Report
  <2>3. CASE AbortTest(c)
    BY <2>3 DEF AbortTest
  <2>4. CASE AbortArg(c)
    BY <2>4 DEF AbortArg, Reaped
  <2>5. CASE AbortKill(c)
    BY <2>5 DEF AbortKill, Killed
  <2>6. CASE AbortReset(c)
    BY <2>6 DEF AbortReset
  <2>7. CASE Clear(c, "P", "abortP", "abortN")
    BY <2>7 DEF Clear
  <2>8. CASE Clear(c, "N", "abortN", "idle")
    BY <2>8 DEF Clear
  <2>9. CASE AbortFails(c)
    BY <2>9 DEF AbortFails, Reaped
  <2> QED
    BY <1>3, <2>1, <2>2, <2>3, <2>4, <2>5, <2>6, <2>7, <2>8, <2>9 DEF Abort
<1>4. ASSUME NEW n \in Runs, Advance(n) \/ DspWrites(n) PROVE ProcInv'
  <2>1. CASE DspPlays(n)
    BY <2>1 DEF DspPlays
  <2>2. CASE DspFails(n)
    BY <2>2 DEF DspFails, End
  <2>3. CASE DspExits(n)
    BY <2>3 DEF DspExits, End
  <2>4. CASE DspWrites(n)
    BY <2>4 DEF DspWrites
  <2>5. CASE DspStops(n)
    BY <2>5 DEF DspStops
  <2> QED
    BY <1>4, <2>1, <2>2, <2>3, <2>4, <2>5 DEF Advance
<1>5. ASSUME NEW p \in Pids, OtherStarts(p) \/ OtherEnds(p) PROVE ProcInv'
  <2>1. CASE OtherStarts(p)
    BY <2>1 DEF OtherStarts
  <2>2. CASE OtherEnds(p)
    BY <2>2 DEF OtherEnds
  <2> QED
    BY <1>5, <2>1, <2>2
<1>6. CASE UNCHANGED vars
  BY <1>6 DEF vars, runner, system
<1> QED
  BY <1>1, <1>2, <1>3, <1>4, <1>5, <1>6 DEF Next, Thread

(***************************************************************************)
(* When trigCollect reports, its run is over, for any number of clients    *)
(* and of runs (server.py:243-248).                                        *)
(***************************************************************************)
THEOREM DoneMeansRunOver == Spec => []DoneMeansOver
<1>1. ProcInv => DoneMeansOver
  BY DEF ProcInv
<1> QED
  BY TypeInit, TypeStep, ProcInit, ProcStep, <1>1, PTL DEF Spec
-----------------------------------------------------------------------------
(***************************************************************************)
(* What the outputs show.  A table's value comes from a run that plays; it *)
(* goes when that run exits, and stays when it is killed, but then the     *)
(* thread that has killed it has still to clear the pins.                  *)
(***************************************************************************)
WillClear(c, k) == pc[c] \in {"abortReset", "abortP"} \/ (k = "N" /\ pc[c] = "abortN")

PinInv == \A k \in Digital : out[k] = "table" =>
  (\E n \in Runs : fate[n] = "playing") \/ (\E c \in Clients : WillClear(c, k))

OutInv == \A k \in Outputs : out[k] = "table" => \E n \in Runs : fate[n] \in {"playing", "killed"}

ShowInv == PinInv /\ OutInv

LEMMA ShowInit == Init => ShowInv
BY DEF Init, ShowInv, PinInv, OutInv, Dark, Digital, Outputs

LEMMA ShowStep ==
  ASSUME TypeInv, ShowInv, [Next]_vars
  PROVE  ShowInv'
<1> USE DEF TypeInv, TypeOK, ShowInv, PinInv, OutInv, WillClear, Digital, Outputs, Dark, Live, Step,
           runner, system
<1>1. ASSUME NEW c \in Clients, Call(c) PROVE ShowInv'
  <2>1. CASE CallDemo(c)
    BY <2>1 DEF CallDemo
  <2>2. CASE CallTrigCollect(c)
    BY <2>2 DEF CallTrigCollect
  <2>3. CASE CallAbort(c)
    BY <2>3 DEF CallAbort
  <2>4. CASE MoveAbsoluteADU(c)
    BY <2>4 DEF MoveAbsoluteADU
  <2> QED
    BY <1>1, <2>1, <2>2, <2>3, <2>4 DEF Call
<1>2. ASSUME NEW c \in Clients, Demo(c) \/ Trig(c) PROVE ShowInv'
  <2>1. CASE DemoOpen(c)
    BY <2>1 DEF DemoOpen
  <2>2. CASE DemoClose(c)
    BY <2>2 DEF DemoClose
  <2>3. CASE DemoFlag(c)
    BY <2>3 DEF DemoFlag
  <2>4. CASE Test(c, "demoTest", "demoPopen")
    BY <2>4 DEF Test
  <2>5. CASE Popen(c, "demoPopen", "demoPid")
    BY <2>5 DEF Popen, Launch, MayGet, Reaped
  <2>6. CASE StorePid(c, "demoPid", "demoDrop")
    BY <2>6 DEF StorePid
  <2>7. CASE Drop(c)
    BY <2>7 DEF Drop
  <2>8. CASE Test(c, "trigTest", "trigPopen")
    BY <2>8 DEF Test
  <2>9. CASE Refuse(c)
    BY <2>9 DEF Refuse
  <2>10. CASE Popen(c, "trigPopen", "trigPid")
    BY <2>10 DEF Popen, Launch, MayGet, Reaped
  <2>11. CASE StorePid(c, "trigPid", "wait")
    BY <2>11 DEF StorePid
  <2>12. CASE DemoFails(c)
    BY <2>12 DEF DemoFails
  <2>13. CASE PopenFails(c, "demoPopen")
    BY <2>13 DEF PopenFails, Reaped
  <2>14. CASE PopenFails(c, "trigPopen")
    BY <2>14 DEF PopenFails, Reaped
  <2> QED
    BY <1>2, <2>1, <2>2, <2>3, <2>4, <2>5, <2>6, <2>7, <2>8, <2>9, <2>10, <2>11, <2>12, <2>13, <2>14
      DEF Demo, Trig
<1>3. ASSUME NEW c \in Clients, Wait(c) \/ Report(c) \/ Abort(c) PROVE ShowInv'
  <2>1. CASE Wait(c)
    BY <2>1 DEF Wait
  <2>2. CASE Report(c)
    BY <2>2 DEF Report
  <2>3. CASE AbortTest(c)
    BY <2>3 DEF AbortTest
  <2>4. CASE AbortArg(c)
    BY <2>4 DEF AbortArg, Reaped
  <2>5. CASE AbortKill(c)
    BY <2>5 DEF AbortKill, Killed
  <2>6. CASE AbortReset(c)
    BY <2>6 DEF AbortReset
  <2>7. CASE Clear(c, "P", "abortP", "abortN")
    BY <2>7 DEF Clear
  <2>8. CASE Clear(c, "N", "abortN", "idle")
    BY <2>8 DEF Clear
  <2>9. CASE AbortFails(c)
    BY <2>9 DEF AbortFails, Reaped
  <2> QED
    BY <1>3, <2>1, <2>2, <2>3, <2>4, <2>5, <2>6, <2>7, <2>8, <2>9 DEF Abort
<1>4. ASSUME NEW n \in Runs, Advance(n) \/ DspWrites(n) PROVE ShowInv'
  <2>1. CASE DspPlays(n)
    BY <2>1 DEF DspPlays
  <2>2. CASE DspFails(n)
    BY <2>2 DEF DspFails, End
  <2>3. CASE DspExits(n)
    BY <2>3 DEF DspExits, End
  <2>4. CASE DspWrites(n)
    BY <2>4 DEF DspWrites
  <2>5. CASE DspStops(n)
    BY <2>5 DEF DspStops
  <2> QED
    BY <1>4, <2>1, <2>2, <2>3, <2>4, <2>5 DEF Advance
<1>5. ASSUME NEW p \in Pids, OtherStarts(p) \/ OtherEnds(p) PROVE ShowInv'
  <2>1. CASE OtherStarts(p)
    BY <2>1 DEF OtherStarts
  <2>2. CASE OtherEnds(p)
    BY <2>2 DEF OtherEnds
  <2> QED
    BY <1>5, <2>1, <2>2
<1>6. CASE UNCHANGED vars
  BY <1>6 DEF vars, runner, system
<1> QED
  BY <1>1, <1>2, <1>3, <1>4, <1>5, <1>6 DEF Next, Thread

(***************************************************************************)
(* When no run is alive and no Abort is in progress the pins show nothing  *)
(* of a table (server.py:142-146).                                         *)
(***************************************************************************)
THEOREM PinsQuiet == Spec => []QuietIsDark
<1>1. ShowInv => QuietIsDark
  BY DEF ShowInv, PinInv, WillClear, QuietIsDark, LiveRuns, Live, AbortSteps
<1> QED
  BY TypeInit, TypeStep, ShowInit, ShowStep, <1>1, PTL DEF Spec

(***************************************************************************)
(* Only a run that is alive or was killed leaves a table's value on an     *)
(* output (server.py:245-246).                                             *)
(***************************************************************************)
THEOREM OnlyKilledLeaves == Spec => []OnlyKilledLeavesOutputs
<1>1. ShowInv => OnlyKilledLeavesOutputs
  BY DEF ShowInv, OutInv, OnlyKilledLeavesOutputs, Live
<1> QED
  BY TypeInit, TypeStep, ShowInit, ShowStep, <1>1, PTL DEF Spec
-----------------------------------------------------------------------------
(***************************************************************************)
(* The file.  Wherever a thread may start a run, a complete file has been  *)
(* written before.                                                         *)
(***************************************************************************)
MayLaunch == {"demoFlag", "demoTest", "demoPopen", "trigPopen"}

LoadInv ==
  /\ written => loaded
  /\ \A c \in Clients : pc[c] \in MayLaunch => loaded
  /\ StartsAfterLoad

LEMMA LoadInit == Init => LoadInv
BY DEF Init, LoadInv, MayLaunch, StartsAfterLoad

LEMMA LoadStep ==
  ASSUME TypeInv, LoadInv, [Next]_vars
  PROVE  LoadInv'
<1> USE DEF TypeInv, TypeOK, LoadInv, MayLaunch, StartsAfterLoad, Live, Step, runner, system
<1>1. ASSUME NEW c \in Clients, Call(c) PROVE LoadInv'
  <2>1. CASE CallDemo(c)
    BY <2>1 DEF CallDemo
  <2>2. CASE CallTrigCollect(c)
    BY <2>2 DEF CallTrigCollect
  <2>3. CASE CallAbort(c)
    BY <2>3 DEF CallAbort
  <2>4. CASE MoveAbsoluteADU(c)
    BY <2>4 DEF MoveAbsoluteADU
  <2> QED
    BY <1>1, <2>1, <2>2, <2>3, <2>4 DEF Call
<1>2. ASSUME NEW c \in Clients, Demo(c) \/ Trig(c) PROVE LoadInv'
  <2>1. CASE DemoOpen(c)
    BY <2>1 DEF DemoOpen
  <2>2. CASE DemoClose(c)
    BY <2>2 DEF DemoClose
  <2>3. CASE DemoFlag(c)
    BY <2>3 DEF DemoFlag
  <2>4. CASE Test(c, "demoTest", "demoPopen")
    BY <2>4 DEF Test
  <2>5. CASE Popen(c, "demoPopen", "demoPid")
    BY <2>5 DEF Popen, Launch, MayGet, Reaped
  <2>6. CASE StorePid(c, "demoPid", "demoDrop")
    BY <2>6 DEF StorePid
  <2>7. CASE Drop(c)
    BY <2>7 DEF Drop
  <2>8. CASE Test(c, "trigTest", "trigPopen")
    BY <2>8 DEF Test
  <2>9. CASE Refuse(c)
    BY <2>9 DEF Refuse
  <2>10. CASE Popen(c, "trigPopen", "trigPid")
    BY <2>10 DEF Popen, Launch, MayGet, Reaped
  <2>11. CASE StorePid(c, "trigPid", "wait")
    BY <2>11 DEF StorePid
  <2>12. CASE DemoFails(c)
    BY <2>12 DEF DemoFails
  <2>13. CASE PopenFails(c, "demoPopen")
    BY <2>13 DEF PopenFails, Reaped
  <2>14. CASE PopenFails(c, "trigPopen")
    BY <2>14 DEF PopenFails, Reaped
  <2> QED
    BY <1>2, <2>1, <2>2, <2>3, <2>4, <2>5, <2>6, <2>7, <2>8, <2>9, <2>10, <2>11, <2>12, <2>13, <2>14
      DEF Demo, Trig
<1>3. ASSUME NEW c \in Clients, Wait(c) \/ Report(c) \/ Abort(c) PROVE LoadInv'
  <2>1. CASE Wait(c)
    BY <2>1 DEF Wait
  <2>2. CASE Report(c)
    BY <2>2 DEF Report
  <2>3. CASE AbortTest(c)
    BY <2>3 DEF AbortTest
  <2>4. CASE AbortArg(c)
    BY <2>4 DEF AbortArg, Reaped
  <2>5. CASE AbortKill(c)
    BY <2>5 DEF AbortKill, Killed
  <2>6. CASE AbortReset(c)
    BY <2>6 DEF AbortReset
  <2>7. CASE Clear(c, "P", "abortP", "abortN")
    BY <2>7 DEF Clear
  <2>8. CASE Clear(c, "N", "abortN", "idle")
    BY <2>8 DEF Clear
  <2>9. CASE AbortFails(c)
    BY <2>9 DEF AbortFails, Reaped
  <2> QED
    BY <1>3, <2>1, <2>2, <2>3, <2>4, <2>5, <2>6, <2>7, <2>8, <2>9 DEF Abort
<1>4. ASSUME NEW n \in Runs, Advance(n) \/ DspWrites(n) PROVE LoadInv'
  <2>1. CASE DspPlays(n)
    BY <2>1 DEF DspPlays
  <2>2. CASE DspFails(n)
    BY <2>2 DEF DspFails, End
  <2>3. CASE DspExits(n)
    BY <2>3 DEF DspExits, End
  <2>4. CASE DspWrites(n)
    BY <2>4 DEF DspWrites
  <2>5. CASE DspStops(n)
    BY <2>5 DEF DspStops
  <2> QED
    BY <1>4, <2>1, <2>2, <2>3, <2>4, <2>5 DEF Advance
<1>5. ASSUME NEW p \in Pids, OtherStarts(p) \/ OtherEnds(p) PROVE LoadInv'
  <2>1. CASE OtherStarts(p)
    BY <2>1 DEF OtherStarts
  <2>2. CASE OtherEnds(p)
    BY <2>2 DEF OtherEnds
  <2> QED
    BY <1>5, <2>1, <2>2
<1>6. CASE UNCHANGED vars
  BY <1>6 DEF vars, runner, system
<1> QED
  BY <1>1, <1>2, <1>3, <1>4, <1>5, <1>6 DEF Next, Thread

(***************************************************************************)
(* No run is started before a complete file has been written (server.py:85 *)
(* and 105), for any number of clients and of runs.                        *)
(***************************************************************************)
THEOREM LoadedFirst == Spec => []StartsAfterLoad
<1>1. LoadInv => StartsAfterLoad
  BY DEF LoadInv
<1> QED
  BY TypeInit, TypeStep, LoadInit, LoadStep, <1>1, PTL DEF Spec
-----------------------------------------------------------------------------
(***************************************************************************)
(* Abort.  While the run whose pid was stored last is alive, Runner.pid    *)
(* names it: a thread that resets the pid has passed it to kill before,    *)
(* unless it had tested the pid before that run's own was stored.          *)
(***************************************************************************)
ReachInv == (last # None => fate[last] # "none") /\ LastCanBeAborted

LEMMA ReachInit == Init => ReachInv
BY DEF Init, ReachInv, LastCanBeAborted

LEMMA ReachStep ==
  ASSUME TypeInv, ProcInv, ReachInv, [Next]_vars
  PROVE  ReachInv'
<1> USE DEF TypeInv, TypeOK, ProcInv, HasRun, ReachInv, LastCanBeAborted, Live, LiveRuns, Step,
           Underway, Remember, None, Pids, Runs, runner, system
<1>1. ASSUME NEW c \in Clients, Call(c) PROVE ReachInv'
  <2>1. CASE CallDemo(c)
    BY <2>1 DEF CallDemo
  <2>2. CASE CallTrigCollect(c)
    BY <2>2 DEF CallTrigCollect
  <2>3. CASE CallAbort(c)
    BY <2>3 DEF CallAbort
  <2>4. CASE MoveAbsoluteADU(c)
    BY <2>4 DEF MoveAbsoluteADU
  <2> QED
    BY <1>1, <2>1, <2>2, <2>3, <2>4 DEF Call
<1>2. ASSUME NEW c \in Clients, Demo(c) \/ Trig(c) PROVE ReachInv'
  <2>1. CASE DemoOpen(c)
    BY <2>1 DEF DemoOpen
  <2>2. CASE DemoClose(c)
    BY <2>2 DEF DemoClose
  <2>3. CASE DemoFlag(c)
    BY <2>3 DEF DemoFlag
  <2>4. CASE Test(c, "demoTest", "demoPopen")
    BY <2>4 DEF Test
  <2>5. CASE Popen(c, "demoPopen", "demoPid")
    BY <2>5 DEF Popen, Launch, MayGet, Reaped
  <2>6. CASE StorePid(c, "demoPid", "demoDrop")
    BY <2>6 DEF StorePid
  <2>7. CASE Drop(c)
    BY <2>7 DEF Drop
  <2>8. CASE Test(c, "trigTest", "trigPopen")
    BY <2>8 DEF Test
  <2>9. CASE Refuse(c)
    BY <2>9 DEF Refuse
  <2>10. CASE Popen(c, "trigPopen", "trigPid")
    BY <2>10 DEF Popen, Launch, MayGet, Reaped
  <2>11. CASE StorePid(c, "trigPid", "wait")
    BY <2>11 DEF StorePid
  <2>12. CASE DemoFails(c)
    BY <2>12 DEF DemoFails
  <2>13. CASE PopenFails(c, "demoPopen")
    BY <2>13 DEF PopenFails, Reaped
  <2>14. CASE PopenFails(c, "trigPopen")
    BY <2>14 DEF PopenFails, Reaped
  <2> QED
    BY <1>2, <2>1, <2>2, <2>3, <2>4, <2>5, <2>6, <2>7, <2>8, <2>9, <2>10, <2>11, <2>12, <2>13, <2>14
      DEF Demo, Trig
<1>3. ASSUME NEW c \in Clients, Wait(c) \/ Report(c) \/ Abort(c) PROVE ReachInv'
  <2>1. CASE Wait(c)
    BY <2>1 DEF Wait
  <2>2. CASE Report(c)
    BY <2>2 DEF Report
  <2>3. CASE AbortTest(c)
    BY <2>3 DEF AbortTest
  <2>4. CASE AbortArg(c)
    BY <2>4 DEF AbortArg, Reaped
  <2>5. CASE AbortKill(c)
    BY <2>5 DEF AbortKill, Killed
  <2>6. CASE AbortReset(c)
    BY <2>6 DEF AbortReset
  <2>7. CASE Clear(c, "P", "abortP", "abortN")
    BY <2>7 DEF Clear
  <2>8. CASE Clear(c, "N", "abortN", "idle")
    BY <2>8 DEF Clear
  <2>9. CASE AbortFails(c)
    BY <2>9 DEF AbortFails, Reaped
  <2> QED
    BY <1>3, <2>1, <2>2, <2>3, <2>4, <2>5, <2>6, <2>7, <2>8, <2>9 DEF Abort
<1>4. ASSUME NEW n \in Runs, Advance(n) \/ DspWrites(n) PROVE ReachInv'
  <2>1. CASE DspPlays(n)
    BY <2>1 DEF DspPlays
  <2>2. CASE DspFails(n)
    BY <2>2 DEF DspFails, End
  <2>3. CASE DspExits(n)
    BY <2>3 DEF DspExits, End
  <2>4. CASE DspWrites(n)
    BY <2>4 DEF DspWrites
  <2>5. CASE DspStops(n)
    BY <2>5 DEF DspStops
  <2> QED
    BY <1>4, <2>1, <2>2, <2>3, <2>4, <2>5 DEF Advance
<1>5. ASSUME NEW p \in Pids, OtherStarts(p) \/ OtherEnds(p) PROVE ReachInv'
  <2>1. CASE OtherStarts(p)
    BY <2>1 DEF OtherStarts
  <2>2. CASE OtherEnds(p)
    BY <2>2 DEF OtherEnds
  <2> QED
    BY <1>5, <2>1, <2>2
<1>6. CASE UNCHANGED vars
  BY <1>6 DEF vars, runner, system
<1> QED
  BY <1>1, <1>2, <1>3, <1>4, <1>5, <1>6 DEF Next, Thread

(***************************************************************************)
(* A run whose pid was stored last, and with no Abort under way, can be    *)
(* aborted for as long as it lives (server.py:99-110), for any number of   *)
(* clients, and of Aborts and starts in any interleaving.                  *)
(***************************************************************************)
THEOREM LastIsReached == Spec => []LastCanBeAborted
<1>1. ReachInv => LastCanBeAborted
  BY DEF ReachInv
<1> QED
  BY TypeInit, TypeStep, ProcInit, ProcStep, ReachInit, ReachStep, <1>1, PTL DEF Spec
=============================================================================
