------------------------------- MODULE Server -------------------------------
(***************************************************************************)
(* server.py: the calls of rpServer that start and stop dsp, on the one    *)
(* Runner that all clients share, and the dsp processes themselves.        *)
(*                                                                         *)
(* Pyro4 serves each connection in a thread of its own and there is no     *)
(* lock: a step here is what the interpreter does between two accesses to  *)
(* shared state (an attribute, the file, a process, a register).  A        *)
(* process is started by Popen, and keeps its pid until it is waited for:  *)
(* by trigCollect, or, when demo has dropped the Popen object, by the      *)
(* subprocess module the next time that anything is started.  From then on *)
(* the system may give the pid to another program.                         *)
(*                                                                         *)
(* A dsp process is what Dsp shows of it when no SIGINT is sent: it clears *)
(* the outputs, stops the global timer and starts it again, writes to the  *)
(* outputs, and clears them when it exits (ExitClears); one that fails     *)
(* before has driven nothing (CrashCauses); a killed one leaves everything *)
(* as it is, the timer too, which may be the one that another run waits    *)
(* on.  kill -9 is taken to be over when the kill program is.  Of an       *)
(* output only this is kept: does it show a value of a table, or is it     *)
(* clear of them, at zero or at a client's own setting?                    *)
(*                                                                         *)
(* profileSet always raises an exception (server.py:191 indexes a zip      *)
(* object), so that DownloadProfile has no table to load and raises one    *)
(* too: loadDemo is the only way to a file.                                *)
(***************************************************************************)
EXTENDS Naturals, FiniteSets

CONSTANTS
  Clients,      \* the connections, each with its thread
  MaxRuns       \* bound: no more runs are started

ASSUME ServerAssumption == MaxRuns \in Nat

Runs == 1 .. MaxRuns
Pids == 1 .. MaxRuns         \* so each run may have a pid of its own
None == 0

VARIABLES
  pc,           \* pc[c]: where the thread of c is
  arg,          \* arg[c]: the pid that it has passed to kill
  mine,         \* mine[c]: the run it has started
  pid,          \* Runner.pid
  written,      \* Runner.writtenActionTable
  file,         \* /tmp/actiontable
  proc,         \* proc[p]: what process p is
  held,         \* the pids whose Popen object a thread holds
  fate,         \* fate[n]: what has become of run n
  at,           \* at[n]: the pid of run n
  timer,        \* does the global timer run?
  out,          \* out[k]: does output k show a value of a table?
  loaded,       \* history: has the file ever been complete?
  last          \* history: the run whose pid was stored last, if no Abort was under way

runner == <<pid, written, last>>
system == <<proc, held, fate, at, timer>>
vars == <<pc, arg, mine, runner, file, system, out, loaded>>

Outputs == {"P", "N", "A"}      \* the pins, and the analog channels as one
Digital == {"P", "N"}
Dark == [k \in Outputs |-> "clear"]

DemoSteps == {"demoOpen", "demoClose", "demoFlag", "demoTest", "demoPopen", "demoPid", "demoDrop"}
TrigSteps == {"trigTest", "trigPopen", "trigPid", "wait", "report"}
AbortSteps == {"abortTest", "abortArg", "abortKill", "abortReset", "abortP", "abortN"}

\* The Aborts that have found a pid, and have not reset it.
Underway == {"abortArg", "abortKill", "abortReset"}

Live(n) == fate[n] \in {"starting", "setting", "playing"}
LiveRuns == {n \in Runs : Live(n)}

Init ==
  /\ pc = [c \in Clients |-> "idle"]
  /\ arg = [c \in Clients |-> None]
  /\ mine = [c \in Clients |-> None]
  /\ pid = None
  /\ written = FALSE
  /\ file = "absent"
  /\ proc = [p \in Pids |-> "free"]
  /\ held = {}
  /\ fate = [n \in Runs |-> "none"]
  /\ at = [n \in Runs |-> None]
  /\ timer \in BOOLEAN
  /\ out = Dark
  /\ loaded = FALSE
  /\ last = None
-----------------------------------------------------------------------------

Step(c, from, to) == pc[c] = from /\ pc' = [pc EXCEPT ![c] = to]

\* Mutant: every ended child is waited for.
ReapedAll == [p \in Pids |-> IF proc[p] = "zombie" THEN "free" ELSE proc[p]]

\* The processes that subprocess._cleanup waits for, and what is left then.
Reaped == [p \in Pids |-> IF proc[p] = "zombie" /\ p \notin held THEN "free" ELSE proc[p]]

(***************************************************************************)
(* The calls of a client.                                                  *)
(***************************************************************************)
Starting == {"demoOpen", "demoClose", "demoFlag", "demoTest", "demoPopen", "trigTest", "trigPopen"}

\* Enough runs are left for all threads that are about to start one.
MayStart ==
  Cardinality({n \in Runs : fate[n] # "none"}) + Cardinality({c \in Clients : pc[c] \in Starting})
    < MaxRuns

CallDemo(c) ==
  /\ MayStart
  /\ Step(c, "idle", "demoOpen")
  /\ UNCHANGED <<arg, mine, runner, file, system, out, loaded>>

CallTrigCollect(c) ==
  /\ MayStart
  /\ Step(c, "idle", "trigTest")
  /\ UNCHANGED <<arg, mine, runner, file, system, out, loaded>>

CallAbort(c) ==
  /\ Step(c, "idle", "abortTest")
  /\ UNCHANGED <<arg, mine, runner, file, system, out, loaded>>

\* The client's own value, on lines 0 and 1; the others are not outputs.
MoveAbsoluteADU(c) ==
  /\ pc[c] = "idle"
  /\ out' = [out EXCEPT !["A"] = "clear"]
  /\ UNCHANGED <<pc, arg, mine, runner, file, system, loaded>>

(***************************************************************************)
(* Runner.loadDemo: opening the file empties it.                           *)
(***************************************************************************)
\* Mutant: the flag is set when the file has been opened.
FlagEarly(c) ==
  /\ Step(c, "demoOpen", "demoClose")
  /\ file' = "partial"
  /\ written' = TRUE
  /\ UNCHANGED <<arg, mine, pid, last, system, out, loaded>>

DemoOpen(c) ==
  /\ Step(c, "demoOpen", "demoClose")
  /\ file' = "partial"
  /\ UNCHANGED <<arg, mine, runner, system, out, loaded>>

DemoClose(c) ==
  /\ Step(c, "demoClose", "demoFlag")
  /\ file' = "whole"
  /\ loaded' = TRUE
  /\ UNCHANGED <<arg, mine, runner, system, out>>

\* open fails, or print does when the disk is full; the file stays as it is then.
DemoFails(c) ==
  /\ Step(c, "demoOpen", "idle") \/ Step(c, "demoClose", "idle")
  /\ UNCHANGED <<arg, mine, runner, file, system, out, loaded>>

DemoFlag(c) ==
  /\ Step(c, "demoFlag", "demoTest")
  /\ written' = TRUE
  /\ UNCHANGED <<arg, mine, pid, last, file, system, out, loaded>>

(***************************************************************************)
(* Runner.start, in trigCollect and in demo.                               *)
(***************************************************************************)
Test(c, from, to) ==
  /\ written
  /\ Step(c, from, to)
  /\ UNCHANGED <<arg, mine, runner, file, system, out, loaded>>

Refuse(c) ==
  /\ ~written
  /\ Step(c, "trigTest", "idle")
  /\ UNCHANGED <<arg, mine, runner, file, system, out, loaded>>

\* Some run has had this pid.
Used(p) == \E n \in Runs : at[n] = p

\* A pid that is free, one used before or the first of the others.
MayGet(p) == Reaped[p] = "free" /\ \A q \in Pids : q < p => Used(q)

\* Run n, the next one, is started as process p.
Launch(c, n, p) ==
  /\ fate[n] = "none" /\ \A m \in Runs : m < n => fate[m] # "none"
  /\ MayGet(p)
  /\ proc' = [Reaped EXCEPT ![p] = "dsp"]
  /\ fate' = [fate EXCEPT ![n] = "starting"]
  /\ at' = [at EXCEPT ![n] = p]
  /\ mine' = [mine EXCEPT ![c] = n]

Popen(c, from, to) ==
  /\ Step(c, from, to)
  /\ \E n \in Runs, p \in Pids : Launch(c, n, p) /\ held' = held \cup {p}
  /\ UNCHANGED <<arg, runner, file, timer, out, loaded>>

\* Popen raises an exception; it has waited for dropped processes first.
PopenFails(c, from) ==
  /\ Step(c, from, "idle")
  /\ proc' = Reaped
  /\ UNCHANGED <<arg, mine, runner, file, held, fate, at, timer, out, loaded>>

Remember(c) == last' = IF \E d \in Clients : pc[d] \in Underway THEN None ELSE mine[c]

\* Mutant: the pid is stored only if there is none.
KeepPid(c, from, to) ==
  /\ Step(c, from, to)
  /\ pid' = IF pid = None THEN at[mine[c]] ELSE pid
  /\ Remember(c)
  /\ UNCHANGED <<arg, mine, written, file, system, out, loaded>>

StorePid(c, from, to) ==
  /\ Step(c, from, to)
  /\ pid' = at[mine[c]]
  /\ Remember(c)
  /\ UNCHANGED <<arg, mine, written, file, system, out, loaded>>

Trig(c) == \/ Test(c, "trigTest", "trigPopen") \/ Refuse(c)
           \/ Popen(c, "trigPopen", "trigPid") \/ PopenFails(c, "trigPopen")
           \/ StorePid(c, "trigPid", "wait")

\* demo returns and drops the Popen object, which waits for an ended process.
Drop(c) ==
  LET p == at[mine[c]] IN
  /\ Step(c, "demoDrop", "idle")
  /\ held' = held \ {p}
  /\ proc' = IF proc[p] = "zombie" THEN [proc EXCEPT ![p] = "free"] ELSE proc
  /\ mine' = [mine EXCEPT ![c] = None]
  /\ UNCHANGED <<arg, runner, file, fate, at, timer, out, loaded>>

Demo(c) == \/ DemoOpen(c) \/ DemoClose(c) \/ DemoFails(c) \/ DemoFlag(c)
           \/ Test(c, "demoTest", "demoPopen")
           \/ Popen(c, "demoPopen", "demoPid") \/ PopenFails(c, "demoPopen")
           \/ StorePid(c, "demoPid", "demoDrop") \/ Drop(c)

(***************************************************************************)
(* The end of trigCollect.                                                 *)
(***************************************************************************)

\* Mutant: the process that the Runner knows is waited for.
WaitForRunner(c) ==
  /\ Step(c, "wait", "report")
  /\ pid = None \/ proc[pid] # "dsp"
  /\ UNCHANGED <<arg, mine, runner, file, system, out, loaded>>

Wait(c) ==
  LET p == at[mine[c]] IN
  /\ Step(c, "wait", "report")
  /\ proc[p] = "zombie"
  /\ proc' = [proc EXCEPT ![p] = "free"]
  /\ held' = held \ {p}
  /\ UNCHANGED <<arg, mine, runner, file, fate, at, timer, out, loaded>>

\* The positions are read and sent; without a client this is an exception.
Report(c) ==
  /\ Step(c, "report", "idle")
  /\ mine' = [mine EXCEPT ![c] = None]
  /\ UNCHANGED <<arg, runner, file, system, out, loaded>>

(***************************************************************************)
(* Abort.                                                                  *)
(***************************************************************************)
AbortTest(c) ==
  /\ IF pid # None THEN Step(c, "abortTest", "abortArg") ELSE Step(c, "abortTest", "abortP")
  /\ UNCHANGED <<arg, mine, runner, file, system, out, loaded>>

\* str(self.pid), by now perhaps None; starting kill reaps the dropped processes.
AbortArg(c) ==
  /\ Step(c, "abortArg", "abortKill")
  /\ arg' = [arg EXCEPT ![c] = pid]
  /\ proc' = Reaped
  /\ UNCHANGED <<mine, runner, file, held, fate, at, timer, out, loaded>>

\* The kill program cannot be started: Abort ends here, and clears nothing.
AbortFails(c) ==
  /\ Step(c, "abortArg", "idle")
  /\ proc' = Reaped
  /\ UNCHANGED <<arg, mine, runner, file, held, fate, at, timer, out, loaded>>

\* A run that was killed while it was setting the timer is told apart.
Killed(p) ==
  [n \in Runs |-> IF ~Live(n) \/ at[n] # p THEN fate[n]
                  ELSE IF fate[n] = "setting" THEN "cut" ELSE "killed"]

AbortKill(c) ==
  LET p == arg[c] IN
  /\ Step(c, "abortKill", "abortReset")
  /\ fate' = Killed(p)
  /\ proc' = [q \in Pids |-> IF q # p THEN proc[q]
                             ELSE IF proc[q] = "dsp" THEN "zombie"
                             ELSE IF proc[q] = "other" THEN "free" ELSE proc[q]]
  /\ arg' = [arg EXCEPT ![c] = None]
  /\ UNCHANGED <<mine, runner, file, held, at, timer, out, loaded>>

AbortReset(c) ==
  /\ Step(c, "abortReset", "abortP")
  /\ pid' = None
  /\ UNCHANGED <<arg, mine, written, last, file, system, out, loaded>>

Clear(c, k, from, to) ==
  /\ Step(c, from, to)
  /\ out' = [out EXCEPT ![k] = "clear"]
  /\ UNCHANGED <<arg, mine, runner, file, system, loaded>>

\* Mutant: the run is killed after the outputs have been cleared.
ClearFirst(c) ==
  \/ Clear(c, "P", "abortTest", "abortP") \/ Clear(c, "N", "abortP", "abortN")
  \/ /\ IF pid # None THEN Step(c, "abortN", "abortArg") ELSE Step(c, "abortN", "idle")
     /\ UNCHANGED <<arg, mine, runner, file, system, out, loaded>>
  \/ AbortArg(c) \/ AbortKill(c)
  \/ /\ Step(c, "abortReset", "idle")
     /\ pid' = None
     /\ UNCHANGED <<arg, mine, written, last, file, system, out, loaded>>

Abort(c) ==
  \/ AbortTest(c) \/ AbortArg(c) \/ AbortFails(c) \/ AbortKill(c) \/ AbortReset(c)
  \/ Clear(c, "P", "abortP", "abortN") \/ Clear(c, "N", "abortN", "idle")
-----------------------------------------------------------------------------

(***************************************************************************)
(* The processes: run n of dsp, and another program.                       *)
(***************************************************************************)
End(n, how) ==
  /\ fate' = [fate EXCEPT ![n] = how]
  /\ proc' = [proc EXCEPT ![at[n]] = "zombie"]

\* It has cleared the outputs, and stops the timer.
DspStops(n) ==
  /\ fate[n] = "starting"
  /\ fate' = [fate EXCEPT ![n] = "setting"]
  /\ timer' = FALSE
  /\ out' = Dark
  /\ UNCHANGED <<pc, arg, mine, runner, file, proc, held, at, loaded>>

\* Mutant: the timer is not enabled again.
DspPlaysAtOnce(n) ==
  /\ fate[n] = "setting"
  /\ fate' = [fate EXCEPT ![n] = "playing"]
  /\ UNCHANGED <<pc, arg, mine, runner, file, proc, held, at, timer, out, loaded>>

\* The timer is zero and runs again.
DspPlays(n) ==
  /\ fate[n] = "setting"
  /\ fate' = [fate EXCEPT ![n] = "playing"]
  /\ timer' = TRUE
  /\ UNCHANGED <<pc, arg, mine, runner, file, proc, held, at, out, loaded>>

\* It may have cleared some of the outputs by then.
DspFails(n) ==
  /\ fate[n] = "starting"
  /\ End(n, "failed")
  /\ \E K \in SUBSET Outputs : out' = [k \in Outputs |-> IF k \in K THEN "clear" ELSE out[k]]
  /\ UNCHANGED <<pc, arg, mine, runner, file, held, at, timer, loaded>>

DspWrites(n) ==
  /\ fate[n] = "playing"
  /\ \E k \in Outputs : out' = [out EXCEPT ![k] = "table"]
  /\ UNCHANGED <<pc, arg, mine, runner, file, system, loaded>>

\* Mutant: _exit leaves the generator's buffers alone.
DspExitsLit(n) ==
  /\ fate[n] = "playing"
  /\ End(n, "exited")
  /\ out' = [Dark EXCEPT !["A"] = out["A"]]
  /\ UNCHANGED <<pc, arg, mine, runner, file, held, at, timer, loaded>>

DspExits(n) ==
  /\ fate[n] = "playing"
  /\ End(n, "exited")
  /\ out' = Dark
  /\ UNCHANGED <<pc, arg, mine, runner, file, held, at, timer, loaded>>

\* Only a pid that a run has had matters; one other program is enough.
OtherStarts(p) ==
  /\ Used(p) /\ proc[p] = "free" /\ \A q \in Pids : proc[q] # "other"
  /\ proc' = [proc EXCEPT ![p] = "other"]
  /\ UNCHANGED <<pc, arg, mine, runner, file, held, fate, at, timer, out, loaded>>

OtherEnds(p) ==
  /\ proc[p] = "other"
  /\ proc' = [proc EXCEPT ![p] = "free"]
  /\ UNCHANGED <<pc, arg, mine, runner, file, held, fate, at, timer, out, loaded>>

Call(c) == CallDemo(c) \/ CallTrigCollect(c) \/ CallAbort(c) \/ MoveAbsoluteADU(c)
Thread(c) == Demo(c) \/ Trig(c) \/ Wait(c) \/ Report(c) \/ Abort(c)
Advance(n) == DspStops(n) \/ DspPlays(n) \/ DspFails(n) \/ DspExits(n)

Next ==
  \/ \E c \in Clients : Call(c) \/ Thread(c)
  \/ \E n \in Runs : Advance(n) \/ DspWrites(n)
  \/ \E p \in Pids : OtherStarts(p) \/ OtherEnds(p)

Spec == Init /\ [][Next]_vars

(***************************************************************************)
(* The interpreter runs every thread.  A run of dsp gets as far as playing *)
(* its table, and comes to the end of it as long as the timer runs         *)
(* (EveryRunEnds of Dsp; other runs set the timer back only so many        *)
(* times).  While the timer stands it may end, if all its rows were due,   *)
(* or spin for ever at dsp.c:209.                                          *)
(***************************************************************************)
FairSpec ==
  /\ Spec
  /\ \A c \in Clients : WF_vars(Thread(c))
  /\ \A n \in Runs : /\ WF_vars(DspStops(n) \/ DspPlays(n) \/ DspFails(n))
                     /\ WF_vars(timer /\ DspExits(n))
-----------------------------------------------------------------------------

\* Type correctness.  A Popen object that a thread holds keeps its pid in use.
TypeOK ==
  /\ pc \in [Clients -> {"idle"} \cup DemoSteps \cup TrigSteps \cup AbortSteps]
  /\ arg \in [Clients -> Pids \cup {None}] /\ mine \in [Clients -> Runs \cup {None}]
  /\ pid \in Pids \cup {None} /\ written \in BOOLEAN
  /\ file \in {"absent", "partial", "whole"}
  /\ proc \in [Pids -> {"free", "dsp", "zombie", "other"}]
  /\ held \subseteq {p \in Pids : proc[p] \in {"dsp", "zombie"}}
  /\ fate \in [Runs -> {"none", "starting", "setting", "playing", "exited", "failed", "killed", "cut"}]
  /\ at \in [Runs -> Pids \cup {None}]
  /\ out \in [Outputs -> {"clear", "table"}]
  /\ timer \in BOOLEAN /\ loaded \in BOOLEAN /\ last \in Runs \cup {None}

(***************************************************************************)
(* A run can be aborted for as long as it lives if no Abort was under way  *)
(* when its pid was stored, and no other pid was stored since: Runner.pid  *)
(* names it, and every Abort that is under way, however many there are and *)
(* whatever they overlap with, aims at it, so that none is about to reset  *)
(* the pid of a run that it has not killed (server.py:99-110).             *)
(***************************************************************************)
LastCanBeAborted ==
  last # None /\ Live(last) =>
    /\ pid = at[last]
    /\ \A c \in Clients : pc[c] # "abortReset" /\ (pc[c] = "abortKill" => arg[c] = at[last])

(***************************************************************************)
(* When trigCollect reports "DSP done", the run that it started is over,   *)
(* whatever other clients have started or aborted meanwhile                *)
(* (server.py:243-248).                                                    *)
(***************************************************************************)
DoneMeansOver == \A c \in Clients : pc[c] = "report" => ~Live(mine[c])

(***************************************************************************)
(* When no run is alive and no Abort is between its kill and its two       *)
(* stores, the pins show nothing of any table: Abort clears them after     *)
(* the kill (server.py:142-146), and no run is left to write again.        *)
(***************************************************************************)
QuietIsDark ==
  LiveRuns = {} /\ (\A c \in Clients : pc[c] \notin AbortSteps) =>
    \A k \in Digital : out[k] # "table"

(***************************************************************************)
(* An output shows a table's value only while a run plays, or after one    *)
(* was killed.  So the positions that trigCollect reports for an           *)
(* undisturbed run (server.py:246) are never those of its last row.        *)
(***************************************************************************)
OnlyKilledLeavesOutputs ==
  (\E k \in Outputs : out[k] = "table") =>
    \E n \in Runs : fate[n] \in {"playing", "killed"}

(***************************************************************************)
(* No run is started before the file has been written completely once      *)
(* (writtenActionTable, server.py:85, 105).                                *)
(***************************************************************************)
StartsAfterLoad == (\E n \in Runs : fate[n] # "none") => loaded

(***************************************************************************)
(* A trigCollect that waits for its run returns to its client              *)
(* (server.py:245), also when the run is aborted, or another run takes the *)
(* timer from it, with one exception: the other run is killed between      *)
(* stopping the timer and starting it again (timer.c:47, 54), and none     *)
(* comes after it.  The waiting run then plays for ever.                   *)
(***************************************************************************)
Stranded(c) ==
  /\ ~timer /\ mine[c] # None /\ fate[mine[c]] = "playing"
  /\ \E n \in Runs : fate[n] = "cut"
TrigCollectReturns ==
  \A c \in Clients : <>[]Stranded(c) \/ (pc[c] = "wait" ~> pc[c] = "idle")
-----------------------------------------------------------------------------

(***************************************************************************)
(* What the documentation says and the program does not do.                *)
(***************************************************************************)

(***************************************************************************)
(* doc/notes:93: start stores the process id of the run; 91-92: abort      *)
(* sends a kill command if the process is running.  So when no thread is   *)
(* in the middle of a call, Runner.pid names every live run.               *)
(***************************************************************************)
Settled == \A c \in Clients : pc[c] \in {"idle", "wait"}
RunsCanBeAborted == Settled => \A n \in LiveRuns : at[n] = pid

(***************************************************************************)
(* doc/notes:91-92: abort sends the kill command with the process id if    *)
(* the process with the C code is running; so it kills nothing else.       *)
(***************************************************************************)
AbortSparesOthers ==
  \A c \in Clients : pc[c] = "abortKill" /\ arg[c] # None => proc[arg[c]] # "other"

(***************************************************************************)
(* server.py:141, above Abort: "The dsp has a handler for SIGINT that      *)
(* cleans up".  After an Abort no output shows a value of the table.       *)
(***************************************************************************)
AbortCleansUp ==
  LiveRuns = {} /\ (\A c \in Clients : pc[c] \notin AbortSteps) =>
    \A k \in Outputs : out[k] # "table"
=============================================================================
