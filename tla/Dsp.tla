-------------------------------- MODULE Dsp --------------------------------
(***************************************************************************)
(* dsp.c: one run of the dsp program, from main to the end of the process, *)
(* together with the SIGINT handler that may interrupt it anywhere, and    *)
(* the six words of memory-mapped output (rpouts.c, fpga_awg.c) it drives. *)
(*                                                                         *)
(* Two frames execute the program: main, and the handler, which once it    *)
(* has been entered never returns, so main stays frozen where it was.      *)
(* Both leave the program through _exit (dsp.c:225-236), which frees the   *)
(* table, clears the outputs, unmaps the generator and calls exit.         *)
(*                                                                         *)
(* Simplifications.  The device steps of main (initTimer, initOuts,        *)
(* fpga_awg_init) are one step each: no handler is installed yet, and      *)
(* nothing reads the outputs between two stores.  XTime_GetTime is one     *)
(* step that returns the time, as Stopwatch allows.  A row of the file is  *)
(* a time in nanoseconds and a value for each channel; what makes a line   *)
(* malformed, or the file end early, is left to the environment.           *)
(***************************************************************************)
EXTENDS RowTime

CONSTANTS
  Values,       \* what can be written to an output; zero is one of them
  FileRows,     \* the well-formed lines a file may hold
  Garbage,      \* a table row that has been allocated but not filled in
  MaxLines,     \* bound: no file has more lines
  MaxTime       \* bound: the timer stops there

Channels == {"P", "N", "A", "B"}

ASSUME DspAssumption ==
  /\ 0 \in Values
  /\ \A r \in FileRows : r.ns \in Nat /\ r.val \in [Channels -> Values]
  /\ \A r \in FileRows : Garbage # [ns |-> r.ns, clocks |-> ClocksOf(r.ns), val |-> r.val]
  /\ MaxLines \in Nat
  /\ MaxTime \in Nat /\ MaxTime > MaxClocks

VARIABLES
  status,       \* the process: running, or how it ended
  pc,           \* pc[f]: the next step of frame f
  store,        \* store[f]: the output word that f writes next
  code,         \* code[f]: the argument f has passed to _exit
  installed,    \* is sig_handler installed?
  outsMap,      \* does OUTS_MMAP point to the pin registers?
  awgMap,       \* do the pointers of fpga_awg.c point to the generator?
  out,          \* out[k]: output word k
  heap,         \* what the pointer table points to
  table,        \* the rows in it
  lines,        \* lines counted in the file
  lineno,       \* readActionTable's line: how many rows are read
  line,         \* execActionTable's line: how many rows are done
  now,          \* execActionTable's time
  timing,       \* has the timer been set to zero?
  time          \* ticks since then

mappings == <<outsMap, awgMap>>
reading == <<heap, table, lines, lineno>>
playing == <<line, now, timing, time>>
vars == <<status, pc, store, code, installed, outsMap, awgMap, out,
          heap, table, lines, lineno, line, now, timing, time>>

Frames == {"main", "handler"}
Ends == {"exited", "crashed", "killed", "stuck"}
ExitSteps == {"free", "clear", "unmap", "exit"}
ExecSteps == {"getTime", "test", "write"}
Steps == {"idle", "initTimer", "initOuts", "initAwg", "signal", "open", "malloc",
          "read", "sched", "setTime"} \cup ExecSteps \cup ExitSteps

(***************************************************************************)
(* The output words, in the order in which a row is written and _exit      *)
(* clears them: the P and N pin registers, then two cells of the           *)
(* generator's buffer for channel A and two for channel B.                 *)
(***************************************************************************)
Words == 1 .. 6
PinWords == {1, 2}
\* Mutant: execActionTable passes a2 to channel A and a1 to channel B.
ChannelsSwapped(k) == IF k = 1 THEN "P" ELSE IF k = 2 THEN "N" ELSE IF k <= 4 THEN "B" ELSE "A"

ChannelOf(k) == IF k = 1 THEN "P" ELSE IF k = 2 THEN "N" ELSE IF k <= 4 THEN "A" ELSE "B"

\* Mutant: one store too many.
PastLast(k) == k = 7

IsLast(k) == k = 6

\* The word that is seen at the output: the generator reads the first cell.
VisibleWord(c) == IF c = "P" THEN 1 ELSE IF c = "N" THEN 2 ELSE IF c = "A" THEN 3 ELSE 5

\* May word k be written to?  If not, a store is a segmentation fault.
Mapped(k) == IF k \in PinWords THEN outsMap ELSE awgMap

(***************************************************************************)
(* readActionTableLine: the row of the table that a line of the file       *)
(* gives.  The table of the program holds the clocks only; ns is kept for  *)
(* the properties.                                                         *)
(***************************************************************************)
ParseRow(r) == [ns |-> r.ns, clocks |-> ClocksOf(r.ns), val |-> r.val]
Rows == {ParseRow(r) : r \in FileRows}

Slots == 0 .. MaxLines - 1

Init ==
  /\ status = "running"
  /\ pc = [f \in Frames |-> IF f = "main" THEN "initTimer" ELSE "idle"]
  /\ store = [f \in Frames |-> 1]
  /\ code = [f \in Frames |-> 0]
  /\ installed = FALSE
  /\ outsMap = FALSE
  /\ awgMap = FALSE
  /\ out \in [Words -> Values]
  /\ heap = "null"
  /\ table = [i \in Slots |-> Garbage]
  /\ lines = 0
  /\ lineno = 0
  /\ line = 0
  /\ now = 0
  /\ timing = FALSE
  /\ time = 0
-----------------------------------------------------------------------------

\* Mutant: main carries on beside the handler.
RunsBeside(f) == status = "running"

\* Frame f executes: main does as long as no signal has been caught.
Runs(f) == status = "running" /\ (f = "main" => pc["handler"] = "idle")

At(f, step) == Runs(f) /\ pc[f] = step
Goto(f, step) == pc' = [pc EXCEPT ![f] = step]

End(how) == status' = how /\ UNCHANGED <<pc, store>>

\* The call _exit(c).
CallExit(f, c) == Goto(f, "free") /\ code' = [code EXCEPT ![f] = c]

(***************************************************************************)
(* main, up to the installation of the handler.                            *)
(***************************************************************************)
InitTimer ==
  /\ At("main", "initTimer")
  /\ \/ Goto("main", "initOuts") /\ UNCHANGED code
     \/ CallExit("main", 2)
  /\ UNCHANGED <<status, store, installed, mappings, out, reading, playing>>

\* initOuts returns 1 when it fails, but main tests for < 0 and carries on.
InitOuts ==
  /\ At("main", "initOuts")
  /\ \/ outsMap' = TRUE /\ out' = [k \in Words |-> IF k \in PinWords THEN 0 ELSE out[k]]
     \/ UNCHANGED <<outsMap, out>>
  /\ Goto("main", "initAwg")
  /\ UNCHANGED <<status, store, code, installed, awgMap, reading, playing>>

InitAwg ==
  /\ At("main", "initAwg")
  /\ \/ /\ awgMap' = TRUE
        /\ out' = [k \in Words |-> IF k \in PinWords THEN out[k] ELSE 0]
        /\ Goto("main", "signal")
        /\ UNCHANGED code
     \/ CallExit("main", 2) /\ UNCHANGED <<awgMap, out>>
  /\ UNCHANGED <<status, store, installed, outsMap, reading, playing>>

\* main goes on without a handler if signal() fails.
InstallHandler ==
  /\ At("main", "signal")
  /\ installed' \in BOOLEAN
  /\ Goto("main", "open")
  /\ UNCHANGED <<status, store, code, mappings, out, reading, playing>>

(***************************************************************************)
(* Reading the action table: a first pass counts the lines, a second one   *)
(* parses as many.  The second may meet a malformed line, or the end of a  *)
(* file that has become shorter.                                           *)
(***************************************************************************)
Open ==
  /\ At("main", "open")
  /\ \/ \E c \in {1, 2} : CallExit("main", c) /\ UNCHANGED lines
     \/ \E n \in 0 .. MaxLines : lines' = n /\ Goto("main", "malloc") /\ UNCHANGED code
  /\ UNCHANGED <<status, store, installed, mappings, out, heap, table, lineno, playing>>

\* The result of malloc is not looked at.
Malloc ==
  /\ At("main", "malloc")
  /\ heap' \in {"live", "null"}
  /\ Goto("main", "read")
  /\ UNCHANGED <<status, store, code, installed, mappings, out, table, lines, lineno, playing>>

ReadRow ==
  /\ At("main", "read")
  /\ lineno < lines
  /\ heap = "live"
  /\ \E r \in FileRows : table' = [table EXCEPT ![lineno] = ParseRow(r)]
  /\ lineno' = lineno + 1
  /\ UNCHANGED <<status, pc, store, code, installed, mappings, out, heap, lines, playing>>

ReadIntoNull ==
  /\ At("main", "read")
  /\ lineno < lines
  /\ heap = "null"
  /\ End("crashed")
  /\ UNCHANGED <<code, installed, mappings, out, reading, playing>>

ReadFails ==
  /\ At("main", "read")
  /\ lineno < lines
  /\ CallExit("main", 3)
  /\ UNCHANGED <<status, store, installed, mappings, out, reading, playing>>

\* Mutant: the last row is left out.
EndReadEarly ==
  /\ At("main", "read")
  /\ lineno + 1 >= lines
  /\ Goto("main", "sched")
  /\ UNCHANGED <<status, store, code, installed, mappings, out, reading, playing>>

EndRead ==
  /\ At("main", "read")
  /\ lineno = lines
  /\ Goto("main", "sched")
  /\ UNCHANGED <<status, store, code, installed, mappings, out, reading, playing>>

SetScheduler ==
  /\ At("main", "sched")
  /\ \/ Goto("main", "setTime") /\ UNCHANGED code
     \/ CallExit("main", 4)
  /\ UNCHANGED <<status, store, installed, mappings, out, reading, playing>>

(***************************************************************************)
(* execActionTable: set the timer to zero; for each row spin until the     *)
(* time has gone past the row's clocks, then write its words one by one.   *)
(***************************************************************************)
SetTime ==
  /\ At("main", "setTime")
  /\ time' = 0
  /\ timing' = TRUE
  /\ Goto("main", "getTime")
  /\ UNCHANGED <<status, store, code, installed, mappings, out, reading, line, now>>

\* Mutant: the time is not read again.
GetTimeStale ==
  /\ At("main", "getTime")
  /\ Goto("main", "test")
  /\ UNCHANGED <<status, store, code, installed, mappings, out, reading, playing>>

GetTime ==
  /\ At("main", "getTime")
  /\ now' = time
  /\ Goto("main", "test")
  /\ UNCHANGED <<status, store, code, installed, mappings, out, reading, line, timing, time>>

Spin ==
  /\ At("main", "test")
  /\ line < lines
  /\ now <= table[line].clocks
  /\ Goto("main", "getTime")
  /\ UNCHANGED <<status, store, code, installed, mappings, out, reading, playing>>

\* Mutant: the loop ends when the time has reached the clocks.
StartRowAtClocks ==
  /\ At("main", "test")
  /\ line < lines
  /\ now >= table[line].clocks
  /\ Goto("main", "write")
  /\ store' = [store EXCEPT !["main"] = 1]
  /\ UNCHANGED <<status, code, installed, mappings, out, reading, playing>>

StartRow ==
  /\ At("main", "test")
  /\ line < lines
  /\ now > table[line].clocks
  /\ Goto("main", "write")
  /\ store' = [store EXCEPT !["main"] = 1]
  /\ UNCHANGED <<status, code, installed, mappings, out, reading, playing>>

StoreRow ==
  LET k == store["main"] IN
  /\ At("main", "write")
  /\ Mapped(k)
  /\ out' = [out EXCEPT ![k] = table[line].val[ChannelOf(k)]]
  /\ IF IsLast(k)
       THEN Goto("main", "test") /\ line' = line + 1 /\ UNCHANGED store
       ELSE store' = [store EXCEPT !["main"] = k + 1] /\ UNCHANGED <<pc, line>>
  /\ UNCHANGED <<status, code, installed, mappings, reading, now, timing, time>>

StoreRowFaults ==
  /\ At("main", "write")
  /\ ~Mapped(store["main"])
  /\ End("crashed")
  /\ UNCHANGED <<code, installed, mappings, out, reading, playing>>

\* Mutant: the loop ends one row early.
EndExecEarly ==
  /\ At("main", "test")
  /\ line + 1 >= lines
  /\ CallExit("main", 0)
  /\ UNCHANGED <<status, store, installed, mappings, out, reading, playing>>

\* Mutant: the table is freed before _exit frees it.
EndExecFrees ==
  /\ At("main", "test")
  /\ line = lines
  /\ CallExit("main", 0)
  /\ heap' = "freed"
  /\ UNCHANGED <<status, store, installed, mappings, out, table, lines, lineno, playing>>

EndExec ==
  /\ At("main", "test")
  /\ line = lines
  /\ CallExit("main", 0)
  /\ UNCHANGED <<status, store, installed, mappings, out, reading, playing>>
-----------------------------------------------------------------------------

(***************************************************************************)
(* _exit, in either frame.                                                 *)
(***************************************************************************)

\* main is in, or may be in, malloc or free of the C library.
MidHeap == pc["main"] \in {"read", "free"}

\* free(table) when nothing is wrong with it; table itself is not reset.
FreeTable(f) ==
  /\ At(f, "free")
  /\ heap' = IF heap = "live" THEN "freed" ELSE heap
  /\ Goto(f, "clear")
  /\ store' = [store EXCEPT ![f] = 1]
  /\ UNCHANGED <<status, code, installed, mappings, out, table, lines, lineno, playing>>

(***************************************************************************)
(* free(table) of a table that is already free, or from a handler that has *)
(* interrupted main within malloc or free, is undefined.  The C library    *)
(* aborts, waits for a lock that main holds, or goes on (FreeTable).       *)
(***************************************************************************)
FreeUndefined(f) ==
  /\ At(f, "free")
  /\ \/ heap = "freed" /\ End("crashed")
     \/ heap = "live" /\ f = "handler" /\ MidHeap /\ \E how \in {"crashed", "stuck"} : End(how)
  /\ UNCHANGED <<code, installed, mappings, out, reading, playing>>

\* Mutant: only the pins are cleared.
ClearPins(f) ==
  LET k == store[f] IN
  /\ At(f, "clear")
  /\ Mapped(k)
  /\ out' = IF k \in PinWords THEN [out EXCEPT ![k] = 0] ELSE out
  /\ IF IsLast(k)
       THEN Goto(f, "unmap") /\ UNCHANGED store
       ELSE store' = [store EXCEPT ![f] = k + 1] /\ UNCHANGED pc
  /\ UNCHANGED <<status, code, installed, mappings, reading, playing>>

Clear(f) ==
  LET k == store[f] IN
  /\ At(f, "clear")
  /\ Mapped(k)
  /\ out' = [out EXCEPT ![k] = 0]
  /\ IF IsLast(k)
       THEN Goto(f, "unmap") /\ UNCHANGED store
       ELSE store' = [store EXCEPT ![f] = k + 1] /\ UNCHANGED pc
  /\ UNCHANGED <<status, code, installed, mappings, reading, playing>>

ClearFaults(f) ==
  /\ At(f, "clear")
  /\ ~Mapped(store[f])
  /\ End("crashed")
  /\ UNCHANGED <<code, installed, mappings, out, reading, playing>>

\* __awg_cleanup_mem; if munmap fails the pointers stay and nobody looks.
Unmap(f) ==
  /\ At(f, "unmap")
  /\ awgMap' \in {FALSE, awgMap}
  /\ Goto(f, "exit")
  /\ UNCHANGED <<status, store, code, installed, outsMap, out, reading, playing>>

Finish(f) ==
  /\ At(f, "exit")
  /\ End("exited")
  /\ UNCHANGED <<code, installed, mappings, out, reading, playing>>

\* main is in, or may be in, a function of stdio or in exit: it may hold a lock.
MidLibrary ==
  pc["main"] \in {"open", "malloc", "read", "sched", "setTime", "free", "exit"}

\* exit, called from the handler, waits for a lock that main holds (dsp.c:235).
FinishHangs(f) ==
  /\ At(f, "exit")
  /\ f = "handler"
  /\ MidLibrary
  /\ End("stuck")
  /\ UNCHANGED <<code, installed, mappings, out, reading, playing>>
-----------------------------------------------------------------------------

(***************************************************************************)
(* The environment.                                                        *)
(***************************************************************************)

\* SIGINT: sig_handler calls _exit(5).  It is blocked while the handler runs.
Interrupt ==
  /\ At("handler", "idle")
  /\ installed
  /\ CallExit("handler", 5)
  /\ UNCHANGED <<status, store, installed, mappings, out, reading, playing>>

\* SIGINT without a handler, or the SIGKILL that the server sends at any time.
Kill ==
  /\ status = "running"
  /\ End("killed")
  /\ UNCHANGED <<code, installed, mappings, out, reading, playing>>

Tick ==
  /\ status = "running"
  /\ timing
  /\ time < MaxTime
  /\ time' = time + 1
  /\ UNCHANGED <<status, pc, store, code, installed, mappings, out, reading, line, now, timing>>

\* The process is gone.
Ended == status # "running" /\ UNCHANGED vars

Setup == InitTimer \/ InitOuts \/ InitAwg \/ InstallHandler
Reading == Open \/ Malloc \/ ReadRow \/ ReadIntoNull \/ ReadFails \/ EndRead \/ SetScheduler
Playing == SetTime \/ GetTime \/ Spin \/ StartRow \/ StoreRow \/ StoreRowFaults \/ EndExec
Exiting(f) ==
  FreeTable(f) \/ FreeUndefined(f) \/ Clear(f) \/ ClearFaults(f) \/ Unmap(f) \/ Finish(f)
    \/ FinishHangs(f)

Program == Setup \/ Reading \/ Playing \/ \E f \in Frames : Exiting(f)

Next == Program \/ Interrupt \/ Kill \/ Tick \/ Ended

Spec == Init /\ [][Next]_vars

(***************************************************************************)
(* The process is scheduled (SCHED_FIFO, priority 99, dsp.c:102-107, on a  *)
(* board with a second core), and the timer is never stopped by anyone.    *)
(***************************************************************************)
FairSpec == Spec /\ WF_vars(Program) /\ WF_vars(Tick)
-----------------------------------------------------------------------------

\* Type correctness.
TypeOK ==
  /\ status \in {"running"} \cup Ends
  /\ pc \in [Frames -> Steps]
  /\ store \in [Frames -> Words]
  /\ code \in [Frames -> 0 .. 5]
  /\ installed \in BOOLEAN
  /\ outsMap \in BOOLEAN
  /\ awgMap \in BOOLEAN
  /\ out \in [Words -> Values]
  /\ heap \in {"null", "live", "freed"}
  /\ table \in [Slots -> Rows \cup {Garbage}]
  /\ lines \in 0 .. MaxLines
  /\ lineno \in 0 .. MaxLines
  /\ line \in 0 .. MaxLines
  /\ now \in 0 .. MaxTime
  /\ timing \in BOOLEAN
  /\ time \in 0 .. MaxTime

(***************************************************************************)
(* A process that ends by exit(), whichever frame called it and wherever   *)
(* the handler interrupted main, leaves every output word at zero          *)
(* (dsp.c:225-236).                                                        *)
(***************************************************************************)
ExitClears == status = "exited" => \A k \in Words : out[k] = 0

(***************************************************************************)
(* Once the handler has been entered no output is driven again: a row that *)
(* main was writing is not continued, words only go to zero.               *)
(***************************************************************************)
HandlerOnlyClears ==
  [][pc["handler"] # "idle" => \A k \in Words : out'[k] \in {out[k], 0}]_vars

(***************************************************************************)
(* main waits on and writes rows of a table that has been allocated, not   *)
(* yet freed, and filled in completely: execActionTable never reads memory *)
(* that readActionTable has not written.                                   *)
(***************************************************************************)
PlaysReadRows ==
  Runs("main") /\ pc["main"] \in ExecSteps =>
    /\ lines > 0 => heap = "live"
    /\ \A i \in 0 .. lines - 1 : table[i] # Garbage

(***************************************************************************)
(* No word of a row is written before the row's time, in nanoseconds since *)
(* the timer was set: the division of dsp.c:180 rounds down, and the loop  *)
(* of dsp.c:209 makes up for it by waiting until the time is past the      *)
(* clocks.  The loop of doc/notes:61-63, while (current < next), which is  *)
(* the mutant StartRowAtClocks, would be a tick too early.  The product    *)
(* must not wrap.                                                          *)
(***************************************************************************)
NeverEarly ==
  pc["main"] = "write" /\ Fits(table[line].ns) => TicksExceed(time, table[line].ns)

\* The process ended by exit(c).
ExitedWith(c) ==
  status = "exited" /\ c = IF pc["handler"] = "idle" THEN code["main"] ELSE code["handler"]

(***************************************************************************)
(* Exit status 0, which is all that is left of a run afterwards, means     *)
(* that every counted line of the file was read and written out, the last  *)
(* of them after its time (dsp.c:208-216).                                 *)
(***************************************************************************)
ZeroMeansPlayed ==
  ExitedWith(0) =>
    /\ line = lines /\ lineno = lines
    /\ \A i \in 0 .. lines - 1 : time > table[i].clocks

(***************************************************************************)
(* The process crashes only if the pins or the generator could not be      *)
(* mapped, or the table not allocated, or the handler interrupted main     *)
(* while it used the C library's heap or was already leaving.              *)
(***************************************************************************)
CrashCauses ==
  status = "crashed" =>
    \/ ~outsMap
    \/ ~awgMap /\ pc["handler"] = "idle"
    \/ heap = "null" /\ lines > 0
    \/ pc["handler"] # "idle" /\ pc["main"] \in {"read"} \cup ExitSteps

(***************************************************************************)
(* Whatever the file holds and whatever fails, main never waits for a time *)
(* that does not come (dsp.c:209).  The run comes to an end, where a hang  *)
(* in the handler, which waits in free or exit for a lock that main holds, *)
(* counts as one: this property does not exclude it.                       *)
(***************************************************************************)
EveryRunEnds == <>(status # "running")
-----------------------------------------------------------------------------

(***************************************************************************)
(* What the documentation says and the program does not do.                *)
(***************************************************************************)

(***************************************************************************)
(* doc/notes:15-16: ctrl+C clears all the output signals.  Here only runs  *)
(* whose outputs could be mapped, and which ended by themselves after the  *)
(* handler was entered, are asked about.                                   *)
(***************************************************************************)
InterruptClears ==
  pc["handler"] # "idle" /\ outsMap /\ awgMap /\ status \in {"exited", "crashed"} =>
    \A k \in Words : out[k] = 0

(***************************************************************************)
(* fpga_awg.c:110: the FPGA variables are not used if fpga_awg_init fails. *)
(* fpga_awg_exit does use them then.                                       *)
(***************************************************************************)
AwgUsedOnlyIfMapped ==
  \A f \in Frames : At(f, "clear") /\ store[f] \notin PinWords => awgMap

(***************************************************************************)
(* doc/notes:22 and 61-62: a row's time in nanoseconds becomes ticks, and  *)
(* a row is written when that much time has passed.                        *)
(***************************************************************************)
NoRowEarly == pc["main"] = "write" => TicksExceed(time, table[line].ns)
-----------------------------------------------------------------------------

(***************************************************************************)
(* The run as a Playback: how many rows each channel has shown, and        *)
(* whether one of the two frames has cleared it.                           *)
(***************************************************************************)
Pos(c) == IF pc["main"] = "write" /\ store["main"] > VisibleWord(c) THEN line + 1 ELSE line

ClearedBy(f, c) ==
  \/ pc[f] = "clear" /\ store[f] > VisibleWord(c)
  \/ pc[f] \in {"unmap", "exit"}

Player == INSTANCE Playback WITH
            NoRow <- Garbage,
            loaded <- lineno,
            elapsed <- time,
            pos <- [c \in Channels |-> Pos(c)],
            off <- [c \in Channels |-> \E f \in Frames : ClearedBy(f, c)],
            shown <- [c \in Channels |-> out[VisibleWord(c)]]

(***************************************************************************)
(* Every channel shows the rows of the file in order, none skipped, none   *)
(* early, in step with the others, and nothing but zero once _exit has     *)
(* cleared it, in either frame.                                            *)
(***************************************************************************)
ImplementsPlayback == Player!Spec
=============================================================================
