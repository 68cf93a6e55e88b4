# A formal model of RedPitaya-DSP

RedPitaya-DSP plays *action tables* on a Red Pitaya board: a Pyro4 server
(`python/server.py`) receives a profile from the microscope software, writes it
to `/tmp/actiontable`, and starts the C program `dsp` (`src/*.c`), which reads
the file and, at real-time priority, writes each row to the digital and analog
outputs when its time has come.  This directory holds TLA+ modules translated
from that code, TLC configurations that check them, and proofs checked by TLAPS.

Line numbers below are those of the source files.

## 1. Inventory

| Component | State | Operations | Interacts with |
|---|---|---|---|
| Global timer (`timer.c`) | the counter's two 32-bit registers, the enable bit | `initTimer`, `XTime_SetTime` (4 stores), `XTime_GetTime` (read high, low, high again) | every `dsp` process; there is one timer and no lock |
| Row times (`dsp.c:180`, `timer.h:15`) | none | nanoseconds to ticks: multiply in 64 bits, divide | the table, the wait loop |
| `dsp` (`dsp.c`) | the table on the heap, the two frames main and SIGINT handler | `main`, `readActionTable`, `execActionTable`, `sig_handler`, `_exit` | file, timer, outputs; started and killed by the server |
| Pins (`rpouts.c`) | P and N output registers, the mapping | `initOuts`, `out_setpins_P/N` | `dsp`; the server writes the same registers through PyRedPitaya |
| Waveform generator (`fpga_awg.c`) | configuration registers, two cells in each of two buffers, three pointers, a descriptor | `fpga_awg_init`, `fpga_awg_exit`, `fpga_awg_write_val_a/b` | as the pins |
| Action file (`/tmp/actiontable`) | its lines | written by `load` and `loadDemo`, counted and then read by `dsp` | two processes, no lock |
| `Runner` (`server.py:68`) | `pid`, `writtenActionTable` | `load`, `loadDemo`, `start`, `abort` | all server threads share one |
| `rpServer` (`server.py:117`) | the merged table, `clientConnection`, `fakeALines` | `trigCollect`, `Abort`, `demo`, `arcl`, `profileSet`, `DownloadProfile`, `MoveAbsoluteADU`, `ReadPosition`, `WriteDigital` | clients over Pyro4, one thread for each connection |
| PyRedPitaya | the same FPGA registers | register reads and writes | not in the repository |
| `actgen.py`, vendor headers, build files | none at run time | | |

What is hard about it, and what makes each component correct:

- **Timer.**  The lower half carries between two register reads; several `dsp`
  runs stop, clear and start the timer under each other.  A reading must not be
  ahead of the time since its process set the timer (or rows come early), and a
  process that has the timer to itself must have a stopwatch.
- **Row times.**  Division rounds down and the product wraps at 2^64.  A row must
  not be written before its time in nanoseconds.
- **`dsp`.**  SIGINT may come at any step, also inside `malloc` and `free`, and
  also while main itself is leaving; every set-up step may fail, and every
  failure leads into `_exit`, which writes to outputs that may not be mapped.
  Whatever ends by `exit()` must leave the outputs at zero; the outputs must
  show the rows of the file in order; nothing may be driven after clearing has
  begun; the run must come to an end.
- **Generator.**  The mapped registers are not `volatile`, so the compiler may
  drop and reorder the stores of `fpga_awg_init`.
- **File.**  `dsp` counts the lines in one pass and parses them in another, while
  the server may be rewriting the file.
- **Server.**  Threads share one `pid`, which outlives its process; `Abort` kills
  with SIGKILL, which the handler cannot see, clears only the digital outputs,
  and does not stop an exposure that another thread is in the middle of.

The full list, each at its line, is under "hazards" in `PROJECT.json`.

## 2. Modules

| Module | Models |
|---|---|
| `Stopwatch` | abstract: what a caller of `XTime_GetTime` may rely on |
| `GlobalTimer` | `timer.c`, one action for each register access, for a set of processes |
| `SoleTimer` | `GlobalTimer` with one process, as an implementation of `Stopwatch` |
| `MCGlobalTimer` | symmetry for TLC |
| `GlobalTimerProofs` | theorems about `GlobalTimer` |
| `SoleTimerProofs` | that `SoleTimer` implements `Stopwatch` |
| `RowTime` | the conversion of `dsp.c:180` |
| `Playback` | abstract: what a runner of action tables promises |
| `Dsp` | one run of `dsp`, as an implementation of `Playback` |
| `MCDsp` | files for TLC |
| `DspProofs` | theorems about `RowTime` and `Dsp` |
| `PlaybackProofs` | that `Dsp` implements `Playback`, and how a run may end |
| `MemoryMap` | the addresses of the headers: peripherals, windows of `mmap`, registers |
| `Devices` | the stores of a run of `dsp`, by address and as compiled, and every failure of `open`, `mmap`, `munmap` |
| `DevicesProofs` | theorems about `MemoryMap` and `Devices` |
| `Server` | `Runner` and the calls of `rpServer` that start and stop runs, in any number of threads, with the processes |
| `ServerProofs` | theorems about `Server` |
| `Exposure` | `arcl`, `WriteDigital` and the stores of `Abort`, in any number of threads |
| `MCExposure` | exposures for TLC |
| `ExposureProofs` | theorems about `Exposure`: waits, and darkness |
| `LightsProofs` | theorems about `Exposure`: which lines are on, and for how long |

The modules meet at these places.  `Dsp` takes one reading of the timer to be one
step, which is what `Stopwatch` promises and `SoleTimer` is shown to keep; it
takes a store to an output to be one step that hits that output, which is what
`Devices` shows of the compiled code.  `Server` takes of a run of `dsp` what
`Dsp` shows: it clears the outputs when it exits (`ExitClears`), has driven
nothing when it fails early (`CrashCauses`), and ends if the timer runs
(`EveryRunEnds`); and of `GlobalTimer` that there is one timer, stopped and
started again by every run.
`Exposure` and `Server` share the two stores of `Abort`.

Left to do: the two passes of `dsp` over a file that the server rewrites between
them.

### `GlobalTimer`

`hi`, `lo` and `enabled` are the device; `pc[p]` is the next volatile access of
process `p`, `high[p]` and `low[p]` the locals of its `XTime_GetTime`, `now[p]`
the variable its caller passes.  `StartRun` is a new `dsp` reaching
`XTime_SetTime(0)`; `DisableTimer`, `WriteLower`, `WriteUpper`, `EnableTimer` are
the four stores of lines 47-54; `ReadHigh`, `ReadLow` and `Return` or `Retry` the
loop of lines 74-78.  `Tick` is the hardware and may happen between any two.
`elapsed`, `lag`, `begun` and `disturbed` are history: the properties compare
readings with the time that has really passed, and tell whether another run has
written to a process's running timer.  The `USE_AMP` branch is not compiled
(no build file defines it) and is not modelled.

### `Dsp`

`pc["main"]` walks from `initTimer` to `exit`; `pc["handler"]` is idle until
`Interrupt`, and from then on only the handler runs (`Runs`).  Both frames share
the actions of `_exit`: `FreeTable` or `FreeUndefined`, `Clear` word by word,
`Unmap`, `Finish` or `FinishHangs`.  The six output words are, in the order of `dsp.c:210-213` and
of `_exit`, P, N, two cells of channel A and two of channel B.

Undefined behaviour is a choice.  Freeing the table a second time, or from a
handler that has interrupted main inside `malloc` or `free`, may abort the
process, wait for ever for the allocator's lock (the second case), or go on.
`exit` in a handler that has interrupted main inside the C library may wait for
a lock that main holds (`FinishHangs`); the outputs are clear by then.
Stores through a pointer that is not mapped end the process.

A row of the model's table also keeps the nanoseconds it came from, which the
program does not; only properties read them.  `XTime_GetTime` is one step that
returns the time, which is how `Stopwatch` behaves with its reading placed at
the instant it is taken; ticks before and after that step are the rest of the
call.  The two cells of a channel are written in the order of the source; they
are not `volatile`, and a compiler may exchange them, which shows nowhere else.  Set-up calls are one step each, since the handler is not yet installed.

Line 112 (`execActionTable` returning a negative status) is dead code and has no
action.

### `MemoryMap` and `Devices`

`MemoryMap` lists the peripherals of `xparameters.h` and the generator as ranges
of words, the three windows that `mmap` opens, and the offsets of all registers
that `dsp` uses.  The timer's window is a page that it shares with the interrupt
controller, the CPU timer and the watchdog, and the window of `rpouts.c` spans
the generator.

In `Devices`, `pc` is the call that is in progress and `todo` the stores that it
still has to make, as positions in the source order (`StoresOf`).  `timer.c` and
`rpouts.c` store through `volatile` pointers, so `Store` takes the first.
`fpga_awg.c` does not (`Relaxed`): within one call `Store` takes any store that
no earlier one to the same register precedes, and `Omit` drops one that a later
store of the call overwrites.  The first store of `fpga_awg_init` to
`state_machine_conf` is one of these.  Across calls nothing moves, since each of
these functions is in another translation unit.  `Open`, `Map`, `MapFails` and
`Cleanup` are the set-up and its failures, each followed by what `main` does
(`OnFailure`: it takes the 1 of `initOuts` for success); `LeaveEarly` is main giving
up between `fpga_awg_init` and the first row.  A store without a
mapping is `Fault`.  SIGINT comes between any two instructions, and the handler's
`_exit` begins with what the call in progress had not yet stored left undone.

### `Server`

`pc[c]` is where the thread of connection `c` is; a step is what the interpreter
does between two accesses to something that is shared, so `start` is a test, a
`Popen` and the store of the pid, and `abort` a test, the reading of the pid for
the argument, the kill and the reset.  `proc[p]` is what has pid `p`.  An ended
process keeps its pid until it is waited for: by `trigCollect` (`Wait`), by the
Popen object that `demo` drops (`Drop`), or, once that is gone, by
`subprocess._cleanup` when anything is started (`Reaped`, in `Popen` and, as
`subprocess.call` starts `kill`, in `AbortArg`).  `held` are the pids that a thread
still has an object for.  `DemoFails`, `PopenFails` and `AbortFails` are the
exceptions that leave a partial file, no process, or an Abort that has cleared
nothing.  `last` is history, the run whose pid was stored last, if no Abort was
between finding a pid and resetting it at the time.  A free pid may go to another program (`OtherStarts`).
Of an output only its origin is kept; the two analog channels are one output.
`kill -9` is over when the kill program ends.

A run of `dsp` starts, sets the timer (`DspStops` to `DspPlays`, `timer.c:47-54`), plays
and exits, or fails before it sets the timer.  `timer` tells whether the one global
timer runs.  A run that is killed while setting it has fate `cut` and leaves the
timer as it is, stopped.  `receiveClient` and `ReadPosition`
change nothing that a property looks at.

### `Exposure`

A level is a number, as in the code: `SumOfLines` adds the sorted lights up and `Part`
masks and shifts.  Lights of equal times come in any order, where Python keeps the
caller's.
`WriteDigital` is three steps (`StoreLed`, `StoreP`, `StoreN` or `Finish`), and other
threads run in between.  `Tick` is the clock, which may advance between any two
steps; a wait lasts at least as long as was asked for and may last longer.
`busy_wait` reads the wall clock (`server.py:36-37`): the model presumes that nobody
sets it forward during a wait, which would cut the wait short.  `lit[c]`
is history, the time for which the pin registers have shown every light of the call
that has not been taken out yet (`LightsOn`), and stops counting at
the longest exposure time, beyond which no property looks.  `waited[c]` is the sum of the waits,
and `disturbed[c]` tells whether another thread has stored to a register.

`LitMeansDue`, `UndisturbedShowsDue` and `OnForItsTime` read the registers as sets of
lines and presume that no line is named twice in a call (`Disjoint`).  Without that, a sum
carries into another line's bit, as `server.py:166` does; the other properties
hold of such calls too.  The clients' own calls of `WriteDigital`, whose level
stays on by request, are not in `Exposure`.

## 3. Runs

| Run | Checks | Instance |
|---|---|---|
| `timer_shared` | `TypeOK`, `NeverAhead`, `FreshReading` | two processes, a lower half of 2 values, 4 ticks: two carries, and a second run resetting the timer at each access of the first |
| `timer_alone` | `ImplementsStopwatch` | one process, a lower half of 3 values, 13 ticks: four carries, more than one within a single `XTime_GetTime` |
| `dsp_safety` | `TypeOK`, `ExitClears`, `PlaysReadRows`, `NeverEarly`, `CrashCauses`, `ZeroMeansPlayed`, `HandlerOnlyClears`, `ImplementsPlayback`, `EveryRunEnds` | files of up to two lines out of four |
| `devices` | `TypeOK`, `StoresHitTheirRegister`, `CallsDeliver`, `MappedIffOpen` | one row of two values for each output, the real addresses |
| `server` | `TypeOK`, `LastCanBeAborted`, `DoneMeansOver`, `QuietIsDark`, `OnlyKilledLeavesOutputs`, `StartsAfterLoad`, `TrigCollectReturns` | two clients, two runs, two pids |
| `exposure` | `TypeOK`, `LitMeansDue`, `UndisturbedShowsDue`, `OnForItsTime`, `NotLonger`, `QuietIsDark` | two clients, two pins of each kind, four argument lists |
| `sigint_clears` | `InterruptClears`, violated | as `dsp_safety` |
| `awg_unmapped` | `AwgUsedOnlyIfMapped`, violated | as `dsp_safety` |
| `row_overflow` | `NoRowEarly`, violated | as `dsp_safety` |
| `abort_lost` | `RunsCanBeAborted`, violated | as `server` |
| `abort_others` | `AbortSparesOthers`, violated | as `server` |
| `abort_lit` | `AbortCleansUp`, violated | as `server` |

**Bounds.**  `MaxTime` stops the clocks.  In `Dsp` it is above `MaxClocks`, the
largest number of ticks a row can ask for, so that no wait is cut short
(`DspAssumption`).  There are 3 ticks in 8 nanoseconds and products wrap at 32:
rows at 0, 3, 10 and 11 ns have clocks 0, 1, 3 and, wrapped, 0; the second is not
a whole number of ticks and the third is the last to fit.  Two lines let a row
follow another that is later, earlier or equal, and let the file end between
them.  Outputs take two values, which the rows combine differently for each
channel, so that a swapped or skipped word is seen.

`Devices` plays one row (`MaxRows`), as each row goes through the same calls and
each call is checked against the registers as they were before it; a row may
repeat a value, change it or leave it at zero.  `Server` has two runs (`MaxRuns`),
which is enough for one to overlap with the other, to overwrite its pid, and to
be given the pid of the first once that has been reaped; two clients, so that each
call meets each other one and itself.  Without the liveness property it has also
been explored with three runs, with no error.  The lists of `Exposure` are out of
order, at equal times, at time zero, empty, and one lists a light twice.

**Fairness.**  Two runs use any.  `dsp_safety`: weak fairness of the program's steps
as a whole, because it runs alone at `SCHED_FIFO` priority 99 (before that, because
Linux schedules it), and of `Tick`, because nothing but another run of `dsp` stops
the timer.  With a second run the timer can be turned back again and again, and
no such promise is made.  A handler that hangs counts as an end of the run there.  `server`: weak fairness of each `Thread(c)`, because the
interpreter runs every thread that can go on; of `DspStops(n)`, `DspPlays(n)` and
`DspFails(n)` together, because Linux runs the process up to its wait loop; and of
`timer /\ DspExits(n)`: a run of `dsp` ends (`EveryRunEnds`) while the timer runs, and
the other runs that reset it meanwhile are at most `MaxRuns`, and do so once each.
Nothing is assumed of a run while the timer stands still.  No client has to call
anything.

**Deadlock** is checked in all runs; `Ended` is the process that is gone.  A thread
that waits for ever is not a deadlock in this sense; `TrigCollectReturns` says when
one does.

Each property has a mutant: an operator marked *Mutant* in the module, which
changes a definition the way a slip in the code would and makes TLC find that
property violated.

## 4. What was found

- **SIGINT may leave the outputs on** (`sigint_clears`).  `_exit` frees the table
  first, does not reset the pointer, and is what the handler calls too.  SIGINT
  while main is in its own `_exit`, as at the end of every profile, frees the
  table twice; the C library then ends the process before `dsp.c:232-234` clears
  anything.  `doc/notes:15-16` promises that the outputs are cleared.
- **A failed set-up ends in a segmentation fault** (`awg_unmapped`).
  `fpga_awg_exit` writes to its buffers before anything checks that they are
  mapped, and `_exit` calls it also when `fpga_awg_init` has failed.
  `fpga_awg.c:110` says the variables must not be used then.  (When `initTimer` has
  failed the pins are not mapped either, and `_exit` faults before it gets there, at
  `out_setpins_P(0)`, `dsp.c:232`.)
- **Rows after 55.3 seconds are early** (`row_overflow`).  The product in
  `dsp.c:180` wraps.

- **Abort can lose a run** (`abort_lost`).  There is one `Runner.pid`: a second start
  overwrites it, and an Abort that is between its kill and its reset forgets a run
  that has been started in between.  `doc/notes:91-93` has abort kill the process
  with the C code if it is running.
- **Abort can kill another program** (`abort_others`).  Nothing resets the pid when
  the run ends, and `trigCollect` reaps the process, so that the pid may belong to
  somebody else when Abort sends SIGKILL to it.
- **Abort leaves the analog outputs on** (`abort_lit`).  It sends SIGKILL, not the
  SIGINT that the comment at `server.py:141` is about, and clears only the pins.

`LastCanBeAborted`, `QuietIsDark` and `OnlyKilledLeavesOutputs` say how far these
three go.  A run whose pid was stored while no Abort was between finding a pid and
resetting it, and that no other run was started after, stays within reach of Abort
until it ends; an Abort that was already under way, even for a run that is long
over, may lose it.  The pins do go dark, and a run that is not killed leaves nothing
behind.  The last has a consequence for `server.py:246`: the positions that
`trigCollect` reports for an undisturbed run are read when `dsp` has cleared its
buffers.

Three more observations that are no violations of anything the repository says of
itself, or that a property states the other way round:

- **Abort can stop the timer for good.**  SIGKILL between `timer.c:47` and `timer.c:54`
  leaves the global timer disabled.  A run of another client that is playing then
  spins at `dsp.c:209`, at real-time priority, and its `trigCollect` does not return,
  until somebody starts another run or aborts that one.  It is the exception
  (`Stranded`) that `TrigCollectReturns` makes.
- **The wait loop is not the documented one.**  `doc/notes:61-63` describes
  `while(current<next)`; `dsp.c:209` waits while `now <= clocks`.  The code is right:
  with the documented loop, which is the mutant of `NeverEarly`, a row whose time is
  not a whole number of ticks comes up to one tick early.
- **Lights come back after an Abort.**  An exposure that is aborted half way writes its
  next level all the same (`server.py:177`).  `LitMeansDue` allows it, as those lights
  are still due in the call.

`ExitClears` and `CrashCauses` say how far the first two go: a process that does
end by `exit()` has cleared everything, and it crashes for no other reasons.
`NeverEarly` does so for the third.

## 5. Proofs

All theorems are for every value of the constants that satisfies the `ASSUME`s:
`LoRange` and the clock rates are positive, `MaxTime`, `MaxLines` and `MaxRows` are
natural numbers, zero is among the values, rows are typed, `Garbage` is not a row,
and levels and times of exposures are natural numbers.  `PowersOfTwo` states what
is used of `^`, of which the provers know nothing: that `2 ^ 0` is one and that each
power is twice the one before.  TLC evaluates them all.

Every invariant and action property of a passing run, and both refinements, are
stated by a theorem.

**`GlobalTimerProofs`.**  `TypeCorrect`, `ReadingsNeverAhead` and `ReadingsFresh`,
for any number of processes and any register width.  `NeverAhead` speaks of finished readings and is
not inductive.  `NotAhead(p)` follows the value back: once `p` has cleared the
lower half that half is bounded by `p`'s clock; once it has cleared the upper one
the whole counter is; after `ReadHigh` the bound is on the upper half *as read*
with the lower half *as it is now*, which no other process can break, because
clearing the upper half does not touch it and clearing the lower half only makes
it smaller; then on both halves as read, then on `now`.  A carry is the case in
which the lower half returns to zero as the upper grows (`CountFacts`).
`ReadingsFresh` is the other direction, and needs the second look at the upper
half: while nobody disturbs `p`'s timer, the counter is behind `p`'s clock by at
most `lag` and its upper half only grows, so that if it is still what `ReadHigh`
read, it was so when the lower half was read (`Fresh`).

**`SoleTimerProofs`.**  `SoleRunHasStopwatch`: under the refinement mapping each step
of the single run is a step of `Stopwatch` or none.  The mapping takes `elapsed - lag`
for the stopwatch's time, and `Exact` says why that is right: from the end of
`XTime_SetTime` on the counter *is* `elapsed - lag`, and before that it stands still
and is cleared half by half.  The reading that `Return` hands out lies between the
time at which the call began, by `FreshInv` of `GlobalTimerProofs`, and the present
time, because the lower half was read when the upper one was already what had been
read, or more (`CountMonotonic`).

**`DspProofs`.**

- `TypeCorrect` needs `Loaded`: rows done, rows read and lines counted are in
  order, because what is written to an output is a value only if it comes from
  a row that was read.
- `RowsNotEarly` and `RowsWereRead` follow from `PlayInv`: `now` is never ahead of
  `time` and is past the clocks of the row being written, and the table is on the
  heap while main uses it uninterrupted.  `ClocksSuffice` is the arithmetic: past
  the quotient of a product that did not wrap is past the time.
- `ExitsClear` follows from `Cleared`: a frame that is at word `n` of its clearing
  has zeroed the words below `n`, and nothing drives an output while either
  frame is clearing, since main clears only when it is past playing and the
  handler only when main is frozen.
- `HandlerClears` is an action property: every action that sets a word to
  something other than zero belongs to main, which does not run.

**`PlaybackProofs`**, with the invariant `RunInv`, which is those of `DspProofs` and
`EndInv`.

- `ZeroIsTold` follows from `Played`: the timer has passed the clocks of every row
  that is done, and main calls `_exit(0)` from the end of `execActionTable` only.
- `CrashesAreKnown` follows from `Resources`.  That a fault has one of the listed
  causes is not inductive: one has to know who may have freed the table (a frame
  that is leaving), when the handler can exist (after the generator has been
  mapped) and who unmaps it (a frame that is leaving).
- `RunIsPlayback` is the refinement.  A step of set-up is a `Prepare` of the channels
  that it clears, `ReadRow` is `Load`, the store to the cell of a channel that is
  seen is `Advance`, and the same store of `_exit` is `SwitchOff`; all others leave
  what `Playback` sees as it is (`StillIsStutter`).  That `Advance` is allowed rests on
  `PlayInv` (the row was read, and its time has passed) and on there being only one
  frame that runs, so that nobody has begun to clear; that `Load` and `Prepare` are
  allowed, on `Played` (nothing has been played yet).

**`DevicesProofs`**, for any values, any number of rows and the real addresses.

- `StoresHit` takes the map of the peripherals apart: each register lies in the
  window it is reached through (`RegistersInWindows`) and in the range of one
  peripheral only (`SoleOwner`), and each store that was made went through a
  mapping (`OnBus`).
- `CallsAreDelivered` follows from `Delivering`: within a call the last store of the
  source to a register is never left out (`Omit` only drops what is overwritten),
  once it is made no other store to that register is to come, and registers that
  the call does not name keep what they held, since no two registers share a word
  (`RegistersApart`).
- `DescriptorGoesWithMapping` and `TypeCorrect` are conjuncts of `DevicesInv`, with
  `AwgDescriptor` for the two steps in which the generator is opened and mapped.

**`ServerProofs`**, for any number of clients and of runs.

- `TypeCorrect` needs that a thread has started a run where it uses the one it has
  started (`HasRun`).
- `DoneMeansRunOver` follows from `ProcInv`: every live run has a process, and no
  two have the same one.  So when a thread has found its child ended, no run that
  was later given the same pid can be mistaken for its own.
- `PinsQuiet` and `OnlyKilledLeaves` follow from `ShowInv`: a pin shows a table's
  value only while a run plays or a thread that is past its kill has still to
  clear that very pin; any output, only if a run plays or was killed.
- `LoadedFirst` follows from `LoadInv`: wherever a thread may go on to start a
  run, a file has been completed.
- `LastIsReached` follows from `ReachInv`.  While the run that was stored last is alive,
  the pid is its own, and every Abort between finding a pid and resetting it has that
  pid, or is yet to read it, or has killed the run, so that none can be about to reset
  the pid of a run that is alive.

**`ExposureProofs`**, for any number of clients, any finite lists of lights and any
pin width.

- `LightsNotLonger` follows from `ClockInv`: the time that has been asked for is that of
  the last light waited for.  That the times are in order (`SortedCalls`) is what
  keeps a wait from being negative.
- `AllDark` follows from `DarkInv`: a register that is not zero belongs to a call
  in progress that has still to write its last level, zero, to it.  Any number of
  calls and Aborts may have written to it in between.

**`LightsProofs`** is about the same modules, and shows that the arithmetic of levels is
that of sets of lines.

- Arithmetic: without a common bit there is no carry (`NoCarry`), so the bits of a sum
  are those of its parts (`BitsOfSum`); the low and the high lines of a level are what
  the masks and the shift of `WriteDigital` leave of it (`LowBits`, `HighBits`,
  `RegisterBits`).
- `DueLevel(k, i)` is the cameras and the lights of call `k` from the `i`-th on.  It is
  what `arcl` has after it has subtracted the others, and never negative
  (`LevelFacts`); its bits are the lines still due if no line is named twice
  (`LevelIsLines`).
- `NoLightComesBack` follows from `WriterInv`: a register that is not zero shows what
  some call in progress wrote to it last.  That is its level, or, while the store to
  that register is pending, the level before.  A finishing call writes zero and an
  Abort too, so that no call that is over is ever needed as a witness.
- `AloneShowsDue` follows from `OwnInv`: who writes to a register disturbs every other
  call in progress.
- `LightsLast` follows from `LitInv`: while nobody disturbs a call, the time for which
  its lights have been shown, with what is left of the wait, is at least the time of
  the last light waited for.  A tick of a wait counts because the registers then show
  all lights that have not been taken out (`WaitingLightsOn`, from `AloneShows`), and
  since the times are in order that time bounds those of the lights that went out
  before.
- `TypeCorrect` needs both: a register holds a part of some call's level.

These are inductions over the number of lights or of bits.  The library's induction
theorems are out of the provers' reach, so `AllNumbers` says it of a *set* of
numbers, which is the set of those that have the property; it follows from the
well-foundedness of `<`.  `SumExists` shows in that way that there is a function that
satisfies the recursive definition of `SumOfLines`.

Each inductive invariant was first checked by TLC on the instance of the run.

Only model-checked: `EveryRunEnds` and `TrigCollectReturns`, which are liveness under
fairness and out of the prover's reach; and, of course, the six violations.

## 6. Not modelled

- `profileSet` after its second statement, and with it `Runner.load` and
  `DownloadProfile`.  `server.py:191` indexes a `zip` object, which Python 3 does
  not allow (and indexes an empty tuple if there are no analog lines), so that the
  call always raises an exception before it changes anything; `self.actiontable`
  is never set, and `DownloadProfile` raises one too.  `loadDemo` is the only way to
  a file.
- The text of the file, the buffering of its writer, and a `dsp` that reads it
  while it is rewritten.  `Server` has the order of these calls, and `Dsp` any file
  that ends early or goes bad at some line.
- `actgen.py`: string formatting, run by hand.
- `rp.h`, which nothing includes, and the interrupt and device numbers and clock
  rates of the vendor headers, of which only the timer's rate is used (`RowTime`).
- `out_getpins`, which is never called; printing; `strtok` and `strtol`, which
  appear only as "a row, or a failure"; the build files.
- The main program of `server.py`: it binds a socket, again and again until it can,
  and serves.
- The upper half of the counter does not wrap in the model; that takes 2^64 ticks,
  about 1750 years.
