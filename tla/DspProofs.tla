----------------------------- MODULE DspProofs -----------------------------
(***************************************************************************)
(* One run of dsp, for any files, values, clock rates and word sizes.      *)
(***************************************************************************)
EXTENDS Dsp, TLAPS

-----------------------------------------------------------------------------
(***************************************************************************)
(* The conversion of nanoseconds.                                          *)
(***************************************************************************)

LEMMA DivFacts ==
  ASSUME NEW x \in Nat, NEW n \in Nat \ {0}
  PROVE  /\ x \div n \in Nat
         /\ \A t \in Nat : t > x \div n => x < t * n
         /\ \A y \in Nat : x <= y => x \div n <= y \div n
OBVIOUS

\* Clocks are natural numbers and never more than MaxClocks.
LEMMA ClocksRange ==
  ASSUME NEW ns \in Nat
  PROVE  ClocksOf(ns) \in 0 .. MaxClocks /\ MaxClocks \in Nat
<1> DEFINE x == (ns * CountsPerSecond) % WordSize
<1>1. ns * CountsPerSecond \in Nat
  BY RowTimeAssumption
<1>2. x \in 0 .. WordSize - 1 /\ WordSize - 1 \in Nat
  BY <1>1, RowTimeAssumption
<1>3. x \in Nat /\ x <= WordSize - 1
  BY <1>2
<1> HIDE DEF x
<1>4. /\ x \div NanosPerSecond \in Nat
      /\ x \div NanosPerSecond <= (WordSize - 1) \div NanosPerSecond
      /\ (WordSize - 1) \div NanosPerSecond \in Nat
  BY <1>2, <1>3, DivFacts, RowTimeAssumption
<1> QED
  BY <1>4 DEF ClocksOf, MaxClocks, x

\* Past the clocks of a time that fits is past the time.
LEMMA ClocksSuffice ==
  ASSUME NEW ns \in Nat, Fits(ns), NEW t \in Nat, t > ClocksOf(ns)
  PROVE  TicksExceed(t, ns)
<1> DEFINE x == ns * CountsPerSecond
<1>1. x \in Nat /\ x < WordSize
  BY RowTimeAssumption DEF Fits
<1>2. ClocksOf(ns) = x \div NanosPerSecond
  BY <1>1, RowTimeAssumption DEF ClocksOf
<1> HIDE DEF x
<1>3. x < t * NanosPerSecond
  BY <1>1, <1>2, DivFacts, RowTimeAssumption
<1> QED
  BY <1>3 DEF TicksExceed, x

LEMMA RowFacts ==
  ASSUME NEW r \in Rows
  PROVE  /\ r.ns \in Nat
         /\ r.clocks = ClocksOf(r.ns)
         /\ r.clocks \in Nat
         /\ r.val \in [Channels -> Values]
         /\ r # Garbage
<1>1. PICK l \in FileRows : r = ParseRow(l)
  BY DEF Rows
<1>2. l.ns \in Nat /\ l.val \in [Channels -> Values]
  BY DspAssumption
<1>3. ClocksOf(l.ns) \in Nat
  BY <1>2, ClocksRange
<1> QED
  BY <1>1, <1>2, <1>3, DspAssumption DEF ParseRow

\* What a row writes to a word.
LEMMA RowValues ==
  ASSUME NEW r \in Rows, NEW k \in Words
  PROVE  r.val[ChannelOf(k)] \in Values
BY RowFacts DEF ChannelOf, Channels, Words
-----------------------------------------------------------------------------
(***************************************************************************)
(* Type correctness.  What is written to an output is a value only if it   *)
(* comes from a row that has been read, so the type invariant rests on the *)
(* order of the three counters: rows done, rows read, lines counted.       *)
(***************************************************************************)
BeforeRead == {"initTimer", "initOuts", "initAwg", "signal", "open", "malloc"}
AfterRead == {"sched", "setTime"} \cup ExecSteps

Loaded ==
  /\ lineno <= lines
  /\ \A i \in 0 .. lineno - 1 : table[i] \in Rows
  /\ pc["main"] \in BeforeRead => lineno = 0
  /\ pc["main"] \in AfterRead => lineno = lines
  /\ pc["main"] = "write" => line < lines

TypeInv == TypeOK /\ Loaded

LEMMA SlotFacts ==
  /\ \A i \in Nat, n \in 0 .. MaxLines : i < n => i \in Slots
  /\ \A i, n \in 0 .. MaxLines : i < n => i + 1 \in 0 .. MaxLines /\ i + 1 <= n
  /\ 0 \in 0 .. MaxLines /\ 0 \in 0 .. MaxTime /\ 0 \in Values
BY DspAssumption DEF Slots

LEMMA TypeInit == Init => TypeInv
<1> SUFFICES ASSUME Init PROVE TypeInv
  OBVIOUS
<1>1. pc \in [Frames -> Steps] /\ store \in [Frames -> Words] /\ code \in [Frames -> 0 .. 5]
  BY DEF Init, Frames, Steps, Words
<1>2. table \in [Slots -> Rows \cup {Garbage}]
  BY DEF Init
<1>3. pc["main"] = "initTimer"
  BY DEF Init, Frames
<1>4. TypeOK
  BY <1>1, <1>2, SlotFacts DEF Init, TypeOK
<1>5. Loaded
  BY <1>3 DEF Init, Loaded, AfterRead, ExecSteps
<1> QED
  BY <1>4, <1>5 DEF TypeInv

\* Up to the installation of the handler.
LEMMA TypeSetup ==
  ASSUME TypeInv, Setup
  PROVE  TypeInv'
<1> USE DEF TypeInv, TypeOK, Loaded, BeforeRead, AfterRead, At, Runs, Goto, CallExit, End, Frames,
            Steps, ExecSteps, ExitSteps, Ends, Words, mappings, reading, playing
<1>1. CASE InitTimer
  BY <1>1 DEF InitTimer
<1>2. CASE InitOuts
  BY <1>2, SlotFacts DEF InitOuts
<1>3. CASE InitAwg
  <2>1. out' \in [Words -> Values]
    BY <1>3, SlotFacts DEF InitAwg
  <2>2. pc' \in [Frames -> Steps]
    BY <1>3 DEF InitAwg
  <2>3. code' \in [Frames -> 0 .. 5]
    BY <1>3 DEF InitAwg
  <2>4. awgMap' \in BOOLEAN
    BY <1>3 DEF InitAwg
  <2>5. Loaded'
    BY <1>3 DEF InitAwg
  <2> QED
    BY <1>3, <2>1, <2>2, <2>3, <2>4, <2>5 DEF InitAwg
<1>4. CASE InstallHandler
  BY <1>4 DEF InstallHandler
<1> QED
  BY <1>1, <1>2, <1>3, <1>4 DEF Setup

\* The two passes over the file.
LEMMA TypeReading ==
  ASSUME TypeInv, Reading
  PROVE  TypeInv'
<1> USE DEF TypeInv, TypeOK, Loaded, BeforeRead, AfterRead, At, Runs, Goto, CallExit, End, Frames,
            Steps, ExecSteps, ExitSteps, Ends, Words, mappings, reading, playing
<1>1. CASE Open
  BY <1>1 DEF Open
<1>2. CASE Malloc
  BY <1>2 DEF Malloc
<1>3. CASE ReadRow
  <2>1. lineno \in Slots
    BY <1>3, SlotFacts DEF ReadRow
  <2>2. PICK r \in FileRows : table' = [table EXCEPT ![lineno] = ParseRow(r)]
    BY <1>3 DEF ReadRow
  <2>3. ParseRow(r) \in Rows
    BY <1>3 DEF Rows
  <2>4. table' \in [Slots -> Rows \cup {Garbage}]
    BY <1>3, <2>1, <2>2, <2>3
  <2>5. \A i \in 0 .. lineno' - 1 : table'[i] \in Rows
    BY <1>3, <2>1, <2>2, <2>3, SlotFacts DEF ReadRow
  <2>6. lineno' \in 0 .. MaxLines /\ lineno' <= lines
    BY <1>3, SlotFacts DEF ReadRow
  <2>7. Loaded'
    BY <1>3, <2>5, <2>6 DEF ReadRow
  <2> QED
    BY <1>3, <2>1, <2>2, <2>3, <2>4, <2>5, <2>6, <2>7 DEF ReadRow
<1>4. CASE ReadIntoNull
  BY <1>4 DEF ReadIntoNull
<1>5. CASE ReadFails
  BY <1>5 DEF ReadFails
<1>6. CASE EndRead
  BY <1>6 DEF EndRead
<1>7. CASE SetScheduler
  BY <1>7 DEF SetScheduler
<1> QED
  BY <1>1, <1>2, <1>3, <1>4, <1>5, <1>6, <1>7 DEF Reading

\* execActionTable.
LEMMA TypePlaying ==
  ASSUME TypeInv, Playing
  PROVE  TypeInv'
<1> USE DEF TypeInv, TypeOK, Loaded, BeforeRead, AfterRead, At, Runs, Goto, CallExit, End, Frames,
            Steps, ExecSteps, ExitSteps, Ends, Words, mappings, reading, playing
<1>1. CASE SetTime
  BY <1>1, SlotFacts DEF SetTime
<1>2. CASE GetTime
  BY <1>2 DEF GetTime
<1>3. CASE Spin
  BY <1>3 DEF Spin
<1>4. CASE StartRow
  BY <1>4 DEF StartRow
<1>5. CASE StoreRow
  <2>1. line \in 0 .. lineno - 1 /\ table[line] \in Rows
    BY <1>5 DEF StoreRow
  <2>2. store["main"] \in Words /\ table[line].val[ChannelOf(store["main"])] \in Values
    BY <1>5, <2>1, RowValues
  <2>3. out' \in [Words -> Values]
    BY <1>5, <2>2 DEF StoreRow
  <2>4. store' \in [Frames -> Words]
    BY <1>5 DEF StoreRow, IsLast
  <2>5. line' \in 0 .. MaxLines
    BY <1>5, SlotFacts DEF StoreRow
  <2>6. Loaded'
    BY <1>5 DEF StoreRow
  <2>7. pc' \in [Frames -> Steps]
    BY <1>5 DEF StoreRow
  <2> QED
    BY <1>5, <2>1, <2>2, <2>3, <2>4, <2>5, <2>6, <2>7 DEF StoreRow
<1>6. CASE StoreRowFaults
  BY <1>6 DEF StoreRowFaults
<1>7. CASE EndExec
  BY <1>7 DEF EndExec
<1> QED
  BY <1>1, <1>2, <1>3, <1>4, <1>5, <1>6, <1>7 DEF Playing

\* _exit.
LEMMA TypeExiting ==
  ASSUME TypeInv, NEW f \in Frames, Exiting(f)
  PROVE  TypeInv'
<1> USE DEF TypeInv, TypeOK, Loaded, BeforeRead, AfterRead, At, Runs, Goto, CallExit, End, Frames,
            Steps, ExecSteps, ExitSteps, Ends, Words, mappings, reading, playing
<1>1. CASE FreeTable(f)
  BY <1>1 DEF FreeTable
<1>2. CASE FreeUndefined(f)
  BY <1>2 DEF FreeUndefined
<1>3. CASE Clear(f)
  <2>1. out' \in [Words -> Values]
    BY <1>3, SlotFacts DEF Clear
  <2>2. store' \in [Frames -> Words]
    BY <1>3 DEF Clear, IsLast
  <2> QED
    BY <1>3, <2>1, <2>2 DEF Clear
<1>4. CASE ClearFaults(f)
  BY <1>4 DEF ClearFaults
<1>5. CASE Unmap(f)
  BY <1>5 DEF Unmap
<1>6. CASE Finish(f)
  BY <1>6 DEF Finish
<1>7. CASE FinishHangs(f)
  BY <1>7 DEF FinishHangs
<1> QED
  BY <1>1, <1>2, <1>3, <1>4, <1>5, <1>6, <1>7 DEF Exiting

\* Signals and the passage of time.
LEMMA TypeEnvironment ==
  ASSUME TypeInv, Interrupt \/ Kill \/ Tick \/ UNCHANGED vars
  PROVE  TypeInv'
<1> USE DEF TypeInv, TypeOK, Loaded, BeforeRead, AfterRead, At, Runs, Goto, CallExit, End, Frames,
            Steps, ExecSteps, ExitSteps, Ends, mappings, reading
<1>1. CASE Interrupt
  BY <1>1 DEF Interrupt, playing
<1>2. CASE Kill
  BY <1>2 DEF Kill, playing
<1>3. CASE Tick
  BY <1>3, DspAssumption DEF Tick
<1>4. CASE UNCHANGED vars
  BY <1>4 DEF vars
<1> QED
  BY <1>1, <1>2, <1>3, <1>4

LEMMA TypeStep == TypeInv /\ [Next]_vars => TypeInv'
BY TypeSetup, TypeReading, TypePlaying, TypeExiting, TypeEnvironment DEF Next, Program, Ended

LEMMA TypeInvariant == Spec => []TypeInv
BY TypeInit, TypeStep, PTL DEF Spec

(***************************************************************************)
(* Every variable of a run keeps its type: no counter passes the number of *)
(* lines, and only values ever reach an output.                            *)
(***************************************************************************)
THEOREM TypeCorrect == Spec => []TypeOK
BY TypeInvariant, PTL DEF TypeInv
-----------------------------------------------------------------------------
(***************************************************************************)
(* No row is written early, and none that was not read.  now is a reading  *)
(* of the timer that is no longer ahead of it; the table is on the heap    *)
(* for as long as main is using it and has not been interrupted.           *)
(***************************************************************************)
BeforePlay == BeforeRead \cup {"read", "sched", "setTime"}

Clock ==
  /\ now <= time
  /\ pc["main"] \in BeforePlay => now = 0
  /\ pc["main"] = "write" => now > table[line].clocks

OnHeap ==
  pc["handler"] = "idle" /\ pc["main"] \in {"read"} \cup AfterRead /\ lineno > 0 => heap = "live"

PlayInv == Clock /\ OnHeap

LEMMA PlayInit == Init => PlayInv
<1> SUFFICES ASSUME Init PROVE PlayInv
  OBVIOUS
<1>1. pc["main"] = "initTimer"
  BY DEF Init, Frames
<1> QED
  BY <1>1 DEF Init, PlayInv, Clock, OnHeap, AfterRead, ExecSteps

\* Up to the installation of the handler.
LEMMA PlaySetup ==
  ASSUME TypeInv, PlayInv, Setup
  PROVE  PlayInv'
<1> USE DEF PlayInv, Clock, OnHeap, BeforePlay, BeforeRead, AfterRead, At, Runs, Goto, CallExit, End,
            Frames, Steps, ExecSteps, ExitSteps, mappings, reading, playing
<1> USE DEF TypeInv, TypeOK, Loaded
<1>1. CASE InitTimer
  BY <1>1 DEF InitTimer
<1>2. CASE InitOuts
  BY <1>2 DEF InitOuts
<1>3. CASE InitAwg
  BY <1>3 DEF InitAwg
<1>4. CASE InstallHandler
  BY <1>4 DEF InstallHandler
<1> QED
  BY <1>1, <1>2, <1>3, <1>4 DEF Setup

\* The two passes over the file.
LEMMA PlayReading ==
  ASSUME TypeInv, PlayInv, Reading
  PROVE  PlayInv'
<1> USE DEF PlayInv, Clock, OnHeap, BeforePlay, BeforeRead, AfterRead, At, Runs, Goto, CallExit, End,
            Frames, Steps, ExecSteps, ExitSteps, mappings, reading, playing
<1> USE DEF TypeInv, TypeOK, Loaded
<1>1. CASE Open
  BY <1>1 DEF Open
<1>2. CASE Malloc
  BY <1>2 DEF Malloc
<1>3. CASE ReadRow
  BY <1>3 DEF ReadRow
<1>4. CASE ReadIntoNull
  BY <1>4 DEF ReadIntoNull
<1>5. CASE ReadFails
  BY <1>5 DEF ReadFails
<1>6. CASE EndRead
  BY <1>6 DEF EndRead
<1>7. CASE SetScheduler
  BY <1>7 DEF SetScheduler
<1> QED
  BY <1>1, <1>2, <1>3, <1>4, <1>5, <1>6, <1>7 DEF Reading

\* execActionTable.
LEMMA PlayPlaying ==
  ASSUME TypeInv, PlayInv, Playing
  PROVE  PlayInv'
<1> USE DEF PlayInv, Clock, OnHeap, BeforePlay, BeforeRead, AfterRead, At, Runs, Goto, CallExit, End,
            Frames, Steps, ExecSteps, ExitSteps, mappings, reading, playing
<1> USE DEF TypeInv, TypeOK, Loaded
<1>1. CASE SetTime
  BY <1>1 DEF SetTime
<1>2. CASE GetTime
  BY <1>2 DEF GetTime
<1>3. CASE Spin
  BY <1>3 DEF Spin
<1>4. CASE StartRow
  BY <1>4 DEF StartRow
<1>5. CASE StoreRow
  BY <1>5 DEF StoreRow
<1>6. CASE StoreRowFaults
  BY <1>6 DEF StoreRowFaults
<1>7. CASE EndExec
  BY <1>7 DEF EndExec
<1> QED
  BY <1>1, <1>2, <1>3, <1>4, <1>5, <1>6, <1>7 DEF Playing

\* _exit: main is past playing, or frozen for good.
LEMMA PlayExiting ==
  ASSUME TypeInv, PlayInv, NEW f \in Frames, Exiting(f)
  PROVE  PlayInv'
<1> USE DEF PlayInv, Clock, OnHeap, BeforePlay, BeforeRead, AfterRead, At, Runs, Goto, CallExit, End,
            Frames, Steps, ExecSteps, ExitSteps, mappings, reading, playing
<1> USE DEF TypeInv, TypeOK, Loaded
<1>1. CASE FreeTable(f)
  BY <1>1 DEF FreeTable
<1>2. CASE FreeUndefined(f)
  BY <1>2 DEF FreeUndefined
<1>3. CASE Clear(f)
  BY <1>3 DEF Clear
<1>4. CASE ClearFaults(f)
  BY <1>4 DEF ClearFaults
<1>5. CASE Unmap(f)
  BY <1>5 DEF Unmap
<1>6. CASE Finish(f)
  BY <1>6 DEF Finish
<1>7. CASE FinishHangs(f)
  BY <1>7 DEF FinishHangs
<1> QED
  BY <1>1, <1>2, <1>3, <1>4, <1>5, <1>6, <1>7 DEF Exiting

\* Signals and the passage of time.
LEMMA PlayEnvironment ==
  ASSUME TypeInv, PlayInv, Interrupt \/ Kill \/ Tick \/ UNCHANGED vars
  PROVE  PlayInv'
<1> USE DEF PlayInv, Clock, OnHeap, BeforePlay, BeforeRead, AfterRead, At, Runs, Goto, CallExit, End,
            Frames, Steps, ExecSteps, ExitSteps, mappings, reading, playing
<1> USE DEF TypeInv, TypeOK, Loaded
<1>1. CASE Interrupt
  BY <1>1 DEF Interrupt
<1>2. CASE Kill
  BY <1>2 DEF Kill
<1>3. CASE Tick
  BY <1>3 DEF Tick
<1>4. CASE UNCHANGED vars
  BY <1>4 DEF vars
<1> QED
  BY <1>1, <1>2, <1>3, <1>4

LEMMA PlayStep == TypeInv /\ PlayInv /\ [Next]_vars => PlayInv'
BY PlaySetup, PlayReading, PlayPlaying, PlayExiting, PlayEnvironment DEF Next, Program, Ended

LEMMA PlayInvariant == Spec => [](TypeInv /\ PlayInv)
BY PlayInit, PlayStep, TypeInvariant, PTL DEF Spec

(***************************************************************************)
(* Whatever the clock rate, a row whose product does not wrap is written   *)
(* strictly after its time in nanoseconds (dsp.c:180 and 209 together).    *)
(***************************************************************************)
THEOREM RowsNotEarly == Spec => []NeverEarly
<1>1. TypeInv /\ PlayInv => NeverEarly
  <2> SUFFICES ASSUME TypeInv, PlayInv, pc["main"] = "write", Fits(table[line].ns)
               PROVE  TicksExceed(time, table[line].ns)
    BY DEF NeverEarly
  <2>1. table[line] \in Rows
    BY DEF TypeInv, TypeOK, Loaded, AfterRead, ExecSteps
  <2>2. time \in Nat /\ time > ClocksOf(table[line].ns)
    BY <2>1, RowFacts, DspAssumption DEF TypeInv, TypeOK, PlayInv, Clock
  <2> QED
    BY <2>1, <2>2, RowFacts, ClocksSuffice
<1> QED
  BY <1>1, PlayInvariant, PTL

(***************************************************************************)
(* execActionTable reads only rows that readActionTable has filled in, of  *)
(* a table that is on the heap (dsp.c:208-214).                            *)
(***************************************************************************)
THEOREM RowsWereRead == Spec => []PlaysReadRows
<1>1. TypeInv /\ PlayInv => PlaysReadRows
  <2> SUFFICES ASSUME TypeInv, PlayInv, Runs("main"), pc["main"] \in ExecSteps
               PROVE  /\ lines > 0 => heap = "live"
                      /\ \A i \in 0 .. lines - 1 : table[i] # Garbage
    BY DEF PlaysReadRows
  <2>1. lineno = lines /\ \A i \in 0 .. lines - 1 : table[i] \in Rows
    BY DEF TypeInv, Loaded, AfterRead
  <2>2. lines > 0 => heap = "live"
    BY <2>1 DEF Runs, PlayInv, OnHeap, AfterRead
  <2> QED
    BY <2>1, <2>2, RowFacts
<1> QED
  BY <1>1, PlayInvariant, PTL
-----------------------------------------------------------------------------
(***************************************************************************)
(* What _exit leaves behind.  A frame that is clearing has cleared the words  *)
(* before the one it is at; neither frame drives an output once the other  *)
(* or itself has begun to clear.                                           *)
(***************************************************************************)
Zero(k) == out[k] = 0

Cleared ==
  /\ \A f \in Frames : pc[f] = "clear" => \A k \in Words : k < store[f] => Zero(k)
  /\ \A f \in Frames : pc[f] \in {"unmap", "exit"} => \A k \in Words : Zero(k)
  /\ status = "exited" => \A k \in Words : Zero(k)
  /\ pc["handler"] \in {"idle"} \cup ExitSteps

LEMMA ClearedInit == Init => Cleared
BY DEF Init, Cleared, Frames, ExitSteps

\* Up to the installation of the handler.
LEMMA ClearedSetup ==
  ASSUME TypeInv, Cleared, Setup
  PROVE  Cleared'
<1> USE DEF Cleared, Zero, TypeInv, TypeOK, At, Runs, Goto, CallExit, End, Frames, Steps, ExitSteps,
            mappings, reading, playing
<1>1. CASE InitTimer
  BY <1>1 DEF InitTimer
<1>2. CASE InitOuts
  BY <1>2 DEF InitOuts
<1>3. CASE InitAwg
  BY <1>3 DEF InitAwg
<1>4. CASE InstallHandler
  BY <1>4 DEF InstallHandler
<1> QED
  BY <1>1, <1>2, <1>3, <1>4 DEF Setup

\* The two passes over the file.
LEMMA ClearedReading ==
  ASSUME TypeInv, Cleared, Reading
  PROVE  Cleared'
<1> USE DEF Cleared, Zero, TypeInv, TypeOK, At, Runs, Goto, CallExit, End, Frames, Steps, ExitSteps,
            mappings, reading, playing
<1>1. CASE Open
  BY <1>1 DEF Open
<1>2. CASE Malloc
  BY <1>2 DEF Malloc
<1>3. CASE ReadRow
  BY <1>3 DEF ReadRow
<1>4. CASE ReadIntoNull
  BY <1>4 DEF ReadIntoNull
<1>5. CASE ReadFails
  BY <1>5 DEF ReadFails
<1>6. CASE EndRead
  BY <1>6 DEF EndRead
<1>7. CASE SetScheduler
  BY <1>7 DEF SetScheduler
<1> QED
  BY <1>1, <1>2, <1>3, <1>4, <1>5, <1>6, <1>7 DEF Reading

\* execActionTable: while it runs, nobody is clearing.
LEMMA ClearedPlaying ==
  ASSUME TypeInv, Cleared, Playing
  PROVE  Cleared'
<1> USE DEF Cleared, Zero, TypeInv, TypeOK, At, Runs, Goto, CallExit, End, Frames, Steps, ExitSteps,
            mappings, reading, playing
<1>1. CASE SetTime
  BY <1>1 DEF SetTime
<1>2. CASE GetTime
  BY <1>2 DEF GetTime
<1>3. CASE Spin
  BY <1>3 DEF Spin
<1>4. CASE StartRow
  BY <1>4 DEF StartRow
<1>5. CASE StoreRow
  BY <1>5 DEF StoreRow
<1>6. CASE StoreRowFaults
  BY <1>6 DEF StoreRowFaults
<1>7. CASE EndExec
  BY <1>7 DEF EndExec
<1> QED
  BY <1>1, <1>2, <1>3, <1>4, <1>5, <1>6, <1>7 DEF Playing

\* _exit, in either frame.
LEMMA ClearedExiting ==
  ASSUME TypeInv, Cleared, NEW f \in Frames, Exiting(f)
  PROVE  Cleared'
<1> USE DEF Cleared, Zero, TypeInv, TypeOK, At, Runs, Goto, CallExit, End, Frames, Steps, ExitSteps,
            mappings, reading, playing
<1>1. CASE FreeTable(f)
  BY <1>1 DEF FreeTable, Words
<1>2. CASE FreeUndefined(f)
  BY <1>2 DEF FreeUndefined
<1>3. CASE Clear(f)
  <2> DEFINE n == store[f]
  <2>1. n \in Words /\ \A k \in Words : out'[k] = IF k = n THEN 0 ELSE out[k]
    BY <1>3 DEF Clear
  <2>2. \A k \in Words : k < n => out[k] = 0
    BY <1>3 DEF Clear
  <2>3. \A k \in Words : (k < n + 1 => out'[k] = 0) /\ (out[k] = 0 => out'[k] = 0)
    BY <2>1, <2>2 DEF Words
  <2>4. IsLast(n) => \A k \in Words : out'[k] = 0
    BY <2>3 DEF IsLast, Words
  <2>5. pc'[f] = "clear" => store'[f] = n + 1
    BY <1>3 DEF Clear
  <2>6. pc'[f] \in {"unmap", "exit"} => IsLast(n)
    BY <1>3 DEF Clear
  <2>7. \A g \in Frames \ {f} : pc'[g] = pc[g] /\ store'[g] = store[g]
    BY <1>3 DEF Clear
  <2>8. status' = status /\ pc'["handler"] \in {"idle"} \cup ExitSteps
    BY <1>3 DEF Clear
  <2> HIDE DEF n
  <2> QED
    BY <2>3, <2>4, <2>5, <2>6, <2>7, <2>8
<1>4. CASE ClearFaults(f)
  BY <1>4 DEF ClearFaults
<1>5. CASE Unmap(f)
  BY <1>5 DEF Unmap
<1>6. CASE Finish(f)
  BY <1>6 DEF Finish
<1>7. CASE FinishHangs(f)
  BY <1>7 DEF FinishHangs
<1> QED
  BY <1>1, <1>2, <1>3, <1>4, <1>5, <1>6, <1>7 DEF Exiting

\* Signals and the passage of time.
LEMMA ClearedEnvironment ==
  ASSUME TypeInv, Cleared, Interrupt \/ Kill \/ Tick \/ UNCHANGED vars
  PROVE  Cleared'
<1> USE DEF Cleared, Zero, TypeInv, TypeOK, At, Runs, Goto, CallExit, End, Frames, Steps, ExitSteps,
            mappings, reading, playing
<1>1. CASE Interrupt
  BY <1>1 DEF Interrupt
<1>2. CASE Kill
  BY <1>2 DEF Kill
<1>3. CASE Tick
  BY <1>3 DEF Tick
<1>4. CASE UNCHANGED vars
  BY <1>4 DEF vars
<1> QED
  BY <1>1, <1>2, <1>3, <1>4

LEMMA ClearedStep == TypeInv /\ Cleared /\ [Next]_vars => Cleared'
BY ClearedSetup, ClearedReading, ClearedPlaying, ClearedExiting, ClearedEnvironment
   DEF Next, Program, Ended

(***************************************************************************)
(* A process that ends by exit() has left every output at zero, at         *)
(* whatever step of main the handler was entered (dsp.c:225-236).          *)
(***************************************************************************)
THEOREM ExitsClear == Spec => []ExitClears
<1>1. Cleared => ExitClears
  BY DEF Cleared, Zero, ExitClears
<1> QED
  BY <1>1, ClearedInit, ClearedStep, TypeInvariant, PTL DEF Spec

(***************************************************************************)
(* The handler never returns to main, so that from its first step on the   *)
(* outputs only go to zero (dsp.c:220-223).                                *)
(***************************************************************************)
THEOREM HandlerClears == Spec => HandlerOnlyClears
<1>1. ASSUME TypeInv, [Next]_vars, pc["handler"] # "idle", NEW k \in Words
      PROVE  out'[k] \in {out[k], 0}
  <2> USE DEF TypeInv, TypeOK, At, Runs
  <2>1. CASE Setup \/ Reading \/ Playing
    BY <1>1, <2>1 DEF Setup, InitTimer, InitOuts, InitAwg, InstallHandler, Reading, Open, Malloc, ReadRow,
       ReadIntoNull, ReadFails, EndRead, SetScheduler, Playing, SetTime, GetTime, Spin, StartRow,
       StoreRow, StoreRowFaults, EndExec
  <2>2. ASSUME NEW f \in Frames, Exiting(f) PROVE out'[k] \in {out[k], 0}
    BY <1>1, <2>2 DEF Exiting, FreeTable, FreeUndefined, Clear, ClearFaults, Unmap, Finish,
       FinishHangs
  <2>3. CASE Interrupt \/ Kill \/ Tick \/ UNCHANGED vars
    BY <1>1, <2>3 DEF Interrupt, Kill, Tick, vars
  <2> QED
    BY <1>1, <2>1, <2>2, <2>3 DEF Next, Program, Ended
<1>2. TypeInv /\ [Next]_vars => [pc["handler"] # "idle" => \A k \in Words : out'[k] \in {out[k], 0}]_vars
  BY <1>1
<1> QED
  BY <1>2, TypeInvariant, PTL DEF Spec, HandlerOnlyClears
=============================================================================
