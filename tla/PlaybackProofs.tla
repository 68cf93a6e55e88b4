--------------------------- MODULE PlaybackProofs ---------------------------
(***************************************************************************)
(* How a run of dsp ends, and that it is a Playback, for any files,        *)
(* values, clock rates and word sizes.                                     *)
(***************************************************************************)
EXTENDS DspProofs

(***************************************************************************)
(* What is known of the rows that are done.  Nothing is played before the  *)
(* timer has been set; the timer has passed every row that is done; and    *)
(* main calls _exit(0) from the end of execActionTable only, the handler   *)
(* never does.                                                             *)
(***************************************************************************)
Played ==
  /\ pc["main"] \in BeforePlay => line = 0 /\ ~timing
  /\ ~timing => time = 0
  /\ line <= lineno
  /\ \A i \in 0 .. line - 1 : time > table[i].clocks
  /\ pc["main"] \in ExitSteps /\ code["main"] = 0 => line = lines /\ lineno = lines
  /\ pc["handler"] # "idle" => code["handler"] = 5
  /\ status = "exited" => \E f \in Frames : pc[f] = "exit"

(***************************************************************************)
(* What is known of the resources that a crash is about: a table that has  *)
(* been freed was freed by a frame that is leaving; the handler exists     *)
(* only once the generator has been mapped; and only a frame that leaves   *)
(* unmaps it again.                                                        *)
(***************************************************************************)
BeforeHandler == {"initTimer", "initOuts", "initAwg", "signal"}
AwgNeeded == {"signal", "open", "malloc", "read"} \cup AfterRead

Resources ==
  /\ heap = "freed" => \E f \in Frames : pc[f] \in {"clear", "unmap", "exit"}
  /\ pc["handler"] # "idle" => installed
  /\ pc["main"] # "idle"
  /\ installed => pc["main"] \notin BeforeHandler
  /\ pc["main"] \in AwgNeeded /\ pc["handler"] # "exit" => awgMap
  /\ CrashCauses

EndInv == Played /\ Resources

LEMMA ClocksInTable ==
  ASSUME TypeInv, NEW i \in 0 .. lineno - 1
  PROVE  table[i].clocks \in Nat
<1>1. table[i] \in Rows
  BY DEF TypeInv, Loaded
<1> QED
  BY <1>1, RowFacts

LEMMA PlayedInit == Init => Played
BY DspAssumption DEF Init, Played, BeforePlay, BeforeRead, Frames, ExitSteps

\* Up to the installation of the handler.
LEMMA PlayedSetup ==
  ASSUME TypeInv, Cleared, PlayInv, Played, Setup
  PROVE  Played'
<1> USE DEF Played, BeforePlay, BeforeRead, AfterRead, At, Runs, Goto, CallExit, End, Frames, Steps,
            ExecSteps, ExitSteps, mappings, reading, playing
<1> USE DEF TypeInv, TypeOK, Loaded, Cleared
<1>1. CASE InitTimer
  BY <1>1 DEF InitTimer
<1>2. CASE InitOuts
  BY <1>2 DEF InitOuts
<1>3. CASE InitAwg
  BY <1>3 DEF InitAwg
<1>4. CASE InstallHandler
  BY <1>4 DEF InstallHandler
<1> QED
  BY <1>1, <1>2, <1>3, <1>4 DEF Setup

\* The two passes over the file.
LEMMA PlayedReading ==
  ASSUME TypeInv, Cleared, PlayInv, Played, Reading
  PROVE  Played'
<1> USE DEF Played, BeforePlay, BeforeRead, AfterRead, At, Runs, Goto, CallExit, End, Frames, Steps,
            ExecSteps, ExitSteps, mappings, reading, playing
<1> USE DEF TypeInv, TypeOK, Loaded, Cleared
<1>1. CASE Open
  BY <1>1 DEF Open
<1>2. CASE Malloc
  BY <1>2 DEF Malloc
<1>3. CASE ReadRow
  BY <1>3 DEF ReadRow
<1>4. CASE ReadIntoNull
  BY <1>4 DEF ReadIntoNull
<1>5. CASE ReadFails
  BY <1>5 DEF ReadFails
<1>6. CASE EndRead
  BY <1>6 DEF EndRead
<1>7. CASE SetScheduler
  BY <1>7 DEF SetScheduler
<1> QED
  BY <1>1, <1>2, <1>3, <1>4, <1>5, <1>6, <1>7 DEF Reading

\* execActionTable.
LEMMA PlayedPlaying ==
  ASSUME TypeInv, Cleared, PlayInv, Played, Playing
  PROVE  Played'
<1> USE DEF Played, BeforePlay, BeforeRead, AfterRead, At, Runs, Goto, CallExit, End, Frames, Steps,
            ExecSteps, ExitSteps, mappings, reading, playing
<1> USE DEF TypeInv, TypeOK, Loaded, Cleared
<1>1. CASE SetTime
  BY <1>1 DEF SetTime
<1>2. CASE GetTime
  BY <1>2 DEF GetTime
<1>3. CASE Spin
  BY <1>3 DEF Spin
<1>4. CASE StartRow
  BY <1>4 DEF StartRow
<1>5. CASE StoreRow
  <2>1. time > table[line].clocks
    BY <1>5, ClocksInTable DEF StoreRow, PlayInv, Clock
  <2>2. line' \in {line, line + 1} /\ UNCHANGED <<time, table, lines, lineno, timing, status, code>>
    BY <1>5 DEF StoreRow
  <2>3. ASSUME NEW i \in 0 .. line' - 1 PROVE time' > table'[i].clocks
    <3>1. i \in 0 .. line - 1 \/ i = line
      <4>1. line \in Nat /\ (line' = line \/ line' = line + 1)
        BY <2>2, SlotFacts
      <4> QED
        BY <4>1
    <3>2. time' = time /\ table' = table
      BY <2>2
    <3> QED
      BY <2>1, <3>1, <3>2
  <2>4. line' <= lineno'
    BY <1>5, <2>2 DEF StoreRow
  <2>5. pc'["main"] \in {"write", "test"} /\ pc'["handler"] = "idle"
    BY <1>5 DEF StoreRow
  <2>6. time' \in Nat /\ (~timing' => time' = 0)
    BY <2>2
  <2>7. status' # "exited"
    BY <1>5 DEF StoreRow
  <2> QED
    BY <2>2, <2>3, <2>4, <2>5, <2>6, <2>7
<1>6. CASE StoreRowFaults
  BY <1>6 DEF StoreRowFaults
<1>7. CASE EndExec
  BY <1>7 DEF EndExec
<1> QED
  BY <1>1, <1>2, <1>3, <1>4, <1>5, <1>6, <1>7 DEF Playing

\* _exit, in either frame.
LEMMA PlayedExiting ==
  ASSUME TypeInv, Cleared, PlayInv, Played, NEW f \in Frames, Exiting(f)
  PROVE  Played'
<1> USE DEF Played, BeforePlay, BeforeRead, AfterRead, At, Runs, Goto, CallExit, End, Frames, Steps,
            ExecSteps, ExitSteps, mappings, reading, playing
<1> USE DEF TypeInv, TypeOK, Loaded, Cleared
<1>1. CASE FreeTable(f)
  BY <1>1 DEF FreeTable
<1>2. CASE FreeUndefined(f)
  BY <1>2 DEF FreeUndefined
<1>3. CASE Clear(f)
  BY <1>3 DEF Clear
<1>4. CASE ClearFaults(f)
  BY <1>4 DEF ClearFaults
<1>5. CASE Unmap(f)
  BY <1>5 DEF Unmap
<1>6. CASE Finish(f)
  BY <1>6 DEF Finish
<1>7. CASE FinishHangs(f)
  BY <1>7 DEF FinishHangs
<1> QED
  BY <1>1, <1>2, <1>3, <1>4, <1>5, <1>6, <1>7 DEF Exiting

\* Signals and the passage of time.
LEMMA PlayedEnvironment ==
  ASSUME TypeInv, Cleared, PlayInv, Played, Interrupt \/ Kill \/ Tick \/ UNCHANGED vars
  PROVE  Played'
<1> USE DEF Played, BeforePlay, BeforeRead, AfterRead, At, Runs, Goto, CallExit, End, Frames, Steps,
            ExecSteps, ExitSteps, mappings, reading, playing
<1> USE DEF TypeInv, TypeOK, Loaded, Cleared
<1>1. CASE Interrupt
  BY <1>1 DEF Interrupt
<1>2. CASE Kill
  BY <1>2 DEF Kill
<1>3. CASE Tick
  <2>1. \A i \in 0 .. line - 1 : time + 1 > table[i].clocks
    BY ClocksInTable
  <2> QED
    BY <1>3, <2>1 DEF Tick
<1>4. CASE UNCHANGED vars
  BY <1>4 DEF vars
<1> QED
  BY <1>1, <1>2, <1>3, <1>4

LEMMA ResourcesInit == Init => Resources
BY DEF Init, Resources, CrashCauses, AwgNeeded, AfterRead, ExecSteps, Frames, BeforeHandler

\* Up to the installation of the handler.
LEMMA ResourcesSetup ==
  ASSUME TypeInv, Cleared, Resources, Setup
  PROVE  Resources'
<1> USE DEF Resources, CrashCauses, AwgNeeded, BeforeHandler, AfterRead, At, Runs, Goto, CallExit,
            End, Frames, Steps, ExecSteps, ExitSteps, mappings, reading, playing
<1> USE DEF TypeInv, TypeOK, Cleared
<1>1. CASE InitTimer
  BY <1>1 DEF InitTimer
<1>2. CASE InitOuts
  BY <1>2 DEF InitOuts
<1>3. CASE InitAwg
  BY <1>3 DEF InitAwg
<1>4. CASE InstallHandler
  BY <1>4 DEF InstallHandler
<1> QED
  BY <1>1, <1>2, <1>3, <1>4 DEF Setup

\* The two passes over the file.
LEMMA ResourcesReading ==
  ASSUME TypeInv, Cleared, Resources, Reading
  PROVE  Resources'
<1> USE DEF Resources, CrashCauses, AwgNeeded, BeforeHandler, AfterRead, At, Runs, Goto, CallExit,
            End, Frames, Steps, ExecSteps, ExitSteps, mappings, reading, playing
<1> USE DEF TypeInv, TypeOK, Cleared
<1>1. CASE Open
  BY <1>1 DEF Open
<1>2. CASE Malloc
  BY <1>2 DEF Malloc
<1>3. CASE ReadRow
  BY <1>3 DEF ReadRow
<1>4. CASE ReadIntoNull
  BY <1>4 DEF ReadIntoNull
<1>5. CASE ReadFails
  BY <1>5 DEF ReadFails
<1>6. CASE EndRead
  BY <1>6 DEF EndRead
<1>7. CASE SetScheduler
  BY <1>7 DEF SetScheduler
<1> QED
  BY <1>1, <1>2, <1>3, <1>4, <1>5, <1>6, <1>7 DEF Reading

\* execActionTable.
LEMMA ResourcesPlaying ==
  ASSUME TypeInv, Cleared, Resources, Playing
  PROVE  Resources'
<1> USE DEF Resources, CrashCauses, AwgNeeded, BeforeHandler, AfterRead, At, Runs, Goto, CallExit,
            End, Frames, Steps, ExecSteps, ExitSteps, mappings, reading, playing
<1> USE DEF TypeInv, TypeOK, Cleared
<1>1. CASE SetTime
  BY <1>1 DEF SetTime
<1>2. CASE GetTime
  BY <1>2 DEF GetTime
<1>3. CASE Spin
  BY <1>3 DEF Spin
<1>4. CASE StartRow
  BY <1>4 DEF StartRow
<1>5. CASE StoreRow
  BY <1>5 DEF StoreRow
<1>6. CASE StoreRowFaults
  <2>1. pc["main"] = "write" /\ pc["handler"] = "idle" /\ (~outsMap \/ ~awgMap)
    BY <1>6 DEF StoreRowFaults, Mapped
  <2>2. UNCHANGED <<pc, heap, installed, outsMap, awgMap>>
    BY <1>6 DEF StoreRowFaults
  <2> QED
    BY <2>1, <2>2
<1>7. CASE EndExec
  BY <1>7 DEF EndExec
<1> QED
  BY <1>1, <1>2, <1>3, <1>4, <1>5, <1>6, <1>7 DEF Playing

\* _exit, in either frame.
LEMMA ResourcesExiting ==
  ASSUME TypeInv, Cleared, Resources, NEW f \in Frames, Exiting(f)
  PROVE  Resources'
<1> USE DEF Resources, CrashCauses, AwgNeeded, BeforeHandler, AfterRead, At, Runs, Goto, CallExit,
            End, Frames, Steps, ExecSteps, ExitSteps, mappings, reading, playing
<1> USE DEF TypeInv, TypeOK, Cleared
<1>1. CASE FreeTable(f)
  BY <1>1 DEF FreeTable
<1>2. CASE FreeUndefined(f)
  <2>1. pc[f] = "free" /\ (f = "main" => pc["handler"] = "idle")
    BY <1>2 DEF FreeUndefined
  <2>2. UNCHANGED <<pc, heap, installed, outsMap, awgMap>>
    BY <1>2 DEF FreeUndefined
  <2>3. \/ heap = "freed"
        \/ f = "handler" /\ pc["main"] \in {"read", "free"}
    BY <1>2 DEF FreeUndefined, MidHeap
  <2>4. f = "handler" /\ pc["main"] \in {"read"} \cup ExitSteps
    BY <2>1, <2>3
  <2> QED
    BY <2>1, <2>2, <2>4
<1>3. CASE Clear(f)
  BY <1>3 DEF Clear
<1>4. CASE ClearFaults(f)
  <2>1. pc[f] = "clear" /\ (f = "main" => pc["handler"] = "idle") /\ (~outsMap \/ ~awgMap)
    BY <1>4 DEF ClearFaults, Mapped
  <2>2. UNCHANGED <<pc, heap, installed, outsMap, awgMap>>
    BY <1>4 DEF ClearFaults
  <2>3. f = "handler" /\ ~awgMap => pc["main"] \in ExitSteps
    BY <2>1
  <2> QED
    BY <2>1, <2>2, <2>3
<1>5. CASE Unmap(f)
  BY <1>5 DEF Unmap
<1>6. CASE Finish(f)
  BY <1>6 DEF Finish
<1>7. CASE FinishHangs(f)
  BY <1>7 DEF FinishHangs
<1> QED
  BY <1>1, <1>2, <1>3, <1>4, <1>5, <1>6, <1>7 DEF Exiting

\* Signals and the passage of time.
LEMMA ResourcesEnvironment ==
  ASSUME TypeInv, Cleared, Resources, Interrupt \/ Kill \/ Tick \/ UNCHANGED vars
  PROVE  Resources'
<1> USE DEF Resources, CrashCauses, AwgNeeded, BeforeHandler, AfterRead, At, Runs, Goto, CallExit,
            End, Frames, Steps, ExecSteps, ExitSteps, mappings, reading, playing
<1> USE DEF TypeInv, TypeOK, Cleared
<1>1. CASE Interrupt
  BY <1>1 DEF Interrupt
<1>2. CASE Kill
  BY <1>2 DEF Kill
<1>3. CASE Tick
  BY <1>3 DEF Tick
<1>4. CASE UNCHANGED vars
  BY <1>4 DEF vars
<1> QED
  BY <1>1, <1>2, <1>3, <1>4

LEMMA EndStep == TypeInv /\ PlayInv /\ Cleared /\ EndInv /\ [Next]_vars => EndInv'
BY PlayedSetup, PlayedReading, PlayedPlaying, PlayedExiting, PlayedEnvironment,
   ResourcesSetup, ResourcesReading, ResourcesPlaying, ResourcesExiting, ResourcesEnvironment
   DEF Next, Program, Ended, EndInv

RunInv == TypeInv /\ PlayInv /\ Cleared /\ EndInv

LEMMA RunInvariant == Spec => []RunInv
<1>1. Init => Cleared /\ EndInv
  BY ClearedInit, PlayedInit, ResourcesInit DEF EndInv
<1> QED
  BY <1>1, ClearedStep, EndStep, PlayInvariant, PTL DEF Spec, RunInv

(***************************************************************************)
(* The causes of a crash are all there are, for any file: the test of      *)
(* initOuts that never fires, malloc unchecked, _exit after a failed       *)
(* fpga_awg_init, and a handler that finds main at the C library's heap or *)
(* already leaving (dsp.c:48-61, 90, 220-236).                             *)
(***************************************************************************)
THEOREM CrashesAreKnown == Spec => []CrashCauses
BY RunInvariant, PTL DEF RunInv, EndInv, Resources

(***************************************************************************)
(* Exit status 0 is the word of a run that has played all the lines it     *)
(* counted, each after its time, wherever SIGINT struck (dsp.c:208-223).   *)
(***************************************************************************)
THEOREM ZeroIsTold == Spec => []ZeroMeansPlayed
<1>1. RunInv => ZeroMeansPlayed
  <2> SUFFICES ASSUME RunInv, ExitedWith(0)
               PROVE  /\ line = lines /\ lineno = lines
                      /\ \A i \in 0 .. lines - 1 : time > table[i].clocks
    BY DEF ZeroMeansPlayed
  <2>1. pc["handler"] = "idle" /\ code["main"] = 0
    BY DEF RunInv, EndInv, Played, ExitedWith
  <2>2. pc["main"] = "exit"
    BY <2>1 DEF RunInv, EndInv, Played, ExitedWith, Frames
  <2> QED
    BY <2>1, <2>2 DEF RunInv, EndInv, Played, ExitSteps
<1> QED
  BY <1>1, RunInvariant, PTL
-----------------------------------------------------------------------------
(***************************************************************************)
(* The steps as steps of a Playback.  Whatever does not touch the table,   *)
(* the time or the outputs, and moves no channel, is a stutter.            *)
(***************************************************************************)
LEMMA WordFacts ==
  /\ \A c \in Channels : VisibleWord(c) \in Words /\ ChannelOf(VisibleWord(c)) = c
  /\ \A c, d \in Channels : VisibleWord(c) = VisibleWord(d) => c = d
  /\ \A c \in Channels : VisibleWord(c) \in PinWords <=> c \in {"P", "N"}
  /\ \A k \in Words : (\E c \in Channels : VisibleWord(c) = k) \/ k \in {4, 6}
  /\ \A c \in Channels : VisibleWord(c) # 4 /\ VisibleWord(c) < 6
BY DEF Channels, VisibleWord, ChannelOf, Words, PinWords

Still ==
  /\ UNCHANGED <<table, lineno, time>>
  /\ \A c \in Channels : Pos(c)' = Pos(c)
  /\ \A c \in Channels, f \in Frames : ClearedBy(f, c)' <=> ClearedBy(f, c)

LEMMA StillIsStutter ==
  ASSUME Still, \A c \in Channels : out'[VisibleWord(c)] = out[VisibleWord(c)]
  PROVE  UNCHANGED Player!vars
<1>1. [c \in Channels |-> Pos(c)]' = [c \in Channels |-> Pos(c)]
  BY DEF Still
<1>2. [c \in Channels |-> out[VisibleWord(c)]]' = [c \in Channels |-> out[VisibleWord(c)]]
  OBVIOUS
<1>3. [c \in Channels |-> \E f \in Frames : ClearedBy(f, c)]'
        = [c \in Channels |-> \E f \in Frames : ClearedBy(f, c)]
  BY DEF Still
<1> QED
  BY <1>1, <1>2, <1>3 DEF Still, Player!vars

LEMMA PlaybackInit == Init => Player!Init
<1> SUFFICES ASSUME Init PROVE Player!Init
  OBVIOUS
<1>1. pc["main"] = "initTimer" /\ pc["handler"] = "idle"
  BY DEF Init, Frames
<1>2. \A c \in Channels : Pos(c) = 0 /\ ~\E f \in Frames : ClearedBy(f, c)
  BY <1>1 DEF Init, Pos, ClearedBy, Frames
<1>3. [c \in Channels |-> out[VisibleWord(c)]] \in [Channels -> Values]
  BY WordFacts DEF Init
<1>4. [c \in Channels |-> Pos(c)] = [c \in Channels |-> 0]
  BY <1>2
<1>5. [c \in Channels |-> \E f \in Frames : ClearedBy(f, c)] = [c \in Channels |-> FALSE]
  BY <1>2
<1> QED
  BY <1>3, <1>4, <1>5 DEF Init, Player!Init

\* The steps that move a channel, or the time, or the table.
LEMMA Unplaying ==
  ASSUME RunInv, pc["main"] \in BeforePlay
  PROVE  Player!Unplayed
<1>1. line = 0 /\ pc["main"] # "write"
  BY DEF RunInv, EndInv, Played, BeforePlay, BeforeRead
<1> QED
  BY <1>1 DEF Player!Unplayed, Pos

LEMMA OutsArePrepared ==
  ASSUME RunInv, InitOuts
  PROVE  [Player!Next]_(Player!vars)
<1> USE DEF At, Runs, Goto, Frames, mappings, reading, playing
<1> USE DEF RunInv, TypeInv, TypeOK, Still, Pos, ClearedBy
<1>1. Still
  BY DEF InitOuts
<1>2. CASE UNCHANGED out
  BY <1>1, <1>2, StillIsStutter
<1>3. CASE out' = [k \in Words |-> IF k \in PinWords THEN 0 ELSE out[k]]
  <2>1. \A c \in Channels :
          out'[VisibleWord(c)] = IF c \in {"P", "N"} THEN 0 ELSE out[VisibleWord(c)]
    BY <1>3, WordFacts
  <2>2. [c \in Channels |-> out'[VisibleWord(c)]]
          = [c \in Channels |-> IF c \in {"P", "N"} THEN 0 ELSE out[VisibleWord(c)]]
    BY <2>1
  <2>3. \A c \in Channels : [d \in Channels |-> out[VisibleWord(d)]][c] = out[VisibleWord(c)]
    OBVIOUS
  <2>4. UNCHANGED <<table, lineno, time, [c \in Channels |-> Pos(c)],
                    [c \in Channels |-> \E f \in Frames : ClearedBy(f, c)]>>
    BY <1>1
  <2>5. Player!Unplayed
    BY Unplaying DEF InitOuts, BeforePlay, BeforeRead
  <2>6. Player!Prepare({"P", "N"})
    BY <2>2, <2>3, <2>4, <2>5 DEF Player!Prepare
  <2>7. {"P", "N"} \in SUBSET Channels
    BY DEF Channels
  <2> QED
    BY <2>6, <2>7 DEF Player!Next
<1> QED
  BY <1>2, <1>3 DEF InitOuts

LEMMA AwgIsPrepared ==
  ASSUME RunInv, InitAwg
  PROVE  [Player!Next]_(Player!vars)
<1> USE DEF At, Runs, Goto, CallExit, Frames, mappings, reading, playing
<1> USE DEF RunInv, TypeInv, TypeOK, Still, Pos, ClearedBy
<1>1. Still
  BY DEF InitAwg
<1>2. CASE UNCHANGED out
  BY <1>1, <1>2, StillIsStutter
<1>3. CASE out' = [k \in Words |-> IF k \in PinWords THEN out[k] ELSE 0]
  <2>1. \A c \in Channels :
          out'[VisibleWord(c)] = IF c \in {"A", "B"} THEN 0 ELSE out[VisibleWord(c)]
    BY <1>3, WordFacts DEF Channels
  <2>2. [c \in Channels |-> out'[VisibleWord(c)]]
          = [c \in Channels |-> IF c \in {"A", "B"} THEN 0 ELSE out[VisibleWord(c)]]
    BY <2>1
  <2>3. \A c \in Channels : [d \in Channels |-> out[VisibleWord(d)]][c] = out[VisibleWord(c)]
    OBVIOUS
  <2>4. UNCHANGED <<table, lineno, time, [c \in Channels |-> Pos(c)],
                    [c \in Channels |-> \E f \in Frames : ClearedBy(f, c)]>>
    BY <1>1
  <2>5. Player!Unplayed
    BY Unplaying DEF InitAwg, BeforePlay, BeforeRead
  <2>6. Player!Prepare({"A", "B"})
    BY <2>2, <2>3, <2>4, <2>5 DEF Player!Prepare
  <2>7. {"A", "B"} \in SUBSET Channels
    BY DEF Channels
  <2> QED
    BY <2>6, <2>7 DEF Player!Next
<1> QED
  BY <1>2, <1>3 DEF InitAwg

LEMMA RowIsLoaded ==
  ASSUME RunInv, ReadRow
  PROVE  [Player!Next]_(Player!vars)
<1>1. PICK r \in FileRows : table' = [table EXCEPT ![lineno] = ParseRow(r)]
  BY DEF ReadRow
<1>2. ParseRow(r) \in Rows
  BY DEF Rows
<1>3. lineno \in Slots
  BY SlotFacts DEF ReadRow, RunInv, TypeInv, TypeOK
<1>4. Player!Unplayed
  BY Unplaying DEF ReadRow, At, BeforePlay
<1>5. UNCHANGED <<pc, store, out, line, time>> /\ lineno' = lineno + 1
  BY DEF ReadRow, playing
<1>6. UNCHANGED <<time, [c \in Channels |-> Pos(c)],
                  [c \in Channels |-> \E f \in Frames : ClearedBy(f, c)],
                  [c \in Channels |-> out[VisibleWord(c)]]>>
  BY <1>5 DEF Pos, ClearedBy
<1>7. Player!Load(ParseRow(r))
  BY <1>1, <1>3, <1>4, <1>5, <1>6 DEF Player!Load
<1> QED
  BY <1>2, <1>7 DEF Player!Next

LEMMA TimePasses ==
  ASSUME RunInv, Tick
  PROVE  [Player!Next]_(Player!vars)
<1>1. UNCHANGED <<table, lineno, pc, store, out, line>> /\ time' = time + 1
  BY DEF Tick, reading
<1>2. UNCHANGED <<table, lineno, [c \in Channels |-> Pos(c)],
                  [c \in Channels |-> \E f \in Frames : ClearedBy(f, c)],
                  [c \in Channels |-> out[VisibleWord(c)]]>>
  BY <1>1 DEF Pos, ClearedBy
<1> QED
  BY <1>1, <1>2 DEF Player!Next, Player!Tick

(***************************************************************************)
(* A store of a row: at the word that is seen its channel goes on to the   *)
(* next row, and has not been switched off, since nobody is in _exit.      *)
(***************************************************************************)
LEMMA ChannelAdvances ==
  ASSUME RunInv, StoreRow
  PROVE  [Player!Next]_(Player!vars)
<1> DEFINE k == store["main"]
<1>1. k \in Words /\ pc["main"] = "write" /\ pc["handler"] = "idle" /\ line < lineno /\ line \in Nat
  BY SlotFacts DEF StoreRow, At, Runs, RunInv, TypeInv, TypeOK, Loaded, AfterRead, ExecSteps, Frames
<1>2. out' = [out EXCEPT ![k] = table[line].val[ChannelOf(k)]] /\ out \in [Words -> Values]
  BY DEF StoreRow, RunInv, TypeInv, TypeOK
<1>3. UNCHANGED <<table, lineno, time>>
  BY DEF StoreRow, reading
<1>4. /\ pc'["handler"] = "idle"
      /\ \/ k # 6 /\ pc'["main"] = "write" /\ store'["main"] = k + 1 /\ line' = line
         \/ k = 6 /\ pc'["main"] = "test" /\ line' = line + 1
  BY <1>1 DEF StoreRow, At, Runs, Goto, IsLast, RunInv, TypeInv, TypeOK, Frames
<1>5. \A c \in Channels, f \in Frames : ~ClearedBy(f, c) /\ ~ClearedBy(f, c)'
  BY <1>1, <1>4 DEF ClearedBy, Frames
<1>6. \A c \in Channels : /\ Pos(c) = IF k > VisibleWord(c) THEN line + 1 ELSE line
                          /\ Pos(c)' = IF k + 1 > VisibleWord(c) THEN line + 1 ELSE line
  BY <1>1, <1>4, WordFacts DEF Pos, Words
<1>7. \A c \in Channels : VisibleWord(c) \in Words
  BY WordFacts
<1> HIDE DEF k
<1>8. CASE k \in {4, 6}
  <2>1. Still
    BY <1>3, <1>5, <1>6, <1>7, <1>8, WordFacts DEF Still, Words
  <2>2. \A c \in Channels : out'[VisibleWord(c)] = out[VisibleWord(c)]
    BY <1>2, <1>7, <1>8, WordFacts
  <2> QED
    BY <2>1, <2>2, StillIsStutter
<1>9. ASSUME NEW c \in Channels, VisibleWord(c) = k PROVE Player!Advance(c)
  <2> DEFINE pos == [d \in Channels |-> Pos(d)]
             off == [d \in Channels |-> \E f \in Frames : ClearedBy(f, d)]
             shown == [d \in Channels |-> out[VisibleWord(d)]]
  <2>1. ~off[c] /\ off' = off
    BY <1>5
  <2>2. Pos(c) = line /\ \A d \in Channels : Pos(d) \in {line, line + 1}
    BY <1>6, <1>9, <1>1 DEF Words
  <2>3. pos[c] = line /\ line < lineno /\ \A d \in Channels : pos[c] <= pos[d]
    BY <2>2, <1>1
  <2>4. time > table[line].clocks
    BY <1>1, ClocksInTable DEF RunInv, TypeInv, TypeOK, PlayInv, Clock
  <2>5. \A d \in Channels : Pos(d)' = IF d = c THEN Pos(d) + 1 ELSE Pos(d)
    BY <1>1, <1>6, <1>7, <1>9, WordFacts DEF Words
  <2>6. pos' = [pos EXCEPT ![c] = @ + 1]
    BY <2>5
  <2>7. \A d \in Channels :
          out'[VisibleWord(d)] = IF d = c THEN table[line].val[c] ELSE out[VisibleWord(d)]
    BY <1>2, <1>7, <1>9, WordFacts
  <2>8. shown' = [shown EXCEPT ![c] = table[line].val[c]]
    BY <2>7
  <2> QED
    BY <1>3, <2>1, <2>3, <2>4, <2>6, <2>8 DEF Player!Advance
<1> QED
  BY <1>1, <1>8, <1>9, WordFacts DEF Player!Next

(***************************************************************************)
(* A store of _exit: at the word that is seen its channel is switched off, *)
(* perhaps for the second time, by the handler.                            *)
(***************************************************************************)
LEMMA ChannelSwitchesOff ==
  ASSUME RunInv, NEW f \in Frames, Clear(f)
  PROVE  [Player!Next]_(Player!vars)
<1> DEFINE k == store[f]
<1>1. k \in Words /\ pc[f] = "clear"
  BY DEF Clear, At, RunInv, TypeInv, TypeOK
<1>2. out' = [out EXCEPT ![k] = 0] /\ out \in [Words -> Values]
  BY DEF Clear, RunInv, TypeInv, TypeOK
<1>3. UNCHANGED <<table, lineno, time, line>>
  BY DEF Clear, reading, playing
<1>4. /\ \/ k # 6 /\ pc'[f] = "clear" /\ store'[f] = k + 1
         \/ k = 6 /\ pc'[f] = "unmap"
      /\ \A g \in Frames \ {f} : pc'[g] = pc[g] /\ store'[g] = store[g]
  BY DEF Clear, At, Runs, Goto, IsLast, RunInv, TypeInv, TypeOK
<1>5. \A c \in Channels : /\ ClearedBy(f, c) <=> k > VisibleWord(c)
                          /\ ClearedBy(f, c)' <=> k + 1 > VisibleWord(c)
  BY <1>1, <1>4, WordFacts DEF ClearedBy, Words
<1>6. \A c \in Channels, g \in Frames \ {f} : ClearedBy(g, c)' <=> ClearedBy(g, c)
  BY <1>4 DEF ClearedBy
<1>7. \A c \in Channels : Pos(c)' = Pos(c)
  BY <1>1, <1>3, <1>4 DEF Pos, Frames
<1>8. \A c \in Channels : VisibleWord(c) \in Words
  BY WordFacts
<1> HIDE DEF k
<1>9. CASE k \in {4, 6}
  <2>1. \A c \in Channels : ClearedBy(f, c)' <=> ClearedBy(f, c)
    BY <1>5, <1>8, <1>9, WordFacts DEF Words
  <2>2. Still
    BY <1>3, <1>6, <1>7, <2>1 DEF Still
  <2>3. \A c \in Channels : out'[VisibleWord(c)] = out[VisibleWord(c)]
    BY <1>2, <1>8, <1>9, WordFacts
  <2> QED
    BY <2>2, <2>3, StillIsStutter
<1>10. ASSUME NEW c \in Channels, VisibleWord(c) = k PROVE Player!SwitchOff(c)
  <2> DEFINE off == [d \in Channels |-> \E g \in Frames : ClearedBy(g, d)]
             shown == [d \in Channels |-> out[VisibleWord(d)]]
  <2>1. ClearedBy(f, c)' /\ \A d \in Channels \ {c} : ClearedBy(f, d)' <=> ClearedBy(f, d)
    BY <1>1, <1>5, <1>8, <1>10, WordFacts DEF Words
  <2>2. off' = [off EXCEPT ![c] = TRUE]
    BY <1>6, <2>1
  <2>3. shown' = [shown EXCEPT ![c] = 0]
    BY <1>2, <1>8, <1>10, WordFacts
  <2>4. UNCHANGED <<table, lineno, time, [d \in Channels |-> Pos(d)]>>
    BY <1>3, <1>7
  <2> QED
    BY <2>2, <2>3, <2>4 DEF Player!SwitchOff
<1> QED
  BY <1>1, <1>9, <1>10, WordFacts DEF Player!Next

\* Up to the installation of the handler.
LEMMA PlaybackSetup ==
  ASSUME RunInv, Setup
  PROVE  [Player!Next]_(Player!vars)
<1> USE DEF At, Runs, Goto, CallExit, End, Frames, mappings, reading, playing
<1> USE DEF RunInv, TypeInv, TypeOK, Still, Pos, ClearedBy
<1>1. CASE InitTimer
  BY <1>1, StillIsStutter DEF InitTimer
<1>2. CASE InitOuts
  BY <1>2, OutsArePrepared
<1>3. CASE InitAwg
  BY <1>3, AwgIsPrepared
<1>4. CASE InstallHandler
  BY <1>4, StillIsStutter DEF InstallHandler
<1> QED
  BY <1>1, <1>2, <1>3, <1>4 DEF Setup

\* The two passes over the file.
LEMMA PlaybackReading ==
  ASSUME RunInv, Reading
  PROVE  [Player!Next]_(Player!vars)
<1> USE DEF At, Runs, Goto, CallExit, End, Frames, mappings, reading, playing
<1> USE DEF RunInv, TypeInv, TypeOK, Still, Pos, ClearedBy
<1>1. CASE Open
  BY <1>1, StillIsStutter DEF Open
<1>2. CASE Malloc
  BY <1>2, StillIsStutter DEF Malloc
<1>3. CASE ReadRow
  BY <1>3, RowIsLoaded
<1>4. CASE ReadIntoNull
  BY <1>4, StillIsStutter DEF ReadIntoNull
<1>5. CASE ReadFails
  BY <1>5, StillIsStutter DEF ReadFails
<1>6. CASE EndRead
  BY <1>6, StillIsStutter DEF EndRead
<1>7. CASE SetScheduler
  BY <1>7, StillIsStutter DEF SetScheduler
<1> QED
  BY <1>1, <1>2, <1>3, <1>4, <1>5, <1>6, <1>7 DEF Reading

\* execActionTable.
LEMMA PlaybackPlaying ==
  ASSUME RunInv, Playing
  PROVE  [Player!Next]_(Player!vars)
<1> USE DEF At, Runs, Goto, CallExit, End, Frames, mappings, reading, playing
<1> USE DEF RunInv, TypeInv, TypeOK, Still, Pos, ClearedBy
<1>1. CASE SetTime
  <2>1. time = 0
    BY <1>1 DEF SetTime, EndInv, Played, BeforePlay, BeforeRead
  <2> QED
    BY <1>1, <2>1, StillIsStutter DEF SetTime
<1>2. CASE GetTime
  BY <1>2, StillIsStutter DEF GetTime
<1>3. CASE Spin
  BY <1>3, StillIsStutter DEF Spin
<1>4. CASE StartRow
  <2>1. Still
    BY <1>4 DEF StartRow, VisibleWord
  <2> QED
    BY <1>4, <2>1, StillIsStutter DEF StartRow
<1>5. CASE StoreRow
  BY <1>5, ChannelAdvances
<1>6. CASE StoreRowFaults
  BY <1>6, StillIsStutter DEF StoreRowFaults
<1>7. CASE EndExec
  BY <1>7, StillIsStutter DEF EndExec
<1> QED
  BY <1>1, <1>2, <1>3, <1>4, <1>5, <1>6, <1>7 DEF Playing

\* _exit, in either frame.
LEMMA PlaybackExiting ==
  ASSUME RunInv, NEW f \in Frames, Exiting(f)
  PROVE  [Player!Next]_(Player!vars)
<1> USE DEF At, Runs, Goto, CallExit, End, Frames, mappings, reading, playing
<1> USE DEF RunInv, TypeInv, TypeOK, Still, Pos, ClearedBy
<1>1. CASE FreeTable(f)
  <2>1. Still
    BY <1>1 DEF FreeTable, VisibleWord
  <2> QED
    BY <1>1, <2>1, StillIsStutter DEF FreeTable
<1>2. CASE FreeUndefined(f)
  BY <1>2, StillIsStutter DEF FreeUndefined
<1>3. CASE Clear(f)
  BY <1>3, ChannelSwitchesOff
<1>4. CASE ClearFaults(f)
  BY <1>4, StillIsStutter DEF ClearFaults
<1>5. CASE Unmap(f)
  BY <1>5, StillIsStutter DEF Unmap
<1>6. CASE Finish(f)
  BY <1>6, StillIsStutter DEF Finish
<1>7. CASE FinishHangs(f)
  BY <1>7, StillIsStutter DEF FinishHangs
<1> QED
  BY <1>1, <1>2, <1>3, <1>4, <1>5, <1>6, <1>7 DEF Exiting

\* Signals and the passage of time.
LEMMA PlaybackEnvironment ==
  ASSUME RunInv, Interrupt \/ Kill \/ Tick \/ UNCHANGED vars
  PROVE  [Player!Next]_(Player!vars)
<1> USE DEF At, Runs, Goto, CallExit, End, Frames, mappings, reading, playing
<1> USE DEF RunInv, TypeInv, TypeOK, Still, Pos, ClearedBy
<1>1. CASE Interrupt
  BY <1>1, StillIsStutter DEF Interrupt
<1>2. CASE Kill
  BY <1>2, StillIsStutter DEF Kill
<1>3. CASE Tick
  BY <1>3, TimePasses
<1>4. CASE UNCHANGED vars
  <2>1. Still
    BY <1>4 DEF vars
  <2> QED
    BY <1>4, <2>1, StillIsStutter DEF vars
<1> QED
  BY <1>1, <1>2, <1>3, <1>4

(***************************************************************************)
(* For any file, any values and any clock rate, a run of dsp with SIGINT   *)
(* and SIGKILL anywhere is a Playback: the channels go through the rows in *)
(* order and in step, none is skipped and none is early, and what _exit    *)
(* has switched off in one frame the other does not switch on again        *)
(* (dsp.c:206-236).                                                        *)
(***************************************************************************)
THEOREM RunIsPlayback == Spec => ImplementsPlayback
<1>1. RunInv /\ [Next]_vars => [Player!Next]_(Player!vars)
  BY PlaybackSetup, PlaybackReading, PlaybackPlaying, PlaybackExiting, PlaybackEnvironment
     DEF Next, Program, Ended
<1> QED
  BY PlaybackInit, <1>1, RunInvariant, PTL DEF Spec, ImplementsPlayback, Player!Spec
=============================================================================
