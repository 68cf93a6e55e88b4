------------------------------ MODULE Devices ------------------------------
(***************************************************************************)
(* The three memory-mapped devices of dsp as its compiled code drives      *)
(* them, store by store and by physical address: initTimer (timer.c),      *)
(* initOuts and out_setpins_P/N (rpouts.c), fpga_awg_init, _write_val_a/b, *)
(* _exit and __awg_cleanup_mem (fpga_awg.c), in the order in which main    *)
(* and _exit call them.                                                    *)
(*                                                                         *)
(* timer.c and rpouts.c store through volatile pointers, in the order of   *)
(* the source.  fpga_awg.c does not: within one call the compiler may make *)
(* the stores in any order, and leave out one that a later store of the    *)
(* same call overwrites.  It may not move them across a call, which could  *)
(* look at the memory.  /dev/mem is opened with O_SYNC, so that the bus    *)
(* keeps the order of the instructions.                                    *)
(*                                                                         *)
(* Dsp has the rest of main (the file, the waiting, the heap, exit codes). *)
(* Reads of the timer are in GlobalTimer.  0xFFFFFFFF is -1.               *)
(***************************************************************************)
EXTENDS MemoryMap, Sequences

CONSTANTS
  PinValues,    \* what a row of the table may hold for the pins
  AnalogValues, \* and for the analog outputs
  Old,          \* what a register holds before anyone has written to it
  MaxRows       \* bound: no table has more rows

ASSUME DevicesAssumption ==
  /\ PinValues \subseteq Int /\ AnalogValues \subseteq Int
  /\ Old \in Int /\ MaxRows \in Nat

VARIABLES
  pc,           \* the call that is in progress
  fd,           \* fd[d]: is the descriptor of device d open?
  map,          \* map[d]: does its pointer hold a mapping?
  todo,         \* the stores that the call still has to make
  reached,      \* the stores of the call that the bus has seen
  before,       \* the registers when the call began
  mem,          \* mem[w]: the word at address w
  row,          \* the row that is being written
  rows,         \* how many rows have been begun
  interrupted   \* has SIGINT been caught?

vars == <<pc, fd, map, todo, reached, before, mem, row, rows, interrupted>>
device == <<fd, map>>
table == <<row, rows>>

Words == {WordOf(r) : r \in Registers}
Read(r) == mem[WordOf(r)]
Registered == [r \in Registers |-> Read(r)]
RowType == [P : PinValues, N : PinValues, A : AnalogValues, B : AnalogValues]
Zeroes == [P |-> 0, N |-> 0, A |-> 0, B |-> 0]

(***************************************************************************)
(* The stores of each call, in the order of the source.                    *)
(***************************************************************************)
SetP(v) == << <<"PINP_OUT", v>> >>
SetN(v) == << <<"PINN_OUT", v>> >>
SetA(v) == << <<"cha_mem_0", v>>, <<"cha_mem_1", v>> >>
SetB(v) == << <<"chb_mem_0", v>>, <<"chb_mem_1", v>> >>

InitPins == << <<"PINP_DIR", -1>>, <<"PINN_DIR", -1>> >> \o SetP(0) \o SetN(0)

InitGenerator ==
  << <<"state_machine_conf", \h410041>>,
     <<"cha_scale_off", -1>>, <<"cha_count_wrap", 65536 * 2>>,
     <<"cha_count_step", 0>>, <<"cha_start_off", 0>>,
     <<"chb_scale_off", -1>>, <<"chb_count_wrap", 65536 * 2>>,
     <<"chb_count_step", 0>>, <<"chb_start_off", 0>> >>
  \o SetA(0) \o SetB(0) \o << <<"state_machine_conf", \h110011>> >>

\* XTime_SetTime(0).
StopAndClear ==
  << <<"GTIMER_CONTROL", 0>>, <<"GTIMER_COUNTER_LOWER", 0>>,
     <<"GTIMER_COUNTER_UPPER", 0>>, <<"GTIMER_CONTROL", 1>> >>

StoresOf(call, r) ==
  CASE call = "initOuts"      -> InitPins
    [] call = "fpga_awg_init" -> InitGenerator
    [] call = "XTime_SetTime" -> StopAndClear
    [] call \in {"P", "exitP"} -> SetP(r.P)
    [] call \in {"N", "exitN"} -> SetN(r.N)
    [] call = "A"             -> SetA(r.A)
    [] call = "B"             -> SetB(r.B)
    [] call = "fpga_awg_exit" -> SetA(r.A) \o SetB(r.B)
    [] OTHER                  -> << >>

Stores == StoresOf(pc, row)
RegisterAt(i) == Stores[i][1]

\* The calls whose stores are not volatile.
Relaxed == {"fpga_awg_init", "A", "B", "fpga_awg_exit"}

\* The call that follows the return of each.
Then ==
  [initOuts |-> "awgOpen", fpga_awg_init |-> "XTime_SetTime", XTime_SetTime |-> "loop",
   P |-> "N", N |-> "A", A |-> "B", B |-> "loop",
   exitP |-> "exitN", exitN |-> "fpga_awg_exit", fpga_awg_exit |-> "cleanup"]

Setup == {"timerOpen", "timerMap", "outsOpen", "outsMap", "initOuts", "awgOpen", "awgMap",
          "fpga_awg_init"}
Leaving == {"exitP", "exitN", "fpga_awg_exit", "cleanup"}
Calls == Setup \cup DOMAIN Then \cup Leaving \cup {"loop", "exited", "crashed"}

Init ==
  /\ pc = "timerOpen"
  /\ fd = [d \in Devices |-> FALSE]
  /\ map = [d \in Devices |-> FALSE]
  /\ todo = {} /\ reached = {}
  /\ mem = [w \in Words |-> Old]
  /\ before = [r \in Registers |-> Old]
  /\ row = Zeroes /\ rows = 0
  /\ interrupted = FALSE
-----------------------------------------------------------------------------

\* Begin a call, with row r.
Enter(call, r) ==
  /\ pc' = call
  /\ row' = r
  /\ todo' = DOMAIN StoresOf(call, r)
  /\ reached' = {}
  /\ before' = Registered

(***************************************************************************)
(* open("/dev/mem") and mmap.  main looks at the result of initTimer and   *)
(* of fpga_awg_init, but takes initOuts' 1 for success.                    *)
(***************************************************************************)
OnFailure == [timer |-> "exitP", outs |-> "awgOpen", awg |-> "exitP"]
AtOpen == [timer |-> "timerOpen", outs |-> "outsOpen", awg |-> "awgOpen"]
AtMap == [timer |-> "timerMap", outs |-> "outsMap", awg |-> "awgMap"]
OnSuccess == [timer |-> "outsOpen", outs |-> "initOuts", awg |-> "fpga_awg_init"]

Open(d) ==
  /\ pc = AtOpen[d]
  /\ \/ fd' = [fd EXCEPT ![d] = TRUE] /\ Enter(AtMap[d], Zeroes)
     \/ fd' = fd /\ Enter(OnFailure[d], Zeroes)
  /\ UNCHANGED <<map, mem, rows, interrupted>>

Map(d) ==
  /\ pc = AtMap[d]
  /\ map' = [map EXCEPT ![d] = TRUE]
  /\ Enter(OnSuccess[d], Zeroes)
  /\ UNCHANGED <<fd, mem, rows, interrupted>>

\* Mutant: fpga_awg_init returns without __awg_cleanup_mem.
MapFailsOpen(d) ==
  /\ pc = AtMap[d]
  /\ fd' = fd
  /\ Enter(OnFailure[d], Zeroes)
  /\ UNCHANGED <<map, mem, rows, interrupted>>

\* Only fpga_awg_init closes the descriptor again: __awg_cleanup_mem.
MapFails(d) ==
  /\ pc = AtMap[d]
  /\ fd' = IF d = "awg" THEN [fd EXCEPT ![d] = FALSE] ELSE fd
  /\ Enter(OnFailure[d], Zeroes)
  /\ UNCHANGED <<map, mem, rows, interrupted>>

(***************************************************************************)
(* The stores of a call, as its compiled code makes them.                  *)
(***************************************************************************)
Overwritten(i) == \E j \in todo : j > i /\ RegisterAt(j) = RegisterAt(i)

MayBeNext(i) ==
  IF pc \in Relaxed
    THEN \A j \in todo : j < i => RegisterAt(j) # RegisterAt(i)
    ELSE \A j \in todo : i <= j

Store(i) ==
  LET r == RegisterAt(i) IN
  /\ MayBeNext(i)
  /\ map[DeviceOf(r)] /\ InWindow(DeviceOf(r), WordOf(r))
  /\ mem' = [mem EXCEPT ![WordOf(r)] = Stores[i][2]]
  /\ todo' = todo \ {i}
  /\ reached' = reached \cup {i}
  /\ UNCHANGED <<pc, device, before, table, interrupted>>

\* The compiler leaves a store out.
Omit(i) ==
  /\ pc \in Relaxed
  /\ Overwritten(i)
  /\ todo' = todo \ {i}
  /\ UNCHANGED <<pc, device, reached, before, mem, table, interrupted>>

\* A store through a pointer without a mapping, or past the end of one.
Fault(i) ==
  LET r == RegisterAt(i) IN
  /\ MayBeNext(i)
  /\ ~(map[DeviceOf(r)] /\ InWindow(DeviceOf(r), WordOf(r)))
  /\ pc' = "crashed"
  /\ todo' = {}
  /\ UNCHANGED <<device, reached, before, mem, table, interrupted>>

Returned == pc \in DOMAIN Then /\ todo = {}

Return ==
  /\ Returned
  /\ Enter(Then[pc], row)
  /\ UNCHANGED <<device, mem, rows, interrupted>>

\* main leaves between fpga_awg_init and execActionTable: the file (dsp.c:69-107).
LeaveEarly ==
  /\ pc = "fpga_awg_init" /\ todo = {}
  /\ Enter("exitP", Zeroes)
  /\ UNCHANGED <<device, mem, rows, interrupted>>

\* execActionTable's loop: the next row, or the end of main.
NextRow ==
  /\ pc = "loop"
  /\ rows < MaxRows
  /\ rows' = rows + 1
  /\ \E r \in RowType : Enter("P", r)
  /\ UNCHANGED <<device, mem, interrupted>>

EndLoop ==
  /\ pc = "loop"
  /\ Enter("exitP", Zeroes)
  /\ UNCHANGED <<device, mem, rows, interrupted>>

\* Mutant: the handler goes on with the stores that main had still to make.
InterruptKeepsStores ==
  /\ ~interrupted
  /\ pc \notin Setup \cup {"exited", "crashed"}
  /\ interrupted' = TRUE
  /\ pc' = "exitP"
  /\ UNCHANGED <<device, todo, reached, before, mem, table>>

\* SIGINT between two instructions: what main had still to store is never stored.
Interrupt ==
  /\ ~interrupted
  /\ pc \notin Setup \cup {"exited", "crashed"}
  /\ interrupted' = TRUE
  /\ Enter("exitP", Zeroes)
  /\ UNCHANGED <<device, mem, rows>>

\* __awg_cleanup_mem in fpga_awg_exit: if munmap fails nothing is closed.
Cleanup ==
  /\ pc = "cleanup"
  /\ \/ map' = [map EXCEPT !["awg"] = FALSE] /\ fd' = [fd EXCEPT !["awg"] = FALSE]
     \/ map["awg"] /\ UNCHANGED device
  /\ Enter("exited", Zeroes)
  /\ UNCHANGED <<mem, rows, interrupted>>

Ended == pc \in {"exited", "crashed"} /\ UNCHANGED vars

Next ==
  \/ \E d \in Devices : Open(d) \/ Map(d) \/ MapFails(d)
  \/ \E i \in todo : Store(i) \/ Omit(i) \/ Fault(i)
  \/ Return \/ LeaveEarly \/ NextRow \/ EndLoop \/ Interrupt \/ Cleanup \/ Ended

Spec == Init /\ [][Next]_vars
-----------------------------------------------------------------------------

\* Type correctness.
TypeOK ==
  /\ pc \in Calls
  /\ fd \in [Devices -> BOOLEAN] /\ map \in [Devices -> BOOLEAN]
  /\ todo \subseteq DOMAIN Stores /\ reached \subseteq DOMAIN Stores
  /\ mem \in [Words -> Int] /\ before \in [Registers -> Int]
  /\ row \in RowType \cup {Zeroes} /\ rows \in 0 .. MaxRows
  /\ interrupted \in BOOLEAN

\* The peripheral that a register belongs to, and its offset there where a
\* comment gives it (fpga_awg.h:35-117).
Home(r) == [timer |-> "GLOBALTIMER_0", outs |-> "CFG_0", awg |-> "AWG"][DeviceOf(r)]

DocumentedOffset ==
  [state_machine_conf |-> \h00, cha_scale_off |-> \h04, cha_count_wrap |-> \h08,
   cha_start_off |-> \h0C, cha_count_step |-> \h10, chb_scale_off |-> \h24,
   chb_count_wrap |-> \h28, chb_start_off |-> \h2C, chb_count_step |-> \h30]

(***************************************************************************)
(* Every store of dsp reaches a word of the peripheral it is meant for and *)
(* of no other one, although the timer's page also holds the interrupt     *)
(* controller and the watchdog (xparameters.h:271-329), and the window of  *)
(* rpouts.c spans the generator; and the structure of fpga_awg.h puts each *)
(* register at the offset documented for the FPGA.                         *)
(***************************************************************************)
StoresHitTheirRegister ==
  \A i \in reached : LET r == RegisterAt(i) IN
    /\ Owners(WordOf(r)) = {Home(r)}
    /\ r \in DOMAIN DocumentedOffset =>
         WordOf(r) = Base["awg"] + DocumentedOffset[r] \div 4

(***************************************************************************)
(* Whatever the compiler makes of fpga_awg.c's plain stores, when a call   *)
(* returns each register holds what the last store to it in the source     *)
(* says, and a register that the call does not name is as it was.          *)
(***************************************************************************)
CallsDeliver ==
  Returned => \A r \in Registers :
    LET mine == {i \in DOMAIN Stores : RegisterAt(i) = r} IN
    Read(r) = IF mine = {} THEN before[r]
              ELSE Stores[CHOOSE i \in mine : \A j \in mine : j <= i][2]

(***************************************************************************)
(* The generator's descriptor is open exactly as long as it is mapped:     *)
(* no failure of open, mmap or munmap leaves one without the other         *)
(* (fpga_awg.c:83-102, 139-145).                                           *)
(***************************************************************************)
MappedIffOpen == pc # "awgMap" => (fd["awg"] <=> map["awg"])
=============================================================================
