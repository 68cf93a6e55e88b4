--------------------------- MODULE DevicesProofs ---------------------------
(***************************************************************************)
(* The stores of dsp to its devices, for any values and any number of      *)
(* rows.                                                                   *)
(*                                                                         *)
(* The leaves that compute addresses name SMT: the numbers are too large   *)
(* for the other prover to write down.                                     *)
(***************************************************************************)
EXTENDS Devices, SequenceTheorems, WellFoundedInduction, TLAPS

-----------------------------------------------------------------------------
(***************************************************************************)
(* The memory map.                                                         *)
(***************************************************************************)

LEMMA RegistersInWindows ==
  ASSUME NEW r \in Registers
  PROVE  DeviceOf(r) \in Devices /\ WordOf(r) \in Words /\ InWindow(DeviceOf(r), WordOf(r))
BY SMT DEF Registers, InWindow, DeviceOf, WordOf, OffsetOf, Base, Size, Devices, Words,
  AwgRegisters,
   awg_reg_t, BufferCells, TimerRegisters, PinRegisters, Word, PageWords, SCU_PERIPH_BASE,
   GLOBAL_TMR_BASEADDR, reserved_regs, AWG_CHA_OFFSET, AWG_CHB_OFFSET

\* No two registers are the same word.
LEMMA RegistersApart ==
  ASSUME NEW r \in Registers, NEW s \in Registers, WordOf(r) = WordOf(s)
  PROVE  r = s
BY SMT DEF Registers, DeviceOf, WordOf, OffsetOf, Base, AwgRegisters,
   awg_reg_t, BufferCells, TimerRegisters, PinRegisters, Word, PageWords, SCU_PERIPH_BASE,
   GLOBAL_TMR_BASEADDR, reserved_regs, AWG_CHA_OFFSET, AWG_CHB_OFFSET

-----------------------------------------------------------------------------
(***************************************************************************)
(* The stores of a call all go to one device.                              *)
(***************************************************************************)
StoresTo(d) == {r \in Registers : DeviceOf(r) = d} \X Int

LEMMA RegisterDevices ==
  /\ \A r \in {"GTIMER_CONTROL", "GTIMER_COUNTER_LOWER", "GTIMER_COUNTER_UPPER"} :
       r \in Registers /\ DeviceOf(r) = "timer"
  /\ \A r \in {"PINP_DIR", "PINN_DIR", "PINP_OUT", "PINN_OUT"} :
       r \in Registers /\ DeviceOf(r) = "outs"
  /\ \A r \in AwgRegisters : r \in Registers /\ DeviceOf(r) = "awg"
BY DEF Registers, DeviceOf, AwgRegisters, TimerRegisters, PinRegisters, awg_reg_t, BufferCells

AnyRow == RowType \cup {Zeroes}

LEMMA RowIsInt ==
  ASSUME NEW r \in AnyRow
  PROVE  r.P \in Int /\ r.N \in Int /\ r.A \in Int /\ r.B \in Int
<1>1. CASE r \in RowType
  <2>1. r.P \in PinValues /\ r.N \in PinValues /\ r.A \in AnalogValues /\ r.B \in AnalogValues
    BY <1>1 DEF RowType
  <2> QED
    BY <2>1, DevicesAssumption
<1>2. CASE r = Zeroes
  BY <1>2 DEF Zeroes
<1> QED
  BY <1>1, <1>2 DEF AnyRow

LEMMA PinStores ==
  ASSUME NEW v \in Int
  PROVE  SetP(v) \in Seq(StoresTo("outs")) /\ SetN(v) \in Seq(StoresTo("outs"))
BY RegisterDevices DEF SetP, SetN, StoresTo

LEMMA AnalogStores ==
  ASSUME NEW v \in Int
  PROVE  SetA(v) \in Seq(StoresTo("awg")) /\ SetB(v) \in Seq(StoresTo("awg"))
BY RegisterDevices DEF SetA, SetB, StoresTo, AwgRegisters, BufferCells

LEMMA InitStores ==
  /\ InitPins \in Seq(StoresTo("outs"))
  /\ InitGenerator \in Seq(StoresTo("awg"))
  /\ StopAndClear \in Seq(StoresTo("timer"))
<1>1. InitPins \in Seq(StoresTo("outs"))
  <2>1. << <<"PINP_DIR", -1>>, <<"PINN_DIR", -1>> >> \in Seq(StoresTo("outs"))
    BY RegisterDevices DEF StoresTo
  <2>2. SetP(0) \in Seq(StoresTo("outs")) /\ SetN(0) \in Seq(StoresTo("outs"))
    BY PinStores
  <2> QED
    BY <2>1, <2>2, ConcatProperties DEF InitPins
<1>2. InitGenerator \in Seq(StoresTo("awg"))
  <2> DEFINE conf == << <<"state_machine_conf", \h410041>>,
     <<"cha_scale_off", -1>>, <<"cha_count_wrap", 65536 * 2>>,
     <<"cha_count_step", 0>>, <<"cha_start_off", 0>>,
     <<"chb_scale_off", -1>>, <<"chb_count_wrap", 65536 * 2>>,
     <<"chb_count_step", 0>>, <<"chb_start_off", 0>> >>
             start == << <<"state_machine_conf", \h110011>> >>
  <2>1. conf \in Seq(StoresTo("awg")) /\ start \in Seq(StoresTo("awg"))
    BY RegisterDevices, SMT DEF StoresTo, AwgRegisters, awg_reg_t
  <2>2. InitGenerator = conf \o SetA(0) \o SetB(0) \o start
    BY SMT DEF InitGenerator
  <2> HIDE DEF conf, start
  <2> QED
    BY <2>1, <2>2, AnalogStores, ConcatProperties
<1>3. StopAndClear \in Seq(StoresTo("timer"))
  BY RegisterDevices DEF StopAndClear, StoresTo
<1> QED
  BY <1>1, <1>2, <1>3

LEMMA StoresOfCall ==
  ASSUME NEW call, NEW r \in AnyRow
  PROVE  \E d \in Devices : StoresOf(call, r) \in Seq(StoresTo(d))
<1>1. << >> \in Seq(StoresTo("awg")) /\ {"timer", "outs", "awg"} = Devices
  BY DEF Devices
<1>2. SetA(r.A) \o SetB(r.B) \in Seq(StoresTo("awg"))
  BY RowIsInt, AnalogStores, ConcatProperties
<1> QED
  BY <1>1, <1>2, RowIsInt, PinStores, AnalogStores, InitStores DEF StoresOf

LEMMA StoreFacts ==
  ASSUME NEW call, NEW r \in AnyRow, NEW i \in DOMAIN StoresOf(call, r)
  PROVE  /\ i \in Nat
         /\ StoresOf(call, r)[i][1] \in Registers
         /\ StoresOf(call, r)[i][2] \in Int
         /\ \A j \in DOMAIN StoresOf(call, r) :
              DeviceOf(StoresOf(call, r)[j][1]) = DeviceOf(StoresOf(call, r)[i][1])
<1>1. PICK d \in Devices : StoresOf(call, r) \in Seq(StoresTo(d))
  BY StoresOfCall
<1> DEFINE s == StoresOf(call, r)
<1>2. DOMAIN s = 1 .. Len(s) /\ Len(s) \in Nat /\ \A j \in DOMAIN s : s[j] \in StoresTo(d)
  BY <1>1
<1>3. \A j \in DOMAIN s : s[j][1] \in Registers /\ DeviceOf(s[j][1]) = d /\ s[j][2] \in Int
  BY <1>2 DEF StoresTo
<1> HIDE DEF s
<1> QED
  BY <1>2, <1>3 DEF s
-----------------------------------------------------------------------------
(***************************************************************************)
(* The inductive invariant.  The stores of a call that have been made went *)
(* through a mapping.  Within a call, the last store of the source to a    *)
(* register is never left out, and once it is made no other store to that  *)
(* register is still to come; a register that is not named keeps what it   *)
(* held.  The generator is opened and mapped in two steps, and nobody      *)
(* looks in between but fpga_awg_init itself.                              *)
(***************************************************************************)
OnBus == \A i \in reached : map[DeviceOf(RegisterAt(i))]

LastToItsRegister(i) == \A j \in DOMAIN Stores : j > i => RegisterAt(j) # RegisterAt(i)

Delivering ==
  /\ \A i \in DOMAIN Stores : i \notin todo /\ LastToItsRegister(i) =>
       /\ Read(RegisterAt(i)) = Stores[i][2]
       /\ \A j \in todo : RegisterAt(j) # RegisterAt(i)
  /\ \A r \in Registers : (\A i \in reached : RegisterAt(i) # r) => Read(r) = before[r]

BeforeAwg == {"timerOpen", "timerMap", "outsOpen", "outsMap", "initOuts", "awgOpen"}

AwgDescriptor ==
  /\ pc \in BeforeAwg => ~fd["awg"] /\ ~map["awg"]
  /\ pc = "awgMap" => fd["awg"] /\ ~map["awg"]
  /\ MappedIffOpen

DevicesInv == TypeOK /\ OnBus /\ Delivering /\ AwgDescriptor

LEMMA InitHolds == Init => DevicesInv
<1> SUFFICES ASSUME Init PROVE DevicesInv
  OBVIOUS
<1>1. Stores = << >>
  BY DEF Init, Stores, StoresOf
<1>2. TypeOK
  <2>1. pc \in Calls /\ row \in RowType \cup {Zeroes}
    BY DEF Init, Calls, Setup
  <2>2. mem \in [Words -> Int] /\ before \in [Registers -> Int] /\ rows \in 0 .. MaxRows
    BY DevicesAssumption DEF Init
  <2> QED
    BY <2>1, <2>2 DEF Init, TypeOK
<1>3. \A r \in Registers : Read(r) = before[r]
  BY RegistersInWindows DEF Init, Read
<1>4. OnBus /\ Delivering
  BY <1>1, <1>3 DEF Init, OnBus, Delivering
<1>5. AwgDescriptor
  BY DEF Init, AwgDescriptor, MappedIffOpen, BeforeAwg, Devices
<1> QED
  BY <1>2, <1>4, <1>5 DEF DevicesInv

\* Every call begins with nothing made and everything to do.
LEMMA EnterHolds ==
  ASSUME TypeOK, NEW call \in Calls, NEW r \in AnyRow, Enter(call, r), UNCHANGED mem
  PROVE  /\ pc' = call /\ row' = r
         /\ pc' \in Calls /\ row' \in AnyRow
         /\ todo' \subseteq DOMAIN Stores' /\ reached' \subseteq DOMAIN Stores'
         /\ mem' \in [Words -> Int] /\ before' \in [Registers -> Int]
         /\ OnBus' /\ Delivering'
<1>1. pc' = call /\ row' = r /\ todo' = DOMAIN Stores' /\ reached' = {} /\ before' = Registered
  BY DEF Enter, Stores
<1>2. \A q \in Registers : Read(q)' = before'[q] /\ Read(q) \in Int
  BY <1>1, RegistersInWindows DEF Registered, Read, TypeOK
<1>3. before' \in [Registers -> Int]
  BY <1>1, <1>2 DEF Registered
<1>4. Delivering'
  BY <1>1, <1>2 DEF Delivering
<1> QED
  BY <1>1, <1>3, <1>4 DEF OnBus, TypeOK

LEMMA ZeroRow == Zeroes \in AnyRow /\ RowType \subseteq AnyRow
BY DEF AnyRow

LEMMA CallNames ==
  /\ \A d \in Devices : /\ AtOpen[d] \in Calls /\ AtMap[d] \in Calls
                        /\ OnFailure[d] \in Calls /\ OnSuccess[d] \in Calls
  /\ \A call \in DOMAIN Then : Then[call] \in Calls
  /\ {"P", "exitP", "exited", "crashed", "loop"} \subseteq Calls
BY DEF Devices, AtOpen, AtMap, OnFailure, OnSuccess, Then, Calls, Setup, Leaving

\* What a step that begins a call leaves to be shown.
LEMMA BeginsCall ==
  ASSUME DevicesInv, NEW call \in Calls, NEW r \in AnyRow, Enter(call, r), UNCHANGED mem,
         fd' \in [Devices -> BOOLEAN], map' \in [Devices -> BOOLEAN],
         rows' \in 0 .. MaxRows, interrupted' \in BOOLEAN, AwgDescriptor'
  PROVE  DevicesInv'
<1>1. TypeOK'
  BY EnterHolds DEF DevicesInv, TypeOK, AnyRow
<1> QED
  BY <1>1, EnterHolds DEF DevicesInv

\* open and mmap of the three devices.
LEMMA OpenHolds ==
  ASSUME DevicesInv, NEW d \in Devices, Open(d)
  PROVE  DevicesInv'
<1>1. UNCHANGED <<map, mem, rows, interrupted>> /\ pc = AtOpen[d]
  BY DEF Open
<1>2. map["awg"] = FALSE /\ fd["awg"] = FALSE
  BY <1>1 DEF DevicesInv, AwgDescriptor, AtOpen, BeforeAwg, Devices
<1>3. CASE fd' = [fd EXCEPT ![d] = TRUE] /\ Enter(AtMap[d], Zeroes)
  <2>1. AwgDescriptor'
    BY <1>1, <1>2, <1>3 DEF Enter, DevicesInv, TypeOK, AwgDescriptor, MappedIffOpen, BeforeAwg,
      AtMap, Devices
  <2> QED
    BY <1>1, <1>3, <2>1, BeginsCall, CallNames, ZeroRow DEF DevicesInv, TypeOK
<1>4. CASE fd' = fd /\ Enter(OnFailure[d], Zeroes)
  <2>1. AwgDescriptor'
    BY <1>1, <1>2, <1>4 DEF Enter, AwgDescriptor, MappedIffOpen, BeforeAwg, OnFailure, Devices
  <2> QED
    BY <1>1, <1>4, <2>1, BeginsCall, CallNames, ZeroRow DEF DevicesInv, TypeOK
<1> QED
  BY <1>3, <1>4 DEF Open

LEMMA MapHolds ==
  ASSUME DevicesInv, NEW d \in Devices, Map(d)
  PROVE  DevicesInv'
<1>1. UNCHANGED <<fd, mem, rows, interrupted>> /\ pc = AtMap[d] /\ Enter(OnSuccess[d], Zeroes)
  BY DEF Map
<1>2. map' = [map EXCEPT ![d] = TRUE] /\ map' \in [Devices -> BOOLEAN]
  BY DEF Map, DevicesInv, TypeOK
<1>3. AwgDescriptor'
  BY <1>1, <1>2 DEF Enter, DevicesInv, TypeOK, AwgDescriptor, MappedIffOpen, BeforeAwg,
    AtMap, OnSuccess,
     Devices
<1> QED
  BY <1>1, <1>2, <1>3, BeginsCall, CallNames, ZeroRow DEF DevicesInv, TypeOK

LEMMA MapFailsHolds ==
  ASSUME DevicesInv, NEW d \in Devices, MapFails(d)
  PROVE  DevicesInv'
<1>1. UNCHANGED <<map, mem, rows, interrupted>> /\ pc = AtMap[d] /\ Enter(OnFailure[d], Zeroes)
  BY DEF MapFails
<1>2. /\ fd' = IF d = "awg" THEN [fd EXCEPT ![d] = FALSE] ELSE fd
      /\ fd' \in [Devices -> BOOLEAN]
  BY DEF MapFails, DevicesInv, TypeOK
<1>3. AwgDescriptor'
  BY <1>1, <1>2 DEF Enter, DevicesInv, TypeOK, AwgDescriptor, MappedIffOpen, BeforeAwg,
    AtMap, OnFailure,
     Devices
<1> QED
  BY <1>1, <1>2, <1>3, BeginsCall, CallNames, ZeroRow DEF DevicesInv, TypeOK

\* The steps from one call to the next.
LEMMA CallsHold ==
  ASSUME DevicesInv, Return \/ LeaveEarly \/ NextRow \/ EndLoop \/ Interrupt \/ Cleanup
  PROVE  DevicesInv'
<1> USE DEF device
<1>1. CASE Return
  <2>1. Then[pc] \in Calls /\ Enter(Then[pc], row) /\ UNCHANGED <<fd, map, mem, rows, interrupted>>
    BY <1>1, CallNames DEF Return, Returned
  <2>2. pc \in DOMAIN Then /\ Then[pc] # "awgMap" /\ (Then[pc] \in BeforeAwg => pc = "initOuts")
    BY <1>1 DEF Return, Returned, Then, BeforeAwg
  <2>3. AwgDescriptor'
    BY <2>1, <2>2 DEF Enter, DevicesInv, AwgDescriptor, MappedIffOpen, BeforeAwg, Then
  <2> QED
    BY <2>1, <2>3, BeginsCall DEF DevicesInv, TypeOK, AnyRow
<1>2. CASE NextRow
  <2>1. PICK r \in RowType : Enter("P", r)
    BY <1>2 DEF NextRow
  <2>2. AwgDescriptor'
    BY <1>2, <2>1 DEF NextRow, Enter, DevicesInv, AwgDescriptor, MappedIffOpen, BeforeAwg
  <2>3. rows' \in 0 .. MaxRows
    BY <1>2, DevicesAssumption DEF NextRow, DevicesInv, TypeOK
  <2> QED
    BY <1>2, <2>1, <2>2, <2>3, BeginsCall, CallNames, ZeroRow DEF NextRow, DevicesInv, TypeOK
<1>3. CASE EndLoop
  <2>1. AwgDescriptor'
    BY <1>3 DEF EndLoop, Enter, DevicesInv, AwgDescriptor, MappedIffOpen, BeforeAwg
  <2> QED
    BY <1>3, <2>1, BeginsCall, CallNames, ZeroRow DEF EndLoop, DevicesInv, TypeOK
<1>4. CASE Interrupt
  <2>1. AwgDescriptor'
    BY <1>4 DEF Interrupt, Enter, DevicesInv, AwgDescriptor, MappedIffOpen, BeforeAwg, Setup
  <2> QED
    BY <1>4, <2>1, BeginsCall, CallNames, ZeroRow DEF Interrupt, DevicesInv, TypeOK
<1>5. CASE Cleanup
  <2>1. /\ fd' \in [Devices -> BOOLEAN] /\ map' \in [Devices -> BOOLEAN]
        /\ fd'["awg"] <=> map'["awg"]
    BY <1>5 DEF Cleanup, DevicesInv, TypeOK, AwgDescriptor, MappedIffOpen, Devices
  <2>2. AwgDescriptor'
    BY <1>5, <2>1 DEF Cleanup, Enter, AwgDescriptor, MappedIffOpen, BeforeAwg
  <2> QED
    BY <1>5, <2>1, <2>2, BeginsCall, CallNames, ZeroRow DEF Cleanup, DevicesInv, TypeOK
<1>6. CASE LeaveEarly
  <2>1. AwgDescriptor'
    BY <1>6 DEF LeaveEarly, Enter, DevicesInv, AwgDescriptor, MappedIffOpen, BeforeAwg
  <2> QED
    BY <1>6, <2>1, BeginsCall, CallNames, ZeroRow DEF LeaveEarly, DevicesInv, TypeOK
<1> QED
  BY <1>1, <1>2, <1>3, <1>4, <1>5, <1>6

(***************************************************************************)
(* The stores.  Whichever store comes next, none to the same register that *)
(* the source has earlier is still to come.                                *)
(***************************************************************************)
LEMMA StoresInCall ==
  ASSUME TypeOK, NEW i \in DOMAIN Stores
  PROVE  /\ i \in Nat
         /\ RegisterAt(i) \in Registers /\ Stores[i][2] \in Int
         /\ WordOf(RegisterAt(i)) \in Words
         /\ InWindow(DeviceOf(RegisterAt(i)), WordOf(RegisterAt(i)))
         /\ DeviceOf(RegisterAt(i)) \in Devices
         /\ \A j \in DOMAIN Stores : DeviceOf(RegisterAt(j)) = DeviceOf(RegisterAt(i))
BY StoreFacts, RegistersInWindows DEF TypeOK, Stores, RegisterAt, AnyRow

LEMMA StoreHolds ==
  ASSUME DevicesInv, NEW i \in todo, Store(i)
  PROVE  DevicesInv'
<1> DEFINE r == RegisterAt(i)
<1>1. i \in DOMAIN Stores /\ todo \subseteq DOMAIN Stores
  BY DEF DevicesInv, TypeOK
<1>2. r \in Registers /\ Stores[i][2] \in Int /\ WordOf(r) \in Words
  BY <1>1, StoresInCall DEF DevicesInv
<1>3. /\ mem' = [mem EXCEPT ![WordOf(r)] = Stores[i][2]]
      /\ todo' = todo \ {i} /\ reached' = reached \cup {i}
      /\ UNCHANGED <<pc, fd, map, before, row, rows, interrupted>>
  BY DEF Store, device, table
<1>4. Stores' = Stores /\ \A j : RegisterAt(j)' = RegisterAt(j)
  BY <1>3 DEF Stores, RegisterAt
<1>5. TypeOK'
  BY <1>1, <1>2, <1>3, <1>4 DEF DevicesInv, TypeOK
<1>6. OnBus'
  BY <1>3, <1>4 DEF DevicesInv, OnBus, Store
<1>7. \A q \in Registers : Read(q)' = IF q = r THEN Stores[i][2] ELSE Read(q)
  BY <1>2, <1>3, RegistersInWindows, RegistersApart DEF Read, DevicesInv, TypeOK
<1>8. \A j \in todo : j # i /\ RegisterAt(j) = r => i < j
  BY <1>1, StoresInCall DEF Store, MayBeNext, DevicesInv
<1>9. ASSUME NEW k \in DOMAIN Stores, k \notin todo', LastToItsRegister(k)
      PROVE  /\ Read(RegisterAt(k))' = Stores[k][2]
             /\ \A j \in todo' : RegisterAt(j) # RegisterAt(k)
  <2>1. RegisterAt(k) \in Registers
    BY StoresInCall DEF DevicesInv
  <2>2. CASE k = i
    <3>1. Read(RegisterAt(k))' = Stores[k][2]
      BY <1>2, <1>4, <1>7, <2>2
    <3>2. \A j \in todo' : j \in Nat /\ j # i
      BY <1>1, <1>3, StoresInCall DEF DevicesInv
    <3>3. ASSUME NEW j \in todo', RegisterAt(j) = RegisterAt(k) PROVE FALSE
      BY <1>1, <1>3, <1>8, <1>9, <2>2, <3>2, <3>3 DEF LastToItsRegister
    <3> QED
      BY <3>1, <3>3
  <2>3. CASE k # i
    <3>1. k \notin todo
      BY <1>3, <1>9, <2>3
    <3>2. Read(RegisterAt(k)) = Stores[k][2] /\ \A j \in todo : RegisterAt(j) # RegisterAt(k)
      BY <1>9, <3>1 DEF DevicesInv, Delivering
    <3>3. RegisterAt(k) # r
      BY <3>2
    <3> QED
      BY <1>3, <1>4, <1>7, <2>1, <3>2, <3>3
  <2> QED
    BY <2>2, <2>3
<1>10. ASSUME NEW q \in Registers, \A k \in reached' : RegisterAt(k) # q
       PROVE  Read(q)' = before'[q]
  <2>1. q # r /\ Read(q) = before[q]
    BY <1>3, <1>10 DEF DevicesInv, Delivering
  <2> QED
    BY <1>3, <1>7, <2>1
<1>11. \A k : LastToItsRegister(k)' <=> LastToItsRegister(k)
  BY <1>4 DEF LastToItsRegister
<1>12. Delivering'
  BY <1>4, <1>9, <1>10, <1>11 DEF Delivering
<1>13. AwgDescriptor'
  BY <1>3 DEF DevicesInv, AwgDescriptor, MappedIffOpen
<1> QED
  BY <1>5, <1>6, <1>12, <1>13 DEF DevicesInv

\* A store that the compiler leaves out is not the last to its register.
LEMMA OmitHolds ==
  ASSUME DevicesInv, NEW i \in todo, Omit(i)
  PROVE  DevicesInv'
<1>1. i \in DOMAIN Stores /\ todo \subseteq DOMAIN Stores
  BY DEF DevicesInv, TypeOK
<1>2. todo' = todo \ {i} /\ UNCHANGED <<pc, fd, map, reached, before, mem, row, rows, interrupted>>
  BY DEF Omit, device, table
<1>3. Stores' = Stores /\ \A j : RegisterAt(j)' = RegisterAt(j)
  BY <1>2 DEF Stores, RegisterAt
<1>4. TypeOK' /\ OnBus' /\ AwgDescriptor'
  BY <1>1, <1>2, <1>3 DEF DevicesInv, TypeOK, OnBus, AwgDescriptor, MappedIffOpen
<1>5. ~LastToItsRegister(i)
  BY <1>1 DEF Omit, Overwritten, LastToItsRegister
<1>6. \A k : LastToItsRegister(k)' <=> LastToItsRegister(k)
  BY <1>3 DEF LastToItsRegister
<1>7. \A q : Read(q)' = Read(q)
  BY <1>2 DEF Read
<1>8. Delivering'
  BY <1>2, <1>3, <1>5, <1>6, <1>7 DEF DevicesInv, Delivering
<1> QED
  BY <1>4, <1>8 DEF DevicesInv

\* Nothing of a call that faults has reached the bus: its device is not mapped.
LEMMA FaultHolds ==
  ASSUME DevicesInv, NEW i \in todo, Fault(i)
  PROVE  DevicesInv'
<1>1. i \in DOMAIN Stores /\ reached \subseteq DOMAIN Stores
  BY DEF DevicesInv, TypeOK
<1>2. ~map[DeviceOf(RegisterAt(i))]
  BY <1>1, StoresInCall DEF Fault, DevicesInv
<1>3. reached = {}
  BY <1>1, <1>2, StoresInCall DEF DevicesInv, OnBus
<1>4. /\ pc' = "crashed" /\ todo' = {}
      /\ UNCHANGED <<fd, map, reached, before, mem, row, rows, interrupted>>
  BY DEF Fault, device, table
<1>5. Stores' = << >>
  BY <1>4 DEF Stores, StoresOf
<1>6. TypeOK'
  BY <1>3, <1>4, <1>5, CallNames DEF DevicesInv, TypeOK
<1>7. Delivering'
  <2>1. \A r \in Registers : Read(r)' = before'[r]
    BY <1>3, <1>4 DEF DevicesInv, Delivering, Read
  <2> QED
    BY <1>3, <1>4, <1>5, <2>1 DEF Delivering
<1>8. OnBus'
  BY <1>3, <1>4 DEF OnBus
<1>9. AwgDescriptor'
  <2>1. pc # "awgMap"
    BY <1>1 DEF Stores, StoresOf
  <2> QED
    BY <1>4, <2>1 DEF DevicesInv, AwgDescriptor, MappedIffOpen, BeforeAwg
<1> QED
  BY <1>6, <1>7, <1>8, <1>9 DEF DevicesInv

LEMMA StepHolds == DevicesInv /\ [Next]_vars => DevicesInv'
<1> SUFFICES ASSUME DevicesInv, [Next]_vars PROVE DevicesInv'
  OBVIOUS
<1>1. CASE UNCHANGED vars
  <2>1. Stores' = Stores /\ \A i : RegisterAt(i)' = RegisterAt(i)
    BY <1>1 DEF vars, Stores, RegisterAt
  <2> QED
    BY <1>1, <2>1 DEF vars, DevicesInv, TypeOK, OnBus, Delivering, LastToItsRegister, Read,
      AwgDescriptor,
       MappedIffOpen
<1> QED
  BY <1>1, OpenHolds, MapHolds, MapFailsHolds, StoreHolds, OmitHolds, FaultHolds,
    CallsHold DEF Next, Ended

LEMMA Invariant == Spec => []DevicesInv
BY InitHolds, StepHolds, PTL DEF Spec
-----------------------------------------------------------------------------

(***************************************************************************)
(* Every variable of the model keeps its type: in particular, no store of  *)
(* another call is ever left to be made.                                   *)
(***************************************************************************)
THEOREM TypeCorrect == Spec => []TypeOK
BY Invariant, PTL DEF DevicesInv

(***************************************************************************)
(* Whatever open, mmap and munmap return and wherever SIGINT strikes, the  *)
(* generator's descriptor and its mapping come and go together             *)
(* (fpga_awg.c:83-102, 139-145).                                           *)
(***************************************************************************)
THEOREM DescriptorGoesWithMapping == Spec => []MappedIffOpen
BY Invariant, PTL DEF DevicesInv, AwgDescriptor

\* A set of positions has a last one.
LEMMA LastOf ==
  ASSUME NEW n \in Nat, NEW S \in SUBSET (1 .. n), S # {}
  PROVE  \E i \in S : \A j \in S : j <= i
<1> DEFINE T == {n - i : i \in S}
<1>1. \A i \in S : i \in Int /\ n - i \in Nat
  OBVIOUS
<1>2. PICK m \in T : \A k \in T : ~(<<k, m>> \in OpToRel(<, Nat))
  <2>1. T \subseteq Nat /\ T # {}
    BY <1>1
  <2> HIDE DEF T
  <2> QED
    BY <2>1, NatLessThanWellFounded, WFMin, Zenon
<1>3. \A k \in T : ~(k < m)
  BY <1>1, <1>2 DEF OpToRel
<1>4. PICK i \in S : m = n - i
  BY <1>2
<1>5. \A j \in S : ~(n - j < n - i)
  BY <1>3, <1>4
<1>6. \A j \in S : j <= i
  BY <1>1, <1>5
<1> QED
  BY <1>6

(***************************************************************************)
(* A compiler that makes the stores of one call in any order, and leaves   *)
(* out those that are overwritten, delivers what the source says           *)
(* (fpga_awg.c:154-184, 197-217): for any values and any number of rows.   *)
(***************************************************************************)
THEOREM CallsAreDelivered == Spec => []CallsDeliver
<1>1. DevicesInv => CallsDeliver
  <2> SUFFICES ASSUME DevicesInv, Returned, NEW r \in Registers
               PROVE  LET mine == {i \in DOMAIN Stores : RegisterAt(i) = r} IN
                      Read(r) = IF mine = {} THEN before[r]
                                ELSE Stores[CHOOSE i \in mine : \A j \in mine : j <= i][2]
    BY DEF CallsDeliver
  <2> DEFINE mine == {i \in DOMAIN Stores : RegisterAt(i) = r}
  <2>1. CASE mine = {}
    <3>1. \A i \in reached : RegisterAt(i) # r
      BY <2>1 DEF DevicesInv, TypeOK
    <3> QED
      BY <2>1, <3>1 DEF DevicesInv, Delivering
  <2>2. CASE mine # {}
    <3>1. PICK d \in Devices : Stores \in Seq(StoresTo(d))
      BY StoresOfCall DEF DevicesInv, TypeOK, Stores, AnyRow
    <3>2. mine \in SUBSET (1 .. Len(Stores)) /\ Len(Stores) \in Nat
      BY <3>1
    <3> DEFINE i == CHOOSE i \in mine : \A j \in mine : j <= i
    <3>3. i \in mine /\ \A j \in mine : j <= i
      BY <2>2, <3>2, LastOf
    <3>4. i \in DOMAIN Stores /\ RegisterAt(i) = r
      BY <3>3
    <3>5. LastToItsRegister(i)
      BY <3>2, <3>3 DEF LastToItsRegister
    <3> HIDE DEF i
    <3>6. Read(r) = Stores[i][2]
      BY <3>4, <3>5 DEF Returned, DevicesInv, Delivering
    <3> QED
      BY <2>2, <3>6 DEF i
  <2> QED
    BY <2>1, <2>2
<1> QED
  BY <1>1, Invariant, PTL
(***************************************************************************)
(* No other peripheral shares a word with those that dsp stores to.        *)
(***************************************************************************)
Driven == { Block("GLOBALTIMER_0", \hF8F00, \h200, \h2FF), Block("CFG_0", \h40000, 0, \hFFF),
            Span("AWG", \h40200, \h4022F) }

LEMMA SoleOwner ==
  ASSUME NEW b \in Driven, NEW w \in b.first .. b.last
  PROVE  Owners(w) = {b.name}
<1> USE DEF Driven, Block, Span, Word, PageWords
<1>1. b \in Peripherals /\ b.first <= w /\ w <= b.last
  BY SMT DEF Peripherals, SystemBlocks, Awg
<1> DEFINE clear(S) == \A q \in S \ {b} : ~(q.first <= w /\ w <= q.last)
<1>2. clear(DmaAndEthernet) /\ clear(GpioI2cQspi) /\ clear(ScuBlocks)
  BY SMT DEF DmaAndEthernet, GpioI2cQspi, ScuBlocks
<1>3. clear(StorageAndSerial) /\ clear(Xadc) /\ clear(Awg)
  BY SMT DEF StorageAndSerial, Xadc, Awg
<1>4. clear(SystemBlocks)
  BY SMT DEF SystemBlocks
<1>5. {q \in Peripherals : q.first <= w /\ w <= q.last} = {b}
  BY <1>1, <1>2, <1>3, <1>4, SMT DEF Peripherals
<1> QED
  BY <1>5, SMT DEF Owners

LEMMA RegisterHomes ==
  ASSUME NEW r \in Registers
  PROVE  /\ \E b \in Driven : WordOf(r) \in b.first .. b.last /\ b.name = Home(r)
         /\ r \in DOMAIN DocumentedOffset => WordOf(r) = Base["awg"] + DocumentedOffset[r] \div 4
<1> USE DEF Registers, DeviceOf, WordOf, OffsetOf, Base, AwgRegisters, awg_reg_t, BufferCells,
            TimerRegisters, PinRegisters, Word, PageWords, SCU_PERIPH_BASE, GLOBAL_TMR_BASEADDR,
            reserved_regs, AWG_CHA_OFFSET, AWG_CHB_OFFSET, Home
<1>1. CASE r \in DOMAIN TimerRegisters
  BY <1>1, SMT DEF Driven, Block, DocumentedOffset
<1>2. CASE r \in DOMAIN PinRegisters
  BY <1>2, SMT DEF Driven, Block, DocumentedOffset
<1>3. CASE r \in AwgRegisters
  BY <1>3, SMT DEF Driven, Block, Span, DocumentedOffset
<1> QED
  BY <1>1, <1>2, <1>3, SMT

(***************************************************************************)
(* Every store that the bus sees goes to the peripheral it is meant for    *)
(* and to no other one, at the offset documented for it, whatever the      *)
(* compiler does with the order (xparameters.h:271-329, RPmemmap.h,        *)
(* fpga_awg.h:31-127).                                                     *)
(***************************************************************************)
THEOREM StoresHit == Spec => []StoresHitTheirRegister
<1>1. DevicesInv => StoresHitTheirRegister
  <2> SUFFICES ASSUME DevicesInv, NEW i \in reached
               PROVE  /\ Owners(WordOf(RegisterAt(i))) = {Home(RegisterAt(i))}
                      /\ RegisterAt(i) \in DOMAIN DocumentedOffset =>
                           WordOf(RegisterAt(i))
                             = Base["awg"] + DocumentedOffset[RegisterAt(i)] \div 4
    BY DEF StoresHitTheirRegister
  <2>1. RegisterAt(i) \in Registers
    BY StoresInCall DEF DevicesInv, TypeOK
  <2> QED
    BY <2>1, RegisterHomes, SoleOwner
<1> QED
  BY <1>1, Invariant, PTL
=============================================================================
