----------------------------- MODULE MemoryMap -----------------------------
(***************************************************************************)
(* The physical addresses that the headers give: where the peripherals of  *)
(* the Zynq lie (xparameters.h, xparameters_ps.h), which of that memory    *)
(* the three mmap calls open, and at which of its words the registers are  *)
(* that dsp uses (timer.h, RPmemmap.h, fpga_awg.h).                        *)
(*                                                                         *)
(* All registers are words of 4 bytes, and memory is counted in words.  A  *)
(* byte address is written as its page and its offset in the page, that is *)
(* as its first five and last three hexadecimal digits.  The headers' clock *)
(* rates, device and interrupt numbers are left out, and so are the        *)
(* "canonical" names that repeat a peripheral's addresses.                 *)
(***************************************************************************)
EXTENDS Integers

PageWords == 1024

Word(page, offset) == page * PageWords + offset \div 4

\* A peripheral within one page, and one that spans several.
Block(name, page, from, to) ==
  [name |-> name, first |-> Word(page, from), last |-> Word(page, to)]

Span(name, from, to) ==
  [name |-> name, first |-> Word(from, 0), last |-> Word(to, \hFFF)]

DmaAndEthernet ==
  { Block("DEV_CFG_0", \hF8007, 0, \hFF),   Block("DMA_NS", \hF8004, 0, \hFFF),
    Block("DMA_S", \hF8003, 0, \hFFF),      Block("ETHERNET_0", \hE000B, 0, \hFFF) }

SystemBlocks ==
  { Block("CFG_0", \h40000, 0, \hFFF),      Block("AFI_0", \hF8008, 0, \hFFF),
    Block("AFI_1", \hF8009, 0, \hFFF),      Block("AFI_2", \hF800A, 0, \hFFF),
    Block("AFI_3", \hF800B, 0, \hFFF),      Span("DDR_0", \h00100, \h1FFFF),
    Block("DDRC_0", \hF8006, 0, \hFFF),     Block("GLOBALTIMER_0", \hF8F00, \h200, \h2FF),
    Span("GPV_0", \hF8900, \hF89FF),        Block("INTC_DIST_0", \hF8F01, 0, \hFFF),
    Block("IOP_BUS_CONFIG_0", \hE0200, 0, \hFFF),
    Block("L2CACHEC_0", \hF8F02, 0, \hFFF), Block("OCMC_0", \hF800C, 0, \hFFF),
    Block("PL310_0", \hF8F02, 0, \hFFF),    Block("PMU_0", \hF8891, 0, \hFFF),
    Block("PMU_0_PMU1", \hF8893, 0, \hFFF), Span("QSPI_LINEAR_0", \hFC000, \hFCFFF),
    Span("RAM_0", \h00000, \h0003F),        Span("RAM_1", \hFFFC0, \hFFFFF),
    Block("SCUC_0", \hF8F00, 0, \h0FC),     Block("SLCR_0", \hF8000, 0, \hFFF) }

GpioI2cQspi ==
  { Block("GPIO_0", \hE000A, 0, \hFFF),     Block("I2C_0", \hE0004, 0, \hFFF),
    Block("QSPI_0", \hE000D, 0, \hFFF) }

\* The private peripherals of the CPUs, which share a page with the timer.
ScuBlocks ==
  { Block("SCUGIC_0", \hF8F00, \h100, \h1FF),
    Block("SCUTIMER_0", \hF8F00, \h600, \h61F),
    Block("SCUWDT_0", \hF8F00, \h620, \h6FF) }

\* The triple timer counters have a base address only: one register each.
StorageAndSerial ==
  { Block("SD_0", \hE0100, 0, \hFFF),       Block("SPI_0", \hE0006, 0, \hFFF),
    Block("SPI_1", \hE0007, 0, \hFFF),      Block("TTC_0", \hF8001, 0, 3),
    Block("TTC_1", \hF8001, 4, 7),          Block("TTC_2", \hF8001, 8, \hB),
    Block("UART_0", \hE0000, 0, \hFFF),     Block("UART_1", \hE0001, 0, \hFFF),
    Block("USB_0", \hE0002, 0, \hFFF) }

Xadc == { Block("XADC_0", \hF8007, \h100, \h120) }

\* The generator, which is in the FPGA: AWG_BASE_ADDR and AWG_BASE_SIZE.
Awg == { Span("AWG", \h40200, \h4022F) }

Peripherals == DmaAndEthernet \cup SystemBlocks \cup GpioI2cQspi \cup ScuBlocks
                 \cup StorageAndSerial \cup Xadc \cup Awg

\* The names of the peripherals that have word w.
Owners(w) == {p.name : p \in {q \in Peripherals : q.first <= w /\ w <= q.last}}
-----------------------------------------------------------------------------

(***************************************************************************)
(* The windows that mmap opens: initTimer maps the page that holds the     *)
(* timer, XPAR_GLOBAL_TMR_BASEADDR - 0x200 (itself XPS_SCU_PERIPH_BASE +   *)
(* 0x200); initOuts 2048 pages from RP_BASE_ADDR; fpga_awg_init            *)
(* AWG_BASE_SIZE bytes from the page of AWG_BASE_ADDR.                     *)
(***************************************************************************)
SCU_PERIPH_BASE == Word(\hF8F00, 0)
GLOBAL_TMR_BASEADDR == SCU_PERIPH_BASE + \h200 \div 4 - \h200 \div 4

Devices == {"timer", "outs", "awg"}
Base == [timer |-> GLOBAL_TMR_BASEADDR, outs |-> Word(\h40000, 0), awg |-> Word(\h40200, 0)]
Size == [timer |-> PageWords, outs |-> 2048 * PageWords, awg |-> \h30000 \div 4]

InWindow(d, w) == Base[d] <= w /\ w < Base[d] + Size[d]

(***************************************************************************)
(* The registers, and the offset in bytes that each has in its window:     *)
(* timer.h, RPmemmap.h, the layout of awg_reg_t, and the first two samples *)
(* of each signal buffer.                                                  *)
(***************************************************************************)
TimerRegisters ==
  [GTIMER_COUNTER_LOWER |-> \h200, GTIMER_COUNTER_UPPER |-> \h204, GTIMER_CONTROL |-> \h208]

\* Mutant: the offset of the other pins' register is used.
PinsConfused ==
  [PINP_DIR |-> \h10, PINN_DIR |-> \h14, PINP_OUT |-> \h18, PINN_OUT |-> \h18, LED |-> \h30]

PinRegisters ==
  [PINP_DIR |-> \h10, PINN_DIR |-> \h14, PINP_OUT |-> \h18, PINN_OUT |-> \h1C, LED |-> \h30]

\* Mutant: the reserved words are forgotten.
NoReserved == 0

reserved_regs == 4

awg_reg_t ==
  [state_machine_conf |-> 0,
   cha_scale_off |-> 4, cha_count_wrap |-> 8, cha_start_off |-> 12, cha_count_step |-> 16,
   chb_scale_off |-> 20 + 4 * reserved_regs, chb_count_wrap |-> 24 + 4 * reserved_regs,
   chb_start_off |-> 28 + 4 * reserved_regs, chb_count_step |-> 32 + 4 * reserved_regs]

AWG_CHA_OFFSET == \h10000
AWG_CHB_OFFSET == \h20000

BufferCells ==
  [cha_mem_0 |-> AWG_CHA_OFFSET, cha_mem_1 |-> AWG_CHA_OFFSET + 4,
   chb_mem_0 |-> AWG_CHB_OFFSET, chb_mem_1 |-> AWG_CHB_OFFSET + 4]

AwgRegisters == DOMAIN awg_reg_t \cup DOMAIN BufferCells
Registers == DOMAIN TimerRegisters \cup DOMAIN PinRegisters \cup AwgRegisters

DeviceOf(r) ==
  IF r \in DOMAIN TimerRegisters THEN "timer"
  ELSE IF r \in DOMAIN PinRegisters THEN "outs" ELSE "awg"

OffsetOf(r) ==
  CASE r \in DOMAIN TimerRegisters -> TimerRegisters[r]
    [] r \in DOMAIN PinRegisters -> PinRegisters[r]
    [] r \in DOMAIN awg_reg_t -> awg_reg_t[r]
    [] r \in DOMAIN BufferCells -> BufferCells[r]

\* The word that a store to register r reaches.
WordOf(r) == Base[DeviceOf(r)] + OffsetOf(r) \div 4
=============================================================================
