------------------------------ MODULE RowTime ------------------------------
(***************************************************************************)
(* The time of an action: nanoseconds in the file, ticks of the global     *)
(* timer in the table (readActionTableLine, dsp.c:180).                    *)
(*                                                                         *)
(* On the board CountsPerSecond is 333333343, half the CPU frequency, and  *)
(* the product is an unsigned long long: it wraps at 2^64, which a row     *)
(* reaches 55.3 seconds into the profile.                                  *)
(***************************************************************************)
EXTENDS Integers

CONSTANTS
  CountsPerSecond,   \* COUNTS_PER_SECOND, timer.h:15
  NanosPerSecond,    \* 1000000000
  WordSize           \* 2^64, the range of unsigned long long

ASSUME RowTimeAssumption ==
  /\ CountsPerSecond \in Nat \ {0}
  /\ NanosPerSecond \in Nat \ {0}
  /\ WordSize \in Nat \ {0}

\* Multiply, wrap, divide: the order the C expression does it in.
ClocksOf(ns) == ((ns * CountsPerSecond) % WordSize) \div NanosPerSecond

\* The times whose product does not wrap.
Fits(ns) == ns * CountsPerSecond < WordSize

\* No wait of execActionTable is for more ticks than this.
MaxClocks == (WordSize - 1) \div NanosPerSecond

\* t ticks of the timer last longer than ns nanoseconds.
TicksExceed(t, ns) == ns * CountsPerSecond < t * NanosPerSecond
=============================================================================
