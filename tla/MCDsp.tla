------------------------------- MODULE MCDsp -------------------------------
(***************************************************************************)
(* Files for the dsp program.  With 3 ticks in 8 nanoseconds and products  *)
(* that wrap at 32, the rows are: one at time zero, one whose time is not  *)
(* a whole number of ticks, the last one that fits, and the first that     *)
(* does not and so gets zero clocks.  Rows tell themselves and their       *)
(* channels apart by the values written.                                   *)
(***************************************************************************)
EXTENDS Dsp, TLC

Line(ns, p, n, a, b) ==
  [ns |-> ns, val |-> ("P" :> p @@ "N" :> n @@ "A" :> a @@ "B" :> b)]

AllLines == {Line(0, 1, 0, 0, 1), Line(3, 0, 1, 1, 0), Line(10, 1, 1, 1, 1), Line(11, 1, 1, 0, 0)}
=============================================================================
