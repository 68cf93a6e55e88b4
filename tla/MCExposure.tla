----------------------------- MODULE MCExposure -----------------------------
(***************************************************************************)
(* Two pins of each kind.  The lights are listed in and out of order, at   *)
(* equal times, not at all, and one twice.                                 *)
(***************************************************************************)
EXTENDS Exposure

MCExposures == {
  [cameras |-> 1, lights |-> <<<<2, 2>>, <<4, 1>>>>],
  [cameras |-> 8, lights |-> <<<<4, 1>>, <<1, 1>>, <<2, 3>>>>],
  [cameras |-> 4, lights |-> <<>>],
  [cameras |-> 0, lights |-> <<<<1, 0>>, <<1, 2>>>>]}
=============================================================================
