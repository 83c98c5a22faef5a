----------------------------- MODULE MCDecoders -----------------------------
(***************************************************************************)
(* The decoders on a pool of three lanes and two heats: lanes 1 and 2 swim *)
(* the first, lanes 2 and 3 the second, two touches a swimmer.             *)
(***************************************************************************)
EXTENDS Decoders

TwoHeats == << {1, 2}, {2, 3} >>
ThreeLanes == 1..3
=============================================================================
