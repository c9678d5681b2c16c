----------------------------- MODULE MCRampLfo -----------------------------
(***************************************************************************)
(* A ramp LFO of 128 phases over 16 samples.  The rates are the extremes,  *)
(* zero and the steps -1, 0, 1 and 3; the ranges are the four documented   *)
(* ones and two negative ones.                                             *)
(***************************************************************************)
EXTENDS RampLfo

MCRateInput == {MIN, -2, 0, 31, 32, 100, MAX}
MCRangeInput == {0, 64, 128, 192, -129, MIN}
MCFreeRange == {0, 64, 128, 192}
=============================================================================
