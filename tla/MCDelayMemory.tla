---------------------------- MODULE MCDelayMemory ----------------------------
(***************************************************************************)
(* The delay memory on 4 slots; the indices include a negative one and one *)
(* past the end.                                                           *)
(***************************************************************************)
EXTENDS DelayMemory

MCIndex == {-3, 0, 1, 6}
MCValue == 0 .. 2
=============================================================================
