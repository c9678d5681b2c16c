------------------------------ MODULE MCSinLfo ------------------------------
(***************************************************************************)
(* Every coefficient of a 9 bit format with a 7 bit rate, each followed    *)
(* round its whole orbit.                                                  *)
(***************************************************************************)
EXTENDS SinLfo

AllRates == {S15Unit * k : k \in -(kIntRange \div S15Unit) ..
                                  (kIntRange \div S15Unit) - 1}
=============================================================================
