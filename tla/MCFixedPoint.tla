---------------------------- MODULE MCFixedPoint ----------------------------
(***************************************************************************)
(* An accumulator that is only ever changed by the operations of           *)
(* FixedPoint, through every value of a narrow SF23: eight bits, the       *)
(* narrowest format whose products outgrow the int32_t that goes with it.  *)
(***************************************************************************)
EXTENDS Accumulator

EdgeCoefficients ==
  {-2 * kIntRange, MIN - 1, MIN, -1, 0, 1, MAX, kIntRange, 2 * kIntRange - 1}

EdgeValues == {MIN, -1, 0, 1, MAX}

EdgeMasks == {0, 1, MAX, MASK}

Init == acc = 0

And == \E m \in EdgeMasks : acc' \in AND(acc, m)
Or == \E m \in EdgeMasks : acc' \in OR(acc, m)
Xor == \E m \in EdgeMasks : acc' \in XOR(acc, m)
Not == acc' = NOT(acc)
Abs == acc' = SSAT(ABS(acc))
Scale == \E c \in EdgeCoefficients, d \in EdgeValues :
           acc' = SSAT(Mac(acc, c, d))
Blend == \E c \in EdgeCoefficients, r \in EdgeValues :
           acc' = SSAT(Mac(Sub(acc, r), c, r))

Next == And \/ Or \/ Xor \/ Not \/ Abs \/ Scale \/ Blend

Spec == Init /\ [][Next]_acc

TypeOK == acc \in SF23
=============================================================================
