------------------------------ MODULE FreshChip ------------------------------
(***************************************************************************)
(* A chip that is switched off and on again for every program: nothing is  *)
(* left of what it did before.                                             *)
(***************************************************************************)
EXTENDS Chip

PowerUp(program) ==
  /\ ~running
  /\ instructions_' = program
  /\ acc' = 0 /\ pacc' = 0
  /\ registers' = [r \in Register |-> 0]
  /\ buffer_' = [s \in 0 .. DelaySize - 1 |-> 0] /\ cursor_' = 0 /\ last_read_' = 0
  /\ ramp_phase' = [n \in 0 .. 1 |-> 0]
  /\ sine' = [n \in 0 .. 1 |-> 0] /\ cosine' = [n \in 0 .. 1 |-> MIN]
  /\ first_run' = TRUE
  /\ UNCHANGED <<running, ic, out>>

FreshNext ==
  \/ \E program \in Programs : PowerUp(program)
  \/ \E pots \in Pots : TurnPots(pots)
  \/ \E in \in Frames : StartSample(in)
  \/ PerformNext
  \/ FinishSample
=============================================================================
