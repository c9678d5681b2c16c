------------------------------ MODULE DelayLine ------------------------------
(***************************************************************************)
(* What the delay memory promises to a program: a tapped shift register.   *)
(* Tap a holds what was written to tap 0 a samples ago (or to tap a - k,   *)
(* k samples ago); once per sample the whole line moves one tap onwards    *)
(* and the oldest tap comes round to tap 0.  There is no cursor here.      *)
(***************************************************************************)
EXTENDS Integers

CONSTANTS
  kDelayMemorySize,   \* number of taps
  Value,              \* what a tap can hold
  Index               \* the addresses a program uses, any integers

VARIABLES
  line,               \* line[a]: the sample at tap a
  last_read           \* the sample the latest load returned (WRAP uses it)

vars == <<line, last_read>>

Tap == 0 .. kDelayMemorySize - 1

TypeOK ==
  /\ line \in [Tap -> Value]
  /\ last_read \in Value

\* The line is not cleared when it is set up, only by Reset.
Init ==
  /\ line \in [Tap -> Value]
  /\ last_read = 0

Reset ==
  /\ line' = [a \in Tap |-> 0]
  /\ UNCHANGED last_read

Load(i) ==
  /\ last_read' = line[i % kDelayMemorySize]
  /\ UNCHANGED line

Store(i, v) ==
  /\ line' = [line EXCEPT ![i % kDelayMemorySize] = v]
  /\ UNCHANGED last_read

Tick ==
  /\ line' = [a \in Tap |-> line[(a - 1) % kDelayMemorySize]]
  /\ UNCHANGED last_read

Next ==
  \/ Reset
  \/ \E i \in Index : Load(i)
  \/ \E i \in Index, v \in Value : Store(i, v)
  \/ Tick

Spec == Init /\ [][Next]_vars
=============================================================================
