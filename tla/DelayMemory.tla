----------------------------- MODULE DelayMemory -----------------------------
(***************************************************************************)
(* src/src/fv1/fv1_delay_memory.h: the delay memory as a ring buffer.  The *)
(* samples stay where they are; the cursor moves one slot back per sample, *)
(* and an address is a distance from the cursor.                           *)
(*                                                                         *)
(* The buffer belongs to the caller and the constructor does not clear it. *)
(* Indices are int32_t and may be negative or exceed the size (an LFO      *)
(* offset is added to a 16 bit address); `& (size - 1)' brings them back.  *)
(***************************************************************************)
EXTENDS Integers

CONSTANTS
  kDelayMemorySize,   \* 32768 in the source: a power of two
  Value,              \* Traits::value_type
  Index               \* the indices passed to Load and Store

\* The mask `& (kDelayMemorySize - 1)' is `%' because the size is a power of
\* two; that is all the static_assert on kDelayAddrMask asks for.
ASSUME SizeAssumption ==
  /\ kDelayMemorySize \in Nat \ {0}
  /\ \E k \in 0 .. 15 : kDelayMemorySize = 2 ^ k

ASSUME ValueAssumption == 0 \in Value

ASSUME IndexAssumption == Index \subseteq Int

VARIABLES buffer_, cursor_, last_read_

vars == <<buffer_, cursor_, last_read_>>

Slots == 0 .. kDelayMemorySize - 1

TypeOK ==
  /\ buffer_ \in [Slots -> Value]
  /\ cursor_ \in Slots
  /\ last_read_ \in Value

\* at(i): the slot of address i.
At(i) == (cursor_ + i) % kDelayMemorySize

Init ==
  /\ buffer_ \in [Slots -> Value]
  /\ cursor_ = 0
  /\ last_read_ = 0

\* Reset clears the samples and the cursor; last_read_ survives.
Reset ==
  /\ buffer_' = [s \in Slots |-> 0]
  /\ cursor_' = 0
  /\ UNCHANGED last_read_

Load(i) ==
  /\ last_read_' = buffer_[At(i)]
  /\ UNCHANGED <<buffer_, cursor_>>

\* Definitions named ...Mistake are not the code: each is a slip that some run
\* must notice when it replaces the definition below it.
StoreMistake(i, v) ==
  /\ buffer_' = [buffer_ EXCEPT ![i % kDelayMemorySize] = v]
  /\ UNCHANGED <<cursor_, last_read_>>

Store(i, v) ==
  /\ buffer_' = [buffer_ EXCEPT ![At(i)] = v]
  /\ UNCHANGED <<cursor_, last_read_>>

TickMistake == cursor_' = cursor_ - 1 /\ UNCHANGED <<buffer_, last_read_>>

Tick ==
  /\ cursor_' = IF cursor_ # 0 THEN cursor_ - 1 ELSE kDelayMemorySize - 1
  /\ UNCHANGED <<buffer_, last_read_>>

Next ==
  \/ Reset
  \/ \E i \in Index : Load(i)
  \/ \E i \in Index, v \in Value : Store(i, v)
  \/ Tick

Spec == Init /\ [][Next]_vars

-----------------------------------------------------------------------------
(***************************************************************************)
(* The ring buffer seen from the cursor is the shift register.             *)
(***************************************************************************)
Line == INSTANCE DelayLine WITH
          line      <- [a \in Slots |-> buffer_[At(a)]],
          last_read <- last_read_

\* Every load returns the sample the shift register holds at that tap: the
\* cursor arithmetic of at(), Load, Store, Tick and Reset is never visible,
\* also when an address wraps round the end or is negative.
ImplementsDelayLine == Line!Spec
=============================================================================
