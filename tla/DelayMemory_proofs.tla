-------------------------- MODULE DelayMemory_proofs --------------------------
(***************************************************************************)
(* The ring buffer implements the shift register, for every power-of-two   *)
(* size, every set of samples and every set of integer addresses.          *)
(***************************************************************************)
EXTENDS DelayMemory, TLAPS

-----------------------------------------------------------------------------
(***************************************************************************)
(* Arithmetic of the mask `& (kDelayMemorySize - 1)'.  Everything follows  *)
(* from the uniqueness of the quotient and the remainder.                  *)
(***************************************************************************)

\* The mask is never empty: all that the arithmetic needs of the size.
LEMMA SizePositive == kDelayMemorySize \in Nat \ {0}
  BY SizeAssumption

\* A masked index is a slot.
LEMMA ModIsSlot == \A x \in Int : x % kDelayMemorySize \in Slots
  BY SizePositive DEF Slots

\* The masked index is the only slot that differs from x by whole turns.
LEMMA ModUnique ==
  ASSUME NEW x \in Int, NEW q \in Int, NEW r \in Slots,
         x = kDelayMemorySize * q + r
  PROVE  x % kDelayMemorySize = r
  BY SizePositive DEF Slots

\* Masking a slot changes nothing.
LEMMA ModOfSlot == \A r \in Slots : r % kDelayMemorySize = r
  BY SizePositive DEF Slots

\* The masked index differs from x by whole turns.
LEMMA ModDecompose ==
  ASSUME NEW x \in Int
  PROVE  /\ x \div kDelayMemorySize \in Int
         /\ x = kDelayMemorySize * (x \div kDelayMemorySize)
                + (x % kDelayMemorySize)
  BY SizePositive

\* Masking an index before the cursor is added to it changes nothing.
LEMMA ModOfSum ==
  ASSUME NEW c \in Int, NEW i \in Int
  PROVE  (c + (i % kDelayMemorySize)) % kDelayMemorySize
           = (c + i) % kDelayMemorySize
<1> DEFINE N == kDelayMemorySize
           r == i % N
           q == i \div N
           t == (c + r) % N
           p == (c + r) \div N
<1>1. r \in Slots /\ r \in Int
  BY ModIsSlot DEF Slots
<1>2. q \in Int /\ i = N * q + r
  BY ModDecompose
<1>3. t \in Slots /\ t \in Int
  BY <1>1, ModIsSlot DEF Slots
<1>4. p \in Int /\ c + r = N * p + t
  BY <1>1, ModDecompose
<1>5. N \in Int
  BY SizePositive
<1> HIDE DEF N, r, q, t, p
<1>6. N * (p + q) = N * p + N * q
  BY <1>2, <1>4, <1>5
<1>7. N * p \in Int /\ N * q \in Int
  BY <1>2, <1>4, <1>5
<1>8. c + i = N * (p + q) + t /\ c + i \in Int /\ p + q \in Int
  BY <1>1, <1>2, <1>3, <1>4, <1>6, <1>7
<1>9. (c + i) % N = t
  BY <1>3, <1>8, ModUnique DEF N
<1> QED  BY <1>9 DEF t, r, N

\* Seen from any cursor, two taps never share a slot.
LEMMA ModInjective ==
  ASSUME NEW c \in Int, NEW a \in Slots, NEW b \in Slots,
         (c + a) % kDelayMemorySize = (c + b) % kDelayMemorySize
  PROVE  a = b
<1> DEFINE N == kDelayMemorySize
           t == (c + a) % N
           p == (c + a) \div N
           q == (c + b) \div N
<1>1. a \in Int /\ b \in Int /\ N \in Int
  BY SizePositive DEF Slots
<1>2. p \in Int /\ c + a = N * p + t
  BY <1>1, ModDecompose
<1>3. q \in Int /\ c + b = N * q + t
  BY <1>1, ModDecompose
<1>4. t \in Int
  BY <1>1, ModIsSlot DEF Slots
<1> HIDE DEF N, t, p, q
<1>5. N * (p - q) = N * p - N * q /\ N * p \in Int /\ N * q \in Int
  BY <1>1, <1>2, <1>3
<1>6. a = N * (p - q) + b /\ p - q \in Int
  BY <1>1, <1>2, <1>3, <1>4, <1>5
<1>7. a % N = b
  BY <1>1, <1>6, ModUnique DEF N
<1>8. a % N = a
  BY ModOfSlot DEF N
<1> QED  BY <1>7, <1>8

-----------------------------------------------------------------------------
(***************************************************************************)
(* The cursor never leaves the buffer.                                     *)
(***************************************************************************)

\* Every access of the delay memory is inside the buffer, whatever the
\* address, in every state Reset, Load, Store and Tick can reach.
THEOREM TypeCorrect == Spec => []TypeOK
<1>1. Init => TypeOK
  BY SizePositive, ValueAssumption DEF Init, TypeOK, Slots
<1>2. TypeOK /\ [Next]_vars => TypeOK'
  <2> SUFFICES ASSUME TypeOK, [Next]_vars
               PROVE  TypeOK'
    OBVIOUS
  <2>1. CASE Reset
    BY <2>1, SizePositive, ValueAssumption DEF TypeOK, Reset, Slots
  <2>2. CASE \E i \in Index : Load(i)
    <3> PICK i \in Index : Load(i)
      BY <2>2
    <3>1. At(i) \in Slots
      BY ModIsSlot, IndexAssumption DEF At, TypeOK, Slots
    <3> QED  BY <3>1 DEF TypeOK, Load
  <2>3. CASE \E i \in Index, v \in Value : Store(i, v)
    BY <2>3 DEF TypeOK, Store
  <2>4. CASE Tick
    BY <2>4, SizePositive DEF TypeOK, Tick, Slots
  <2>5. CASE UNCHANGED vars
    BY <2>5 DEF TypeOK, vars
  <2> QED  BY <2>1, <2>2, <2>3, <2>4, <2>5 DEF Next
<1> QED  BY <1>1, <1>2, PTL DEF Spec

-----------------------------------------------------------------------------
(***************************************************************************)
(* The refinement: one lemma per operation, then the theorem.              *)
(***************************************************************************)

\* The shift register's line, seen from the cursor.
SeenFromCursor == [a \in Slots |-> buffer_[At(a)]]

\* Load reads the tap the address names.
LEMMA LoadRefines ==
  ASSUME TypeOK, NEW i \in Index, Load(i)
  PROVE  Line!Load(i)
<1>1. i \in Int /\ cursor_ \in Int
  BY IndexAssumption DEF TypeOK, Slots
<1>2. At(i) = At(i % kDelayMemorySize) /\ i % kDelayMemorySize \in Slots
  BY <1>1, ModOfSum, ModIsSlot DEF At
<1>3. \A a \in Slots : At(a)' = At(a)
  BY DEF Load, At
<1> QED  BY <1>2, <1>3 DEF Load, Line!Load

\* Store writes the tap the address names and no other.
LEMMA StoreRefines ==
  ASSUME TypeOK, NEW i \in Index, NEW v \in Value, Store(i, v)
  PROVE  Line!Store(i, v)
<1> DEFINE r == i % kDelayMemorySize
<1>1. i \in Int /\ cursor_ \in Int
  BY IndexAssumption DEF TypeOK, Slots
<1>2. r \in Slots /\ At(i) = At(r) /\ At(i) \in Slots
  <2>1. r \in Slots
    BY <1>1, ModIsSlot
  <2>2. At(i) = At(r)
    BY <1>1, ModOfSum DEF At
  <2>3. cursor_ + i \in Int
    BY <1>1
  <2> QED  BY <2>1, <2>2, <2>3, ModIsSlot DEF At
<1> HIDE DEF r
<1>3. ASSUME NEW a \in Slots
      PROVE  (buffer_[At(a)])' = IF a = r THEN v ELSE buffer_[At(a)]
  <2>1. At(a) \in Slots /\ At(a)' = At(a)
    <3>1. cursor_ + a \in Int
      BY <1>1 DEF Slots
    <3> QED  BY <3>1, ModIsSlot DEF At, Store
  <2>2. At(a) = At(i) <=> a = r
    <3>1. (At(a) = At(r)) => (a = r)
      BY <1>1, <1>2, ModInjective DEF At
    <3> QED  BY <1>2, <3>1
  <2> QED  BY <1>2, <2>1, <2>2 DEF Store, TypeOK
<1>4. SeenFromCursor' = [SeenFromCursor EXCEPT ![r] = v]
  BY <1>2, <1>3 DEF SeenFromCursor
<1> QED  BY <1>4 DEF Line!Store, r, SeenFromCursor, Store

\* Moving the cursor one slot back moves every sample one tap on.
LEMMA TickRefines ==
  ASSUME TypeOK, Tick
  PROVE  Line!Tick
<1> DEFINE N == kDelayMemorySize
<1>1. cursor_ \in Int /\ N \in Int /\ N \in Nat \ {0}
  BY SizePositive DEF TypeOK, Slots
<1>2. cursor_' = (cursor_ - 1) % N /\ cursor_' \in Int
  <2>1. CASE cursor_ # 0
    <3>1. cursor_ - 1 \in Slots
      BY <2>1, <1>1 DEF TypeOK, Slots
    <3>2. (cursor_ - 1) % N = cursor_ - 1
      BY <3>1, ModOfSlot
    <3> QED  BY <2>1, <3>2, <1>1 DEF Tick
  <2>2. CASE cursor_ = 0
    <3>1. N - 1 \in Slots /\ cursor_ - 1 = N * (-1) + (N - 1)
      BY <2>2, <1>1 DEF Slots
    <3>2. (cursor_ - 1) % N = N - 1
      BY <3>1, <1>1, ModUnique
    <3> QED  BY <2>2, <3>2, <1>1 DEF Tick
  <2> QED  BY <2>1, <2>2
<1>3. ASSUME NEW a \in Slots
      PROVE  /\ (a - 1) % N \in Slots
             /\ At(a)' = At((a - 1) % N)
  <2>1. a \in Int /\ a - 1 \in Int /\ cursor_ - 1 \in Int
    BY <1>1 DEF Slots
  <2>2. (cursor_ + ((a - 1) % N)) % N = (cursor_ + (a - 1)) % N
    BY <1>1, <2>1, ModOfSum
  <2>3. (a + ((cursor_ - 1) % N)) % N = (a + (cursor_ - 1)) % N
    BY <2>1, ModOfSum
  <2>4. a + (cursor_ - 1) = cursor_ + (a - 1)
    BY <1>1, <2>1
  <2>5. a + cursor_' = cursor_' + a
    BY <1>2, <2>1
  <2>6. At(a)' = (cursor_' + a) % N
    BY DEF At
  <2>7. (a - 1) % N \in Slots
    BY <2>1, ModIsSlot
  <2> QED  BY <1>2, <2>2, <2>3, <2>4, <2>5, <2>6, <2>7 DEF At
<1>4. SeenFromCursor' = [a \in Slots |-> SeenFromCursor[(a - 1) % N]]
  BY <1>3 DEF SeenFromCursor, Tick
<1> QED  BY <1>4 DEF Line!Tick, Line!Tap, Slots, SeenFromCursor, Tick

\* Reset clears every tap.
LEMMA ResetRefines ==
  ASSUME TypeOK, Reset
  PROVE  Line!Reset
<1>1. \A a \in Slots : At(a)' \in Slots
  <2>1. cursor_' \in Int /\ \A a \in Slots : cursor_' + a \in Int
    BY DEF Reset, Slots
  <2> QED  BY <2>1, ModIsSlot DEF At
<1> QED  BY <1>1 DEF Reset, Line!Reset, Line!Tap, Slots

\* The delay memory is a shift register: no program can see the cursor.
THEOREM RingBufferIsShiftRegister == Spec => ImplementsDelayLine
<1>1. Init => Line!Init
  <2> SUFFICES ASSUME Init
               PROVE  Line!Init
    OBVIOUS
  <2>1. \A a \in Slots : At(a) \in Slots
    <3>1. \A a \in Slots : cursor_ + a \in Int
      BY DEF Init, Slots
    <3> QED  BY <3>1, ModIsSlot DEF At
  <2> QED  BY <2>1 DEF Init, Line!Init, Line!Tap, Slots
<1>2. TypeOK /\ [Next]_vars => [Line!Next]_Line!vars
  <2> SUFFICES ASSUME TypeOK, [Next]_vars
               PROVE  Line!Next \/ UNCHANGED Line!vars
    OBVIOUS
  <2>1. CASE Reset
    BY <2>1, ResetRefines DEF Line!Next
  <2>2. CASE \E i \in Index : Load(i)
    BY <2>2, LoadRefines DEF Line!Next
  <2>3. CASE \E i \in Index, v \in Value : Store(i, v)
    BY <2>3, StoreRefines DEF Line!Next
  <2>4. CASE Tick
    BY <2>4, TickRefines DEF Line!Next
  <2>5. CASE UNCHANGED vars
    BY <2>5 DEF vars, Line!vars, At
  <2> QED  BY <2>1, <2>2, <2>3, <2>4, <2>5 DEF Next
<1> QED  BY <1>1, <1>2, TypeCorrect, PTL DEF Spec, Line!Spec, ImplementsDelayLine
=============================================================================
