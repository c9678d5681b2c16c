---------------------------- MODULE Loader_proofs ----------------------------
(***************************************************************************)
(* From the bytes of a program to what Execute is given: any words, in any *)
(* program of any length, on a stream that an earlier Compile may have     *)
(* used.  A field is read as the number whose bits it has (by induction on *)
(* its width), so the decoder and the Assembler agree, and the operands    *)
(* are in the ranges of their formats, so the switch can execute them.     *)
(***************************************************************************)
EXTENDS Assembler, FixedPoint_proofs, FiniteSetTheorems

\* The function by which BitField reads a word from bit top - 1 downwards.
Reads(word, top, width, value) ==
  value = [n \in 0 .. width |->
             IF n = 0 THEN 0
             ELSE 2 * value[n - 1] + (IF top - n \in word THEN 1 ELSE 0)]

\* There is such a function: the recursion of BitField defines it.
LEMMA ReadsExist ==
  ASSUME NEW word, NEW top \in Int, NEW width \in Nat
  PROVE  \E value : Reads(word, top, width, value)
<1> DEFINE S == {w \in Nat : \E value : Reads(word, top, w, value)}
<1>1. 0 \in S
  <2> DEFINE f == [n \in 0 .. 0 |-> 0]
  <2>1. f = [n \in 0 .. 0 |->
               IF n = 0 THEN 0
               ELSE 2 * f[n - 1] + (IF top - n \in word THEN 1 ELSE 0)]
    OBVIOUS
  <2> QED  BY <2>1 DEF Reads
<1>2. ASSUME NEW w \in Nat, w \in S
      PROVE  w + 1 \in S
  <2>1. PICK f : Reads(word, top, w, f)
    BY <1>2
  <2> DEFINE last == 2 * f[w] + (IF top - (w + 1) \in word THEN 1 ELSE 0)
             g == [n \in 0 .. w + 1 |-> IF n = w + 1 THEN last ELSE f[n]]
             h == [n \in 0 .. w + 1 |->
                     IF n = 0 THEN 0
                     ELSE 2 * g[n - 1] + (IF top - n \in word THEN 1 ELSE 0)]
  <2>2. ASSUME NEW n \in 0 .. w + 1
        PROVE  g[n] = h[n]
    <3>1. CASE n = 0
      <4>1. 0 \in 0 .. w /\ 0 # w + 1
        OBVIOUS
      <4>2. f[0] = 0
        BY <2>1, <4>1 DEF Reads
      <4> QED  BY <3>1, <4>1, <4>2
    <3>2. CASE n = w + 1
      <4>1. g[w] = f[w] /\ w \in 0 .. w + 1 /\ n - 1 = w /\ n # 0
        BY <3>2
      <4>2. h[n] = 2 * g[w] + (IF top - n \in word THEN 1 ELSE 0)
        BY <4>1
      <4> QED  BY <3>2, <4>1, <4>2
    <3>3. CASE n # 0 /\ n # w + 1
      <4>1. n \in 0 .. w /\ n - 1 \in 0 .. w + 1 /\ n - 1 # w + 1
        BY <3>3
      <4>2. f[n] = 2 * f[n - 1] + (IF top - n \in word THEN 1 ELSE 0)
        BY <2>1, <3>3, <4>1 DEF Reads
      <4>3. g[n - 1] = f[n - 1] /\ g[n] = f[n]
        BY <3>3, <4>1
      <4>4. h[n] = 2 * g[n - 1] + (IF top - n \in word THEN 1 ELSE 0)
        BY <3>3
      <4> QED  BY <4>2, <4>3, <4>4
    <3> QED  BY <3>1, <3>2, <3>3
  <2>3. g = h
    BY <2>2
  <2>4. Reads(word, top, w + 1, g)
    BY <2>3 DEF Reads
  <2> QED  BY <2>4
<1> HIDE DEF S
<1>3. S = Nat
  <2>1. S \subseteq Nat
    BY DEF S
  <2> QED  BY <1>1, <1>2, <2>1, SetInduction
<1> QED  BY <1>3 DEF S

\* Two of them agree as far as both go.
LEMMA ReadsAgree ==
  ASSUME NEW word, NEW top \in Int, NEW w \in Nat, NEW v \in Nat, v <= w,
         NEW f, Reads(word, top, w, f), NEW g, Reads(word, top, v, g)
  PROVE  f[v] = g[v]
<1> DEFINE S == {n \in Nat : n <= v => f[n] = g[n]}
<1>1. 0 \in S
  <2>1. 0 \in 0 .. w /\ 0 \in 0 .. v
    OBVIOUS
  <2> QED  BY <2>1 DEF Reads
<1>2. ASSUME NEW n \in Nat, n \in S
      PROVE  n + 1 \in S
  <2> SUFFICES ASSUME n + 1 <= v
               PROVE  f[n + 1] = g[n + 1]
    OBVIOUS
  <2>1. n + 1 \in 0 .. w /\ n + 1 \in 0 .. v /\ n + 1 # 0 /\ (n + 1) - 1 = n /\ f[n] = g[n]
    BY <1>2
  <2>2. f[n + 1] = 2 * f[n] + (IF top - (n + 1) \in word THEN 1 ELSE 0)
    BY <2>1 DEF Reads
  <2>3. g[n + 1] = 2 * g[n] + (IF top - (n + 1) \in word THEN 1 ELSE 0)
    BY <2>1 DEF Reads
  <2> QED  BY <2>1, <2>2, <2>3
<1> HIDE DEF S
<1>3. S = Nat
  <2>1. S \subseteq Nat
    BY DEF S
  <2> QED  BY <1>1, <1>2, <2>1, SetInduction
<1> QED  BY <1>3 DEF S

\* BitField is the last value of that function.
LEMMA FieldIsRead ==
  ASSUME NEW word, NEW shift \in Nat, NEW width \in Nat
  PROVE  \E f : Reads(word, shift + width, width, f) /\ BitField(word, shift, width) = f[width]
<1> DEFINE f == CHOOSE value : value =
                  [n \in 0 .. width |->
                     IF n = 0 THEN 0
                     ELSE 2 * value[n - 1] + (IF shift + width - n \in word THEN 1 ELSE 0)]
<1>1. BitField(word, shift, width) = f[width]
  BY DEF BitField
<1>2. \E value : value =
                  [n \in 0 .. width |->
                     IF n = 0 THEN 0
                     ELSE 2 * value[n - 1] + (IF shift + width - n \in word THEN 1 ELSE 0)]
  <2>1. shift + width \in Int
    OBVIOUS
  <2>2. PICK v : Reads(word, shift + width, width, v)
    BY <2>1, ReadsExist
  <2>3. v = [n \in 0 .. width |->
               IF n = 0 THEN 0
               ELSE 2 * v[n - 1] + (IF shift + width - n \in word THEN 1 ELSE 0)]
    BY <2>2 DEF Reads
  <2> QED  BY <2>3, Zenon
<1>3. f =
                  [n \in 0 .. width |->
                     IF n = 0 THEN 0
                     ELSE 2 * f[n - 1] + (IF shift + width - n \in word THEN 1 ELSE 0)]
  BY <1>2, Zenon
<1> HIDE DEF f
<1>4. Reads(word, shift + width, width, f)
  BY <1>3 DEF Reads
<1> QED  BY <1>1, <1>4

\* A field is twice the field above its lowest bit, and that bit.
LEMMA FieldStep ==
  ASSUME NEW word, NEW shift \in Nat, NEW width \in Nat
  PROVE  /\ BitField(word, shift, 0) = 0
         /\ BitField(word, shift, width + 1) =
              2 * BitField(word, shift + 1, width) + (IF shift \in word THEN 1 ELSE 0)
<1>1. PICK z : Reads(word, shift + 0, 0, z) /\ BitField(word, shift, 0) = z[0]
  <2>1. 0 \in Nat
    OBVIOUS
  <2> QED  BY <2>1, FieldIsRead
<1>2. z[0] = 0
  BY <1>1 DEF Reads
<1> DEFINE top == shift + (width + 1)
<1>3. width + 1 \in Nat /\ shift + 1 \in Nat /\ top \in Int /\ (shift + 1) + width = top
  OBVIOUS
<1>4. PICK f : Reads(word, top, width + 1, f) /\ BitField(word, shift, width + 1) = f[width + 1]
  BY <1>3, FieldIsRead
<1>5. PICK g : Reads(word, (shift + 1) + width, width, g) /\ BitField(word, shift + 1, width) = g[width]
  BY <1>3, FieldIsRead
<1> HIDE DEF top
<1>6. f[width] = g[width]
  <2>1. width <= width + 1
    OBVIOUS
  <2>2. Reads(word, top, width, g)
    BY <1>3, <1>5
  <2> QED  BY <1>3, <1>4, <2>1, <2>2, ReadsAgree
<1>7. f[width + 1] = 2 * f[width] + (IF top - (width + 1) \in word THEN 1 ELSE 0)
  <2>1. width + 1 \in 0 .. width + 1 /\ width + 1 # 0 /\ (width + 1) - 1 = width
    OBVIOUS
  <2> QED  BY <1>4, <2>1 DEF Reads
<1>8. top - (width + 1) = shift
  BY DEF top
<1> QED  BY <1>1, <1>2, <1>4, <1>5, <1>6, <1>7, <1>8

\* The fields of a width hold the numbers below its power of two.
Unsigned(width) == 0 .. 2 ^ width - 1

FieldsFit(width) ==
  \A word : \A shift \in Nat : BitField(word, shift, width) \in Unsigned(width)

\* No field is wider than the 24 bits of a mask.
LEMMA FieldRange == \A width \in 0 .. 24 : FieldsFit(width)
<1>1. FieldsFit(0)
  <2>1. 0 \in Unsigned(0)
    <3>1. 2 ^ 0 = 1
      BY Doubling
    <3> QED  BY <3>1 DEF Unsigned
  <2>2. 0 \in Nat
    OBVIOUS
  <2> QED  BY <2>1, <2>2, FieldStep DEF FieldsFit
<1>2. ASSUME NEW width \in 0 .. 23, FieldsFit(width)
      PROVE  FieldsFit(width + 1)
  <2> SUFFICES ASSUME NEW word, NEW shift \in Nat
               PROVE  BitField(word, shift, width + 1) \in Unsigned(width + 1)
    BY DEF FieldsFit
  <2> DEFINE m == 2 ^ width
             b == BitField(word, shift + 1, width)
  <2>1. 2 ^ (width + 1) = 2 * m /\ m \in Nat \ {0}
    BY Doubling, Zenon
  <2>2. b \in Unsigned(width)
    <3>1. shift + 1 \in Nat
      OBVIOUS
    <3> QED  BY <1>2, <3>1 DEF FieldsFit
  <2>3. BitField(word, shift, width + 1) = 2 * b + (IF shift \in word THEN 1 ELSE 0)
    <3>1. width \in Nat
      OBVIOUS
    <3> QED  BY <3>1, FieldStep
  <2> HIDE DEF b
  <2>4. b \in 0 .. m - 1
    BY <2>2 DEF Unsigned
  <2> HIDE DEF m
  <2>5. 2 * b + (IF shift \in word THEN 1 ELSE 0) \in 0 .. 2 * m - 1
    BY <2>1, <2>4
  <2> QED  BY <2>1, <2>3, <2>5, Zenon DEF Unsigned
<1> DEFINE S == {n \in Nat : n \in 0 .. 24 => FieldsFit(n)}
<1>3. S \subseteq Nat /\ 0 \in S
  BY <1>1
<1>4. \A n \in Nat : n \in S => n + 1 \in S
  BY <1>2
<1> HIDE DEF S
<1>5. S = Nat
  BY <1>3, <1>4, SetInduction
<1> QED  BY <1>5 DEF S

\* The numbers a field of a width holds.
LEMMA FieldBounds ==
  ASSUME NEW word, NEW shift \in Nat, NEW width \in 0 .. 24
  PROVE  /\ BitField(word, shift, width) \in Nat
         /\ BitField(word, shift, width) <= 2 ^ width - 1
<1>1. BitField(word, shift, width) \in 0 .. 2 ^ width - 1
  BY FieldRange, Zenon DEF FieldsFit, Unsigned
<1>2. 2 ^ width - 1 \in Int
  OBVIOUS
<1> DEFINE v == BitField(word, shift, width)
           top == 2 ^ width - 1
<1> HIDE DEF v, top
<1>3. v \in 0 .. top /\ top \in Int
  BY <1>1, <1>2 DEF v, top
<1>4. v \in Nat /\ v <= top
  BY <1>3
<1> QED  BY <1>4 DEF v, top

\* The formats of the source, in numbers.
LEMMA FormatBounds ==
  /\ \A x \in Int : x \in SF23 <=> -8388608 <= x /\ x <= 8388607
  /\ \A x \in Int : x \in Coefficients <=> -16777216 <= x /\ x <= 16777215
  /\ \A x \in Int : x \in 0 .. MASK <=> 0 <= x /\ x <= 16777215
  /\ \A x \in Int : x \in Address <=> 0 <= x /\ x <= 65535
<1>1. kIntRange <= 8388608 /\ 8388608 <= kIntRange
  BY FormatAssumption, SMT
<1>2. \A k, x \in Int :
        /\ x \in -k .. k - 1 <=> -k <= x /\ x <= k - 1
        /\ x \in -2 * k .. 2 * k - 1 <=> -2 * k <= x /\ x <= 2 * k - 1
        /\ x \in 0 .. 2 * k - 1 <=> 0 <= x /\ x <= 2 * k - 1
  OBVIOUS
<1>3. kIntRange \in Int /\ kIntRange \div 256 = 32768
  BY FormatAssumption, SMT
<1>4. \A x \in Int :
        /\ x \in -kIntRange .. kIntRange - 1 <=> -kIntRange <= x /\ x <= kIntRange - 1
        /\ x \in -2 * kIntRange .. 2 * kIntRange - 1
             <=> -2 * kIntRange <= x /\ x <= 2 * kIntRange - 1
        /\ x \in 0 .. 2 * kIntRange - 1 <=> 0 <= x /\ x <= 2 * kIntRange - 1
  BY <1>2, <1>3
<1>5. DelaySize = 32768
  BY <1>3, FormatAssumption DEF DelaySize
<1>6. \A x \in Int : x \in 0 .. 2 * DelaySize - 1 <=> 0 <= x /\ x <= 65535
  <2> DEFINE n == DelaySize
  <2> HIDE DEF n
  <2>1. n <= 32768 /\ 32768 <= n /\ n \in Int
    BY <1>5 DEF n
  <2>2. \A m, x \in Int : x \in 0 .. 2 * m - 1 <=> 0 <= x /\ x <= 2 * m - 1
    OBVIOUS
  <2>3. \A x \in Int : x \in 0 .. 2 * n - 1 <=> 0 <= x /\ x <= 2 * n - 1
    BY <2>1, <2>2
  <2> QED  BY <2>1, <2>3 DEF n
<1> QED  BY <1>1, <1>3, <1>4, <1>6, SMT DEF SF23, MIN, MAX, Coefficients, MASK, Address

\* A fixed-point operand of a type is one of the values of that type in SF23.
LEMMA FixedOperand ==
  ASSUME NEW word, NEW shift \in Nat
  PROVE  /\ DecodeOperand(Operand("S1F9", shift, 11), word) \in Coefficients
         /\ DecodeOperand(Operand("S1F14", shift, 16), word) \in Coefficients
         /\ DecodeOperand(Operand("SF10", shift, 11), word) \in SF23
         /\ DecodeOperand(Operand("I16", shift, 16), word) \in SF23
<1> DEFINE eleven == BitField(word, shift, 11)
           sixteen == BitField(word, shift, 16)
<1>1. 2 ^ 11 - 1 = 2047 /\ 2 ^ 16 - 1 = 65535 /\ 11 \in 0 .. 24 /\ 16 \in 0 .. 24
  OBVIOUS
<1>2. /\ eleven \in Nat /\ eleven <= 2047
      /\ sixteen \in Nat /\ sixteen <= 65535
  BY <1>1, FieldBounds
<1>3. /\ DecodeOperand(Operand("S1F9", shift, 11), word) = SXField(eleven, 11) * 16384
      /\ DecodeOperand(Operand("S1F14", shift, 16), word) = SXField(sixteen, 16) * 512
      /\ DecodeOperand(Operand("SF10", shift, 11), word) = SXField(eleven, 11) * 8192
      /\ DecodeOperand(Operand("I16", shift, 16), word) = SXField(sixteen, 16) * 256
  <2>1. /\ {"S1F9", "S1F14", "SF10", "I16"} \subseteq DOMAIN Frac
        /\ Frac["S1F9"] = 9 /\ Frac["S1F14"] = 14 /\ Frac["SF10"] = 10 /\ Frac["I16"] = 15
    BY DEF Frac
  <2>2. \A type \in DOMAIN Frac : \A width :
          DecodeOperand(Operand(type, shift, width), word)
            = SXField(BitField(word, shift, width), width) * 2 ^ (23 - Frac[type])
    BY DEF DecodeOperand, Operand
  <2>3. 23 - 9 = 14 /\ 23 - 14 = 9 /\ 23 - 10 = 13 /\ 23 - 15 = 8
    OBVIOUS
  <2>4. 2 ^ 14 = 16384 /\ 2 ^ 9 = 512 /\ 2 ^ 13 = 8192 /\ 2 ^ 8 = 256
    OBVIOUS
  <2>5. /\ DecodeOperand(Operand("S1F9", shift, 11), word) = SXField(eleven, 11) * 2 ^ 14
        /\ DecodeOperand(Operand("S1F14", shift, 16), word) = SXField(sixteen, 16) * 2 ^ 9
        /\ DecodeOperand(Operand("SF10", shift, 11), word) = SXField(eleven, 11) * 2 ^ 13
        /\ DecodeOperand(Operand("I16", shift, 16), word) = SXField(sixteen, 16) * 2 ^ 8
    BY <2>1, <2>2, <2>3, Zenon
  <2> QED  BY <2>4, <2>5
<1> HIDE DEF eleven, sixteen
<1>4. /\ SXField(eleven, 11) = IF eleven >= 1024 THEN eleven - 2048 ELSE eleven
      /\ SXField(sixteen, 16) = IF sixteen >= 32768 THEN sixteen - 65536 ELSE sixteen
  BY DEF SXField
<1> DEFINE e == SXField(eleven, 11)
           s == SXField(sixteen, 16)
<1>5. /\ e \in Int /\ -1024 <= e /\ e <= 1023
      /\ s \in Int /\ -32768 <= s /\ s <= 32767
  BY <1>2, <1>4
<1> HIDE DEF e, s
<1>6. /\ e * 16384 \in Coefficients /\ s * 512 \in Coefficients
      /\ e * 8192 \in SF23 /\ s * 256 \in SF23
  BY <1>5, FormatBounds
<1> QED  BY <1>3, <1>6 DEF e, s

\* The operands of the other types are the numbers of their fields.
LEMMA PlainOperand ==
  ASSUME NEW word, NEW shift, NEW width, NEW type \in {"ADDR", "REGS", "MASK", "INT"}
  PROVE  DecodeOperand(Operand(type, shift, width), word) = BitField(word, shift, width)
  BY DEF DecodeOperand, Operand, Frac

-----------------------------------------------------------------------------
(***************************************************************************)
(* What is compiled from a word, by its layout.                            *)
(***************************************************************************)

\* The table, by its numbers.
LEMMA TheLayouts ==
  /\ DOMAIN Layouts = 1 .. 24
  /\ Layouts[1] = Layout("RDA", 0, AnyKey, AddrC)
  /\ Layouts[2] = Layout("RMPA", 1, AnyKey, <<Operand("S1F9", 21, 11)>>)
  /\ Layouts[3] = Layout("WRA", 2, AnyKey, AddrC)
  /\ Layouts[4] = Layout("WRAP", 3, AnyKey, AddrC)
  /\ Layouts[5] = Layout("RDAX", 4, AnyKey, RegsC)
  /\ Layouts[6] = Layout("RDFX", 5, AnyKey, RegsC)
  /\ Layouts[7] = Layout("WRAX", 6, AnyKey, RegsC)
  /\ Layouts[8] = Layout("WRHX", 7, AnyKey, RegsC)
  /\ Layouts[9] = Layout("WRLX", 8, AnyKey, RegsC)
  /\ Layouts[10] = Layout("MAXX", 9, AnyKey, RegsC)
  /\ Layouts[11] = Layout("MULX", 10, {0}, <<Operand("REGS", 5, 6)>>)
  /\ Layouts[12] = Layout("LOG", 11, AnyKey, CD)
  /\ Layouts[13] = Layout("EXP", 12, AnyKey, CD)
  /\ Layouts[14] = Layout("SOF", 13, AnyKey, CD)
  /\ Layouts[15] = Layout("AND", 14, AnyKey, Mask24)
  /\ Layouts[16] = Layout("OR", 15, AnyKey, Mask24)
  /\ Layouts[17] = Layout("XOR", 16, AnyKey, Mask24)
  /\ Layouts[18] = Layout("SKP", 17, AnyKey, <<Operand("MASK", 27, 5), Operand("INT", 21, 6)>>)
  /\ Layouts[19] = Layout("WLDS", 18, {0}, <<Operand("INT", 29, 1), Operand("INT", 20, 9),
                                             Operand("INT", 5, 15)>>)
  /\ Layouts[20] = Layout("WLDR", 18, {1}, <<Operand("INT", 29, 1), Operand("I16", 13, 16),
                                             Operand("INT", 5, 2)>>)
  /\ Layouts[21] = Layout("JAM", 19, {0}, <<Operand("INT", 6, 1)>>)
  /\ Layouts[22] = Layout("CHO_RDA", 20, {0}, Append(ChoNC, Operand("ADDR", 5, 16)))
  /\ Layouts[23] = Layout("CHO_SOF", 20, {2}, Append(ChoNC, Operand("I16", 5, 16)))
  /\ Layouts[24] = Layout("CHO_RDAL", 20, {3}, ChoNC)
<1>1. DOMAIN Layouts = 1 .. 24
  BY DEF Layouts
<1>2. /\ Layouts[1] = Layout("RDA", 0, AnyKey, AddrC)
      /\ Layouts[2] = Layout("RMPA", 1, AnyKey, <<Operand("S1F9", 21, 11)>>)
      /\ Layouts[3] = Layout("WRA", 2, AnyKey, AddrC)
      /\ Layouts[4] = Layout("WRAP", 3, AnyKey, AddrC)
      /\ Layouts[5] = Layout("RDAX", 4, AnyKey, RegsC)
      /\ Layouts[6] = Layout("RDFX", 5, AnyKey, RegsC)
      /\ Layouts[7] = Layout("WRAX", 6, AnyKey, RegsC)
      /\ Layouts[8] = Layout("WRHX", 7, AnyKey, RegsC)
  BY DEF Layouts
<1>3. /\ Layouts[9] = Layout("WRLX", 8, AnyKey, RegsC)
      /\ Layouts[10] = Layout("MAXX", 9, AnyKey, RegsC)
      /\ Layouts[11] = Layout("MULX", 10, {0}, <<Operand("REGS", 5, 6)>>)
      /\ Layouts[12] = Layout("LOG", 11, AnyKey, CD)
      /\ Layouts[13] = Layout("EXP", 12, AnyKey, CD)
      /\ Layouts[14] = Layout("SOF", 13, AnyKey, CD)
      /\ Layouts[15] = Layout("AND", 14, AnyKey, Mask24)
      /\ Layouts[16] = Layout("OR", 15, AnyKey, Mask24)
      /\ Layouts[17] = Layout("XOR", 16, AnyKey, Mask24)
  BY DEF Layouts
<1>4. /\ Layouts[18] = Layout("SKP", 17, AnyKey, <<Operand("MASK", 27, 5), Operand("INT", 21, 6)>>)
      /\ Layouts[19] = Layout("WLDS", 18, {0}, <<Operand("INT", 29, 1), Operand("INT", 20, 9),
                                                 Operand("INT", 5, 15)>>)
      /\ Layouts[20] = Layout("WLDR", 18, {1}, <<Operand("INT", 29, 1), Operand("I16", 13, 16),
                                                 Operand("INT", 5, 2)>>)
      /\ Layouts[21] = Layout("JAM", 19, {0}, <<Operand("INT", 6, 1)>>)
      /\ Layouts[22] = Layout("CHO_RDA", 20, {0}, Append(ChoNC, Operand("ADDR", 5, 16)))
      /\ Layouts[23] = Layout("CHO_SOF", 20, {2}, Append(ChoNC, Operand("I16", 5, 16)))
      /\ Layouts[24] = Layout("CHO_RDAL", 20, {3}, ChoNC)
  BY DEF Layouts
<1> QED  BY <1>1, <1>2, <1>3, <1>4

\* A layout of the table is one of these.
LEMMA LayoutCases ==
  \A i \in DOMAIN Layouts :
    \/ \E opcode \in {"RDA", "WRA", "WRAP"}, primary \in 0 .. 31 :
         Layouts[i] = Layout(opcode, primary, AnyKey, AddrC)
    \/ Layouts[i] = Layout("RMPA", 1, AnyKey, <<Operand("S1F9", 21, 11)>>)
    \/ \E opcode \in {"RDAX", "RDFX", "WRAX", "WRHX", "WRLX", "MAXX"}, primary \in 0 .. 31 :
         Layouts[i] = Layout(opcode, primary, AnyKey, RegsC)
    \/ Layouts[i] = Layout("MULX", 10, {0}, <<Operand("REGS", 5, 6)>>)
    \/ \E opcode \in {"LOG", "EXP", "SOF"}, primary \in 0 .. 31 :
         Layouts[i] = Layout(opcode, primary, AnyKey, CD)
    \/ \E opcode \in {"AND", "OR", "XOR"}, primary \in 0 .. 31 :
         Layouts[i] = Layout(opcode, primary, AnyKey, Mask24)
    \/ Layouts[i] = Layout("SKP", 17, AnyKey, <<Operand("MASK", 27, 5), Operand("INT", 21, 6)>>)
    \/ Layouts[i] = Layout("WLDS", 18, {0}, <<Operand("INT", 29, 1), Operand("INT", 20, 9),
                                              Operand("INT", 5, 15)>>)
    \/ Layouts[i] = Layout("WLDR", 18, {1}, <<Operand("INT", 29, 1), Operand("I16", 13, 16),
                                              Operand("INT", 5, 2)>>)
    \/ Layouts[i] = Layout("JAM", 19, {0}, <<Operand("INT", 6, 1)>>)
    \/ Layouts[i] = Layout("CHO_RDA", 20, {0}, Append(ChoNC, Operand("ADDR", 5, 16)))
    \/ Layouts[i] = Layout("CHO_SOF", 20, {2}, Append(ChoNC, Operand("I16", 5, 16)))
    \/ Layouts[i] = Layout("CHO_RDAL", 20, {3}, ChoNC)
  BY TheLayouts

\* Every operand of the table, whatever the word.
LEMMA OperandRanges ==
  ASSUME NEW word
  PROVE  /\ DecodeOperand(Operand("ADDR", 5, 16), word) \in Address
         /\ DecodeOperand(Operand("S1F9", 21, 11), word) \in Coefficients
         /\ DecodeOperand(Operand("REGS", 5, 6), word) \in 0 .. 63
         /\ DecodeOperand(Operand("S1F14", 16, 16), word) \in Coefficients
         /\ DecodeOperand(Operand("SF10", 5, 11), word) \in SF23
         /\ DecodeOperand(Operand("MASK", 8, 24), word) \in 0 .. MASK
         /\ DecodeOperand(Operand("MASK", 27, 5), word) \in Int
         /\ DecodeOperand(Operand("INT", 21, 6), word) \in Nat
         /\ DecodeOperand(Operand("INT", 29, 1), word) \in 0 .. 1
         /\ DecodeOperand(Operand("INT", 20, 9), word) \in Int
         /\ DecodeOperand(Operand("INT", 5, 15), word) \in Int
         /\ DecodeOperand(Operand("I16", 13, 16), word) \in SF23
         /\ DecodeOperand(Operand("INT", 5, 2), word) \in Int
         /\ DecodeOperand(Operand("INT", 6, 1), word) \in 0 .. 1
         /\ DecodeOperand(Operand("INT", 21, 2), word) \in 0 .. 3
         /\ DecodeOperand(Operand("INT", 24, 6), word) \in Int
         /\ DecodeOperand(Operand("I16", 5, 16), word) \in SF23
<1>1. /\ 5 \in Nat /\ 6 \in Nat /\ 8 \in Nat /\ 13 \in Nat /\ 16 \in Nat
      /\ 20 \in Nat /\ 21 \in Nat /\ 24 \in Nat /\ 27 \in Nat /\ 29 \in Nat
      /\ 1 \in 0 .. 24 /\ 2 \in 0 .. 24 /\ 5 \in 0 .. 24 /\ 6 \in 0 .. 24 /\ 9 \in 0 .. 24
      /\ 15 \in 0 .. 24 /\ 16 \in 0 .. 24 /\ 24 \in 0 .. 24
  OBVIOUS
<1>2. /\ DecodeOperand(Operand("S1F9", 21, 11), word) \in Coefficients
      /\ DecodeOperand(Operand("S1F14", 16, 16), word) \in Coefficients
      /\ DecodeOperand(Operand("SF10", 5, 11), word) \in SF23
      /\ DecodeOperand(Operand("I16", 13, 16), word) \in SF23
      /\ DecodeOperand(Operand("I16", 5, 16), word) \in SF23
  BY <1>1, FixedOperand
<1>3. ASSUME NEW type \in {"ADDR", "REGS", "MASK", "INT"}, NEW shift \in Nat, NEW width \in 0 .. 24
      PROVE  /\ DecodeOperand(Operand(type, shift, width), word) \in Nat
             /\ DecodeOperand(Operand(type, shift, width), word) <= 2 ^ width - 1
  <2>1. DecodeOperand(Operand(type, shift, width), word) = BitField(word, shift, width)
    BY PlainOperand, Zenon
  <2>2. BitField(word, shift, width) \in Nat /\ BitField(word, shift, width) <= 2 ^ width - 1
    BY FieldBounds, Zenon
  <2> QED  BY <2>1, <2>2, Zenon
<1>4. /\ 2 ^ 1 - 1 = 1 /\ 2 ^ 2 - 1 = 3 /\ 2 ^ 6 - 1 = 63 /\ 2 ^ 16 - 1 = 65535
      /\ 2 ^ 24 - 1 = 16777215
  OBVIOUS
<1>5. DecodeOperand(Operand("ADDR", 5, 16), word) \in Address
  <2> DEFINE a == DecodeOperand(Operand("ADDR", 5, 16), word)
  <2>1. a \in Nat /\ a <= 2 ^ 16 - 1
    BY <1>1, <1>3, Zenon
  <2> HIDE DEF a
  <2>2. a \in Nat /\ a <= 65535
    BY <1>4, <2>1
  <2>3. a \in Address
    BY <2>2, FormatBounds
  <2> QED  BY <2>3 DEF a
<1>6. DecodeOperand(Operand("MASK", 8, 24), word) \in 0 .. MASK
  <2> DEFINE a == DecodeOperand(Operand("MASK", 8, 24), word)
  <2>1. a \in Nat /\ a <= 2 ^ 24 - 1
    BY <1>1, <1>3, Zenon
  <2> HIDE DEF a
  <2>2. a \in Nat /\ a <= 16777215
    BY <1>4, <2>1
  <2>3. a \in 0 .. MASK
    BY <2>2, FormatBounds
  <2> QED  BY <2>3 DEF a
<1>7. /\ DecodeOperand(Operand("REGS", 5, 6), word) \in 0 .. 63
      /\ DecodeOperand(Operand("INT", 29, 1), word) \in 0 .. 1
      /\ DecodeOperand(Operand("INT", 6, 1), word) \in 0 .. 1
      /\ DecodeOperand(Operand("INT", 21, 2), word) \in 0 .. 3
  <2> DEFINE a == DecodeOperand(Operand("REGS", 5, 6), word)
             b == DecodeOperand(Operand("INT", 29, 1), word)
             c == DecodeOperand(Operand("INT", 6, 1), word)
             d == DecodeOperand(Operand("INT", 21, 2), word)
  <2>1. /\ a \in Nat /\ a <= 2 ^ 6 - 1 /\ b \in Nat /\ b <= 2 ^ 1 - 1
        /\ c \in Nat /\ c <= 2 ^ 1 - 1 /\ d \in Nat /\ d <= 2 ^ 2 - 1
    BY <1>1, <1>3, Zenon
  <2> HIDE DEF a, b, c, d
  <2>2. a \in 0 .. 63 /\ b \in 0 .. 1 /\ c \in 0 .. 1 /\ d \in 0 .. 3
    BY <1>4, <2>1
  <2> QED  BY <2>2 DEF a, b, c, d
<1>8. /\ DecodeOperand(Operand("MASK", 27, 5), word) \in Int
      /\ DecodeOperand(Operand("INT", 21, 6), word) \in Nat
      /\ DecodeOperand(Operand("INT", 20, 9), word) \in Int
      /\ DecodeOperand(Operand("INT", 5, 15), word) \in Int
      /\ DecodeOperand(Operand("INT", 5, 2), word) \in Int
      /\ DecodeOperand(Operand("INT", 24, 6), word) \in Int
  <2>1. \A n \in Nat : n \in Int
    OBVIOUS
  <2> QED  BY <1>1, <1>3, <2>1, Zenon
<1> QED  BY <1>2, <1>5, <1>6, <1>7, <1>8

\* What is known of a compiled instruction, before or after Optimize.
Opcodes ==
  {"RDA", "RMPA", "WRA", "WRAP", "RDAX", "RDFX", "WRAX", "WRHX", "WRLX", "MAXX",
   "MULX", "LDAX", "LOG", "EXP", "SOF", "AND", "OR", "XOR", "SKP", "JMP", "WLDS",
   "WLDR", "JAM", "CLR", "NOT", "ABSA", "NOP", "UNKNOWN", "CHO_RDA", "CHO_SOF",
   "CHO_RDAL", "CHO_RDA_RMP", "CHO_RDA_SIN", "CHO_SOF_RMP", "CHO_SOF_SIN"}

Form(ci) ==
  /\ ci \in [opcode : Opcodes, constants : [0 .. 2 -> Int]]
  /\ ci.opcode \in {"RDA", "WRA", "WRAP"} => ci.constants[0] \in Address
  /\ ci.opcode = "RMPA" => ci.constants[0] \in Coefficients
  /\ ci.opcode \in {"RDAX", "RDFX", "WRAX", "WRHX", "WRLX", "MAXX", "MULX", "LDAX"} =>
       ci.constants[0] \in 0 .. 63
  /\ ci.opcode \in {"RDA", "WRA", "WRAP", "RDAX", "RDFX", "WRAX", "WRHX", "WRLX", "MAXX"} =>
       ci.constants[1] \in Coefficients
  /\ ci.opcode = "SOF" => ci.constants[0] \in Coefficients /\ ci.constants[1] \in SF23
  /\ ci.opcode \in {"AND", "OR", "XOR"} => ci.constants[0] \in 0 .. MASK
  /\ ci.opcode \in {"SKP", "JMP"} => ci.constants[1] \in Nat
  /\ ci.opcode \in {"WLDS", "WLDR", "JAM", "CHO_RDA_RMP", "CHO_RDA_SIN", "CHO_SOF_RMP",
                    "CHO_SOF_SIN"} => ci.constants[0] \in 0 .. 1
  /\ ci.opcode = "CHO_RDAL" => ci.constants[0] \in 0 .. 5
  /\ ci.opcode \in {"CHO_RDA", "CHO_RDA_RMP", "CHO_RDA_SIN"} => ci.constants[2] \in Address
  /\ ci.opcode \in {"CHO_SOF", "CHO_SOF_RMP", "CHO_SOF_SIN"} => ci.constants[2] \in SF23

\* A compiled instruction has an opcode, and as its constants the operands that
\* a word has in the places of a layout, and zeros.
IsFor(ci, opcode, operands, word) ==
  /\ ci = [opcode |-> opcode, constants |-> ci.constants]
  /\ ci.constants = [k \in 0 .. 2 |-> ci.constants[k]]
  /\ \A k \in 0 .. 2 :
       ci.constants[k] = IF k + 1 \in DOMAIN operands
                         THEN DecodeOperand(operands[k + 1], word) ELSE 0

\* That is what the compiler makes of a decoded word.
LEMMA CompiledAs ==
  \A opcode, primary, secondary, operands, word :
    IsFor(CompileInstruction(DecodeAs(Layout(opcode, primary, secondary, operands), word)),
          opcode, operands, word)
<1> SUFFICES ASSUME NEW opcode, NEW primary, NEW secondary, NEW operands, NEW word
             PROVE  IsFor(CompileInstruction(DecodeAs(Layout(opcode, primary, secondary, operands), word)),
                          opcode, operands, word)
  OBVIOUS
<1> DEFINE constants == [k \in 0 .. 2 |-> IF k + 1 \in DOMAIN operands
                                           THEN DecodeOperand(operands[k + 1], word) ELSE 0]
           ci == CompileInstruction(DecodeAs(Layout(opcode, primary, secondary, operands), word))
<1>1. ci = [opcode |-> opcode, constants |-> constants]
  BY DEF CompileInstruction, DecodeAs, Layout, kMaxOperands
<1> HIDE DEF ci
<1>2. ci.constants = constants /\ ci.opcode = opcode
  BY <1>1
<1>3. IsFor(ci, opcode, operands, word)
  BY <1>1, <1>2 DEF IsFor
<1> QED  BY <1>3 DEF ci

\* The numbers of the source's formats are integers.
LEMMA FormatsAreNumbers == SF23 \subseteq Int /\ Coefficients \subseteq Int /\ Address \subseteq Int
                           /\ 0 .. MASK \subseteq Int
  BY RangeAssumption DEF SF23, MIN, MAX, Coefficients, Address, MASK

\* A word that some layout reads is compiled to what the opcode needs.
LEMMA LayoutForm ==
  ASSUME NEW i \in DOMAIN Layouts, NEW word
  PROVE  Form(CompileInstruction(DecodeAs(Layouts[i], word)))
<1> DEFINE ci == CompileInstruction(DecodeAs(Layouts[i], word))
           D(operand) == DecodeOperand(operand, word)
<1>0. SF23 \subseteq Int /\ Coefficients \subseteq Int /\ Address \subseteq Int /\ 0 .. MASK \subseteq Int
  BY FormatsAreNumbers
<1>1. \A opcode, primary, secondary, operands :
        Layouts[i] = Layout(opcode, primary, secondary, operands) =>
          IsFor(ci, opcode, operands, word)
  BY CompiledAs
<1> HIDE DEF ci
<1>2. ASSUME NEW opcode \in {"RDA", "WRA", "WRAP"}, NEW primary,
             Layouts[i] = Layout(opcode, primary, AnyKey, AddrC)
      PROVE  Form(ci)
  <2> DEFINE operands == AddrC
  <2>1. /\ DOMAIN operands = 1 .. 2
        /\ operands[1] = Operand("ADDR", 5, 16)
        /\ operands[2] = Operand("S1F9", 21, 11)
    BY DEF AddrC
  <2>2. IsFor(ci, opcode, operands, word)
    BY <1>1, <1>2
  <2> HIDE DEF operands
  <2>3. /\ ci.constants[0] = D(Operand("ADDR", 5, 16))
        /\ ci.constants[1] = D(Operand("S1F9", 21, 11))
        /\ ci.constants[2] = 0
    BY <2>1, <2>2 DEF IsFor
  <2>4. ci.constants[0] \in Address /\ ci.constants[1] \in Coefficients
    BY <2>3, OperandRanges
  <2>5. ci.opcode = opcode /\ ci \in [opcode : Opcodes, constants : [0 .. 2 -> Int]]
    BY <1>0, <2>2, <2>3, <2>4 DEF Opcodes, IsFor
  <2> QED  BY <2>4, <2>5 DEF Form
<1>3. ASSUME NEW primary,
             Layouts[i] = Layout("RMPA", primary, AnyKey, <<Operand("S1F9", 21, 11)>>)
      PROVE  Form(ci)
  <2> DEFINE operands == <<Operand("S1F9", 21, 11)>>
  <2>1. /\ DOMAIN operands = 1 .. 1
        /\ operands[1] = Operand("S1F9", 21, 11)
    OBVIOUS
  <2>2. IsFor(ci, "RMPA", operands, word)
    BY <1>1, <1>3
  <2> HIDE DEF operands
  <2>3. /\ ci.constants[0] = D(Operand("S1F9", 21, 11))
        /\ ci.constants[1] = 0
        /\ ci.constants[2] = 0
    BY <2>1, <2>2 DEF IsFor
  <2>4. ci.constants[0] \in Coefficients
    BY <2>3, OperandRanges
  <2>5. ci.opcode = "RMPA" /\ ci \in [opcode : Opcodes, constants : [0 .. 2 -> Int]]
    BY <1>0, <2>2, <2>3, <2>4 DEF Opcodes, IsFor
  <2> QED  BY <2>4, <2>5 DEF Form
<1>4. ASSUME NEW opcode \in {"RDAX", "RDFX", "WRAX", "WRHX", "WRLX", "MAXX"}, NEW primary,
             Layouts[i] = Layout(opcode, primary, AnyKey, RegsC)
      PROVE  Form(ci)
  <2> DEFINE operands == RegsC
  <2>1. /\ DOMAIN operands = 1 .. 2
        /\ operands[1] = Operand("REGS", 5, 6)
        /\ operands[2] = Operand("S1F14", 16, 16)
    BY DEF RegsC
  <2>2. IsFor(ci, opcode, operands, word)
    BY <1>1, <1>4
  <2> HIDE DEF operands
  <2>3. /\ ci.constants[0] = D(Operand("REGS", 5, 6))
        /\ ci.constants[1] = D(Operand("S1F14", 16, 16))
        /\ ci.constants[2] = 0
    BY <2>1, <2>2 DEF IsFor
  <2>4. ci.constants[0] \in 0 .. 63 /\ ci.constants[1] \in Coefficients
    BY <2>3, OperandRanges
  <2>5. ci.opcode = opcode /\ ci \in [opcode : Opcodes, constants : [0 .. 2 -> Int]]
    BY <1>0, <2>2, <2>3, <2>4 DEF Opcodes, IsFor
  <2> QED  BY <2>4, <2>5 DEF Form
<1>5. ASSUME NEW primary,
             Layouts[i] = Layout("MULX", primary, {0}, <<Operand("REGS", 5, 6)>>)
      PROVE  Form(ci)
  <2> DEFINE operands == <<Operand("REGS", 5, 6)>>
  <2>1. /\ DOMAIN operands = 1 .. 1
        /\ operands[1] = Operand("REGS", 5, 6)
    OBVIOUS
  <2>2. IsFor(ci, "MULX", operands, word)
    BY <1>1, <1>5
  <2> HIDE DEF operands
  <2>3. /\ ci.constants[0] = D(Operand("REGS", 5, 6))
        /\ ci.constants[1] = 0
        /\ ci.constants[2] = 0
    BY <2>1, <2>2 DEF IsFor
  <2>4. ci.constants[0] \in 0 .. 63
    BY <2>3, OperandRanges
  <2>5. ci.opcode = "MULX" /\ ci \in [opcode : Opcodes, constants : [0 .. 2 -> Int]]
    BY <1>0, <2>2, <2>3, <2>4 DEF Opcodes, IsFor
  <2> QED  BY <2>4, <2>5 DEF Form
<1>6. ASSUME NEW opcode \in {"LOG", "EXP", "SOF"}, NEW primary,
             Layouts[i] = Layout(opcode, primary, AnyKey, CD)
      PROVE  Form(ci)
  <2> DEFINE operands == CD
  <2>1. /\ DOMAIN operands = 1 .. 2
        /\ operands[1] = Operand("S1F14", 16, 16)
        /\ operands[2] = Operand("SF10", 5, 11)
    BY DEF CD
  <2>2. IsFor(ci, opcode, operands, word)
    BY <1>1, <1>6
  <2> HIDE DEF operands
  <2>3. /\ ci.constants[0] = D(Operand("S1F14", 16, 16))
        /\ ci.constants[1] = D(Operand("SF10", 5, 11))
        /\ ci.constants[2] = 0
    BY <2>1, <2>2 DEF IsFor
  <2>4. ci.constants[0] \in Coefficients /\ ci.constants[1] \in SF23
    BY <2>3, OperandRanges
  <2>5. ci.opcode = opcode /\ ci \in [opcode : Opcodes, constants : [0 .. 2 -> Int]]
    BY <1>0, <2>2, <2>3, <2>4 DEF Opcodes, IsFor
  <2> QED  BY <2>4, <2>5 DEF Form
<1>7. ASSUME NEW opcode \in {"AND", "OR", "XOR"}, NEW primary,
             Layouts[i] = Layout(opcode, primary, AnyKey, Mask24)
      PROVE  Form(ci)
  <2> DEFINE operands == Mask24
  <2>1. /\ DOMAIN operands = 1 .. 1
        /\ operands[1] = Operand("MASK", 8, 24)
    BY DEF Mask24
  <2>2. IsFor(ci, opcode, operands, word)
    BY <1>1, <1>7
  <2> HIDE DEF operands
  <2>3. /\ ci.constants[0] = D(Operand("MASK", 8, 24))
        /\ ci.constants[1] = 0
        /\ ci.constants[2] = 0
    BY <2>1, <2>2 DEF IsFor
  <2>4. ci.constants[0] \in 0 .. MASK
    BY <2>3, OperandRanges
  <2>5. ci.opcode = opcode /\ ci \in [opcode : Opcodes, constants : [0 .. 2 -> Int]]
    BY <1>0, <2>2, <2>3, <2>4 DEF Opcodes, IsFor
  <2> QED  BY <2>4, <2>5 DEF Form
<1>8. ASSUME NEW primary,
             Layouts[i] = Layout("SKP", primary, AnyKey, <<Operand("MASK", 27, 5), Operand("INT", 21, 6)>>)
      PROVE  Form(ci)
  <2> DEFINE operands == <<Operand("MASK", 27, 5), Operand("INT", 21, 6)>>
  <2>1. /\ DOMAIN operands = 1 .. 2
        /\ operands[1] = Operand("MASK", 27, 5)
        /\ operands[2] = Operand("INT", 21, 6)
    OBVIOUS
  <2>2. IsFor(ci, "SKP", operands, word)
    BY <1>1, <1>8
  <2> HIDE DEF operands
  <2>3. /\ ci.constants[0] = D(Operand("MASK", 27, 5))
        /\ ci.constants[1] = D(Operand("INT", 21, 6))
        /\ ci.constants[2] = 0
    BY <2>1, <2>2 DEF IsFor
  <2>4. ci.constants[0] \in Int /\ ci.constants[1] \in Nat
    BY <2>3, OperandRanges
  <2>5. ci.opcode = "SKP" /\ ci \in [opcode : Opcodes, constants : [0 .. 2 -> Int]]
    BY <1>0, <2>2, <2>3, <2>4 DEF Opcodes, IsFor
  <2> QED  BY <2>4, <2>5 DEF Form
<1>9. ASSUME NEW primary,
             Layouts[i] = Layout("WLDS", primary, {0}, <<Operand("INT", 29, 1), Operand("INT", 20, 9), Operand("INT", 5, 15)>>)
      PROVE  Form(ci)
  <2> DEFINE operands == <<Operand("INT", 29, 1), Operand("INT", 20, 9), Operand("INT", 5, 15)>>
  <2>1. /\ DOMAIN operands = 1 .. 3
        /\ operands[1] = Operand("INT", 29, 1)
        /\ operands[2] = Operand("INT", 20, 9)
        /\ operands[3] = Operand("INT", 5, 15)
    OBVIOUS
  <2>2. IsFor(ci, "WLDS", operands, word)
    BY <1>1, <1>9
  <2> HIDE DEF operands
  <2>3. /\ ci.constants[0] = D(Operand("INT", 29, 1))
        /\ ci.constants[1] = D(Operand("INT", 20, 9))
        /\ ci.constants[2] = D(Operand("INT", 5, 15))
    BY <2>1, <2>2 DEF IsFor
  <2>4. ci.constants[0] \in 0 .. 1 /\ ci.constants[1] \in Int /\ ci.constants[2] \in Int
    BY <2>3, OperandRanges
  <2>5. ci.opcode = "WLDS" /\ ci \in [opcode : Opcodes, constants : [0 .. 2 -> Int]]
    BY <1>0, <2>2, <2>3, <2>4 DEF Opcodes, IsFor
  <2> QED  BY <2>4, <2>5 DEF Form
<1>10. ASSUME NEW primary,
             Layouts[i] = Layout("WLDR", primary, {1}, <<Operand("INT", 29, 1), Operand("I16", 13, 16), Operand("INT", 5, 2)>>)
      PROVE  Form(ci)
  <2> DEFINE operands == <<Operand("INT", 29, 1), Operand("I16", 13, 16), Operand("INT", 5, 2)>>
  <2>1. /\ DOMAIN operands = 1 .. 3
        /\ operands[1] = Operand("INT", 29, 1)
        /\ operands[2] = Operand("I16", 13, 16)
        /\ operands[3] = Operand("INT", 5, 2)
    OBVIOUS
  <2>2. IsFor(ci, "WLDR", operands, word)
    BY <1>1, <1>10
  <2> HIDE DEF operands
  <2>3. /\ ci.constants[0] = D(Operand("INT", 29, 1))
        /\ ci.constants[1] = D(Operand("I16", 13, 16))
        /\ ci.constants[2] = D(Operand("INT", 5, 2))
    BY <2>1, <2>2 DEF IsFor
  <2>4. ci.constants[0] \in 0 .. 1 /\ ci.constants[1] \in SF23 /\ ci.constants[2] \in Int
    BY <2>3, OperandRanges
  <2>5. ci.opcode = "WLDR" /\ ci \in [opcode : Opcodes, constants : [0 .. 2 -> Int]]
    BY <1>0, <2>2, <2>3, <2>4 DEF Opcodes, IsFor
  <2> QED  BY <2>4, <2>5 DEF Form
<1>11. ASSUME NEW primary,
             Layouts[i] = Layout("JAM", primary, {0}, <<Operand("INT", 6, 1)>>)
      PROVE  Form(ci)
  <2> DEFINE operands == <<Operand("INT", 6, 1)>>
  <2>1. /\ DOMAIN operands = 1 .. 1
        /\ operands[1] = Operand("INT", 6, 1)
    OBVIOUS
  <2>2. IsFor(ci, "JAM", operands, word)
    BY <1>1, <1>11
  <2> HIDE DEF operands
  <2>3. /\ ci.constants[0] = D(Operand("INT", 6, 1))
        /\ ci.constants[1] = 0
        /\ ci.constants[2] = 0
    BY <2>1, <2>2 DEF IsFor
  <2>4. ci.constants[0] \in 0 .. 1
    BY <2>3, OperandRanges
  <2>5. ci.opcode = "JAM" /\ ci \in [opcode : Opcodes, constants : [0 .. 2 -> Int]]
    BY <1>0, <2>2, <2>3, <2>4 DEF Opcodes, IsFor
  <2> QED  BY <2>4, <2>5 DEF Form
<1>12. ASSUME NEW primary,
             Layouts[i] = Layout("CHO_RDA", primary, {0}, Append(ChoNC, Operand("ADDR", 5, 16)))
      PROVE  Form(ci)
  <2> DEFINE operands == Append(ChoNC, Operand("ADDR", 5, 16))
  <2>1. /\ DOMAIN operands = 1 .. 3
        /\ operands[1] = Operand("INT", 21, 2)
        /\ operands[2] = Operand("INT", 24, 6)
        /\ operands[3] = Operand("ADDR", 5, 16)
    BY DEF ChoNC
  <2>2. IsFor(ci, "CHO_RDA", operands, word)
    BY <1>1, <1>12
  <2> HIDE DEF operands
  <2>3. /\ ci.constants[0] = D(Operand("INT", 21, 2))
        /\ ci.constants[1] = D(Operand("INT", 24, 6))
        /\ ci.constants[2] = D(Operand("ADDR", 5, 16))
    BY <2>1, <2>2 DEF IsFor
  <2>4. ci.constants[0] \in 0 .. 3 /\ ci.constants[1] \in Int /\ ci.constants[2] \in Address
    BY <2>3, OperandRanges
  <2>5. ci.opcode = "CHO_RDA" /\ ci \in [opcode : Opcodes, constants : [0 .. 2 -> Int]]
    BY <1>0, <2>2, <2>3, <2>4 DEF Opcodes, IsFor
  <2> QED  BY <2>4, <2>5 DEF Form
<1>13. ASSUME NEW primary,
             Layouts[i] = Layout("CHO_SOF", primary, {2}, Append(ChoNC, Operand("I16", 5, 16)))
      PROVE  Form(ci)
  <2> DEFINE operands == Append(ChoNC, Operand("I16", 5, 16))
  <2>1. /\ DOMAIN operands = 1 .. 3
        /\ operands[1] = Operand("INT", 21, 2)
        /\ operands[2] = Operand("INT", 24, 6)
        /\ operands[3] = Operand("I16", 5, 16)
    BY DEF ChoNC
  <2>2. IsFor(ci, "CHO_SOF", operands, word)
    BY <1>1, <1>13
  <2> HIDE DEF operands
  <2>3. /\ ci.constants[0] = D(Operand("INT", 21, 2))
        /\ ci.constants[1] = D(Operand("INT", 24, 6))
        /\ ci.constants[2] = D(Operand("I16", 5, 16))
    BY <2>1, <2>2 DEF IsFor
  <2>4. ci.constants[0] \in 0 .. 3 /\ ci.constants[1] \in Int /\ ci.constants[2] \in SF23
    BY <2>3, OperandRanges
  <2>5. ci.opcode = "CHO_SOF" /\ ci \in [opcode : Opcodes, constants : [0 .. 2 -> Int]]
    BY <1>0, <2>2, <2>3, <2>4 DEF Opcodes, IsFor
  <2> QED  BY <2>4, <2>5 DEF Form
<1>14. ASSUME NEW primary,
             Layouts[i] = Layout("CHO_RDAL", primary, {3}, ChoNC)
      PROVE  Form(ci)
  <2> DEFINE operands == ChoNC
  <2>1. /\ DOMAIN operands = 1 .. 2
        /\ operands[1] = Operand("INT", 21, 2)
        /\ operands[2] = Operand("INT", 24, 6)
    BY DEF ChoNC
  <2>2. IsFor(ci, "CHO_RDAL", operands, word)
    BY <1>1, <1>14
  <2> HIDE DEF operands
  <2>3. /\ ci.constants[0] = D(Operand("INT", 21, 2))
        /\ ci.constants[1] = D(Operand("INT", 24, 6))
        /\ ci.constants[2] = 0
    BY <2>1, <2>2 DEF IsFor
  <2>4. ci.constants[0] \in 0 .. 3 /\ ci.constants[1] \in Int
    BY <2>3, OperandRanges
  <2>5. ci.opcode = "CHO_RDAL" /\ ci \in [opcode : Opcodes, constants : [0 .. 2 -> Int]]
    BY <1>0, <2>2, <2>3, <2>4 DEF Opcodes, IsFor
  <2> QED  BY <2>4, <2>5 DEF Form
<1> QED
  BY LayoutCases, <1>2, <1>3, <1>4, <1>5, <1>6, <1>7, <1>8, <1>9, <1>10, <1>11, <1>12, <1>13, <1>14 DEF ci

\* The search of the table finds layouts of the table.
LEMMA LookupsAreLayouts ==
  ASSUME NEW word
  PROVE  Lookups(word) \subseteq {Layouts[i] : i \in DOMAIN Layouts}
<1>1. \A slot \in 0 .. 33 : InstructionTable[slot] \subseteq {Layouts[i] : i \in DOMAIN Layouts}
  BY DEF InstructionTable, kOpcodeMax, kNumSecondaryOpcodes
<1>2. BitField(word, 0, 5) \in 0 .. 33
  <2>1. 0 \in Nat /\ 5 \in 0 .. 24 /\ 2 ^ 5 - 1 = 31
    OBVIOUS
  <2> QED  BY <2>1, FieldBounds
<1>3. \A slot \in 31 .. 33 : slot \in 0 .. 33
  OBVIOUS
<1>4. kOpcodeMax .. kOpcodeMax + kNumSecondaryOpcodes - 1 = 31 .. 33
  BY DEF kOpcodeMax, kNumSecondaryOpcodes
<1> QED  BY <1>1, <1>2, <1>3, <1>4 DEF Lookups

\* So is any word.
LEMMA LoadedForm == \A word : Form(CompileInstruction(Decode(word)))
<1> SUFFICES ASSUME NEW word
             PROVE  Form(CompileInstruction(Decode(word)))
  OBVIOUS
<1>1. CASE Lookups(word) = {}
  <2> DEFINE ci == CompileInstruction([opcode |-> "UNKNOWN", operands |-> <<>>])
  <2>1. ci = [opcode |-> "UNKNOWN", constants |-> [k \in 0 .. 2 |-> 0]]
    BY DEF CompileInstruction, kMaxOperands
  <2>2. Decode(word) = [opcode |-> "UNKNOWN", operands |-> <<>>]
    BY <1>1 DEF Decode
  <2> HIDE DEF ci
  <2>3. Form(ci)
    BY <2>1 DEF Form, Opcodes
  <2> QED  BY <2>2, <2>3 DEF ci
<1>2. CASE Lookups(word) # {}
  <2>3. Decode(word) = DecodeAs(CHOOSE layout \in Lookups(word) : TRUE, word)
    BY <1>2 DEF Decode
  <2>4. PICK i \in DOMAIN Layouts : Decode(word) = DecodeAs(Layouts[i], word)
    BY <1>2, <2>3, LookupsAreLayouts
  <2> QED  BY <2>4, LayoutForm
<1> QED  BY <1>1, <1>2

\* A left shift that leaves some bits has a result.
LEMMA ShiftIsInt ==
  ASSUME NEW v \in Int, NEW bits \in 8 .. 31
  PROVE  ShiftLeft(v, bits) \in Int
<1>1. 31 - bits \in 0 .. 23 /\ 32 - bits = (31 - bits) + 1
  OBVIOUS
<1> DEFINE h == 2 ^ (31 - bits)
           u == 2 ^ bits
<1>2. h \in Nat \ {0} /\ 2 ^ (32 - bits) = 2 * h
  BY <1>1, Doubling, Zenon
<1>3. u \in Int
  OBVIOUS
<1> HIDE DEF h, u
<1>4. (((v + h) % (2 * h)) - h) * u \in Int
  BY <1>2, <1>3
<1> QED  BY <1>2, <1>4 DEF ShiftLeft, h, u

\* Optimize keeps the form, and leaves no CHO without its LFO: whatever it is
\* given, and however often.
LEMMA OptimizedForm ==
  ASSUME NEW ci, Form(ci)
  PROVE  Form(Optimized(ci)) /\ Optimized(ci).opcode \notin {"CHO_RDA", "CHO_SOF"}
<1>0. /\ ci \in [opcode : Opcodes, constants : [0 .. 2 -> Int]]
      /\ ci.constants[0] \in Int /\ ci.constants[1] \in Int /\ ci.constants[2] \in Int
  BY DEF Form
<1>1. CASE Is(ci, "RDFX", 1, 0)
  <2>1. Optimized(ci) = Become(ci, "LDAX")
    BY <1>1 DEF Optimized
  <2> QED  BY <1>0, <1>1, <2>1 DEF Become, Is, Form, Opcodes
<1>2. CASE Is(ci, "MAXX", 1, 0)
  <2>1. Optimized(ci) = Become(ci, "ABSA")
    BY <1>2 DEF Optimized, Is
  <2> QED  BY <1>0, <1>2, <2>1 DEF Become, Is, Form, Opcodes
<1>3. CASE Is(ci, "AND", 0, 0)
  <2>1. Optimized(ci) = Become(ci, "CLR")
    BY <1>3 DEF Optimized, Is
  <2> QED  BY <1>0, <1>3, <2>1 DEF Become, Is, Form, Opcodes
<1>4. CASE Is(ci, "XOR", 0, MASK)
  <2>1. Optimized(ci) = Become(ci, "NOT")
    BY <1>4 DEF Optimized, Is
  <2> QED  BY <1>0, <1>4, <2>1 DEF Become, Is, Form, Opcodes
<1>5. CASE ci.opcode = "SKP"
  <2>1. Optimized(ci) \in {Become(ci, "NOP"), Become(ci, "JMP"), ci}
    BY <1>5 DEF Optimized, Is, OptimizeSkip
  <2> QED  BY <1>0, <1>5, <2>1 DEF Become, Form, Opcodes
<1>6. CASE ci.opcode = "WLDS"
  <2> DEFINE f == ShiftLeft(ci.constants[1], 23 - 9)
             a == ShiftLeft(f, 23 - 15)
  <2>1. f \in Int /\ a \in Int
    <3>1. 23 - 9 \in 8 .. 31 /\ 23 - 15 \in 8 .. 31
      OBVIOUS
    <3> QED  BY <1>0, <3>1, ShiftIsInt, Zenon
  <2>2. Optimized(ci) = [ci EXCEPT !.constants = Constants(ci.constants[0], f, a)]
    BY <1>0, <1>6 DEF Optimized, Is, OptimizeWlds
  <2> HIDE DEF f, a
  <2>3. Constants(ci.constants[0], f, a) \in [0 .. 2 -> Int]
        /\ Constants(ci.constants[0], f, a)[0] = ci.constants[0]
    BY <1>0, <2>1 DEF Constants, kMaxOperands
  <2> QED  BY <1>0, <1>6, <2>2, <2>3 DEF Form, Opcodes
<1>7. CASE ci.opcode = "WLDR"
  <2> DEFINE a == ShiftLeft(ci.constants[2], 23 - 2)
  <2>1. a \in Int
    <3>1. 23 - 2 \in 8 .. 31
      OBVIOUS
    <3> QED  BY <1>0, <3>1, ShiftIsInt, Zenon
  <2>2. Optimized(ci) = [ci EXCEPT !.constants[2] = a]
    BY <1>0, <1>7 DEF Optimized, Is, OptimizeWldr
  <2> HIDE DEF a
  <2> QED  BY <1>0, <1>7, <2>1, <2>2 DEF Form, Opcodes
<1>8. CASE ci.opcode \in {"CHO_RDA", "CHO_SOF"}
  <2>1. Optimized(ci) = OptimizeCho(ci)
    BY <1>8 DEF Optimized, Is
  <2>2. Selected(ci) % 2 \in 0 .. 1
    BY <1>0 DEF Selected
  <2> QED  BY <1>0, <1>8, <2>1, <2>2 DEF OptimizeCho, Form, Opcodes
<1>9. CASE ci.opcode = "CHO_RDAL"
  <2>1. Optimized(ci) = [ci EXCEPT !.constants[0] = LookupIndex(ci)]
    BY <1>9 DEF Optimized, Is
  <2>2. LookupIndex(ci) \in 0 .. 5
    BY <1>0 DEF LookupIndex, Selected, CosFlag
  <2> QED  BY <1>0, <1>9, <2>1, <2>2 DEF Form, Opcodes
<1>10. CASE /\ ~Is(ci, "RDFX", 1, 0) /\ ~Is(ci, "MAXX", 1, 0) /\ ~Is(ci, "AND", 0, 0)
            /\ ~Is(ci, "XOR", 0, MASK)
            /\ ci.opcode \notin {"SKP", "WLDS", "WLDR", "CHO_RDA", "CHO_SOF", "CHO_RDAL"}
  BY <1>10 DEF Optimized
<1> QED  BY <1>1, <1>2, <1>3, <1>4, <1>5, <1>6, <1>7, <1>8, <1>9, <1>10

\* What has this form, the switch can execute.
LEMMA FormExecutable ==
  ASSUME NEW ci, Form(ci), ci.opcode \notin {"CHO_RDA", "CHO_SOF"}
  PROVE  Dispatch(ci) \in Instruction
<1>0. /\ ci.opcode \in Opcodes
      /\ ci.constants[0] \in Int /\ ci.constants[1] \in Int /\ ci.constants[2] \in Int
  BY DEF Form
<1> DEFINE o == ci.opcode
<1>1. CASE o \in {"RDA", "WRA", "WRAP"}
  <2>1. Dispatch(ci) \in [opcode : {"RDA", "WRA", "WRAP"}, addr : Address, c : Coefficients]
    BY <1>1 DEF Dispatch, Form
  <2> QED  BY <2>1 DEF Instruction
<1>2. CASE o = "RMPA"
  <2>1. Dispatch(ci) \in [opcode : {"RMPA"}, c : Coefficients]
    BY <1>2 DEF Dispatch, Form
  <2> QED  BY <2>1 DEF Instruction
<1>3. CASE o \in {"RDAX", "RDFX", "WRAX", "WRHX", "WRLX", "MAXX"}
  <2>1. RegisterName[ci.constants[0]] \in Register
    BY <1>3, RegisterAssumption DEF Form
  <2>2. Dispatch(ci) \in [opcode : {"RDAX", "RDFX", "WRAX", "WRHX", "WRLX", "MAXX"},
                          addr : Register, c : Coefficients]
    BY <1>3, <2>1 DEF Dispatch, Form
  <2> QED  BY <2>2 DEF Instruction
<1>4. CASE o \in {"MULX", "LDAX"}
  <2>1. RegisterName[ci.constants[0]] \in Register
    BY <1>4, RegisterAssumption DEF Form
  <2>2. Dispatch(ci) \in [opcode : {"MULX", "LDAX"}, addr : Register]
    BY <1>4, <2>1 DEF Dispatch
  <2> QED  BY <2>2 DEF Instruction
<1>5. CASE o = "SOF"
  <2>1. Dispatch(ci) \in [opcode : {"SOF"}, c : Coefficients, d : SF23]
    BY <1>5 DEF Dispatch, Form
  <2> QED  BY <2>1 DEF Instruction
<1>6. CASE o \in {"AND", "OR", "XOR"}
  <2>1. Dispatch(ci) \in [opcode : {"AND", "OR", "XOR"}, mask : 0 .. MASK]
    BY <1>6 DEF Dispatch, Form
  <2> QED  BY <2>1 DEF Instruction
<1>7. CASE o = "SKP"
  <2>1. FlagSet(ConditionBit, ci.constants[0]) \in SUBSET Condition
    BY DEF FlagSet, ConditionBit, Condition
  <2>2. Dispatch(ci) \in [opcode : {"SKP"}, cmask : SUBSET Condition, n : Nat]
    BY <1>7, <2>1 DEF Dispatch, Form
  <2> QED  BY <2>2 DEF Instruction
<1>8. CASE o = "JMP"
  <2>1. Dispatch(ci) \in [opcode : {"JMP"}, n : Nat]
    BY <1>8 DEF Dispatch, Form
  <2> QED  BY <2>1 DEF Instruction
<1>9. CASE o \in {"WLDS", "WLDR"}
  <2>1. Dispatch(ci) \in [opcode : {"WLDS", "WLDR"}, n : 0 .. 1, f : Int, a : Int]
    BY <1>0, <1>9 DEF Dispatch, Form
  <2> QED  BY <2>1 DEF Instruction
<1>10. CASE o = "JAM"
  <2>1. Dispatch(ci) \in [opcode : {"JAM"}, n : 0 .. 1]
    BY <1>10 DEF Dispatch, Form
  <2> QED  BY <2>1 DEF Instruction
<1>11. CASE o \in {"CLR", "NOT", "ABSA", "NOP", "LOG", "EXP", "UNKNOWN"}
  <2>1. Dispatch(ci) \in [opcode : {"CLR", "NOT", "ABSA", "NOP", "LOG", "EXP", "UNKNOWN"}]
    BY <1>11 DEF Dispatch
  <2> QED  BY <2>1 DEF Instruction
<1>12. CASE o = "CHO_RDAL"
  <2>1. \A k \in 0 .. 5 : LookupAt[k + 1] \in Lookup
    BY DEF LookupAt, Lookup
  <2>2. Dispatch(ci) \in [opcode : {"CHO_RDAL"}, n : Lookup]
    BY <1>12, <2>1 DEF Dispatch, Form
  <2> QED  BY <2>2 DEF Instruction
<1> DEFINE flags == FlagSet(ChoFlagBit, ci.constants[1])
<1>13. flags \in SUBSET Flag
  BY DEF FlagSet, ChoFlagBit, Flag
<1>14. CASE o \in {"CHO_RDA_RMP", "CHO_RDA_SIN"}
  <2>1. Dispatch(ci) \in [opcode : {"CHO_RDA_RMP", "CHO_RDA_SIN"}, n : 0 .. 1,
                          flags : SUBSET Flag, addr : Address]
    BY <1>13, <1>14 DEF Dispatch, Form
  <2> QED  BY <2>1 DEF Instruction
<1>15. CASE o \in {"CHO_SOF_RMP", "CHO_SOF_SIN"}
  <2>1. Dispatch(ci) \in [opcode : {"CHO_SOF_RMP", "CHO_SOF_SIN"}, n : 0 .. 1,
                          flags : SUBSET Flag, d : SF23]
    BY <1>13, <1>15 DEF Dispatch, Form
  <2> QED  BY <2>1 DEF Instruction
<1> QED
  BY <1>0, <1>1, <1>2, <1>3, <1>4, <1>5, <1>6, <1>7, <1>8, <1>9, <1>10, <1>11, <1>12,
     <1>14, <1>15 DEF Opcodes

-----------------------------------------------------------------------------
(***************************************************************************)
(* The decoder, against what a program means.                              *)
(***************************************************************************)

\* A field that has the bits of a number is that number.
FieldsTell(width) ==
  \A word : \A shift \in Nat, n \in Unsigned(width) :
    Holds(word, shift, width, n) => BitField(word, shift, width) = n

\* Whatever the width.
LEMMA FieldTells == \A width \in 0 .. 24 : FieldsTell(width)
<1>1. FieldsTell(0)
  <2>1. Unsigned(0) = {0}
    <3>1. 2 ^ 0 = 1
      BY Doubling
    <3> QED  BY <3>1 DEF Unsigned
  <2>2. \A word : \A shift \in Nat : BitField(word, shift, 0) = 0
    <3>1. 0 \in Nat
      OBVIOUS
    <3> QED  BY <3>1, FieldStep
  <2> QED  BY <2>1, <2>2 DEF FieldsTell
<1>2. ASSUME NEW width \in 0 .. 23, FieldsTell(width)
      PROVE  FieldsTell(width + 1)
  <2> SUFFICES ASSUME NEW word, NEW shift \in Nat, NEW n \in Unsigned(width + 1),
                      Holds(word, shift, width + 1, n)
               PROVE  BitField(word, shift, width + 1) = n
    BY DEF FieldsTell
  <2> DEFINE m == 2 ^ width
             h == n \div 2
  <2>1. 2 ^ (width + 1) = 2 * m /\ m \in Nat \ {0}
    BY Doubling, Zenon
  <2> HIDE DEF m
  <2>2. n \in 0 .. 2 * m - 1
    BY <2>1, Zenon DEF Unsigned
  <2>3. /\ n \in Int /\ h \in 0 .. m - 1 /\ n % 2 \in 0 .. 1 /\ n = 2 * h + (n % 2)
    BY <2>1, <2>2
  <2>4. h \in Unsigned(width)
    BY <2>3, Zenon DEF Unsigned, m
  <2>5. Holds(word, shift + 1, width, h)
    <3> SUFFICES ASSUME NEW i \in 0 .. width - 1
                 PROVE  (shift + 1) + i \in word <=> Bit(h, i) = 1
      BY DEF Holds
    <3>1. i \in 0 .. 23 /\ i + 1 \in 0 .. (width + 1) - 1 /\ shift + (i + 1) = (shift + 1) + i
      OBVIOUS
    <3>2. Bit(h, i) = Bit(n, i + 1)
      BY <2>3, <3>1, BitByBit
    <3>3. shift + (i + 1) \in word <=> Bit(n, i + 1) = 1
      BY <3>1 DEF Holds
    <3> QED  BY <3>1, <3>2, <3>3
  <2>6. shift \in word <=> n % 2 = 1
    <3>1. 0 \in 0 .. (width + 1) - 1 /\ shift + 0 = shift
      OBVIOUS
    <3>2. shift + 0 \in word <=> Bit(n, 0) = 1
      BY <3>1 DEF Holds
    <3> QED  BY <2>3, <3>1, <3>2, BitByBit
  <2>7. BitField(word, shift + 1, width) = h
    <3>1. shift + 1 \in Nat
      OBVIOUS
    <3> QED  BY <1>2, <2>4, <2>5, <3>1 DEF FieldsTell
  <2>8. BitField(word, shift, width + 1)
          = 2 * BitField(word, shift + 1, width) + (IF shift \in word THEN 1 ELSE 0)
    <3>1. width \in Nat
      OBVIOUS
    <3> QED  BY <3>1, FieldStep
  <2> HIDE DEF h
  <2> QED  BY <2>3, <2>6, <2>7, <2>8
<1> DEFINE S == {n \in Nat : n \in 0 .. 24 => FieldsTell(n)}
<1>3. S \subseteq Nat /\ 0 \in S
  BY <1>1
<1>4. \A n \in Nat : n \in S => n + 1 \in S
  BY <1>2
<1> HIDE DEF S
<1>5. S = Nat
  BY <1>3, <1>4, SetInduction
<1> QED  BY <1>5 DEF S

\* And a field has the bits of the number it is.
FieldsHold(width) ==
  \A word : \A shift \in Nat : Holds(word, shift, width, BitField(word, shift, width))

\* Whatever the width.
LEMMA FieldHolds == \A width \in 0 .. 24 : FieldsHold(width)
<1>1. FieldsHold(0)
  BY DEF FieldsHold, Holds
<1>2. ASSUME NEW width \in 0 .. 23, FieldsHold(width)
      PROVE  FieldsHold(width + 1)
  <2> SUFFICES ASSUME NEW word, NEW shift \in Nat, NEW i \in 0 .. width
               PROVE  shift + i \in word <=> Bit(BitField(word, shift, width + 1), i) = 1
    <3>1. (width + 1) - 1 = width
      OBVIOUS
    <3> QED  BY <3>1 DEF FieldsHold, Holds
  <2> DEFINE n == BitField(word, shift, width + 1)
             h == BitField(word, shift + 1, width)
             low == IF shift \in word THEN 1 ELSE 0
  <2>1. width \in Nat /\ shift + 1 \in Nat /\ width \in 0 .. 24
    OBVIOUS
  <2>2. n = 2 * h + low
    BY <2>1, FieldStep
  <2>3. h \in Nat
    BY <2>1, FieldBounds
  <2>4. low \in 0 .. 1 /\ (low = 1 <=> shift \in word)
    OBVIOUS
  <2>5. Holds(word, shift + 1, width, h)
    BY <1>2, <2>1 DEF FieldsHold
  <2> HIDE DEF n, h, low
  <2>6. n \in Int /\ n % 2 = low /\ n \div 2 = h
    BY <2>2, <2>3, <2>4
  <2>7. CASE i = 0
    <3>1. shift + i = shift
      BY <2>7
    <3>2. Bit(n, 0) = n % 2
      BY <2>6, BitByBit, Zenon
    <3>3. shift \in word <=> Bit(n, 0) = 1
      BY <2>4, <2>6, <3>2
    <3>4. shift + i \in word <=> Bit(n, i) = 1
      BY <2>7, <3>1, <3>3
    <3> QED  BY <3>4 DEF n
  <2>8. CASE i # 0
    <3>1. i - 1 \in 0 .. width - 1 /\ i - 1 \in 0 .. 23 /\ (i - 1) + 1 = i
          /\ (shift + 1) + (i - 1) = shift + i
      BY <2>8
    <3>2. Bit(n, i) = Bit(h, i - 1)
      BY <2>6, <3>1, BitByBit
    <3>3. (shift + 1) + (i - 1) \in word <=> Bit(h, i - 1) = 1
      BY <2>5, <3>1 DEF Holds
    <3> QED  BY <3>1, <3>2, <3>3 DEF n
  <2> QED  BY <2>7, <2>8
<1> DEFINE S == {n \in Nat : n \in 0 .. 24 => FieldsHold(n)}
<1>3. S \subseteq Nat /\ 0 \in S
  BY <1>1
<1>4. \A n \in Nat : n \in S => n + 1 \in S
  BY <1>2
<1> HIDE DEF S
<1>5. S = Nat
  BY <1>3, <1>4, SetInduction
<1> QED  BY <1>5 DEF S

\* So the two say the same of a number that fits.
LEMMA HoldsIsField ==
  ASSUME NEW word, NEW shift \in Nat, NEW width \in 0 .. 24, NEW n \in Unsigned(width)
  PROVE  Holds(word, shift, width, n) <=> BitField(word, shift, width) = n
  BY FieldTells, FieldHolds DEF FieldsTell, FieldsHold

\* The keys of the layouts, by their numbers.
PrimaryAt(i) == IF i <= 19 THEN i - 1 ELSE IF i <= 21 THEN i - 2 ELSE 20

SecondaryAt(i) ==
  IF i \in {11, 19, 21, 22} THEN {0}
  ELSE IF i = 20 THEN {1} ELSE IF i = 23 THEN {2} ELSE IF i = 24 THEN {3} ELSE 0 .. 3

\* The table has these keys, and three layouts have a slot behind the others.
LEMMA TableKeys ==
  /\ DOMAIN Layouts = 1 .. 24
  /\ \A i \in 1 .. 24 :
       /\ Layouts[i].primary = PrimaryAt(i) /\ Layouts[i].secondary = SecondaryAt(i)
       /\ NeedsKey(Layouts[i]) <=> i \in {20, 23, 24}
       /\ SlotOf(i) = IF i = 20 THEN 31 ELSE IF i = 23 THEN 32 ELSE IF i = 24 THEN 33
                      ELSE PrimaryAt(i)
<1>1. DOMAIN Layouts = 1 .. 24
  BY TheLayouts
<1>2. ASSUME NEW i \in 1 .. 24
      PROVE  Layouts[i].primary = PrimaryAt(i) /\ Layouts[i].secondary = SecondaryAt(i)
  <2> DEFINE P(j) == Layouts[j].primary
             S(j) == Layouts[j].secondary
  <2>0. \A opcode, primary, secondary, operands :
          /\ Layout(opcode, primary, secondary, operands).primary = primary
          /\ Layout(opcode, primary, secondary, operands).secondary = secondary
    BY DEF Layout
  <2>1. /\ P(1) = 0 /\ P(2) = 1 /\ P(3) = 2 /\ P(4) = 3 /\ P(5) = 4 /\ P(6) = 5
        /\ P(7) = 6 /\ P(8) = 7 /\ P(9) = 8 /\ P(10) = 9 /\ P(11) = 10 /\ P(12) = 11
        /\ P(13) = 12 /\ P(14) = 13 /\ P(15) = 14 /\ P(16) = 15 /\ P(17) = 16 /\ P(18) = 17
        /\ P(19) = 18 /\ P(20) = 18 /\ P(21) = 19 /\ P(22) = 20 /\ P(23) = 20 /\ P(24) = 20
    BY <2>0, TheLayouts
  <2>2. /\ S(1) = AnyKey /\ S(2) = AnyKey /\ S(3) = AnyKey /\ S(4) = AnyKey /\ S(5) = AnyKey
        /\ S(6) = AnyKey /\ S(7) = AnyKey /\ S(8) = AnyKey /\ S(9) = AnyKey /\ S(10) = AnyKey
        /\ S(11) = {0} /\ S(12) = AnyKey /\ S(13) = AnyKey /\ S(14) = AnyKey /\ S(15) = AnyKey
        /\ S(16) = AnyKey /\ S(17) = AnyKey /\ S(18) = AnyKey /\ S(19) = {0} /\ S(20) = {1}
        /\ S(21) = {0} /\ S(22) = {0} /\ S(23) = {2} /\ S(24) = {3}
    BY <2>0, TheLayouts
  <2> HIDE DEF P, S
  <2>3. P(i) = PrimaryAt(i)
    BY <2>1 DEF PrimaryAt
  <2>4. S(i) = SecondaryAt(i)
    BY <2>2 DEF SecondaryAt, AnyKey
  <2> QED  BY <2>3, <2>4 DEF P, S
<1>3. ASSUME NEW i \in 1 .. 24
      PROVE  NeedsKey(Layouts[i]) <=> i \in {20, 23, 24}
  <2>1. SecondaryAt(i) \notin {0 .. 3, {0}} <=> i \in {20, 23, 24}
    <3>1. /\ {0} # {1} /\ {0} # {2} /\ {0} # {3} /\ 0 .. 3 # {0} /\ 0 .. 3 # {1} /\ 0 .. 3 # {2}
          /\ 0 .. 3 # {3}
      <4>1. 0 \in 0 .. 3 /\ 1 \in 0 .. 3 /\ 1 \notin {0} /\ 0 \notin {1} /\ 0 \notin {2} /\ 0 \notin {3}
        OBVIOUS
      <4> QED  BY <4>1
    <3> QED  BY <3>1 DEF SecondaryAt
  <2> QED  BY <1>2, <2>1 DEF NeedsKey, AnyKey
<1>4. /\ {j \in 1 .. 20 - 1 : NeedsKey(Layouts[j])} = {}
      /\ {j \in 1 .. 23 - 1 : NeedsKey(Layouts[j])} = {20}
      /\ {j \in 1 .. 24 - 1 : NeedsKey(Layouts[j])} = {20} \cup {23}
  BY <1>3
<1>5. Cardinality({}) = 0 /\ Cardinality({20}) = 1 /\ Cardinality({20} \cup {23}) = 2
  <2>1. Cardinality({}) = 0 /\ Cardinality({20}) = 1 /\ IsFiniteSet({20})
    BY FS_EmptySet, FS_Singleton
  <2>2. Cardinality({20} \cup {23}) = IF 23 \in {20} THEN Cardinality({20}) ELSE Cardinality({20}) + 1
    BY <2>1, FS_AddElement
  <2> QED  BY <2>1, <2>2
<1>6. SlotOf(20) = 31 /\ SlotOf(23) = 32 /\ SlotOf(24) = 33
  <2>1. NeedsKey(Layouts[20]) /\ NeedsKey(Layouts[23]) /\ NeedsKey(Layouts[24])
    BY <1>3
  <2> QED  BY <1>4, <1>5, <2>1 DEF SlotOf, kOpcodeMax
<1>7. \A i \in 1 .. 24 : i \notin {20, 23, 24} => SlotOf(i) = PrimaryAt(i)
  BY <1>2, <1>3 DEF SlotOf
<1> QED  BY <1>1, <1>2, <1>3, <1>6, <1>7

\* A layout is that of a word by its two keys.
LEMMA MatchesKeys ==
  ASSUME NEW word, NEW i \in 1 .. 24
  PROVE  Match(Layouts[i], word) <=> /\ BitField(word, 0, 5) = PrimaryAt(i)
                                      /\ BitField(word, 30, 2) \in SecondaryAt(i)
  BY TableKeys DEF Match

\* The keys of a word.
LEMMA KeyRange ==
  ASSUME NEW word
  PROVE  BitField(word, 0, 5) \in 0 .. 31 /\ BitField(word, 30, 2) \in 0 .. 3
<1>1. 0 \in Nat /\ 30 \in Nat /\ 5 \in 0 .. 24 /\ 2 \in 0 .. 24 /\ 2 ^ 5 - 1 = 31 /\ 2 ^ 2 - 1 = 3
  OBVIOUS
<1> QED  BY <1>1, FieldBounds

\* No word has the keys of two.
LEMMA OneMatches ==
  ASSUME NEW word, NEW i \in 1 .. 24, NEW j \in 1 .. 24,
         Match(Layouts[i], word), Match(Layouts[j], word)
  PROVE  i = j
  BY MatchesKeys, KeyRange DEF PrimaryAt, SecondaryAt

\* The search of the table, with its slots and their order, finds the layouts
\* that match.
LEMMA LookupsMatch ==
  ASSUME NEW word, NEW i \in 1 .. 24
  PROVE  Layouts[i] \in Lookups(word) <=> Match(Layouts[i], word)
<1> DEFINE p == BitField(word, 0, 5)
           k == BitField(word, 30, 2)
           entry == InstructionTable[p]
           later == UNION {InstructionTable[slot] : slot \in kOpcodeMax .. kOpcodeMax + kNumSecondaryOpcodes - 1}
           found == \A layout \in entry : layout.secondary = AnyKey \/ Match(layout, word)
<1>1. p \in 0 .. 31 /\ k \in 0 .. 3
  BY KeyRange
<1>2. Lookups(word) = IF found THEN entry ELSE {layout \in later : Match(layout, word)}
  BY DEF Lookups
<1>3. \A j \in 1 .. 24 : Match(Layouts[j], word) <=> p = PrimaryAt(j) /\ k \in SecondaryAt(j)
  BY MatchesKeys
<1>4. \A slot \in 0 .. 33 : InstructionTable[slot] = {Layouts[j] : j \in {n \in 1 .. 24 : SlotOf(n) = slot}}
  BY TableKeys DEF InstructionTable, kOpcodeMax, kNumSecondaryOpcodes
<1>5. \A j \in 1 .. 24 :
        SlotOf(j) = IF j = 20 THEN 31 ELSE IF j = 23 THEN 32 ELSE IF j = 24 THEN 33 ELSE PrimaryAt(j)
  BY TableKeys
<1>6. \A layout : layout \in entry <=> \E j \in 1 .. 24 : SlotOf(j) = p /\ layout = Layouts[j]
  <2>1. p \in 0 .. 33
    BY <1>1
  <2> HIDE DEF p
  <2>2. entry = {Layouts[j] : j \in {n \in 1 .. 24 : SlotOf(n) = p}}
    BY <1>4, <2>1
  <2> HIDE DEF entry
  <2> QED  BY <2>2
<1>7. Layouts[20] \in later /\ Layouts[23] \in later /\ Layouts[24] \in later
  <2>1. kOpcodeMax .. kOpcodeMax + kNumSecondaryOpcodes - 1 = 31 .. 33
    BY DEF kOpcodeMax, kNumSecondaryOpcodes
  <2>2. \A slot \in 31 .. 33 : InstructionTable[slot] \subseteq later
    BY <2>1
  <2> HIDE DEF later
  <2>3. Layouts[20] \in InstructionTable[31] /\ Layouts[23] \in InstructionTable[32]
        /\ Layouts[24] \in InstructionTable[33]
    BY <1>4, <1>5
  <2> QED  BY <2>2, <2>3
<1>8. \A j \in 1 .. 24 : Layouts[j].secondary = AnyKey => j \notin {11, 19, 20, 21, 22, 23, 24}
  <2>1. 1 \in 0 .. 3 /\ 1 \notin {0} /\ 0 \in 0 .. 3 /\ 0 \notin {1} /\ 0 \notin {2} /\ 0 \notin {3}
    OBVIOUS
  <2>2. 0 .. 3 # {0} /\ 0 .. 3 # {1} /\ 0 .. 3 # {2} /\ 0 .. 3 # {3}
    BY <2>1
  <2> QED  BY <2>2, TableKeys DEF SecondaryAt, AnyKey
<1> HIDE DEF p, k, entry, later
<1>9. CASE found
  <2>1. ASSUME Layouts[i] \in entry
        PROVE  Match(Layouts[i], word)
    <3>1. PICK j \in 1 .. 24 : SlotOf(j) = p /\ Layouts[i] = Layouts[j]
      BY <1>6, <2>1
    <3>2. CASE Layouts[j].secondary = AnyKey
      <4>1. p = PrimaryAt(j) /\ SecondaryAt(j) = 0 .. 3
        BY <1>5, <1>8, <3>1, <3>2 DEF SecondaryAt
      <4> QED  BY <1>1, <1>3, <3>1, <4>1
    <3> QED  BY <1>9, <2>1, <3>1, <3>2
  <2>2. ASSUME Match(Layouts[i], word)
        PROVE  Layouts[i] \in entry
    <3>1. p = PrimaryAt(i) /\ k \in SecondaryAt(i)
      BY <1>3, <2>2
    <3>2. CASE i \notin {20, 23, 24}
      BY <1>5, <1>6, <3>1, <3>2
    <3>3. CASE i = 20
      <4>1. p = 18 /\ k = 1 /\ SlotOf(19) = p /\ 19 \in 1 .. 24 /\ k \notin SecondaryAt(19)
        BY <1>5, <3>1, <3>3 DEF PrimaryAt, SecondaryAt
      <4> QED  BY <1>3, <1>6, <1>8, <1>9, <4>1
    <3>4. CASE i \in {23, 24}
      <4>1. p = 20 /\ k \in 2 .. 3 /\ SlotOf(22) = p /\ 22 \in 1 .. 24 /\ k \notin SecondaryAt(22)
        BY <1>5, <3>1, <3>4 DEF PrimaryAt, SecondaryAt
      <4> QED  BY <1>3, <1>6, <1>8, <1>9, <4>1
    <3> QED  BY <3>2, <3>3, <3>4
  <2> QED  BY <1>2, <1>9, <2>1, <2>2
<1>10. CASE ~found
  <2>1. PICK j \in 1 .. 24 : SlotOf(j) = p /\ Layouts[j].secondary # AnyKey /\ ~Match(Layouts[j], word)
    BY <1>6, <1>10
  <2>2. ASSUME Match(Layouts[i], word), i \notin {20, 23, 24}
        PROVE  FALSE
    <3>1. p = PrimaryAt(i) /\ p = SlotOf(i)
      BY <1>3, <1>5, <2>2
    <3>2. i = j
      BY <1>5, <2>1, <2>2, <3>1 DEF PrimaryAt
    <3> QED  BY <2>1, <2>2, <3>2
  <2>3. Match(Layouts[i], word) => Layouts[i] \in later
    BY <1>7, <2>2
  <2> QED  BY <1>2, <1>10, <2>3
<1> QED  BY <1>9, <1>10

\* The powers of the fields.
LEMMA PowerIsPositive == \A n \in 0 .. 24 : 2 ^ n \in Nat \ {0}
<1>1. \A n \in 0 .. 23 : 2 ^ n \in Nat \ {0}
  BY Doubling
<1>2. 2 ^ 24 \in Nat \ {0}
  OBVIOUS
<1> QED
  <2>1. \A n \in 0 .. 24 : n \in 0 .. 23 \/ n = 24
    OBVIOUS
  <2> QED  BY <1>1, <1>2, <2>1, Zenon

\* Two's complement: a number below m either way and a field that holds it.
LEMMA TwosComplement ==
  ASSUME NEW m \in Nat \ {0}, NEW f \in 0 .. 2 * m - 1, NEW n \in -m .. m - 1
  PROVE  n % (2 * m) = f <=> n = IF f >= m THEN f - 2 * m ELSE f
<1> DEFINE k == 2 * m
<1>1. k \in Nat \ {0} /\ n \in Int /\ -1 \in Int /\ 0 \in Int
  OBVIOUS
<1>2. CASE n >= 0
  <2>1. n \in 0 .. k - 1 /\ n = k * 0 + n
    BY <1>2
  <2>2. n % k = n
    BY <1>1, <2>1, QuotientUnique
  <2> HIDE DEF k
  <2>3. k = 2 * m
    BY DEF k
  <2> QED  BY <1>2, <2>2, <2>3
<1>3. CASE n < 0
  <2>1. n + k \in 0 .. k - 1 /\ n = k * (-1) + (n + k)
    BY <1>3
  <2>2. n % k = n + k
    <3> DEFINE s == n + k
    <3>1. s \in 0 .. k - 1 /\ n = k * (-1) + s
      BY <2>1
    <3> HIDE DEF k, s
    <3>2. n % k = s
      BY <1>1, <3>1, QuotientUnique
    <3> QED  BY <3>2 DEF s
  <2> HIDE DEF k
  <2>3. k = 2 * m
    BY DEF k
  <2> QED  BY <1>3, <2>2, <2>3
<1> QED  BY <1>2, <1>3

\* The multiples of u.
LEMMA MultipleOf ==
  ASSUME NEW u \in Nat \ {0}, NEW v \in Int, NEW n \in Int
  PROVE  v = n * u <=> v % u = 0 /\ v \div u = n
<1>1. ASSUME v = n * u
      PROVE  v % u = 0 /\ v \div u = n
  <2>1. v = u * n + 0 /\ 0 \in 0 .. u - 1
    BY <1>1
  <2> QED  BY <2>1, QuotientUnique
<1>2. ASSUME v % u = 0, v \div u = n
      PROVE  v = n * u
  <2> DEFINE q == v \div u
             r == v % u
  <2>1. v = u * q + r
    OBVIOUS
  <2> HIDE DEF q, r
  <2>2. q = n /\ r = 0
    BY <1>2 DEF q, r
  <2> QED  BY <2>1, <2>2
<1> QED  BY <1>1, <1>2

\* A place that an operand can have in a word.
IsField(operand) == operand.shift \in Nat /\ operand.width \in 1 .. 24

\* What a word holds in the place of an operand is what the decoder reads there,
\* and nothing else.
LEMMA OperandDecodes ==
  ASSUME NEW word, NEW operand, IsField(operand), NEW v
  PROVE  HoldsOperand(word, operand, v) <=> v = DecodeOperand(operand, word)
<1> DEFINE w == operand.width
           s == operand.shift
           f == BitField(word, s, w)
           m == 2 ^ (w - 1)
<1>1. w \in 0 .. 24 /\ w - 1 \in 0 .. 23 /\ (w - 1) + 1 = w /\ s \in Nat
  BY DEF IsField
<1>2. 2 ^ w = 2 * m /\ m \in Nat \ {0}
  <2>1. 2 ^ ((w - 1) + 1) = 2 * m /\ m \in Nat \ {0}
    BY <1>1, Doubling, Zenon
  <2> QED  BY <1>1, <2>1, Zenon
<1>3. f \in Unsigned(w)
  BY <1>1, FieldRange, Zenon DEF FieldsFit
<1>4. \A n \in Unsigned(w) : Holds(word, s, w, n) <=> f = n
  BY <1>1, HoldsIsField, Zenon
<1>5. Unsigned(w) = 0 .. 2 * m - 1
  BY <1>2, Zenon DEF Unsigned
<1>6. CASE operand.type \notin DOMAIN Frac
  <2>1. DecodeOperand(operand, word) = f /\ Unit(operand) = 1
    BY <1>6 DEF DecodeOperand, Unit
  <2>2. IsValue(operand, v) <=> v \in Int /\ v % 1 = 0 /\ v \div 1 \in Unsigned(w)
    BY <1>6, <2>1, Zenon DEF IsValue, Unsigned
  <2>3. Raw(operand, v) = (v \div 1) % (2 * m)
    BY <1>2, <2>1, Zenon DEF Raw
  <2> HIDE DEF m, f, w, s
  <2>4. \A n \in Int : n % 1 = 0 /\ n \div 1 = n
    OBVIOUS
  <2>5. \A n \in 0 .. 2 * m - 1 : n % (2 * m) = n /\ n \in Int
    <3> SUFFICES ASSUME NEW n \in 0 .. 2 * m - 1
                 PROVE  n % (2 * m) = n /\ n \in Int
      OBVIOUS
    <3>1. 2 * m \in Nat \ {0} /\ n \in Int
      BY <1>2
    <3> DEFINE k == 2 * m
    <3> HIDE DEF k
    <3>2. k \in Nat \ {0} /\ n \in 0 .. k - 1
      BY <3>1 DEF k
    <3>3. n % k = n
      BY <3>2, RemainderOfSmall
    <3> QED  BY <3>1, <3>3 DEF k
  <2>6. IsValue(operand, v) <=> v \in Unsigned(w)
    BY <1>5, <2>2, <2>4, <2>5
  <2>7. v \in Unsigned(w) => Raw(operand, v) = v
    BY <1>5, <2>3, <2>4, <2>5
  <2>8. HoldsOperand(word, operand, v) <=> IsValue(operand, v) /\ Holds(word, s, w, Raw(operand, v))
    BY DEF HoldsOperand, s, w
  <2> QED  BY <1>3, <1>4, <2>1, <2>6, <2>7, <2>8, Zenon
<1>7. CASE operand.type \in DOMAIN Frac
  <2> DEFINE u == 2 ^ (23 - Frac[operand.type])
             x == SXField(f, w)
             n == v \div u
  <2>1. DecodeOperand(operand, word) = x * u /\ Unit(operand) = u
    BY <1>7 DEF DecodeOperand, Unit
  <2>2. u \in Nat \ {0}
    <3>1. 23 - Frac[operand.type] \in 0 .. 24
      BY <1>7 DEF Frac
    <3> QED  BY <3>1, PowerIsPositive, Zenon
  <2>3. x = IF f >= m THEN f - 2 * m ELSE f
    BY <1>2, Zenon DEF SXField
  <2>4. IsValue(operand, v) <=> v \in Int /\ v % u = 0 /\ n \in -m .. m - 1
    BY <1>7, <2>1, Zenon DEF IsValue
  <2>5. Raw(operand, v) = n % (2 * m)
    BY <1>2, <2>1, Zenon DEF Raw
  <2>6. HoldsOperand(word, operand, v) <=> IsValue(operand, v) /\ Holds(word, s, w, Raw(operand, v))
    BY DEF HoldsOperand
  <2> HIDE DEF m, f, w, s, u, x
  <2>7. f \in 0 .. 2 * m - 1 /\ x \in -m .. m - 1 /\ x \in Int
    BY <1>2, <1>3, <1>5, <2>3
  <2>8. \A k \in -m .. m - 1 : k % (2 * m) = f <=> k = x
    BY <1>2, <2>3, <2>7, TwosComplement
  <2>9. ASSUME HoldsOperand(word, operand, v)
        PROVE  v = x * u
    <3>1. v \in Int /\ v % u = 0 /\ n \in -m .. m - 1 /\ n \in Int
      BY <1>2, <2>2, <2>4, <2>6, <2>9
    <3>2. n % (2 * m) \in 0 .. 2 * m - 1
      BY <1>2, <3>1
    <3>3. n % (2 * m) = f
      BY <1>4, <1>5, <2>5, <2>6, <2>9, <3>2, Zenon
    <3>4. v \div u = x
      BY <2>8, <3>1, <3>3
    <3> QED  BY <2>2, <2>7, <3>1, <3>4, MultipleOf
  <2>10. ASSUME v = x * u
         PROVE  HoldsOperand(word, operand, v)
    <3>1. v \in Int
      BY <2>2, <2>7, <2>10
    <3>2. v % u = 0 /\ v \div u = x
      BY <2>2, <2>7, <2>10, <3>1, MultipleOf
    <3>3. IsValue(operand, v) /\ Raw(operand, v) = f
      BY <2>4, <2>5, <2>7, <2>8, <3>1, <3>2
    <3> QED  BY <1>3, <1>4, <2>6, <3>3, Zenon
  <2> QED  BY <2>1, <2>9, <2>10
<1> QED  BY <1>6, <1>7

\* The operands of the table have such places.
LEMMA OperandFields ==
  ASSUME NEW i \in DOMAIN Layouts, NEW k \in DOMAIN Layouts[i].operands
  PROVE  IsField(Layouts[i].operands[k])
<1>1. \A type : \A shift \in Nat : \A width \in 1 .. 24 : IsField(Operand(type, shift, width))
  BY DEF IsField, Operand
<1> DEFINE AreFields(operands) == \A n \in DOMAIN operands : IsField(operands[n])
<1>2. AreFields(AddrC) /\ AreFields(RegsC) /\ AreFields(CD) /\ AreFields(Mask24) /\ AreFields(ChoNC)
  BY <1>1 DEF AddrC, RegsC, CD, Mask24, ChoNC
<1>3. /\ AreFields(Append(ChoNC, Operand("ADDR", 5, 16)))
      /\ AreFields(Append(ChoNC, Operand("I16", 5, 16)))
  BY <1>1 DEF ChoNC
<1>4. /\ AreFields(<<Operand("S1F9", 21, 11)>>)
      /\ AreFields(<<Operand("REGS", 5, 6)>>)
      /\ AreFields(<<Operand("MASK", 27, 5), Operand("INT", 21, 6)>>)
      /\ AreFields(<<Operand("INT", 6, 1)>>)
  BY <1>1
<1>5. /\ AreFields(<<Operand("INT", 29, 1), Operand("INT", 20, 9), Operand("INT", 5, 15)>>)
      /\ AreFields(<<Operand("INT", 29, 1), Operand("I16", 13, 16), Operand("INT", 5, 2)>>)
  BY <1>1
<1> DEFINE operands == Layouts[i].operands
<1>6. AreFields(operands)
  <2>1. ASSUME NEW opcode, NEW primary, NEW secondary, NEW list,
               Layouts[i] = Layout(opcode, primary, secondary, list), AreFields(list)
        PROVE  AreFields(operands)
    <3>1. operands = list
      BY <2>1 DEF Layout
    <3> HIDE DEF operands
    <3> QED  BY <2>1, <3>1
  <2> HIDE DEF AreFields, operands
  <2> QED
    BY <2>1, <1>2, <1>3, <1>4, <1>5, LayoutCases, ZenonT(60)
<1> HIDE DEF operands
<1> QED  BY <1>6 DEF operands

\* A word has the key of a layout when the layout matches it.
LEMMA KeyMatches ==
  ASSUME NEW word, NEW i \in 1 .. 24
  PROVE  HasKey(word, Layouts[i]) <=> Match(Layouts[i], word)
<1>1. /\ 0 \in Nat /\ 30 \in Nat /\ 5 \in 0 .. 24 /\ 2 \in 0 .. 24
      /\ 2 ^ 5 - 1 = 31 /\ 2 ^ 2 - 1 = 3
  OBVIOUS
<1>2. \A n \in 0 .. 31 : Holds(word, 0, 5, n) <=> BitField(word, 0, 5) = n
  <2>1. Unsigned(5) = 0 .. 31
    BY <1>1 DEF Unsigned
  <2> QED  BY <1>1, <2>1, HoldsIsField, Zenon
<1>3. \A n \in 0 .. 3 : Holds(word, 30, 2, n) <=> BitField(word, 30, 2) = n
  <2>1. Unsigned(2) = 0 .. 3
    BY <1>1 DEF Unsigned
  <2> QED  BY <1>1, <2>1, HoldsIsField, Zenon
<1>4. PrimaryAt(i) \in 0 .. 31 /\ SecondaryAt(i) \subseteq 0 .. 3
  BY DEF PrimaryAt, SecondaryAt
<1>5. HasKey(word, Layouts[i]) <=> /\ Holds(word, 0, 5, PrimaryAt(i))
                                   /\ \E key \in SecondaryAt(i) : Holds(word, 30, 2, key)
  BY TableKeys, Zenon DEF HasKey
<1>6. (\E key \in SecondaryAt(i) : Holds(word, 30, 2, key)) <=> BitField(word, 30, 2) \in SecondaryAt(i)
  BY <1>3, <1>4
<1> QED  BY <1>2, <1>4, <1>5, <1>6, MatchesKeys

\* What the decoder makes of a word is the one statement that it stands for, so
\* every word has one, and TextAssumption can be met for any program.
THEOREM DecodesAsWritten ==
  ASSUME NEW word, NEW statement
  PROVE  IsWritten(word, statement) <=> statement = Decode(word)
<1>1. DOMAIN Layouts = 1 .. 24
  BY TableKeys
<1>2. CASE \E i \in 1 .. 24 : Match(Layouts[i], word)
  <2>1. PICK i \in 1 .. 24 : Match(Layouts[i], word)
    BY <1>2
  <2> DEFINE layout == Layouts[i]
  <2>2. \A j \in 1 .. 24 : HasKey(word, Layouts[j]) <=> j = i
    BY <2>1, KeyMatches, OneMatches
  <2>3. Lookups(word) = {layout}
    BY <1>1, <2>1, LookupsMatch, LookupsAreLayouts, OneMatches
  <2>4. Decode(word) = DecodeAs(layout, word)
    BY <2>3 DEF Decode
  <2>5. \A k \in DOMAIN layout.operands :
          HoldsOperand(word, layout.operands[k], statement.operands[k])
            <=> statement.operands[k] = DecodeOperand(layout.operands[k], word)
    BY <1>1, OperandFields, OperandDecodes
  <2> DEFINE Says(l) ==
        /\ statement = [opcode |-> l.opcode,
                        operands |-> [k \in DOMAIN l.operands |-> statement.operands[k]]]
        /\ \A k \in DOMAIN l.operands : HoldsOperand(word, l.operands[k], statement.operands[k])
  <2>6. IsWritten(word, statement) <=> Says(layout)
    <3> DEFINE unknown == statement = [opcode |-> "UNKNOWN", operands |-> <<>>]
    <3>1. IsWritten(word, statement) <=>
            \/ \E j \in 1 .. 24 : HasKey(word, Layouts[j]) /\ Says(Layouts[j])
            \/ (\A j \in 1 .. 24 : ~HasKey(word, Layouts[j])) /\ unknown
      BY <1>1 DEF IsWritten
    <3> HIDE DEF Says, unknown
    <3> QED  BY <2>2, <3>1
  <2> HIDE DEF layout
  <2>7. ASSUME statement = [opcode |-> layout.opcode,
                            operands |-> [k \in DOMAIN layout.operands |-> statement.operands[k]]],
               \A k \in DOMAIN layout.operands :
                 statement.operands[k] = DecodeOperand(layout.operands[k], word)
        PROVE  statement = DecodeAs(layout, word)
    BY <2>7 DEF DecodeAs
  <2>8. ASSUME statement = DecodeAs(layout, word)
        PROVE  /\ statement = [opcode |-> layout.opcode,
                               operands |-> [k \in DOMAIN layout.operands |-> statement.operands[k]]]
               /\ \A k \in DOMAIN layout.operands :
                    statement.operands[k] = DecodeOperand(layout.operands[k], word)
    <3> DEFINE operands == [k \in DOMAIN layout.operands |-> DecodeOperand(layout.operands[k], word)]
    <3>1. statement = [opcode |-> layout.opcode, operands |-> operands]
      BY <2>8 DEF DecodeAs
    <3>2. statement.operands = operands
      BY <3>1
    <3>3. \A k \in DOMAIN layout.operands :
            statement.operands[k] = DecodeOperand(layout.operands[k], word)
      BY <3>2
    <3>4. operands = [k \in DOMAIN layout.operands |-> statement.operands[k]]
      BY <3>3
    <3> HIDE DEF operands
    <3> QED  BY <3>1, <3>3, <3>4
  <2> QED  BY <2>4, <2>5, <2>6, <2>7, <2>8
<1>3. CASE \A i \in 1 .. 24 : ~Match(Layouts[i], word)
  <2>1. \A i \in 1 .. 24 : ~HasKey(word, Layouts[i])
    BY <1>3, KeyMatches
  <2>2. Lookups(word) = {}
    BY <1>1, <1>3, LookupsMatch, LookupsAreLayouts
  <2> QED  BY <1>1, <2>1, <2>2 DEF IsWritten, Decode
<1> QED  BY <1>2, <1>3

\* The stream gives the words in their places, with their bytes in order.
LEMMA StreamWords ==
  ASSUME NEW binary \in [0 .. 4 * kMaxInstructionCount - 1 -> SUBSET (0 .. 7)],
         NEW i \in 0 .. kMaxInstructionCount - 1
  PROVE  NextWord(binary, 4 * i) = WordAt(binary, i)
<1> DEFINE byte(b) == binary[4 * i + b]
<1>1. \A b \in 0 .. 3 : byte(b) \subseteq 0 .. 7
  <2>1. \A b \in 0 .. 3 : 4 * i + b \in 0 .. 4 * kMaxInstructionCount - 1
    BY CountAssumption
  <2> QED  BY <2>1
<1> DEFINE raw == ReadNext(binary, 4 * i)
<1>2. \A p : p \in raw <=> \E b \in 0 .. 3 : \E j \in byte(b) : p = 8 * b + j
  BY DEF ReadNext
<1>3. \A q : q \in BSwap32(raw) <=> \E p \in raw : q = 8 * (3 - (p \div 8)) + (p % 8)
  BY DEF BSwap32
<1> HIDE DEF raw, byte
<1>4. \A b \in 0 .. 3, j \in 0 .. 7 : /\ (8 * b + j) \div 8 = b /\ (8 * b + j) % 8 = j
                                     /\ 8 * b + j \in 0 .. 31
  OBVIOUS
<1>5. \A p \in 0 .. 31 : /\ p % 8 \in 0 .. 7 /\ p \div 8 \in 0 .. 3 /\ 3 - (p \div 8) \in 0 .. 3
                         /\ p = 8 * (p \div 8) + (p % 8)
  OBVIOUS
<1>6. \A q : q \in BSwap32(raw) <=> \E b \in 0 .. 3 : \E j \in byte(b) : q = 8 * (3 - b) + j
  <2>1. \A b \in 0 .. 3 : \A j \in byte(b) :
          8 * (3 - ((8 * b + j) \div 8)) + ((8 * b + j) % 8) = 8 * (3 - b) + j
    BY <1>1, <1>4
  <2> QED  BY <1>2, <1>3, <2>1
<1>7. \A q : q \in WordAt(binary, i) <=> q \in 0 .. 31 /\ q % 8 \in byte(3 - (q \div 8))
  BY DEF WordAt, byte
<1>8. ASSUME NEW q, q \in BSwap32(raw)
      PROVE  q \in WordAt(binary, i)
  <2>0. PICK b \in 0 .. 3 : \E j \in byte(b) : q = 8 * (3 - b) + j
    BY <1>6, <1>8
  <2>1. PICK j \in byte(b) : q = 8 * (3 - b) + j
    BY <2>0
  <2>2. 3 - b \in 0 .. 3 /\ j \in 0 .. 7
    BY <1>1
  <2>3. q \div 8 = 3 - b /\ q % 8 = j /\ q \in 0 .. 31
    BY <1>4, <2>1, <2>2
  <2>4. 3 - (q \div 8) = b
    BY <2>3
  <2> QED  BY <1>7, <2>3, <2>4
<1>9. ASSUME NEW q, q \in WordAt(binary, i)
      PROVE  q \in BSwap32(raw)
  <2>1. q \in 0 .. 31 /\ q % 8 \in byte(3 - (q \div 8))
    BY <1>7, <1>9
  <2> DEFINE b == 3 - (q \div 8)
  <2>2. b \in 0 .. 3 /\ q = 8 * (3 - b) + (q % 8)
    BY <1>5, <2>1
  <2> HIDE DEF b
  <2>3. q % 8 \in byte(b)
    BY <2>1 DEF b
  <2> QED  BY <1>6, <2>2, <2>3
<1>10. BSwap32(raw) = WordAt(binary, i)
  BY <1>8, <1>9
<1> QED  BY <1>10 DEF NextWord, raw

-----------------------------------------------------------------------------
(***************************************************************************)
(* The loop of Compile.                                                    *)
(***************************************************************************)

\* What the word at i of a binary is compiled to.
Loaded(binary, i) == CompileInstruction(Decode(NextWord(binary, 4 * i)))

\* A Compile that began at the start of a binary leaves all of it, optimised.
LoadsWholeProgram ==
  pc = "idle" =>
    \A binary \in source, i \in 0 .. kMaxInstructionCount - 1 :
      instructions_[i] = Optimized(Loaded(binary, i))

\* The loop stores no more words than it has taken from the stream, so it does
\* not leave instructions_, although nothing but the stream ends it.
IndexInv ==
  /\ \E h \in 0 .. kMaxInstructionCount : head = 4 * h
  /\ pc = "load" => 4 * instruction_count <= head

\* While it runs from the start of a stream, it has stored every word it took.
SourceInv ==
  /\ pc # "idle" =>
       \A binary \in source :
         /\ binary = buffer /\ head = 4 * instruction_count
         /\ \A i \in 0 .. instruction_count - 1 : instructions_[i] = Loaded(binary, i)
  /\ pc = "optimize" => head = 4 * kMaxInstructionCount
  /\ LoadsWholeProgram

\* Whatever was loaded, and however often it has been optimised, an instruction
\* has the operands of its opcode; after Optimize no CHO is left without its LFO.
FormInv ==
  \A i \in 0 .. kMaxInstructionCount - 1 :
    /\ Form(instructions_[i])
    /\ pc = "idle" => instructions_[i].opcode \notin {"CHO_RDA", "CHO_SOF"}

Inv == TypeOK /\ IndexInv /\ SourceInv /\ FormInv

\* The inductive invariant holds before the first Compile.
LEMMA InitInv == Init => Inv
<1> SUFFICES ASSUME Init
             PROVE  Inv
  OBVIOUS
<1>1. TypeOK
  BY CountAssumption, BinaryAssumption DEF Init, TypeOK
<1>2. IndexInv
  <2>1. 0 \in 0 .. kMaxInstructionCount /\ head = 4 * 0 /\ pc # "load"
    BY CountAssumption DEF Init
  <2> QED  BY <2>1 DEF IndexInv
<1>3. SourceInv
  BY DEF Init, SourceInv, LoadsWholeProgram
<1>4. FormInv
  <2>1. Form(NoOperation)
    BY DEF NoOperation, Constants, kMaxOperands, Form, Opcodes
  <2> QED  BY <2>1 DEF Init, FormInv, NoOperation
<1> QED  BY <1>1, <1>2, <1>3, <1>4 DEF Inv

\* Every step keeps it.
LEMMA NextInv == Inv /\ [Next]_vars => Inv'
<1> SUFFICES ASSUME Inv, [Next]_vars
             PROVE  Inv'
  OBVIOUS
<1>0. kMaxInstructionCount \in Nat /\ kMaxCompiles \in Nat
  BY CountAssumption, BinaryAssumption
<1>1. ASSUME NEW binary \in Binaries, OpenStream(binary)
      PROVE  Inv'
  <2>1. TypeOK'
    BY <1>0, <1>1 DEF Inv, TypeOK, OpenStream
  <2>2. 0 \in 0 .. kMaxInstructionCount /\ head' = 4 * 0 /\ pc' # "load"
    BY <1>0, <1>1 DEF OpenStream
  <2>3. SourceInv'
    BY <1>1 DEF Inv, SourceInv, LoadsWholeProgram, OpenStream
  <2>4. FormInv'
    BY <1>1 DEF Inv, FormInv, OpenStream
  <2> QED  BY <2>1, <2>2, <2>3, <2>4 DEF Inv, IndexInv
<1>2. CASE Compile
  <2>1. TypeOK'
    BY <1>0, <1>2 DEF Inv, TypeOK, Compile, stream
  <2>2. IndexInv'
    BY <1>0, <1>2 DEF Inv, IndexInv, TypeOK, Compile, stream
  <2>3. SourceInv'
    BY <1>0, <1>2 DEF Inv, SourceInv, LoadsWholeProgram, Compile, stream
  <2>4. FormInv'
    BY <1>2 DEF Inv, FormInv, Compile
  <2> QED  BY <2>1, <2>2, <2>3, <2>4 DEF Inv
<1>3. CASE LoadInstruction
  <2> DEFINE word == CompileInstruction(Decode(NextWord(buffer, head)))
  <2>1. /\ pc = "load" /\ head < 4 * kMaxInstructionCount
        /\ instructions_' = [instructions_ EXCEPT ![instruction_count] = word]
        /\ head' = head + 4 /\ instruction_count' = instruction_count + 1
        /\ UNCHANGED <<buffer, pc, source, compiles>>
    BY <1>3 DEF LoadInstruction, available
  <2>2. PICK h \in 0 .. kMaxInstructionCount : head = 4 * h
    BY DEF Inv, IndexInv
  <2>3. /\ instruction_count \in 0 .. h /\ h < kMaxInstructionCount
        /\ DOMAIN instructions_ = 0 .. kMaxInstructionCount - 1
    BY <1>0, <2>1, <2>2 DEF Inv, IndexInv, TypeOK
  <2> HIDE DEF word
  <2>4. /\ DOMAIN instructions_' = 0 .. kMaxInstructionCount - 1
        /\ instructions_'[instruction_count] = word
        /\ \A i \in 0 .. instruction_count - 1 : instructions_'[i] = instructions_[i]
    BY <1>0, <2>1, <2>3
  <2>5. TypeOK'
    BY <1>0, <2>1, <2>2, <2>3, <2>4 DEF Inv, TypeOK
  <2>6. IndexInv'
    <3>1. h + 1 \in 0 .. kMaxInstructionCount /\ head' = 4 * (h + 1)
      BY <1>0, <2>1, <2>2, <2>3
    <3>2. 4 * instruction_count' <= head'
      BY <1>0, <2>1, <2>2, <2>3
    <3> QED  BY <3>1, <3>2 DEF IndexInv
  <2>7. ASSUME NEW binary \in source'
        PROVE  /\ binary = buffer' /\ head' = 4 * instruction_count'
               /\ \A i \in 0 .. instruction_count' - 1 :
                    instructions_'[i] = Loaded(binary, i)
    <3>1. /\ binary = buffer /\ head = 4 * instruction_count
          /\ \A i \in 0 .. instruction_count - 1 : instructions_[i] = Loaded(binary, i)
      BY <2>1, <2>7 DEF Inv, SourceInv
    <3>2. word = Loaded(binary, instruction_count)
      BY <3>1 DEF word, Loaded
    <3> QED  BY <2>1, <2>3, <2>4, <3>1, <3>2
  <2>8. SourceInv'
    BY <2>1, <2>7 DEF SourceInv, LoadsWholeProgram
  <2>9. FormInv'
    <3>1. Form(word)
      BY LoadedForm DEF word
    <3>2. \A i \in 0 .. kMaxInstructionCount - 1 : Form(instructions_'[i])
      BY <2>1, <2>3, <3>1 DEF Inv, FormInv
    <3> QED  BY <2>1, <3>2 DEF FormInv
  <2> QED  BY <2>5, <2>6, <2>8, <2>9 DEF Inv
<1>4. CASE EndOfStream
  <2>1. TypeOK'
    BY <1>4 DEF Inv, TypeOK, EndOfStream, stream
  <2>2. IndexInv'
    BY <1>4 DEF Inv, IndexInv, EndOfStream, stream
  <2>3. SourceInv'
    BY <1>0, <1>4 DEF Inv, SourceInv, LoadsWholeProgram, EndOfStream, available, TypeOK, stream
  <2>4. FormInv'
    BY <1>4 DEF Inv, FormInv, EndOfStream
  <2> QED  BY <2>1, <2>2, <2>3, <2>4 DEF Inv
<1>5. CASE Optimize
  <2>1. TypeOK'
    BY <1>5 DEF Inv, TypeOK, Optimize, stream
  <2>2. IndexInv'
    BY <1>5 DEF Inv, IndexInv, Optimize, stream
  <2>3. ASSUME NEW binary \in source', NEW i \in 0 .. kMaxInstructionCount - 1
        PROVE  instructions_'[i] = Optimized(Loaded(binary, i))
    <3>1. /\ pc = "optimize" /\ source' = source
          /\ instructions_' = [k \in DOMAIN instructions_ |-> Optimized(instructions_[k])]
      BY <1>5 DEF Optimize
    <3>2. /\ DOMAIN instructions_ = 0 .. kMaxInstructionCount - 1
          /\ instruction_count \in 0 .. kMaxInstructionCount
      BY DEF Inv, TypeOK
    <3>3. 4 * instruction_count = 4 * kMaxInstructionCount
      BY <2>3, <3>1 DEF Inv, SourceInv
    <3>4. instruction_count = kMaxInstructionCount
      BY <1>0, <3>2, <3>3
    <3>5. instructions_[i] = Loaded(binary, i)
      BY <2>3, <3>1, <3>4 DEF Inv, SourceInv
    <3> QED  BY <3>1, <3>2, <3>5
  <2>4. SourceInv'
    BY <1>5, <2>3 DEF SourceInv, LoadsWholeProgram, Optimize
  <2>5. FormInv'
    <3> SUFFICES ASSUME NEW i \in 0 .. kMaxInstructionCount - 1
                 PROVE  /\ Form(instructions_'[i])
                        /\ instructions_'[i].opcode \notin {"CHO_RDA", "CHO_SOF"}
      BY DEF FormInv
    <3>1. instructions_'[i] = Optimized(instructions_[i])
      BY <1>5 DEF Optimize, Inv, TypeOK
    <3>2. Form(instructions_[i])
      BY DEF Inv, FormInv
    <3> QED  BY <3>1, <3>2, OptimizedForm, Zenon
  <2> QED  BY <2>1, <2>2, <2>4, <2>5 DEF Inv
<1>6. CASE UNCHANGED vars
  BY <1>6 DEF Inv, TypeOK, IndexInv, SourceInv, FormInv, LoadsWholeProgram, vars, stream
<1> QED  BY <1>1, <1>2, <1>3, <1>4, <1>5, <1>6 DEF Next

\* It holds always.
LEMMA Invariant == Spec => []Inv
  BY InitInv, NextInv, PTL DEF Spec

\* No load goes behind the end of instructions_, or of the buffer, however the
\* caller mixes Compile and the streams.
THEOREM TypeCorrect == Spec => []TypeOK
<1>1. Inv => TypeOK
  BY DEF Inv
<1> QED  BY <1>1, Invariant, PTL

\* Whatever was in instructions_ before, a Compile from the start of a stream
\* replaces all of it.
THEOREM WholeProgramIsLoaded == Spec => []LoadsWholeProgram
<1>1. Inv => LoadsWholeProgram
  BY DEF Inv, SourceInv
<1> QED  BY <1>1, Invariant, PTL

\* And that program is the one that was written: what the decoder, the compiler
\* and the loop make of any program of any length is what Optimize makes of its
\* statements.
THEOREM ProgramIsAsWritten == Spec => []LoadsAsWritten
<1>1. Inv => LoadsAsWritten
  <2> SUFFICES ASSUME Inv, pc = "idle",
                      NEW binary \in source, NEW i \in 0 .. kMaxInstructionCount - 1
               PROVE  instructions_[i] = Optimized(CompileInstruction(TextOf[binary][i + 1]))
    BY DEF LoadsAsWritten
  <2>1. instructions_[i] = Optimized(Loaded(binary, i))
    BY DEF Inv, SourceInv, LoadsWholeProgram
  <2>2. binary \in Binaries /\ binary \in [0 .. 4 * kMaxInstructionCount - 1 -> SUBSET (0 .. 7)]
    BY BinaryAssumption DEF Inv, TypeOK
  <2>3. NextWord(binary, 4 * i) = WordAt(binary, i)
    BY <2>2, StreamWords
  <2>4. TextOf[binary][i + 1] = Decode(WordAt(binary, i))
    BY <2>2, TextAssumption, DecodesAsWritten
  <2> QED  BY <2>1, <2>3, <2>4 DEF Loaded
<1> QED  BY <1>1, Invariant, PTL

\* Nothing that can be loaded has an operand that the switch of Execute is not
\* written for, which is what Vm assumes of its Programs.
THEOREM LoadsExecutable == Spec => []IsExecutable
<1>1. Inv => IsExecutable
  BY FormExecutable DEF Inv, TypeOK, FormInv, IsExecutable
<1> QED  BY <1>1, Invariant, PTL
=============================================================================
