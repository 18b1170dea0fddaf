------------------------------ MODULE U24Proofs ------------------------------
(***************************************************************************)
(* Theorems about U24 for every size of a byte, the real one included.     *)
(***************************************************************************)
EXTENDS U24, TLAPS

(* The sizes are what the proofs count with.                               *)
LEMMA SizesAreNumbers ==
  ASSUME Sizes
  PROVE  /\ Byte \in Nat /\ Byte > 1
         /\ Space \in Nat /\ Space >= 8
         /\ Wide \in Nat /\ Wide >= 2 * Space /\ Wide = Byte * Space
BY DEF Sizes

(* Up to twice the size a remainder is the number or what is left of it.   *)
LEMMA Remainder ==
  ASSUME NEW s \in Nat \ {0}, NEW x \in 0 .. 2 * s - 1
  PROVE  x % s = IF x < s THEN x ELSE x - s
BY SMT

(* Below zero it is what is missing to the size.                           *)
LEMMA RemainderBelowZero ==
  ASSUME NEW s \in Nat \ {0}, NEW x \in -s .. -1
  PROVE  x % s = x + s
BY SMT

(* wrapping_add is addition modulo the space of numbers, for all operands: *)
(* its unwrap() never panics and the inner addition never wraps.           *)
THEOREM WrappingAddWraps ==
  ASSUME Sizes, NEW a \in Nums, NEW b \in Nums
  PROVE  /\ WrappingAdd(a, b) \in Nums
         /\ WrappingAdd(a, b) = IF a + b < Space THEN a + b ELSE a + b - Space
<1>1. /\ Space \in Nat \ {0} /\ Wide \in Nat \ {0} /\ 2 * Space <= Wide
      /\ a \in 0 .. Space - 1 /\ b \in 0 .. Space - 1
  BY SizesAreNumbers DEF Nums, MinNum, MaxNum
<1>2. PICK x \in Int : x = a + b
  BY <1>1
<1>3. x \in 0 .. 2 * Space - 1 /\ x \in 0 .. 2 * Wide - 1 /\ x < Wide
  BY <1>1, <1>2
<1>4. x % Wide = x
  BY <1>1, <1>3, Remainder
<1>5. x % Space = IF x < Space THEN x ELSE x - Space
  BY <1>1, <1>3, Remainder
<1>6. WrappingAdd(a, b) = TryFrom(x % Space)
  BY <1>2, <1>4 DEF WrappingAdd, Masked
<1>7. x % Space \in 0 .. Space - 1
  BY <1>1, <1>3, <1>5
<1> QED
  BY <1>1, <1>2, <1>5, <1>6, <1>7 DEF TryFrom, Nums, MinNum, MaxNum

(* What Observers::notify_change adds: one more, and zero after the last.  *)
THEOREM WrappingAddOne ==
  ASSUME Sizes, NEW a \in Nums
  PROVE  WrappingAdd(a, 1) = IF a = MaxNum THEN MinNum ELSE a + 1
<1>1. 1 \in Nums
  BY SizesAreNumbers DEF Nums, MinNum, MaxNum
<1>2. WrappingAdd(a, 1) = IF a + 1 < Space THEN a + 1 ELSE a + 1 - Space
  BY <1>1, WrappingAddWraps
<1> QED
  BY <1>2, SizesAreNumbers DEF Nums, MinNum, MaxNum

(* wrapping_sub undoes wrapping_add, also across zero, where the inner     *)
(* subtraction wraps around at the width of the u32.                       *)
THEOREM WrappingSubUndoes ==
  ASSUME Sizes, NEW a \in Nums, NEW b \in Nums
  PROVE  WrappingSub(WrappingAdd(a, b), b) = a
<1>1. /\ Space \in Nat \ {0} /\ Wide \in Nat \ {0} /\ 2 * Space <= Wide
      /\ a \in 0 .. Space - 1 /\ b \in 0 .. Space - 1
  BY SizesAreNumbers DEF Nums, MinNum, MaxNum
<1>2. PICK x \in Int : x = WrappingAdd(a, b) - b
  BY <1>1, WrappingAddWraps DEF Nums, MinNum, MaxNum
<1>3. WrappingAdd(a, b) = IF a + b < Space THEN a + b ELSE a + b - Space
  BY WrappingAddWraps
<1>4. x = a \/ x = a - Space
  BY <1>1, <1>2, <1>3
<1>5. (x % Wide) % Space = a
  <2>1. CASE x = a
    <3>1. x \in 0 .. 2 * Space - 1 /\ x \in 0 .. 2 * Wide - 1 /\ x < Wide /\ x < Space
      BY <1>1, <2>1
    <3>2. x % Wide = x /\ x % Space = x
      BY <1>1, <3>1, Remainder
    <3> QED
      BY <2>1, <3>2
  <2>2. CASE x = a - Space
    <3>1. x \in -Wide .. -1
      BY <1>1, <2>2
    <3>2. x % Wide = x + Wide
      BY <1>1, <3>1, RemainderBelowZero
    <3>3. PICK k \in Nat : Wide = Space + k * Space
      <4>1. Byte - 1 \in Nat /\ Wide = Space + (Byte - 1) * Space
        BY SizesAreNumbers
      <4> QED
        BY <4>1
    <3>4. x + Wide = a + k * Space
      BY <1>1, <2>2, <3>3
    <3>5. (a + k * Space) % Space = a
      BY <1>1
    <3> QED
      BY <3>2, <3>4, <3>5
  <2> QED
    BY <1>4, <2>1, <2>2
<1>6. WrappingSub(WrappingAdd(a, b), b) = TryFrom((x % Wide) % Space)
  BY <1>2 DEF WrappingSub, Masked
<1> QED
  BY <1>1, <1>5, <1>6 DEF TryFrom, MaxNum

(* Where the program adds without wrapping it either gets the exact sum    *)
(* or none: checked_add returns None exactly where the operator + panics,  *)
(* and the u32 below never overflows first.                                *)
THEOREM AddIsExactOrFails ==
  ASSUME Sizes, NEW a \in Nums, NEW b \in Nums
  PROVE  /\ CheckedAdd(a, b) = IF a + b \in Nums THEN a + b ELSE None
         /\ CheckedSub(a, b) = IF a - b \in Nums THEN a - b ELSE None
         /\ Add(a, b) = CheckedAdd(a, b)
<1>1. /\ Space \in Nat \ {0} /\ Wide \in Nat \ {0} /\ 2 * Space <= Wide
      /\ a \in 0 .. Space - 1 /\ b \in 0 .. Space - 1
  BY SizesAreNumbers DEF Nums, MinNum, MaxNum
<1> QED
  BY <1>1 DEF CheckedAdd, CheckedSub, Add, TryFrom, Nums, MinNum, MaxNum

(* A conversion keeps a number or fails: the u64 that goes by way of the   *)
(* u32 is not cut off there, and a smaller type gets no part of a number.  *)
THEOREM ConversionsAreExactOrFail ==
  ASSUME Sizes, NEW x \in Nat, NEW n \in Nums, NEW size \in Nat
  PROVE  /\ TryFromLong(x) = IF x \in Nums THEN x ELSE None
         /\ TryInto(n, size) = IF n \in 0 .. size - 1 THEN n ELSE None
<1>1. Space \in Nat /\ Wide \in Nat /\ 2 * Space <= Wide
  BY SizesAreNumbers
<1> QED
  BY <1>1 DEF TryFromLong, TryInto, TryFrom, Nums, MinNum, MaxNum

(* Three bytes of the random generator always are a number: a sequence may *)
(* start anywhere, and from_le_bytes never panics.                         *)
THEOREM BytesAreNumbers ==
  ASSUME Sizes,
         NEW x \in 0 .. Byte - 1, NEW y \in 0 .. Byte - 1, NEW z \in 0 .. Byte - 1
  PROVE  FromLeBytes(x, y, z) \in Nums
<1>1. Byte \in Nat /\ Byte > 1
  BY SizesAreNumbers
<1>2. PICK q \in Nat : q = Byte * Byte
  BY <1>1
<1>3. PICK v \in Nat : v = x + Byte * y + q * z
  <2>1. Byte * y \in Nat /\ q * z \in Nat
    BY <1>1, <1>2
  <2> QED
    BY <2>1
<1>4. v < Byte * q
  <2>1. Byte * y <= Byte * (Byte - 1) /\ q * z <= q * (Byte - 1)
    BY <1>1, <1>2
  <2>2. Byte * (Byte - 1) = q - Byte /\ q * (Byte - 1) = Byte * q - q
    BY <1>1, <1>2
  <2>3. x < Byte /\ Byte * y \in Nat /\ q * z \in Nat /\ Byte * q \in Nat
    BY <1>1, <1>2
  <2> QED
    BY <1>1, <1>2, <1>3, <2>1, <2>2, <2>3
<1>5. Space = Byte * q
  BY <1>1, <1>2 DEF Sizes
<1>6. FromLeBytes(x, y, z) = TryFrom(v)
  BY <1>2, <1>3 DEF FromLeBytes
<1> QED
  BY <1>3, <1>4, <1>5, <1>6, SizesAreNumbers DEF TryFrom, Nums, MinNum, MaxNum

(* RFC 7641 takes the number after k publications for older than the first *)
(* one only if k is more than half of the space: an observer may miss half *)
(* of the numbers, across the wrap-around, and still order what it gets.   *)
THEOREM SequencesAreOrdered ==
  ASSUME Sizes, NEW a \in Nums, NEW k \in Nums
  PROVE  Backwards(a, WrappingAdd(a, k)) <=> k > Space \div 2
<1>1. /\ Space \in Nat \ {0}
      /\ a \in 0 .. Space - 1 /\ k \in 0 .. Space - 1
  BY SizesAreNumbers DEF Nums, MinNum, MaxNum
<1>2. WrappingAdd(a, k) = IF a + k < Space THEN a + k ELSE a + k - Space
  BY WrappingAddWraps
<1>3. PICK d \in Int : d = WrappingAdd(a, k) + Space - a
  BY <1>1, <1>2
<1>4. d \in 0 .. 2 * Space - 1 /\ (d = k \/ d = k + Space)
  BY <1>1, <1>2, <1>3
<1>5. d % Space = IF d < Space THEN d ELSE d - Space
  BY <1>1, <1>4, Remainder
<1>6. d % Space = k
  BY <1>1, <1>4, <1>5
<1> QED
  BY <1>3, <1>6 DEF Backwards
=============================================================================
