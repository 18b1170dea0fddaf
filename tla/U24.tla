--------------------------------- MODULE U24 ---------------------------------
(***************************************************************************)
(* app/u24.rs: 24-bit numbers kept in a u32.  The widths are parameters,   *)
(* so that an instance may be small: Space is 2^24, Wide is 2^32 and Byte  *)
(* is 2^8 in the code.                                                     *)
(***************************************************************************)
EXTENDS Integers

CONSTANTS Space,   \* how many numbers there are
          Wide,    \* how many numbers the integer below has
          Byte,    \* how many values a byte has
          None     \* Err, None or a panic, outside of the numbers

Sizes ==
  /\ Byte \in Nat \ {0, 1} /\ Space = Byte * Byte * Byte
  /\ Wide \in Nat /\ Wide = Byte * Space

MinNum == 0
MaxNum == Space - 1
Nums   == MinNum .. MaxNum

\* TryFrom<u32>: the conversion that every operator below ends with.
TryFrom(x) == IF x > MaxNum THEN None ELSE x

\* TryFrom<u64>, by way of u32.
TryFromLong(x) == IF x > Wide - 1 THEN None ELSE TryFrom(x)

\* TryFrom<u24> for the type of size numbers, u8 or u16.
TryInto(n, size) == IF n > size - 1 THEN None ELSE n

CheckedAdd(a, b) == IF a + b > Wide - 1 THEN None ELSE TryFrom(a + b)
CheckedSub(a, b) == IF a - b < 0 THEN None ELSE TryFrom(a - b)

\* x & 0xffffff
Masked(x) == x % Space

WrappingAdd(a, b) == TryFrom(Masked((a + b) % Wide))
WrappingSub(a, b) == TryFrom(Masked((a - b) % Wide))

\* Add and AddAssign: None is the panic of expect.
Add(a, b) == TryFrom(a + b)

FromLeBytes(x, y, z) == TryFrom(x + Byte * y + Byte * Byte * z)

\* RFC 7641, section 3.4: new is older than old, in this space of numbers.
Backwards(old, new) == (new + Space - old) % Space > Space \div 2
=============================================================================
