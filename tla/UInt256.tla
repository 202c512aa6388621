------------------------------- MODULE UInt256 -------------------------------
(***************************************************************************)
(* csf_assign01/uint256.c: integers of four limbs of W bits (64 in the     *)
(* program) and their arithmetic, with the wrap-around of C's unsigned     *)
(* types.  A behaviour is one call of a function of the library; the loop  *)
(* of uint256_mul goes through its states.  A string of hex digits is the  *)
(* sequence of their values; a limb has D of them (16 in the program).     *)
(* A function whose name tells of a fault is that function with a mistake, *)
(* and is not part of Spec.                                                *)
(***************************************************************************)
EXTENDS Naturals, Sequences

CONSTANTS W,         \* bits of a limb
          D,         \* digits of a limb
          MaxDigits  \* bound: how long the strings of digits are

ASSUME WidthAssumption == /\ W \in Nat /\ D \in Nat \ {0}
                          /\ \E b \in 1 .. W : W = b * D
                          /\ MaxDigits \in Nat

\* 2 ^ n, as a function: the provers know nothing of ^.
two_to[n \in Nat] == IF n = 0 THEN 1 ELSE 2 * two_to[n - 1]

Base == two_to[W]              \* the number of values of a limb
Radix == two_to[W \div D]      \* the number of values of a digit
Modulus == two_to[4 * W]

Limb == 0 .. Base - 1
UInt256 == [0 .. 3 -> Limb]
Digit == 0 .. Radix - 1

uint256_create(data) == [k \in 0 .. 3 |-> data[k + 1]]
uint256_create_from_u64(val) == uint256_create(<<val, 0, 0, 0>>)

Zero == uint256_create_from_u64(0)

VARIABLES
  op,        \* the function called
  left,      \* its first argument
  right,     \* its second argument
  i,         \* the argument shift, or the counter of the loop of uint256_mul
  hex,       \* a string of digits, argument or result
  result,    \* the result, or product in uint256_mul
  pc         \* "call", "loop", "done"

vars == <<op, left, right, i, hex, result, pc>>

(***************************************************************************)
(* Addition and subtraction.                                               *)
(***************************************************************************)
AddNoCarry(l, r) == [k \in 0 .. 3 |-> (l[k] + r[k]) % Base]

uint256_add(l, r) ==
  LET temp(k, carry) == (l[k] + r[k] + carry) % Base
      carry[k \in 0 .. 3] ==
        IF k = 0 THEN 0
        ELSE LET t == temp(k - 1, carry[k - 1])
             IN IF t < l[k - 1] \/ t < r[k - 1] THEN 1 ELSE 0
  IN [k \in 0 .. 3 |-> temp(k, carry[k])]

Complement(r) == [k \in 0 .. 3 |-> Base - 1 - r[k]]

uint256_sub(l, r) ==
  uint256_add(l, uint256_add(Complement(r), uint256_create_from_u64(1)))

(***************************************************************************)
(* Shifting by fewer bits than there are.  The shifts of C are within a    *)
(* limb, and the one case in which they could be by W bits or more is      *)
(* shift >= 4 * W, which no caller in the repository uses.                 *)
(***************************************************************************)
shl(limb, n) == (limb * two_to[n]) % Base
shr(limb, n) == limb \div two_to[n]

ShiftLosesBits(val, shift) ==
  LET q == shift \div W  n == shift % W
  IN [k \in 0 .. 3 |-> IF k < q THEN 0 ELSE shl(val[k - q], n)]

uint256_leftshift(val, shift) ==
  LET top == shl(val[0] % two_to[4 * W - shift], shift - 3 * W)
      q == shift \div W                   \* whole limbs: 0, 1 or 2
      n == shift % W
      in(k) == IF n = 0 \/ k = q THEN 0 ELSE shr(val[k - q - 1], W - n)
  IN IF shift > 3 * W THEN uint256_create(<<0, 0, 0, top>>)
     ELSE IF shift = 3 * W THEN uint256_create(<<0, 0, 0, val[0]>>)
     ELSE [k \in 0 .. 3 |-> IF k < q THEN 0 ELSE (shl(val[k - q], n) + in(k)) % Base]

BitOfFirstLimb(val, index) == shr(val[0], index % W) % 2 = 1

uint256_bit_is_set(val, index) ==
  index \div W < 4 /\ shr(val[index \div W], index % W) % 2 = 1

(***************************************************************************)
(* Hex digits, the most significant first.                                 *)
(***************************************************************************)
strtoul(digits) ==
  LET value[k \in 0 .. Len(digits)] ==
        IF k = 0 THEN 0 ELSE value[k - 1] * Radix + digits[k]
  IN value[Len(digits)]

uint256_create_from_hex(s) ==
  LET len == Len(s)
      quo == len \div D
      rem == len % D
      last(n) == SubSeq(s, len - n + 1, len)
      limb(k) == strtoul(SubSeq(s, len - (k + 1) * D + 1, len - k * D))
  IN [k \in 0 .. 3 |->
        IF len >= 4 * D \/ k < quo THEN limb(k)
        ELSE IF k = quo THEN strtoul(SubSeq(s, 1, rem))
        ELSE 0]

padded(limb) == [k \in 1 .. D |-> shr(limb, (W \div D) * (D - k)) % Radix]

plain(limb) ==
  LET nonzero == {k \in 1 .. D : padded(limb)[k] # 0}
  IN IF nonzero = {} THEN <<0>>
     ELSE SubSeq(padded(limb), CHOOSE k \in nonzero : \A m \in nonzero : k <= m, D)

FormatWithoutPadding(val) ==
  plain(val[3]) \o plain(val[2]) \o plain(val[1]) \o plain(val[0])

uint256_format_as_hex(val) ==
  IF val[3] # 0 THEN plain(val[3]) \o padded(val[2]) \o padded(val[1]) \o padded(val[0])
  ELSE IF val[2] # 0 THEN plain(val[2]) \o padded(val[1]) \o padded(val[0])
  ELSE IF val[1] # 0 THEN plain(val[1]) \o padded(val[0])
  ELSE plain(val[0])

(***************************************************************************)
(* The calls.                                                              *)
(***************************************************************************)
Strings == UNION {[1 .. n -> Digit] : n \in 0 .. MaxDigits}

Init == /\ pc = "call" /\ result = Zero
        /\ \/ op \in {"add", "sub", "mul"} /\ left \in UInt256 /\ right \in UInt256
              /\ i = 0 /\ hex = << >>
           \/ op = "leftshift" /\ left \in UInt256 /\ right = Zero
              /\ i \in 0 .. 4 * W - 1 /\ hex = << >>
           \/ op = "create_from_hex" /\ left = Zero /\ right = Zero
              /\ i = 0 /\ hex \in Strings
           \/ op = "format_as_hex" /\ left \in UInt256 /\ right = Zero
              /\ i = 0 /\ hex = << >>

Return(f, value) == /\ pc = "call" /\ op = f
                    /\ pc' = "done" /\ result' = value
                    /\ UNCHANGED <<op, left, right, i, hex>>

Add == Return("add", uint256_add(left, right))
Sub == Return("sub", uint256_sub(left, right))
LeftShift == Return("leftshift", uint256_leftshift(left, i))
CreateFromHex == Return("create_from_hex", uint256_create_from_hex(hex))

FormatAsHex == /\ pc = "call" /\ op = "format_as_hex"
               /\ pc' = "done"
               /\ hex' = uint256_format_as_hex(left)
               /\ UNCHANGED <<op, left, right, i, result>>

\* One round of the loop of uint256_mul.
Mul == /\ op = "mul" /\ pc \in {"call", "loop"}
       /\ result' = IF uint256_bit_is_set(left, i)
                    THEN uint256_add(result, uint256_leftshift(right, i))
                    ELSE result
       /\ i' = i + 1
       /\ pc' = IF i + 1 = 4 * W THEN "done" ELSE "loop"
       /\ UNCHANGED <<op, left, right, hex>>

Finished == pc = "done" /\ UNCHANGED vars

Next == Add \/ Sub \/ LeftShift \/ CreateFromHex \/ FormatAsHex \/ Mul \/ Finished

Spec == Init /\ [][Next]_vars
-----------------------------------------------------------------------------
(***************************************************************************)
(* Properties                                                              *)
(***************************************************************************)
Value(x) == x[0] + Base * (x[1] + Base * (x[2] + Base * x[3]))

\* The carry into limb k of an exact addition, and the places where
\* uint256_add loses one: both limbs are all ones, so that their sum with the
\* carry is not less than either of them.
CarryInto(k, l, r) ==
  LET power == two_to[k * W] IN (Value(l) % power) + (Value(r) % power) >= power
LosesCarry(l, r) == \E k \in {1, 2} : /\ l[k] = Base - 1 /\ r[k] = Base - 1
                                      /\ CarryInto(k, l, r)

\* "Compute the sum of two UInt256 values." (uint256.h)
AddIsSum ==
  pc = "done" /\ op = "add" /\ Value(left) + Value(right) < Modulus =>
    Value(result) = Value(left) + Value(right)

Negative(r) == [k \in 0 .. 3 |->
                  shr((Modulus - Value(r)) % Modulus, k * W) % Base]

\* Modulo 2^256 the sum is right exactly when no carry is lost that way, and the
\* difference exactly when the addition of the two's complement loses none.
WrongOnlyWhenCarryLost ==
  /\ pc = "done" /\ op = "add" =>
       (Value(result) = (Value(left) + Value(right)) % Modulus <=> ~ LosesCarry(left, right))
  /\ pc = "done" /\ op = "sub" =>
       (Value(result) = (Value(left) + Modulus - Value(right)) % Modulus
          <=> ~ LosesCarry(left, Negative(right)))

\* After i rounds the product is that of the i lowest bits of left, as long as
\* it has room in the two lower limbs, where no carry can be lost.
MulIsProduct ==
  op = "mul" /\ Value(left) * Value(right) < two_to[2 * W] =>
    Value(result) = (Value(left) % two_to[i]) * Value(right)

\* A shift by fewer than 256 bits multiplies, across all limb boundaries.
ShiftMultiplies ==
  pc = "done" /\ op = "leftshift" => Value(result) = (Value(left) * two_to[i]) % Modulus

\* A string, however many digits longer than 64 it is, stands for its last 64;
\* what is printed is read back as the same number, in as few digits as it has.
HexIsValue ==
  /\ pc = "done" /\ op = "create_from_hex" => Value(result) = strtoul(hex) % Modulus
  /\ pc = "done" /\ op = "format_as_hex" =>
       /\ uint256_create_from_hex(hex) = left
       /\ Len(hex) > 1 => hex[1] # 0
=============================================================================
