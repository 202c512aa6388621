----------------------------- MODULE HexdumpProof -----------------------------
(***************************************************************************)
(* Proofs about Hexdump: every line of the assembly program is right, and  *)
(* a line of the C program exactly when the lines before it have been full *)
(* and the count of bytes has stayed an int.  The argument follows a line  *)
(* from its offset to its newline: what is in memory where a string is     *)
(* written from, and which places of the line have been written so far.    *)
(***************************************************************************)
EXTENDS Hexdump, TLAPS

-----------------------------------------------------------------------------
(***************************************************************************)
(* Memory.                                                                 *)
(***************************************************************************)
Cell == 0 .. 256
Memory == [Addresses -> Cell]

\* A store changes the cells that it covers, and no other.
LEMMA StoreIs ==
  ASSUME NEW m \in Memory, NEW a \in Nat, NEW bytes \in Seq(Cell)
  PROVE  /\ store(m, a, bytes) \in Memory
         /\ \A k \in Addresses :
              /\ a <= k /\ k < a + Len(bytes) => store(m, a, bytes)[k] = bytes[k - a + 1]
              /\ k < a \/ k >= a + Len(bytes) => store(m, a, bytes)[k] = m[k]
<1> DEFINE new(k) == IF k - a + 1 \in DOMAIN bytes THEN bytes[k - a + 1] ELSE m[k]
<1>1. DOMAIN bytes = 1 .. Len(bytes) /\ Len(bytes) \in Nat
  OBVIOUS
<1>2. DOMAIN m = Addresses /\ Addresses \subseteq Nat
  BY DEF Memory, Addresses
<1>3. store(m, a, bytes) = [k \in Addresses |-> new(k)]
  BY <1>2 DEF store
<1>4. \A k \in Addresses : new(k) \in Cell
  <2> SUFFICES ASSUME NEW k \in Addresses PROVE new(k) \in Cell
    OBVIOUS
  <2>1. m[k] \in Cell
    BY DEF Memory
  <2>2. k - a + 1 \in 1 .. Len(bytes) => bytes[k - a + 1] \in Cell
    OBVIOUS
  <2> QED BY <1>1, <2>1, <2>2
<1>5. store(m, a, bytes) \in Memory
  BY <1>3, <1>4 DEF Memory
<1>6. ASSUME NEW k \in Addresses
      PROVE  /\ a <= k /\ k < a + Len(bytes) => new(k) = bytes[k - a + 1]
             /\ k < a \/ k >= a + Len(bytes) => new(k) = m[k]
  <2>1. k \in Nat
    BY <1>2
  <2>2. k - a + 1 \in 1 .. Len(bytes) <=> a <= k /\ k < a + Len(bytes)
    BY <1>1, <2>1
  <2>3. k < a \/ k >= a + Len(bytes) => ~ (a <= k /\ k < a + Len(bytes))
    BY <1>1, <2>1
  <2> QED BY <1>1, <2>2, <2>3
<1> HIDE DEF new
<1> QED BY <1>3, <1>5, <1>6

\* What hex_write_string writes: the cells from a up to the first that is zero.
LEMMA StringAt ==
  ASSUME NEW m \in Memory, NEW a \in Nat, NEW s \in Seq(Cell), a + Len(s) \in Addresses,
         \A k \in 1 .. Len(s) : m[a + k - 1] = s[k] /\ s[k] # 0,
         m[a + Len(s)] = 0
  PROVE  hex_write_string(m, a) = s
<1> DEFINE T == {k \in DOMAIN m : k >= a /\ m[k] = 0}
           e == a + Len(s)
<1>1. DOMAIN m = Addresses /\ Addresses \subseteq Nat /\ Len(s) \in Nat /\ e \in Nat
  <2>1. DOMAIN m = Addresses
    BY DEF Memory
  <2>2. Addresses \subseteq Nat
    BY DEF Addresses
  <2> QED BY <2>1, <2>2
<1>2. e \in T
  BY <1>1
<1>3. ASSUME NEW k \in T
      PROVE  e <= k
  <2>1. k \in Nat /\ k >= a /\ m[k] = 0
    BY <1>1
  <2>2. CASE k < e
    <3>1. k - a + 1 \in 1 .. Len(s) /\ a + (k - a + 1) - 1 = k
      BY <1>1, <2>1, <2>2
    <3>2. m[a + (k - a + 1) - 1] # 0
      BY <3>1
    <3> QED BY <2>1, <3>1, <3>2
  <2> QED BY <1>1, <2>1, <2>2
<1>4. \A x \in T : (\A y \in T : x <= y) => x = e
  <2> SUFFICES ASSUME NEW x \in T, \A y \in T : x <= y PROVE x = e
    OBVIOUS
  <2>1. x <= e /\ e <= x /\ x \in Nat
    BY <1>1, <1>2, <1>3
  <2>2. \A p, q \in Nat : p <= q /\ q <= p => p = q
    OBVIOUS
  <2> HIDE DEF e
  <2> QED BY <1>1, <2>1, <2>2
<1> HIDE DEF T, e
<1>5. Min(T) = e
  BY <1>2, <1>3, <1>4 DEF Min
<1>6. hex_write_string(m, a) = [k \in 1 .. e - a |-> m[a + k - 1]]
  BY <1>5 DEF hex_write_string, T
<1>7. e - a = Len(s)
  BY <1>1 DEF e
<1>8. s = [k \in 1 .. Len(s) |-> s[k]]
  OBVIOUS
<1> QED BY <1>6, <1>7, <1>8

-----------------------------------------------------------------------------
(***************************************************************************)
(* Digits.                                                                 *)
(***************************************************************************)
\* A digit of four bits.
LEMMA DigitIs ==
  ASSUME NEW d \in 0 .. 15
  PROVE  conbyte_to_hex(d) = HexChar[d + 1] /\ HexChar[d + 1] \in 48 .. 102
BY DEF conbyte_to_hex, HexChar

\* The two digits of a byte.
LEMMA PairIs ==
  ASSUME NEW b \in 0 .. 255
  PROVE  /\ Pair(b) \in Seq(Cell) /\ Len(Pair(b)) = 2
         /\ Pair(b) = <<conbyte_to_hex(b \div 16), conbyte_to_hex(b % 16)>>
         /\ conbyte_to_hex(b \div 16) \in 48 .. 102 /\ conbyte_to_hex(b % 16) \in 48 .. 102
<1>1. b \div 16 \in 0 .. 15 /\ b % 16 \in 0 .. 15
  OBVIOUS
<1>2. /\ conbyte_to_hex(b \div 16) = HexChar[(b \div 16) + 1]
      /\ conbyte_to_hex(b % 16) = HexChar[(b % 16) + 1]
      /\ conbyte_to_hex(b \div 16) \in 48 .. 102 /\ conbyte_to_hex(b % 16) \in 48 .. 102
  BY <1>1, DigitIs
<1>3. Pair(b) = <<conbyte_to_hex(b \div 16), conbyte_to_hex(b % 16)>>
  BY <1>2 DEF Pair
<1>4. conbyte_to_hex(b \div 16) \in Cell /\ conbyte_to_hex(b % 16) \in Cell
  BY <1>2 DEF Cell
<1> HIDE DEF Cell
<1> QED BY <1>2, <1>3, <1>4

\* Where the bytes of a pair are, it is what is written, and data is as it was.
PairAt(m, new, b) == /\ new \in Memory
                     /\ hex_write_string(new, single_hex) = Pair(b)
                     /\ \A k \in 0 .. 16 : new[k] = m[k]

\* The C function stores two digits and a NUL.
LEMMA CPair ==
  ASSUME NEW m \in Memory, NEW b \in 0 .. 255
  PROVE  PairAt(m, C_hex_format_byte_as_hex(m, b), b)
<1> DEFINE h == conbyte_to_hex(b \div 16)
           l == conbyte_to_hex(b % 16)
           new == store(m, 17, <<h, l, 0>>)
<1>1. /\ Pair(b) \in Seq(Cell) /\ Len(Pair(b)) = 2 /\ Pair(b) = <<h, l>>
      /\ h \in 48 .. 102 /\ l \in 48 .. 102
  BY PairIs
<1> HIDE DEF h, l
<1>2. <<h, l, 0>> \in Seq(Cell) /\ Len(<<h, l, 0>>) = 3
  <2>1. h \in Cell /\ l \in Cell /\ 0 \in Cell
    BY <1>1 DEF Cell
  <2> QED BY <2>1
<1>3. /\ new \in Memory
      /\ \A k \in Addresses : /\ 17 <= k /\ k < 17 + 3 => new[k] = <<h, l, 0>>[k - 17 + 1]
                              /\ k < 17 \/ k >= 17 + 3 => new[k] = m[k]
  <2>1. 17 \in Nat
    OBVIOUS
  <2>2. /\ new \in Memory
        /\ \A k \in Addresses :
             /\ 17 <= k /\ k < 17 + Len(<<h, l, 0>>) => new[k] = <<h, l, 0>>[k - 17 + 1]
             /\ k < 17 \/ k >= 17 + Len(<<h, l, 0>>) => new[k] = m[k]
    BY <1>2, <2>1, StoreIs, Zenon
  <2>3. Len(<<h, l, 0>>) = 3
    BY <1>2
  <2> QED BY <2>2, <2>3, Zenon
<1>4. new[17] = h /\ new[18] = l /\ new[19] = 0 /\ \A k \in 0 .. 16 : new[k] = m[k]
  BY <1>3 DEF Addresses
<1>5. new = C_hex_format_byte_as_hex(m, b)
  BY DEF C_hex_format_byte_as_hex, single_hex, h, l
<1> HIDE DEF new
<1>6. hex_write_string(new, 17) = Pair(b)
  <2>1. 17 \in Nat /\ 17 + Len(Pair(b)) \in Addresses /\ new[17 + Len(Pair(b))] = 0
    BY <1>1, <1>4 DEF Addresses
  <2>2. \A k \in 1 .. Len(Pair(b)) : new[17 + k - 1] = Pair(b)[k] /\ Pair(b)[k] # 0
    BY <1>1, <1>4
  <2> QED BY <1>1, <1>3, <2>1, <2>2, StringAt
<1> QED BY <1>3, <1>4, <1>5, <1>6 DEF PairAt, single_hex

\* What movq stores: the assembly function does so three times.
LEMMA QuadIs ==
  ASSUME NEW b \in Cell
  PROVE  /\ Quad(b) \in Seq(Cell) /\ Len(Quad(b)) = 8
         /\ Quad(b)[1] = b /\ \A k \in 2 .. 8 : Quad(b)[k] = 0
<1> DEFINE z == [k \in 1 .. 7 |-> 0]
<1>1. z \in Seq(Cell) /\ Len(z) = 7
  <2>1. 0 \in Cell
    BY DEF Cell
  <2> QED BY <2>1
<1>2. \A k \in 1 .. 7 : z[k] = 0
  OBVIOUS
<1> HIDE DEF z
<1>3. Quad(b) = <<b>> \o z
  BY DEF Quad, z
<1>4. <<b>> \in Seq(Cell) /\ Len(<<b>>) = 1 /\ <<b>>[1] = b
  OBVIOUS
<1>5. \A x, y \in Seq(Cell) :
         /\ x \o y \in Seq(Cell) /\ Len(x \o y) = Len(x) + Len(y)
         /\ \A k \in 1 .. Len(x) : (x \o y)[k] = x[k]
         /\ \A k \in 1 .. Len(y) : (x \o y)[Len(x) + k] = y[k]
  OBVIOUS
<1> DEFINE q == <<b>> \o z
<1>6. q \in Seq(Cell) /\ Len(q) = 1 + 7 /\ q[1] = b
      /\ \A k \in 1 .. 7 : q[1 + k] = 0
  <2>1. PICK x \in Seq(Cell) : x = <<b>> /\ Len(x) = 1 /\ x[1] = b
    BY <1>4
  <2>2. /\ x \o z \in Seq(Cell) /\ Len(x \o z) = Len(x) + Len(z)
        /\ \A k \in 1 .. Len(x) : (x \o z)[k] = x[k]
        /\ \A k \in 1 .. Len(z) : (x \o z)[Len(x) + k] = z[k]
    BY <1>1, <1>5, Zenon
  <2>3. 1 \in 1 .. Len(x)
    BY <2>1
  <2>4. \A k \in 1 .. 7 : (x \o z)[1 + k] = 0
    BY <1>1, <1>2, <2>1, <2>2
  <2> QED BY <1>1, <2>1, <2>2, <2>3, <2>4
<1> HIDE DEF q
<1>7. ASSUME NEW k \in 2 .. 8
      PROVE  q[k] = 0
  <2>1. k - 1 \in 1 .. 7 /\ 1 + (k - 1) = k
    OBVIOUS
  <2> QED BY <1>6, <2>1
<1> QED BY <1>3, <1>6, <1>7 DEF q

\* Such a store, and what lies below it.
LEMMA QuadStore ==
  ASSUME NEW m \in Memory, NEW a \in 0 .. 38, NEW b \in Cell
  PROVE  /\ store(m, a, Quad(b)) \in Memory
         /\ store(m, a, Quad(b))[a] = b
         /\ \A k \in Addresses : k < a => store(m, a, Quad(b))[k] = m[k]
<1>1. PICK q \in Seq(Cell) : q = Quad(b) /\ Len(q) = 8 /\ q[1] = b
  BY QuadIs
<1>2. a \in Nat /\ a \in Addresses
  BY DEF Addresses
<1>3. /\ store(m, a, q) \in Memory
      /\ \A k \in Addresses :
           /\ a <= k /\ k < a + Len(q) => store(m, a, q)[k] = q[k - a + 1]
           /\ k < a \/ k >= a + Len(q) => store(m, a, q)[k] = m[k]
  BY <1>2, StoreIs
<1>4. a <= a /\ a < a + Len(q) /\ a - a + 1 = 1
  BY <1>1, <1>2
<1> QED BY <1>1, <1>2, <1>3, <1>4

\* The three stores leave the same string.
LEMMA AsmPair ==
  ASSUME NEW m \in Memory, NEW b \in 0 .. 255
  PROVE  PairAt(m, Asm_hex_format_byte_as_hex(m, b), b)
<1> DEFINE h == conbyte_to_hex(b \div 16)
           l == conbyte_to_hex(b % 16)
           one == store(m, 17, Quad(h))
           two == store(one, 18, Quad(l))
           new == store(two, 19, Quad(0))
<1>1. /\ Pair(b) \in Seq(Cell) /\ Len(Pair(b)) = 2 /\ Pair(b) = <<h, l>>
      /\ h \in 48 .. 102 /\ l \in 48 .. 102
  BY PairIs
<1> HIDE DEF h, l
<1>2. h \in Cell /\ l \in Cell /\ 0 \in Cell
  BY <1>1 DEF Cell
<1>3. 17 \in 0 .. 38 /\ 18 \in 0 .. 38 /\ 19 \in 0 .. 38
      /\ 17 \in Addresses /\ 18 \in Addresses /\ \A k \in 0 .. 16 : k \in Addresses
  BY DEF Addresses
<1>4. one \in Memory /\ one[17] = h /\ \A k \in Addresses : k < 17 => one[k] = m[k]
  BY <1>2, <1>3, QuadStore
<1> HIDE DEF one
<1>6. two \in Memory /\ two[18] = l /\ \A k \in Addresses : k < 18 => two[k] = one[k]
  BY <1>2, <1>3, <1>4, QuadStore, SMTT(30)
<1> HIDE DEF two
<1>8. new \in Memory /\ new[19] = 0 /\ \A k \in Addresses : k < 19 => new[k] = two[k]
  BY <1>2, <1>3, <1>6, QuadStore, SMTT(30)
<1> HIDE DEF new
<1>9. new[17] = h /\ new[18] = l /\ new[19] = 0 /\ \A k \in 0 .. 16 : new[k] = m[k]
  <2>1. new[17] = two[17] /\ two[17] = one[17] /\ new[18] = two[18]
    BY <1>3, <1>6, <1>8
  <2>2. ASSUME NEW k \in 0 .. 16
        PROVE  new[k] = m[k]
    <3>1. k \in Addresses /\ k < 17 /\ k < 18 /\ k < 19
      BY <1>3
    <3> QED BY <1>4, <1>6, <1>8, <3>1
  <2> QED BY <1>4, <1>6, <1>8, <2>1, <2>2
<1>10. new = Asm_hex_format_byte_as_hex(m, b)
  BY DEF Asm_hex_format_byte_as_hex, single_hex, h, l, one, two, new
<1>11. hex_write_string(new, 17) = Pair(b)
  <2>1. 17 \in Nat /\ 17 + Len(Pair(b)) \in Addresses /\ new[17 + Len(Pair(b))] = 0
    BY <1>1, <1>9 DEF Addresses
  <2>2. \A k \in 1 .. Len(Pair(b)) : new[17 + k - 1] = Pair(b)[k] /\ Pair(b)[k] # 0
    BY <1>1, <1>9
  <2> QED BY <1>1, <1>8, <2>1, <2>2, StringAt
<1> QED BY <1>8, <1>9, <1>10, <1>11 DEF PairAt, single_hex

-----------------------------------------------------------------------------
(***************************************************************************)
(* Strings in a row.                                                       *)
(***************************************************************************)
\* Places in two strings in a row.
LEMMA Concat ==
  ASSUME NEW x \in Seq(Cell), NEW y \in Seq(Cell)
  PROVE  /\ x \o y \in Seq(Cell) /\ Len(x \o y) = Len(x) + Len(y)
         /\ \A k \in 1 .. Len(x) : (x \o y)[k] = x[k]
         /\ \A k \in 1 .. Len(y) : (x \o y)[Len(x) + k] = y[k]
OBVIOUS

\* z is the strings o, s, c and e, of n, m, p and q places, in a row.
InARow(z, o, s, c, e, n, m, p, q) ==
  /\ Len(z) = n + m + p + q
  /\ \A k \in 1 .. n : z[k] = o[k]
  /\ \A k \in 1 .. m : z[n + k] = s[k]
  /\ \A k \in 1 .. p : z[n + m + k] = c[k]
  /\ \A k \in 1 .. q : z[n + m + p + k] = e[k]

\* Four strings in a row are such a z.
LEMMA FourStrings ==
  ASSUME NEW o \in Seq(Cell), NEW s \in Seq(Cell), NEW c \in Seq(Cell), NEW e \in Seq(Cell)
  PROVE  /\ ((o \o s) \o c) \o e \in Seq(Cell)
         /\ InARow(((o \o s) \o c) \o e, o, s, c, e, Len(o), Len(s), Len(c), Len(e))
<1> DEFINE a == o \o s
           b == a \o c
           z == b \o e
<1>1. PICK n, m, p, q \in Nat : n = Len(o) /\ m = Len(s) /\ p = Len(c) /\ q = Len(e)
  OBVIOUS
<1>2. /\ a \in Seq(Cell) /\ Len(a) = Len(o) + Len(s)
      /\ \A k \in 1 .. Len(o) : a[k] = o[k]
      /\ \A k \in 1 .. Len(s) : a[Len(o) + k] = s[k]
  BY Concat
<1> HIDE DEF a
<1>3. /\ b \in Seq(Cell) /\ Len(b) = Len(a) + Len(c)
      /\ \A k \in 1 .. Len(a) : b[k] = a[k]
      /\ \A k \in 1 .. Len(c) : b[Len(a) + k] = c[k]
  BY <1>2, Concat
<1> HIDE DEF b
<1>4. /\ z \in Seq(Cell) /\ Len(z) = Len(b) + Len(e)
      /\ \A k \in 1 .. Len(b) : z[k] = b[k]
      /\ \A k \in 1 .. Len(e) : z[Len(b) + k] = e[k]
  BY <1>3, Concat
<1> HIDE DEF z
<1>5. Len(a) = n + m /\ Len(b) = n + m + p /\ Len(z) = n + m + p + q
  BY <1>1, <1>2, <1>3, <1>4
<1>6. ASSUME NEW k \in 1 .. n
      PROVE  z[k] = o[k]
  <2>1. k \in 1 .. Len(o) /\ k \in 1 .. Len(a) /\ k \in 1 .. Len(b)
    BY <1>1, <1>5
  <2> QED BY <2>1, <1>2, <1>3, <1>4
<1>7. ASSUME NEW k \in 1 .. m
      PROVE  z[n + k] = s[k]
  <2>1. k \in 1 .. Len(s) /\ n + k \in 1 .. Len(a) /\ n + k \in 1 .. Len(b) /\ n = Len(o)
    BY <1>1, <1>5
  <2> QED BY <2>1, <1>2, <1>3, <1>4
<1>8. ASSUME NEW k \in 1 .. p
      PROVE  z[n + m + k] = c[k]
  <2>1. k \in 1 .. Len(c) /\ n + m + k \in 1 .. Len(b) /\ n + m = Len(a)
    BY <1>1, <1>5
  <2> QED BY <2>1, <1>3, <1>4
<1>9. ASSUME NEW k \in 1 .. q
      PROVE  z[n + m + p + k] = e[k]
  <2>1. k \in 1 .. Len(e) /\ n + m + p = Len(b)
    BY <1>1, <1>5
  <2> QED BY <2>1, <1>4
<1>10. InARow(z, o, s, c, e, n, m, p, q)
  BY <1>5, <1>6, <1>7, <1>8, <1>9 DEF InARow
<1> QED BY <1>1, <1>4, <1>10 DEF z, b, a

-----------------------------------------------------------------------------
(***************************************************************************)
(* The offset.                                                             *)
(***************************************************************************)
\* Its bytes.
LEMMA BytesOfOffset ==
  ASSUME NEW u \in Nat
  PROVE  /\ Byte(u, 3) \in 0 .. 255 /\ Byte(u, 2) \in 0 .. 255
         /\ Byte(u, 1) \in 0 .. 255 /\ Byte(u, 0) \in 0 .. 255
<1>1. \A v \in Nat : v % 256 \in 0 .. 255
  BY SMT
<1>2. u \div 16777216 \in Nat /\ u \div 65536 \in Nat /\ u \div 256 \in Nat
  BY SMT
<1>3. /\ Byte(u, 3) = (u \div 16777216) % 256 /\ Byte(u, 2) = (u \div 65536) % 256
      /\ Byte(u, 1) = (u \div 256) % 256 /\ Byte(u, 0) = u % 256
  BY SMT DEF Byte
<1> QED BY <1>1, <1>2, <1>3, SMT

\* The digits of one.
LEMMA PairOf ==
  ASSUME NEW b \in 0 .. 255
  PROVE  /\ Pair(b) \in Seq(Cell) /\ Len(Pair(b)) = 2
         /\ Pair(b)[1] = conbyte_to_hex(b \div 16) /\ Pair(b)[2] = conbyte_to_hex(b % 16)
         /\ Pair(b)[1] \in 48 .. 102 /\ Pair(b)[2] \in 48 .. 102
<1>1. /\ Pair(b) \in Seq(Cell) /\ Len(Pair(b)) = 2
      /\ Pair(b) = <<conbyte_to_hex(b \div 16), conbyte_to_hex(b % 16)>>
      /\ conbyte_to_hex(b \div 16) \in 48 .. 102 /\ conbyte_to_hex(b % 16) \in 48 .. 102
  BY PairIs
<1>2. \A x, y : <<x, y>>[1] = x /\ <<x, y>>[2] = y
  OBVIOUS
<1>3. Pair(b)[1] = conbyte_to_hex(b \div 16) /\ Pair(b)[2] = conbyte_to_hex(b % 16)
  <2>1. PICK x, y : /\ x = conbyte_to_hex(b \div 16) /\ y = conbyte_to_hex(b % 16)
                    /\ Pair(b) = <<x, y>>
    BY <1>1, Zenon
  <2>2. Pair(b)[1] = x /\ Pair(b)[2] = y
    BY <1>2, <2>1, SMT
  <2> QED BY <2>1, <2>2, Zenon
<1> QED BY <1>1, <1>3, Zenon

\* The digits of a byte are two of those of the number, sixteen times apart.
LEMMA Nibbles ==
  ASSUME NEW v \in Nat
  PROVE  (v \div 16) % 16 = (v % 256) \div 16 /\ v % 16 = (v % 256) % 16
OBVIOUS

\* Shifting by four bits more.
LEMMA FourBits ==
  ASSUME NEW u \in Nat
  PROVE  /\ u \div 268435456 = (u \div 16777216) \div 16
         /\ u \div 1048576 = (u \div 65536) \div 16
         /\ u \div 4096 = (u \div 256) \div 16
BY SMT

\* hex_format_offset writes the digits of the offset.
LEMMA OffsetIs ==
  ASSUME NEW n \in Nat, unsigned(n) \in Nat
  PROVE  LET o == Offset(unsigned(n))
             f == hex_format_offset(n)
         IN /\ o \in Seq(Cell) /\ Len(o) = 8 /\ \A k \in 1 .. 8 : o[k] # 0
            /\ f \in Seq(Cell) /\ Len(f) = 9 /\ f[9] = 0
            /\ \A k \in 1 .. 8 : f[k] = o[k]
<1> DEFINE o == Offset(unsigned(n))
           f == hex_format_offset(n)
<1>1. PICK u \in Nat : u = unsigned(n)
  OBVIOUS
<1> DEFINE b3 == Byte(u, 3)
           b2 == Byte(u, 2)
           b1 == Byte(u, 1)
           b0 == Byte(u, 0)
<1>2. b3 \in 0 .. 255 /\ b2 \in 0 .. 255 /\ b1 \in 0 .. 255 /\ b0 \in 0 .. 255
  BY BytesOfOffset
<1>3. o = Pair(b3) \o Pair(b2) \o Pair(b1) \o Pair(b0)
  BY <1>1 DEF Offset
<1> DEFINE a(k) == u \div Power16[k]
           d(k) == conbyte_to_hex(a(k) % 16)
<1>4. f = [k \in 1 .. 9 |-> IF k = 9 THEN 0 ELSE d(k)]
  BY <1>1 DEF hex_format_offset
<1>5. /\ d(1) = conbyte_to_hex(b3 \div 16) /\ d(2) = conbyte_to_hex(b3 % 16)
      /\ d(3) = conbyte_to_hex(b2 \div 16) /\ d(4) = conbyte_to_hex(b2 % 16)
      /\ d(5) = conbyte_to_hex(b1 \div 16) /\ d(6) = conbyte_to_hex(b1 % 16)
      /\ d(7) = conbyte_to_hex(b0 \div 16) /\ d(8) = conbyte_to_hex(b0 % 16)
  <2>1. /\ a(1) = a(2) \div 16 /\ a(2) \in Nat /\ b3 = a(2) % 256
        /\ a(3) = a(4) \div 16 /\ a(4) \in Nat /\ b2 = a(4) % 256
        /\ a(5) = a(6) \div 16 /\ a(6) \in Nat /\ b1 = a(6) % 256
        /\ a(7) = u \div 16 /\ a(8) = u /\ b0 = u % 256
    <3>1. /\ a(1) = u \div 268435456 /\ a(2) = u \div 16777216
          /\ a(3) = u \div 1048576 /\ a(4) = u \div 65536
          /\ a(5) = u \div 4096 /\ a(6) = u \div 256
          /\ a(7) = u \div 16 /\ a(8) = u \div 1
      BY SMT DEF Power16
    <3>2. /\ u \div 268435456 = (u \div 16777216) \div 16
          /\ u \div 1048576 = (u \div 65536) \div 16
          /\ u \div 4096 = (u \div 256) \div 16
      BY FourBits, SMT
    <3>3. u \div 16777216 \in Nat /\ u \div 65536 \in Nat /\ u \div 256 \in Nat /\ u \div 1 = u
      BY SMT
    <3>4. /\ b3 = (u \div 16777216) % 256 /\ b2 = (u \div 65536) % 256
          /\ b1 = (u \div 256) % 256 /\ b0 = u % 256
      BY SMT DEF Byte
    <3> HIDE DEF a, b3, b2, b1, b0
    <3>5. a(1) = a(2) \div 16 /\ a(2) \in Nat /\ b3 = a(2) % 256
      BY <3>1, <3>2, <3>3, <3>4, SMT
    <3>6. a(3) = a(4) \div 16 /\ a(4) \in Nat /\ b2 = a(4) % 256
      BY <3>1, <3>2, <3>3, <3>4, SMT
    <3>7. a(5) = a(6) \div 16 /\ a(6) \in Nat /\ b1 = a(6) % 256
      BY <3>1, <3>2, <3>3, <3>4, SMT
    <3>8. a(7) = u \div 16 /\ a(8) = u /\ b0 = u % 256
      BY <3>1, <3>3, <3>4, SMT
    <3> QED BY <3>5, <3>6, <3>7, <3>8
  <2> HIDE DEF a, b3, b2, b1, b0
  <2>2. a(1) % 16 = b3 \div 16 /\ a(2) % 16 = b3 % 16
    BY <2>1, Nibbles
  <2>3. a(3) % 16 = b2 \div 16 /\ a(4) % 16 = b2 % 16
    BY <2>1, Nibbles
  <2>4. a(5) % 16 = b1 \div 16 /\ a(6) % 16 = b1 % 16
    BY <2>1, Nibbles
  <2>5. a(7) % 16 = b0 \div 16 /\ a(8) % 16 = b0 % 16
    BY <2>1, Nibbles
  <2> QED BY <2>2, <2>3, <2>4, <2>5
<1> HIDE DEF o, f, a, d, b3, b2, b1, b0
<1>6. /\ Pair(b3) \in Seq(Cell) /\ Len(Pair(b3)) = 2 /\ Pair(b3)[1] = d(1) /\ Pair(b3)[2] = d(2)
      /\ d(1) \in 48 .. 102 /\ d(2) \in 48 .. 102
  <2>1. b3 \in 0 .. 255
    BY <1>2
  <2>2. /\ Pair(b3) \in Seq(Cell) /\ Len(Pair(b3)) = 2
        /\ Pair(b3)[1] = conbyte_to_hex(b3 \div 16) /\ Pair(b3)[2] = conbyte_to_hex(b3 % 16)
        /\ Pair(b3)[1] \in 48 .. 102 /\ Pair(b3)[2] \in 48 .. 102
    BY <2>1, PairOf
  <2>3. d(1) = conbyte_to_hex(b3 \div 16) /\ d(2) = conbyte_to_hex(b3 % 16)
    BY <1>5
  <2> QED BY <2>2, <2>3
<1>7. /\ Pair(b2) \in Seq(Cell) /\ Len(Pair(b2)) = 2 /\ Pair(b2)[1] = d(3) /\ Pair(b2)[2] = d(4)
      /\ d(3) \in 48 .. 102 /\ d(4) \in 48 .. 102
  <2>1. b2 \in 0 .. 255
    BY <1>2
  <2>2. /\ Pair(b2) \in Seq(Cell) /\ Len(Pair(b2)) = 2
        /\ Pair(b2)[1] = conbyte_to_hex(b2 \div 16) /\ Pair(b2)[2] = conbyte_to_hex(b2 % 16)
        /\ Pair(b2)[1] \in 48 .. 102 /\ Pair(b2)[2] \in 48 .. 102
    BY <2>1, PairOf
  <2>3. d(3) = conbyte_to_hex(b2 \div 16) /\ d(4) = conbyte_to_hex(b2 % 16)
    BY <1>5
  <2> QED BY <2>2, <2>3
<1>8. /\ Pair(b1) \in Seq(Cell) /\ Len(Pair(b1)) = 2 /\ Pair(b1)[1] = d(5) /\ Pair(b1)[2] = d(6)
      /\ d(5) \in 48 .. 102 /\ d(6) \in 48 .. 102
  <2>1. b1 \in 0 .. 255
    BY <1>2
  <2>2. /\ Pair(b1) \in Seq(Cell) /\ Len(Pair(b1)) = 2
        /\ Pair(b1)[1] = conbyte_to_hex(b1 \div 16) /\ Pair(b1)[2] = conbyte_to_hex(b1 % 16)
        /\ Pair(b1)[1] \in 48 .. 102 /\ Pair(b1)[2] \in 48 .. 102
    BY <2>1, PairOf
  <2>3. d(5) = conbyte_to_hex(b1 \div 16) /\ d(6) = conbyte_to_hex(b1 % 16)
    BY <1>5
  <2> QED BY <2>2, <2>3
<1>9. /\ Pair(b0) \in Seq(Cell) /\ Len(Pair(b0)) = 2 /\ Pair(b0)[1] = d(7) /\ Pair(b0)[2] = d(8)
      /\ d(7) \in 48 .. 102 /\ d(8) \in 48 .. 102
  <2>1. b0 \in 0 .. 255
    BY <1>2
  <2>2. /\ Pair(b0) \in Seq(Cell) /\ Len(Pair(b0)) = 2
        /\ Pair(b0)[1] = conbyte_to_hex(b0 \div 16) /\ Pair(b0)[2] = conbyte_to_hex(b0 % 16)
        /\ Pair(b0)[1] \in 48 .. 102 /\ Pair(b0)[2] \in 48 .. 102
    BY <2>1, PairOf
  <2>3. d(7) = conbyte_to_hex(b0 \div 16) /\ d(8) = conbyte_to_hex(b0 % 16)
    BY <1>5
  <2> QED BY <2>2, <2>3
<1>10. o \in Seq(Cell) /\ InARow(o, Pair(b3), Pair(b2), Pair(b1), Pair(b0), 2, 2, 2, 2)
  <2>1. /\ o \in Seq(Cell)
        /\ InARow(o, Pair(b3), Pair(b2), Pair(b1), Pair(b0),
                  Len(Pair(b3)), Len(Pair(b2)), Len(Pair(b1)), Len(Pair(b0)))
    BY <1>3, <1>6, <1>7, <1>8, <1>9, FourStrings, Zenon
  <2> QED BY <2>1, <1>6, <1>7, <1>8, <1>9, Zenon
<1>11. Len(o) = 8 /\ \A k \in 1 .. 8 : d(k) \in 48 .. 102 /\ o[k] = d(k)
  <2>1. PICK p3, p2, p1, p0 : /\ InARow(o, p3, p2, p1, p0, 2, 2, 2, 2)
                              /\ p3[1] = d(1) /\ p3[2] = d(2) /\ p2[1] = d(3) /\ p2[2] = d(4)
                              /\ p1[1] = d(5) /\ p1[2] = d(6) /\ p0[1] = d(7) /\ p0[2] = d(8)
    BY <1>6, <1>7, <1>8, <1>9, <1>10, Zenon
  <2>2. Len(o) = 2 + 2 + 2 + 2 /\ o[1] = d(1) /\ o[2] = d(2)
    BY <2>1 DEF InARow
  <2>3. o[2 + 1] = d(3) /\ o[2 + 2] = d(4)
    BY <2>1 DEF InARow
  <2>4. o[2 + 2 + 1] = d(5) /\ o[2 + 2 + 2] = d(6)
    BY <2>1 DEF InARow
  <2>5. o[2 + 2 + 2 + 1] = d(7) /\ o[2 + 2 + 2 + 2] = d(8)
    BY <2>1 DEF InARow
  <2>6. \A k \in 1 .. 8 : k = 1 \/ k = 2 \/ k = 3 \/ k = 4 \/ k = 5 \/ k = 6 \/ k = 7 \/ k = 8
    OBVIOUS
  <2>7. /\ d(1) \in 48 .. 102 /\ d(2) \in 48 .. 102 /\ d(3) \in 48 .. 102 /\ d(4) \in 48 .. 102
        /\ d(5) \in 48 .. 102 /\ d(6) \in 48 .. 102 /\ d(7) \in 48 .. 102 /\ d(8) \in 48 .. 102
    BY <1>6, <1>7, <1>8, <1>9, Zenon
  <2> QED BY <2>2, <2>3, <2>4, <2>5, <2>6, <2>7
<1>12. 48 .. 102 \subseteq Cell /\ 0 \in Cell /\ 0 \notin 48 .. 102
  BY DEF Cell
<1>13. f \in Seq(Cell) /\ Len(f) = 9
  <2>1. \A k \in 1 .. 9 : (IF k = 9 THEN 0 ELSE d(k)) \in Cell
    BY <1>11, <1>12
  <2> HIDE DEF Cell
  <2> QED BY <1>4, <2>1
<1>14. f[9] = 0 /\ \A k \in 1 .. 8 : f[k] = d(k)
  BY <1>4
<1>15. \A k \in 1 .. 8 : o[k] # 0 /\ f[k] = o[k]
  <2>1. \A k \in 1 .. 8 : d(k) # 0
    BY <1>11
  <2> QED BY <1>11, <1>14, <2>1
<1> QED BY <1>10, <1>11, <1>13, <1>14, <1>15 DEF o, f

\* Where printoffset puts them, they are what is written, and data is as it was.
LEMMA OffsetAt ==
  ASSUME NEW m \in Memory, NEW n \in Nat, unsigned(n) \in Nat
  PROVE  LET new == store(m, offset_hex, hex_format_offset(n))
         IN /\ new \in Memory
            /\ hex_write_string(new, offset_hex) = Offset(unsigned(n))
            /\ \A k \in 0 .. 16 : new[k] = m[k]
<1>1. PICK o \in Seq(Cell), f \in Seq(Cell) :
        /\ o = Offset(unsigned(n)) /\ f = hex_format_offset(n)
        /\ Len(o) = 8 /\ Len(f) = 9 /\ f[9] = 0
        /\ \A k \in 1 .. 8 : f[k] = o[k] /\ o[k] # 0
  BY OffsetIs
<1> DEFINE new == store(m, 20, f)
<1>2. 20 \in Nat /\ \A k \in 0 .. 16 : k \in Addresses /\ k < 20
  BY DEF Addresses
<1>3. /\ new \in Memory
      /\ \A k \in Addresses : /\ 20 <= k /\ k < 20 + Len(f) => new[k] = f[k - 20 + 1]
                              /\ k < 20 \/ k >= 20 + Len(f) => new[k] = m[k]
  BY <1>2, StoreIs
<1> HIDE DEF new
<1>4. \A k \in 0 .. 16 : new[k] = m[k]
  BY <1>2, <1>3
<1>5. \A k \in 1 .. 9 : new[20 + k - 1] = f[k]
  <2> TAKE k \in 1 .. 9
  <2>1. /\ 20 + k - 1 \in Addresses /\ 20 <= 20 + k - 1 /\ 20 + k - 1 < 20 + 9
        /\ (20 + k - 1) - 20 + 1 = k
    BY DEF Addresses
  <2> QED BY <1>1, <1>3, <2>1
<1>6. \A k \in 1 .. Len(o) : new[20 + k - 1] = o[k] /\ o[k] # 0
  <2> TAKE k \in 1 .. Len(o)
  <2>1. k \in 1 .. 8 /\ k \in 1 .. 9
    BY <1>1
  <2> QED BY <1>1, <1>5, <2>1
<1>7. new[20 + Len(o)] = 0 /\ 20 + Len(o) \in Addresses
  <2>1. 20 + 9 - 1 = 28 /\ 9 \in 1 .. 9 /\ 28 \in Addresses
    BY DEF Addresses
  <2>2. new[28] = 0
    BY <1>1, <1>5, <2>1
  <2>3. 20 + Len(o) = 28
    BY <1>1
  <2> QED BY <2>1, <2>2, <2>3
<1>8. hex_write_string(new, 20) = o
  BY <1>1, <1>2, <1>3, <1>6, <1>7, StringAt
<1> QED BY <1>1, <1>3, <1>4, <1>8 DEF new, offset_hex

-----------------------------------------------------------------------------
(***************************************************************************)
(* Counting.                                                               *)
(***************************************************************************)
\* The number of bytes as an unsigned and as an int.
LEMMA Counts ==
  ASSUME NEW n \in Nat
  PROVE  \E p, z, u \in Nat :
           /\ unsigned(n) = u /\ n = 16 * z + u /\ u < 32 * p
           /\ int(n) >= 0 => int(n) = u
           /\ int(n) < 0 => int(n) = u - 32 * p
           /\ int(n) \in Int
<1>1. PICK p \in Nat : IntMax + 1 = 16 * p /\ IntMax \in Nat /\ p # 0
  <2>1. IntMax \in Nat /\ (IntMax + 1) % 16 = 0
    BY HexdumpAssumption
  <2>2. (IntMax + 1) \div 16 \in Nat /\ IntMax + 1 = 16 * ((IntMax + 1) \div 16)
    BY <2>1
  <2> QED BY <2>1, <2>2
<1>2. PICK m \in Nat \ {0} : m = 2 * (IntMax + 1) /\ m = 32 * p
  <2>1. 2 * (IntMax + 1) = 32 * p /\ 32 * p \in Nat \ {0}
    BY <1>1
  <2> QED BY <2>1
<1>3. PICK q \in Nat, u \in Nat : n = m * q + u /\ u = n % m /\ u < m
  <2>1. n \div m \in Nat /\ n % m \in Nat /\ n % m < m /\ n = m * (n \div m) + (n % m)
    OBVIOUS
  <2> QED BY <2>1
<1>4. unsigned(n) = u
  BY <1>2, <1>3 DEF unsigned
<1>5. int(n) = IF u <= IntMax THEN u ELSE u - m
  BY <1>2, <1>4 DEF int
<1>6. PICK z \in Nat : m * q = 16 * z
  <2>1. (32 * p) * q = 16 * (2 * (p * q)) /\ 2 * (p * q) \in Nat
    OBVIOUS
  <2> QED BY <1>2, <2>1
<1>7. u - m < 0 /\ u >= 0
  BY <1>3
<1>8. int(n) \in Int /\ (int(n) >= 0 => int(n) = u) /\ (int(n) < 0 => int(n) = u - 32 * p)
  BY <1>2, <1>5, <1>7
<1>9. n = 16 * z + u /\ u < 32 * p
  BY <1>2, <1>3, <1>6
<1> QED BY <1>4, <1>8, <1>9

\* The C program fills up a line to its end exactly when the lines before have been full
\* and the count is not taken for a negative one.
LEMMA FillIs ==
  ASSUME NEW before \in Nat, NEW n \in 1 .. 16
  PROVE  /\ supplement(before + n) \in Nat
         /\ supplement(before + n) = 16 - n
              <=> before % 16 = 0 /\ (n = 16 \/ int(before + n) >= 0)
<1> DEFINE c == before + n
           rem == IF int(c) >= 0 THEN int(c) % 16 ELSE - ((- int(c)) % 16)
<1>1. c \in Nat
  OBVIOUS
<1> HIDE DEF c
<1>2. PICK p, z, u \in Nat :
        /\ c = 16 * z + u /\ u < 32 * p /\ int(c) \in Int
        /\ int(c) >= 0 => int(c) = u
        /\ int(c) < 0 => int(c) = u - 32 * p
  BY <1>1, Counts
<1>3. c % 16 = u % 16
  BY <1>2
<1>4. supplement(c) = IF rem = 0 THEN 0 ELSE 16 - rem
  BY DEF supplement
<1>5. PICK r \in 0 .. 15 : r = u % 16
  OBVIOUS
<1>6. CASE int(c) >= 0
  <2>1. rem = r
    BY <1>2, <1>5, <1>6
  <2>2. supplement(c) = IF r = 0 THEN 0 ELSE 16 - r
    BY <1>4, <2>1
  <2>3. supplement(c) \in Nat
    BY <2>2
  <2>4. supplement(c) = 16 - n <=> before % 16 = 0
    <3>1. (before + n) % 16 = r
      BY <1>3, <1>5 DEF c
    <3>2. r = (IF n = 16 THEN 0 ELSE n) <=> before % 16 = 0
      BY <3>1
    <3>3. supplement(c) = 16 - n <=> r = (IF n = 16 THEN 0 ELSE n)
      BY <2>2
    <3> QED BY <3>2, <3>3
  <2> QED BY <1>6, <2>3, <2>4 DEF c
<1>7. CASE int(c) < 0
  <2>1. - int(c) = 32 * p - u /\ 32 * p - u \in Nat
    BY <1>2, <1>7
  <2>2. (32 * p - u) % 16 = IF r = 0 THEN 0 ELSE 16 - r
    BY <1>2, <1>5, <2>1
  <2>3. rem = - (IF r = 0 THEN 0 ELSE 16 - r)
    <3>1. ~ (int(c) >= 0)
      BY <1>2, <1>7
    <3> QED BY <2>1, <2>2, <3>1
  <2>4. supplement(c) = IF r = 0 THEN 0 ELSE 32 - r
    BY <1>4, <2>3
  <2>5. supplement(c) \in Nat
    BY <2>4
  <2>6. supplement(c) = 16 - n <=> r = 0 /\ n = 16
    BY <2>4
  <2>7. n = 16 => (r = 0 <=> before % 16 = 0)
    <3>1. (before + n) % 16 = r
      BY <1>3, <1>5 DEF c
    <3> QED BY <3>1
  <2>8. ~ (int(c) >= 0)
    BY <1>2, <1>7
  <2> QED BY <2>5, <2>6, <2>7, <2>8 DEF c
<1> QED BY <1>2, <1>6, <1>7

-----------------------------------------------------------------------------
(***************************************************************************)
(* A line.                                                                 *)
(***************************************************************************)
\* l begins with the offset u and the digits of the first j bytes.
Prefix(l, u, bytes, j) ==
  /\ \A k \in 1 .. 8 : l[k] = Offset(u)[k]
  /\ l[9] = 58 /\ l[10] = 32
  /\ \A k \in 1 .. j : /\ l[3 * k + 8] = Pair(bytes[k])[1]
                       /\ l[3 * k + 9] = Pair(bytes[k])[2]
                       /\ l[3 * k + 10] = 32

\* And it has come to the next byte, or to the end of the columns when it is filled up
\* as if there were g bytes more.
Begun(l, u, bytes, j) == l \in Seq(Cell) /\ Len(l) = 3 * j + 10 /\ Prefix(l, u, bytes, j)
Padded(l, u, bytes, g) ==
  /\ l \in Seq(Cell) /\ Len(l) = 3 * Len(bytes) + 3 * g + 11
  /\ Prefix(l, u, bytes, Len(bytes))
  /\ \A k \in 3 * Len(bytes) + 11 .. Len(l) : l[k] = 32

\* What is written behind it leaves a prefix as it is.
LEMMA PrefixStays ==
  ASSUME NEW l \in Seq(Cell), NEW s \in Seq(Cell), NEW u, NEW bytes, NEW j \in Nat,
         Prefix(l, u, bytes, j), Len(l) >= 3 * j + 10
  PROVE  Prefix(l \o s, u, bytes, j)
<1>1. \A k \in 1 .. Len(l) : (l \o s)[k] = l[k]
  BY Concat
<1>2. \A k \in 1 .. 10 : k \in 1 .. Len(l)
  OBVIOUS
<1>3. \A k \in 1 .. j : /\ 3 * k + 8 \in 1 .. Len(l) /\ 3 * k + 9 \in 1 .. Len(l)
                        /\ 3 * k + 10 \in 1 .. Len(l)
  OBVIOUS
<1>4. \A k \in 1 .. 8 : (l \o s)[k] = Offset(u)[k]
  BY <1>1, <1>2, SMTT(30) DEF Prefix
<1>5. (l \o s)[9] = 58 /\ (l \o s)[10] = 32
  BY <1>1, <1>2 DEF Prefix
<1>6. ASSUME NEW k \in 1 .. j
      PROVE  /\ (l \o s)[3 * k + 8] = Pair(bytes[k])[1]
             /\ (l \o s)[3 * k + 9] = Pair(bytes[k])[2]
             /\ (l \o s)[3 * k + 10] = 32
  <2>1. /\ l[3 * k + 8] = Pair(bytes[k])[1] /\ l[3 * k + 9] = Pair(bytes[k])[2]
        /\ l[3 * k + 10] = 32
    BY Zenon DEF Prefix
  <2>2. /\ (l \o s)[3 * k + 8] = l[3 * k + 8] /\ (l \o s)[3 * k + 9] = l[3 * k + 9]
        /\ (l \o s)[3 * k + 10] = l[3 * k + 10]
    BY <1>1, <1>3, Zenon
  <2> QED BY <2>1, <2>2, Zenon
<1> QED BY <1>4, <1>5, <1>6 DEF Prefix

\* A space as a string.
LEMMA OneSpace == << 32 >> \in Seq(Cell) /\ Len(<< 32 >>) = 1 /\ << 32 >>[1] = 32
<1>1. 32 \in Cell
  BY DEF Cell
<1> HIDE DEF Cell
<1> QED BY <1>1

\* A colon and a space.
LEMMA ColonSpace ==
  /\ <<58, 32>> \in Seq(Cell) /\ Len(<<58, 32>>) = 2
  /\ <<58, 32>>[1] = 58 /\ <<58, 32>>[2] = 32
<1>1. 32 \in Cell /\ 58 \in Cell
  BY DEF Cell
<1> HIDE DEF Cell
<1> QED BY <1>1

\* printoffset.
LEMMA LineBegins ==
  ASSUME NEW u, NEW bytes, Offset(u) \in Seq(Cell), Len(Offset(u)) = 8
  PROVE  Begun(Offset(u) \o <<58, 32>>, u, bytes, 0)
<1> DEFINE s == <<58, 32>>
           l == Offset(u) \o s
<1>1. s \in Seq(Cell) /\ Len(s) = 2 /\ s[1] = 58 /\ s[2] = 32
  BY ColonSpace
<1> HIDE DEF s
<1>2. /\ l \in Seq(Cell) /\ Len(l) = Len(Offset(u)) + Len(s)
      /\ \A k \in 1 .. Len(Offset(u)) : l[k] = Offset(u)[k]
      /\ \A k \in 1 .. Len(s) : l[Len(Offset(u)) + k] = s[k]
  BY <1>1, Concat, ZenonT(60)
<1> HIDE DEF l
<1>3. Len(l) = 3 * 0 + 10 /\ 1 .. 0 = {} /\ \A k \in 1 .. 8 : l[k] = Offset(u)[k]
  BY <1>1, <1>2
<1>4. l[9] = 58 /\ l[10] = 32
  <2>1. Len(Offset(u)) + 1 = 9 /\ Len(Offset(u)) + 2 = 10 /\ 1 \in 1 .. Len(s) /\ 2 \in 1 .. Len(s)
    BY <1>1
  <2> QED BY <1>1, <1>2, <2>1
<1> QED BY <1>2, <1>3, <1>4 DEF Begun, Prefix, l, s

\* One round of the loop that prints the digits.
LEMMA LineGoesOn ==
  ASSUME NEW l, NEW u, NEW bytes, NEW j \in Nat, Begun(l, u, bytes, j),
         bytes[j + 1] \in 0 .. 255
  PROVE  Begun(l \o Pair(bytes[j + 1]) \o << 32 >>, u, bytes, j + 1)
<1> DEFINE p == Pair(bytes[j + 1])
           m == l \o p
           s == << 32 >>
           n == m \o s
<1>1. l \in Seq(Cell) /\ Len(l) = 3 * j + 10 /\ Prefix(l, u, bytes, j)
  BY DEF Begun
<1>2. p \in Seq(Cell) /\ Len(p) = 2
  BY PairIs
<1>3. s \in Seq(Cell) /\ Len(s) = 1 /\ s[1] = 32
  BY DEF Cell
<1> HIDE DEF p, s
<1>4. /\ m \in Seq(Cell) /\ Len(m) = Len(l) + Len(p)
      /\ \A k \in 1 .. Len(p) : m[Len(l) + k] = p[k]
      /\ Prefix(m, u, bytes, j)
  <2>1. Len(l) >= 3 * j + 10
    BY <1>1
  <2> QED BY <1>1, <1>2, <2>1, Concat, PrefixStays
<1>5. Len(m) = 3 * j + 12 /\ m[3 * j + 11] = p[1] /\ m[3 * j + 12] = p[2]
  <2>1. 1 \in 1 .. Len(p) /\ 2 \in 1 .. Len(p) /\ Len(l) + 1 = 3 * j + 11 /\ Len(l) + 2 = 3 * j + 12
    BY <1>1, <1>2
  <2> HIDE DEF m
  <2> QED BY <1>1, <1>2, <1>4, <2>1
<1> HIDE DEF m
<1>6. /\ n \in Seq(Cell) /\ Len(n) = Len(m) + Len(s)
      /\ \A k \in 1 .. Len(m) : n[k] = m[k]
      /\ \A k \in 1 .. Len(s) : n[Len(m) + k] = s[k]
      /\ Prefix(n, u, bytes, j)
  <2>1. Len(m) >= 3 * j + 10
    BY <1>5
  <2>2. Prefix(n, u, bytes, j)
    BY <1>3, <1>4, <2>1, PrefixStays
  <2>3. /\ n \in Seq(Cell) /\ Len(n) = Len(m) + Len(s)
        /\ \A k \in 1 .. Len(m) : n[k] = m[k]
        /\ \A k \in 1 .. Len(s) : n[Len(m) + k] = s[k]
    BY <1>3, <1>4, Concat, Zenon
  <2> QED BY <2>2, <2>3
<1> HIDE DEF n
<1>7. n[3 * j + 11] = p[1] /\ n[3 * j + 12] = p[2] /\ n[3 * j + 13] = 32 /\ Len(n) = 3 * j + 13
  <2>1. /\ 3 * j + 11 \in 1 .. Len(m) /\ 3 * j + 12 \in 1 .. Len(m)
        /\ 1 \in 1 .. Len(s) /\ Len(m) + 1 = 3 * j + 13
    BY <1>3, <1>5
  <2> QED BY <1>3, <1>5, <1>6, <2>1
<1>8. 3 * (j + 1) + 8 = 3 * j + 11 /\ 3 * (j + 1) + 9 = 3 * j + 12 /\ 3 * (j + 1) + 10 = 3 * j + 13
  OBVIOUS
<1>9. ASSUME NEW k \in 1 .. j + 1
      PROVE  /\ n[3 * k + 8] = Pair(bytes[k])[1]
             /\ n[3 * k + 9] = Pair(bytes[k])[2]
             /\ n[3 * k + 10] = 32
  <2>1. CASE k = j + 1
    BY <1>7, <1>8, <2>1 DEF p
  <2>2. CASE k # j + 1
    <3>1. k \in 1 .. j
      BY <2>2
    <3> QED BY <1>6, <3>1 DEF Prefix
  <2> QED BY <2>1, <2>2
<1>10. Prefix(n, u, bytes, j + 1)
  BY <1>6, <1>9 DEF Prefix
<1>11. Begun(n, u, bytes, j + 1)
  BY <1>6, <1>7, <1>8, <1>10 DEF Begun
<1> QED BY <1>11 DEF n, m, p, s

\* Strings are the same when their places are.
LEMMA SameLine ==
  ASSUME NEW x \in Seq(Cell), NEW y \in Seq(Cell), Len(x) = Len(y),
         \A k \in 1 .. Len(x) : x[k] = y[k]
  PROVE  x = y
OBVIOUS

\* Spaces are spaces.
LEMMA SpacesAre ==
  ASSUME NEW n \in Nat
  PROVE  Spaces(n) \in Seq(Cell) /\ Len(Spaces(n)) = n /\ \A k \in 1 .. n : Spaces(n)[k] = 32
<1>1. 32 \in Cell
  BY DEF Cell
<1>2. \A x \in Cell : [k \in 1 .. n |-> x] \in Seq(Cell)
  OBVIOUS
<1>3. Spaces(n) = [k \in 1 .. n |-> 32]
  BY DEF Spaces
<1> HIDE DEF Cell
<1> QED BY <1>1, <1>2, <1>3

\* A line that is filled up.
LEMMA LineFilled ==
  ASSUME NEW l, NEW u, NEW bytes, Len(bytes) \in Nat, Begun(l, u, bytes, Len(bytes)),
         NEW g \in Nat, NEW s \in Seq(Cell), Len(s) = 3 * g + 1,
         \A k \in 1 .. Len(s) : s[k] = 32
  PROVE  Padded(l \o s, u, bytes, g)
<1>1. PICK n \in Nat : n = Len(bytes)
  OBVIOUS
<1>2. l \in Seq(Cell) /\ Len(l) = 3 * n + 10 /\ Prefix(l, u, bytes, n)
  BY <1>1 DEF Begun
<1> DEFINE m == l \o s
<1>3. /\ m \in Seq(Cell) /\ Len(m) = Len(l) + Len(s)
      /\ \A k \in 1 .. Len(s) : m[Len(l) + k] = s[k]
      /\ Prefix(m, u, bytes, n)
  <2>1. Len(l) >= 3 * n + 10
    BY <1>2
  <2>2. Prefix(m, u, bytes, n)
    BY <1>2, <2>1, PrefixStays
  <2>3. /\ m \in Seq(Cell) /\ Len(m) = Len(l) + Len(s)
        /\ \A k \in 1 .. Len(s) : m[Len(l) + k] = s[k]
    BY <1>2, Concat, Zenon
  <2> QED BY <2>2, <2>3
<1> HIDE DEF m
<1>4. Len(m) = 3 * n + 3 * g + 11
  BY <1>2, <1>3
<1>5. ASSUME NEW k \in 3 * n + 11 .. Len(m)
      PROVE  m[k] = 32
  <2>1. k - Len(l) \in 1 .. Len(s) /\ Len(l) + (k - Len(l)) = k
    BY <1>2, <1>4
  <2> QED BY <1>3, <2>1
<1> QED BY <1>1, <1>3, <1>4, <1>5 DEF Padded, m

\* printsupplement of the assembly program.
LEMMA AsmFilled ==
  ASSUME NEW l, NEW u, NEW bytes, Len(bytes) \in Nat, Begun(l, u, bytes, Len(bytes)),
         NEW g \in Nat
  PROVE  Padded(l \o Spaces(3 * g + 1), u, bytes, g)
<1>1. 3 * g + 1 \in Nat
  OBVIOUS
<1>2. PICK s \in Seq(Cell) : s = Spaces(3 * g + 1) /\ Len(s) = 3 * g + 1
                             /\ \A k \in 1 .. Len(s) : s[k] = 32
  BY <1>1, SpacesAre
<1>3. Padded(l \o s, u, bytes, g)
  BY <1>2, LineFilled
<1> QED BY <1>2, <1>3

\* That of the C program, with the space of printdata.
LEMMA CFilled ==
  ASSUME NEW l, NEW u, NEW bytes, Len(bytes) \in Nat, Begun(l, u, bytes, Len(bytes)),
         NEW g \in Nat
  PROVE  /\ l \o Spaces(3 * g) \in Seq(Cell)
         /\ Padded((l \o Spaces(3 * g)) \o << 32 >>, u, bytes, g)
<1>1. 3 * g \in Nat
  OBVIOUS
<1>2. PICK s \in Seq(Cell) : s = Spaces(3 * g) /\ Len(s) = 3 * g
                             /\ \A k \in 1 .. Len(s) : s[k] = 32
  BY <1>1, SpacesAre
<1>3. PICK x \in Seq(Cell) : x = << 32 >> /\ Len(x) = 1 /\ x[1] = 32
  BY OneSpace
<1> DEFINE t == s \o x
<1>4. /\ t \in Seq(Cell) /\ Len(t) = 3 * g + 1
      /\ \A k \in 1 .. Len(s) : t[k] = s[k]
      /\ \A k \in 1 .. Len(x) : t[Len(s) + k] = x[k]
  <2>1. /\ t \in Seq(Cell) /\ Len(t) = Len(s) + Len(x)
        /\ \A k \in 1 .. Len(s) : t[k] = s[k]
        /\ \A k \in 1 .. Len(x) : t[Len(s) + k] = x[k]
    BY Concat
  <2> HIDE DEF t
  <2> QED BY <1>2, <1>3, <2>1
<1> HIDE DEF t
<1>5. ASSUME NEW k \in 1 .. Len(t)
      PROVE  t[k] = 32
  <2>1. CASE k <= 3 * g
    <3>1. k \in 1 .. Len(s)
      BY <1>2, <1>4, <2>1
    <3> QED BY <1>2, <1>4, <3>1
  <2>2. CASE k = 3 * g + 1
    <3>1. 1 \in 1 .. Len(x) /\ Len(s) + 1 = k
      BY <1>2, <1>3, <2>2
    <3> QED BY <1>3, <1>4, <3>1
  <2>3. k <= 3 * g \/ k = 3 * g + 1
    BY <1>4
  <2> QED BY <2>1, <2>2, <2>3
<1>6. Padded(l \o t, u, bytes, g)
  BY <1>4, <1>5, LineFilled
<1>7. l \in Seq(Cell)
  BY DEF Begun
<1>8. (l \o s) \o x = l \o t
  <2>1. \A a, b, c \in Seq(Cell) : (a \o b) \o c = a \o (b \o c)
    BY SMTT(60)
  <2> QED BY <1>7, <2>1 DEF t
<1>9. l \o s \in Seq(Cell)
  BY <1>7, Concat
<1> QED BY <1>2, <1>3, <1>6, <1>8, <1>9

\* The columns of a line, with the offset before them and the space after them.
Columns(u, bytes) == Offset(u) \o <<58, 32>> \o [k \in 1 .. 48 |-> Column(bytes, k)] \o << 32 >>

\* What a place of the columns holds.
LEMMA ColumnIs ==
  ASSUME NEW bytes, Len(bytes) \in 0 .. 16, \A k \in 1 .. Len(bytes) : bytes[k] \in 0 .. 255
  PROVE  /\ \A j \in 1 .. Len(bytes) :
              /\ Column(bytes, 3 * j - 2) = Pair(bytes[j])[1]
              /\ Column(bytes, 3 * j - 1) = Pair(bytes[j])[2]
              /\ Column(bytes, 3 * j) = 32
         /\ \A k \in 3 * Len(bytes) + 1 .. 48 : Column(bytes, k) = 32
         /\ \A k \in 1 .. 48 : Column(bytes, k) \in Cell
<1>1. PICK n \in 0 .. 16 : n = Len(bytes)
  OBVIOUS
<1>2. ASSUME NEW j \in 1 .. n
      PROVE  /\ Column(bytes, 3 * j - 2) = Pair(bytes[j])[1]
             /\ Column(bytes, 3 * j - 1) = Pair(bytes[j])[2]
             /\ Column(bytes, 3 * j) = 32
  <2>1. /\ ((3 * j - 2 - 1) \div 3) + 1 = j /\ (3 * j - 2 - 1) % 3 = 0
        /\ ((3 * j - 1 - 1) \div 3) + 1 = j /\ (3 * j - 1 - 1) % 3 = 1
        /\ (3 * j - 1) % 3 = 2
    OBVIOUS
  <2>2. ~ (j > n)
    OBVIOUS
  <2> QED BY <1>1, <2>1, <2>2 DEF Column
<1>3. ASSUME NEW k \in 3 * n + 1 .. 48
      PROVE  Column(bytes, k) = 32
  <2>1. ((k - 1) \div 3) + 1 > n
    OBVIOUS
  <2> QED BY <1>1, <2>1 DEF Column
<1>4. ASSUME NEW k \in 1 .. 48
      PROVE  Column(bytes, k) \in Cell
  <2>1. CASE k > 3 * n
    <3>1. k \in 3 * n + 1 .. 48
      BY <2>1
    <3> QED BY <1>3, <3>1 DEF Cell
  <2>2. CASE k <= 3 * n
    <3>1. PICK j \in 1 .. n : k = 3 * j - 2 \/ k = 3 * j - 1 \/ k = 3 * j
      <4>1. ((k - 1) \div 3) + 1 \in 1 .. n
        BY <2>2
      <4>2. \/ k = 3 * (((k - 1) \div 3) + 1) - 2 \/ k = 3 * (((k - 1) \div 3) + 1) - 1
            \/ k = 3 * (((k - 1) \div 3) + 1)
        OBVIOUS
      <4> QED BY <4>1, <4>2
    <3>2. Pair(bytes[j]) \in Seq(Cell) /\ Len(Pair(bytes[j])) = 2
      BY <1>1, PairIs
    <3>3. Pair(bytes[j])[1] \in Cell /\ Pair(bytes[j])[2] \in Cell /\ 32 \in Cell
      <4>1. 32 \in Cell
        BY DEF Cell
      <4> HIDE DEF Cell
      <4> QED BY <3>2, <4>1
    <3> QED BY <1>2, <3>1, <3>3
  <2> QED BY <2>1, <2>2
<1> QED BY <1>1, <1>2, <1>3, <1>4

\* z is an offset o and columns c.
InColumns(z, o, c) == /\ Len(z) = 59
                      /\ \A k \in 1 .. 8 : z[k] = o[k]
                      /\ z[9] = 58 /\ z[10] = 32 /\ z[59] = 32
                      /\ \A k \in 1 .. 48 : z[10 + k] = c[k]

\* What the strings of a line in a row are.
LEMMA ColumnsInARow ==
  ASSUME NEW z, NEW o, NEW s, NEW c, NEW e, InARow(z, o, s, c, e, 8, 2, 48, 1),
         s[1] = 58, s[2] = 32, e[1] = 32
  PROVE  InColumns(z, o, c)
<1>1. Len(z) = 8 + 2 + 48 + 1 /\ \A k \in 1 .. 8 : z[k] = o[k]
  BY DEF InARow
<1>2. z[8 + 1] = s[1] /\ z[8 + 2] = s[2]
  BY DEF InARow
<1>3. z[8 + 2 + 48 + 1] = e[1]
  BY DEF InARow
<1>4. \A k \in 1 .. 48 : z[8 + 2 + k] = c[k]
  BY DEF InARow
<1>5. z[9] = 58 /\ z[10] = 32 /\ z[59] = 32
  BY <1>2, <1>3
<1>6. \A k \in 1 .. 48 : z[10 + k] = c[k]
  BY <1>4
<1> QED BY <1>1, <1>5, <1>6 DEF InColumns
\* What a read may leave in memory.
Bytes == {b \in Seq(0 .. 255) : Len(b) <= 16}

\* There are at most sixteen bytes, and they are bytes.
LEMMA BytesAre ==
  ASSUME NEW bytes \in Bytes
  PROVE  /\ bytes \in Seq(0 .. 255) /\ Len(bytes) \in 0 .. 16
         /\ \A k \in 1 .. Len(bytes) : bytes[k] \in 0 .. 255
<1>1. bytes \in Seq(0 .. 255) /\ Len(bytes) <= 16
  BY DEF Bytes
<1>2. \A s \in Seq(0 .. 255) : Len(s) \in Nat
  OBVIOUS
<1>3. \A S : \A s \in Seq(S) : \A k \in 1 .. Len(s) : s[k] \in S
  OBVIOUS
<1>4. Len(bytes) \in 0 .. 16
  <2>1. Len(bytes) \in Nat
    BY <1>1, <1>2, Zenon
  <2>2. \A n \in Nat : n <= 16 => n \in 0 .. 16
    OBVIOUS
  <2> QED BY <1>1, <2>1, <2>2, Zenon
<1> QED BY <1>1, <1>3, <1>4, Zenon

\* A line that is filled up as it should be has these columns, and only such a line.
LEMMA FilledIs ==
  ASSUME NEW t, NEW u, NEW bytes \in Bytes, NEW g \in Nat, Padded(t, u, bytes, g),
         Offset(u) \in Seq(Cell), Len(Offset(u)) = 8
  PROVE  /\ Columns(u, bytes) \in Seq(Cell) /\ Len(Columns(u, bytes)) = 59
         /\ Len(t) = 59 <=> g = 16 - Len(bytes)
         /\ g = 16 - Len(bytes) => t = Columns(u, bytes)
<1>0. Len(bytes) \in 0 .. 16 /\ \A k \in 1 .. Len(bytes) : bytes[k] \in 0 .. 255
  BY BytesAre
<1>1. PICK n \in 0 .. 16 : n = Len(bytes)
  BY <1>0
<1>2. /\ t \in Seq(Cell) /\ Len(t) = 3 * n + 3 * g + 11 /\ Prefix(t, u, bytes, n)
      /\ \A k \in 3 * n + 11 .. Len(t) : t[k] = 32
  BY <1>1 DEF Padded
<1> DEFINE c == [k \in 1 .. 48 |-> Column(bytes, k)]
<1>3. c \in Seq(Cell) /\ Len(c) = 48 /\ \A k \in 1 .. 48 : c[k] = Column(bytes, k)
  <2>1. \A k \in 1 .. 48 : Column(bytes, k) \in Cell
    BY <1>0, ColumnIs
  <2> HIDE DEF Cell
  <2> QED BY <2>1
<1> HIDE DEF c
<1> DEFINE y == Columns(u, bytes)
<1>4. /\ <<58, 32>> \in Seq(Cell) /\ Len(<<58, 32>>) = 2
      /\ <<58, 32>>[1] = 58 /\ <<58, 32>>[2] = 32
      /\ << 32 >> \in Seq(Cell) /\ Len(<< 32 >>) = 1 /\ << 32 >>[1] = 32
  BY OneSpace, ColonSpace
<1>5. y = ((Offset(u) \o <<58, 32>>) \o c) \o << 32 >>
  BY DEF Columns, c
<1> HIDE DEF y
<1>6. /\ y \in Seq(Cell) /\ Len(y) = 59
      /\ \A k \in 1 .. 8 : y[k] = Offset(u)[k]
      /\ y[9] = 58 /\ y[10] = 32 /\ y[59] = 32
      /\ \A k \in 1 .. 48 : y[10 + k] = c[k]
  <2>1. y \in Seq(Cell)
        /\ InARow(y, Offset(u), <<58, 32>>, c, << 32 >>,
                  Len(Offset(u)), Len(<<58, 32>>), Len(c), Len(<< 32 >>))
    BY <1>3, <1>4, <1>5, FourStrings, Zenon
  <2>2. InARow(y, Offset(u), <<58, 32>>, c, << 32 >>, 8, 2, 48, 1)
    BY <2>1, <1>3, <1>4, Zenon
  <2>3. <<58, 32>>[1] = 58 /\ <<58, 32>>[2] = 32 /\ << 32 >>[1] = 32
    BY <1>4, Zenon
  <2>4. InColumns(y, Offset(u), c)
    BY <2>2, <2>3, ColumnsInARow, ZenonT(60)
  <2> QED BY <2>1, <2>4, Zenon DEF InColumns
<1>7. Len(t) = 59 <=> g = 16 - n
  BY <1>2
<1>8. ASSUME g = 16 - n
      PROVE  t = y
  <2>1. Len(t) = 59
    BY <1>7, <1>8
  <2>2. ASSUME NEW k \in 1 .. 59
        PROVE  t[k] = y[k]
    <3>1. CASE k \in 1 .. 8
      BY <1>2, <1>6, <3>1 DEF Prefix
    <3>2. CASE k = 9 \/ k = 10
      BY <1>2, <1>6, <3>2 DEF Prefix
    <3>3. CASE k = 59
      <4>1. 59 \in 3 * n + 11 .. Len(t)
        BY <2>1
      <4> QED BY <1>2, <1>6, <3>3, <4>1
    <3>4. CASE k \in 11 .. 58 /\ k <= 3 * n + 10
      <4>1. PICK j \in 1 .. n : k = 3 * j + 8 \/ k = 3 * j + 9 \/ k = 3 * j + 10
        <5>1. ((k - 11) \div 3) + 1 \in 1 .. n
          BY <3>4
        <5>2. \/ k = 3 * (((k - 11) \div 3) + 1) + 8 \/ k = 3 * (((k - 11) \div 3) + 1) + 9
              \/ k = 3 * (((k - 11) \div 3) + 1) + 10
          BY <3>4
        <5> QED BY <5>1, <5>2
      <4>2. y[k] = Column(bytes, k - 10)
        <5>1. k - 10 \in 1 .. 48 /\ 10 + (k - 10) = k
          BY <3>4
        <5>2. y[10 + (k - 10)] = c[k - 10]
          BY <1>6, <5>1
        <5>3. c[k - 10] = Column(bytes, k - 10)
          BY <1>3, <5>1
        <5> QED BY <5>1, <5>2, <5>3, Zenon
      <4>3. /\ Column(bytes, 3 * j - 2) = Pair(bytes[j])[1]
            /\ Column(bytes, 3 * j - 1) = Pair(bytes[j])[2]
            /\ Column(bytes, 3 * j) = 32
        BY <1>0, <1>1, ColumnIs
      <4>4. /\ t[3 * j + 8] = Pair(bytes[j])[1] /\ t[3 * j + 9] = Pair(bytes[j])[2]
            /\ t[3 * j + 10] = 32
        BY <1>2 DEF Prefix
      <4>5. /\ (3 * j + 8) - 10 = 3 * j - 2 /\ (3 * j + 9) - 10 = 3 * j - 1
            /\ (3 * j + 10) - 10 = 3 * j
        OBVIOUS
      <4>6. CASE k = 3 * j + 8
        BY <4>2, <4>3, <4>4, <4>5, <4>6
      <4>7. CASE k = 3 * j + 9
        BY <4>2, <4>3, <4>4, <4>5, <4>7
      <4>8. CASE k = 3 * j + 10
        BY <4>2, <4>3, <4>4, <4>5, <4>8
      <4> QED BY <4>1, <4>6, <4>7, <4>8, Zenon
    <3>5. CASE k \in 11 .. 58 /\ k > 3 * n + 10
      <4>1. t[k] = 32
        <5>1. k \in 3 * n + 11 .. Len(t)
          BY <2>1, <3>5
        <5> QED BY <1>2, <5>1
      <4>2. k - 10 \in 3 * n + 1 .. 48 /\ k - 10 \in 1 .. 48 /\ 10 + (k - 10) = k
        BY <3>5
      <4>3. Column(bytes, k - 10) = 32
        BY <1>0, <1>1, <4>2, ColumnIs
      <4>4. y[10 + (k - 10)] = c[k - 10] /\ c[k - 10] = Column(bytes, k - 10)
        BY <1>3, <1>6, <4>2
      <4> QED BY <4>1, <4>2, <4>3, <4>4
    <3>6. \/ k \in 1 .. 8 \/ k = 9 \/ k = 10 \/ k = 59
          \/ k \in 11 .. 58 /\ k <= 3 * n + 10
          \/ k \in 11 .. 58 /\ k > 3 * n + 10
      OBVIOUS
    <3> QED BY <3>1, <3>2, <3>3, <3>4, <3>5, <3>6, Zenon
  <2>3. Len(t) = Len(y) /\ \A k \in 1 .. Len(t) : t[k] = y[k]
    BY <1>6, <2>1, <2>2
  <2> QED BY <1>2, <1>6, <2>3, SameLine
<1> QED BY <1>1, <1>6, <1>7, <1>8 DEF y

-----------------------------------------------------------------------------
(***************************************************************************)
(* The printable form.                                                     *)
(***************************************************************************)
Text(bytes) == [k \in 1 .. Len(bytes) |-> IF bytes[k] \in 32 .. 126 THEN bytes[k] ELSE 46]

\* A string without a NUL, of as many places as there are bytes.
LEMMA TextIs ==
  ASSUME NEW bytes \in Bytes
  PROVE  /\ Text(bytes) \in Seq(Cell) /\ Len(Text(bytes)) = Len(bytes)
         /\ \A k \in 1 .. Len(bytes) : /\ Text(bytes)[k] = hex_to_printable(bytes[k])
                                       /\ Text(bytes)[k] # 0
<1>1. PICK n \in Nat : n = Len(bytes)
  BY DEF Bytes
<1>2. ASSUME NEW k \in 1 .. n
      PROVE  /\ (IF bytes[k] \in 32 .. 126 THEN bytes[k] ELSE 46) \in 1 .. 255
             /\ (IF bytes[k] \in 32 .. 126 THEN bytes[k] ELSE 46) = hex_to_printable(bytes[k])
  <2>1. bytes[k] \in 0 .. 255
    BY <1>1 DEF Bytes
  <2> QED BY <2>1 DEF hex_to_printable
<1> DEFINE t(k) == IF bytes[k] \in 32 .. 126 THEN bytes[k] ELSE 46
<1>3. Text(bytes) = [k \in 1 .. n |-> t(k)]
  BY <1>1 DEF Text
<1>4. \A k \in 1 .. n : t(k) \in Cell /\ t(k) # 0 /\ t(k) = hex_to_printable(bytes[k])
  <2>1. 1 .. 255 \subseteq Cell /\ 0 \notin 1 .. 255
    BY DEF Cell
  <2>2. ASSUME NEW k \in 1 .. n
        PROVE  t(k) \in Cell /\ t(k) # 0 /\ t(k) = hex_to_printable(bytes[k])
    <3>1. t(k) \in 1 .. 255 /\ t(k) = hex_to_printable(bytes[k])
      BY <1>2
    <3> HIDE DEF t, Cell
    <3> QED BY <2>1, <3>1
  <2> QED BY <2>2
<1> HIDE DEF t, Cell
<1>5. Text(bytes) \in Seq(Cell) /\ Len(Text(bytes)) = n
  BY <1>3, <1>4
<1>6. \A k \in 1 .. n : Text(bytes)[k] = t(k)
  BY <1>3
<1> QED BY <1>1, <1>4, <1>5, <1>6

\* What both programs convert.
LEMMA ConvertedIs ==
  ASSUME NEW bytes \in Bytes, \A k \in 1 .. Len(bytes) : mem[data + k - 1] = bytes[k]
  PROVE  Converted(data, Len(bytes)) = Text(bytes)
<1>1. \A k \in 1 .. Len(bytes) : Text(bytes)[k] = hex_to_printable(mem[data + k - 1])
  BY TextIs
<1>2. Text(bytes) = [k \in 1 .. Len(bytes) |-> Text(bytes)[k]]
  BY DEF Text
<1> QED BY <1>1, <1>2 DEF Converted

\* The columns and the printable form of a line, when they have been filled up as if there
\* were g bytes more: it is the right line exactly when there are 16 with them.
LEMMA LineIs ==
  ASSUME NEW t, NEW u, NEW bytes \in Bytes, NEW g \in Nat, Padded(t, u, bytes, g),
         Offset(u) \in Seq(Cell), Len(Offset(u)) = 8
  PROVE  t \o Text(bytes) \o << 10 >> = DumpLine(u, bytes) <=> g = 16 - Len(bytes)
<1> DEFINE c == Columns(u, bytes)
           x == Text(bytes)
           e == << 10 >>
<1>1. Len(bytes) \in Nat
  <2>1. PICK n \in 0 .. 16 : n = Len(bytes)
    BY BytesAre
  <2> QED BY <2>1
<1>2. /\ c \in Seq(Cell) /\ Len(c) = 59
      /\ Len(t) = 59 <=> g = 16 - Len(bytes)
      /\ g = 16 - Len(bytes) => t = c
  BY FilledIs, ZenonT(60)
<1>3. x \in Seq(Cell) /\ Len(x) = Len(bytes)
  BY TextIs
<1>4. e \in Seq(Cell) /\ Len(e) = 1
  <2>1. 10 \in Cell
    BY DEF Cell
  <2> HIDE DEF Cell
  <2> QED BY <2>1
<1>5. t \in Seq(Cell)
  BY DEF Padded
<1>6. DumpLine(u, bytes) = c \o x \o e
  BY DEF DumpLine, Columns, Text
<1> HIDE DEF c, x, e
<1>7. \A y \in Seq(Cell) : Len((y \o x) \o e) = Len(y) + Len(x) + Len(e)
  <2> TAKE y \in Seq(Cell)
  <2>1. y \o x \in Seq(Cell) /\ Len(y \o x) = Len(y) + Len(x)
    BY <1>3, Concat
  <2>2. Len((y \o x) \o e) = Len(y \o x) + Len(e)
    BY <1>4, <2>1, Concat
  <2> QED BY <2>1, <2>2
<1>8. CASE g = 16 - Len(bytes)
  BY <1>2, <1>6, <1>8 DEF x, e
<1>9. CASE g # 16 - Len(bytes)
  <2>1. Len(t) # Len(c)
    BY <1>2, <1>9
  <2>2. /\ Len((t \o x) \o e) = Len(t) + Len(x) + Len(e)
        /\ Len((c \o x) \o e) = Len(c) + Len(x) + Len(e)
    BY <1>2, <1>5, <1>7
  <2>3. Len(t) \in Nat /\ Len(c) \in Nat /\ Len(x) \in Nat /\ Len(e) \in Nat
    BY <1>2, <1>3, <1>4, <1>5
  <2>4. \A p, q, r, s \in Nat : p # q => p + r + s # q + r + s
    OBVIOUS
  <2>5. Len((t \o x) \o e) # Len((c \o x) \o e)
    BY <2>1, <2>2, <2>3, <2>4
  <2>6. (t \o x) \o e # (c \o x) \o e
    BY <2>5, Zenon
  <2> QED BY <1>6, <1>9, <2>6, Zenon DEF x, e
<1> QED BY <1>8, <1>9

\* The cells from a hold s.
Holds(m, a, s) == \A k \in 1 .. Len(s) : m[a + k - 1] = s[k]

\* hex_read, with what it writes behind the bytes.
LEMMA ReadAt ==
  ASSUME NEW m \in Memory, NEW bytes \in Bytes, NEW end \in {<< 0 >>, Quad(0)}
  PROVE  LET new == store(m, data, bytes \o end)
         IN new \in Memory /\ Holds(new, data, bytes) /\ new[Len(bytes)] = 0
<1>1. end \in Seq(Cell) /\ Len(end) \in 1 .. 8 /\ end[1] = 0
  <2>1. 0 \in Cell
    BY DEF Cell
  <2>2. CASE end = << 0 >>
    <3> HIDE DEF Cell
    <3> QED BY <2>1, <2>2
  <2>3. CASE end = Quad(0)
    <3>1. Quad(0) \in Seq(Cell) /\ Len(Quad(0)) = 8 /\ Quad(0)[1] = 0
      BY <2>1, QuadIs
    <3>2. 8 \in 1 .. 8
      OBVIOUS
    <3> QED BY <2>3, <3>1, <3>2, Zenon
  <2> QED BY <2>2, <2>3
<1>2. PICK n \in 0 .. 16 : n = Len(bytes)
  BY BytesAre
<1>3. bytes \in Seq(Cell)
  <2>1. bytes \in Seq(0 .. 255) /\ 0 .. 255 \subseteq Cell
    BY BytesAre DEF Cell
  <2>2. \A S, T : S \subseteq T => Seq(S) \subseteq Seq(T)
    OBVIOUS
  <2> QED BY <2>1, <2>2, Zenon
<1> DEFINE s == bytes \o end
           new == store(m, 0, s)
<1>4. /\ s \in Seq(Cell) /\ Len(s) = Len(bytes) + Len(end)
      /\ \A k \in 1 .. Len(bytes) : s[k] = bytes[k]
      /\ \A k \in 1 .. Len(end) : s[Len(bytes) + k] = end[k]
  BY <1>1, <1>3, Concat
<1> HIDE DEF s
<1>5. PICK l \in 1 .. 8 : l = Len(end)
  BY <1>1
<1>6. Len(s) = n + l /\ s[n + 1] = 0 /\ \A k \in 1 .. n : s[k] = bytes[k]
  <2>1. 1 \in 1 .. Len(end)
    BY <1>5
  <2> QED BY <1>1, <1>2, <1>4, <1>5, <2>1
<1>7. /\ new \in Memory
      /\ \A k \in Addresses : 0 <= k /\ k < 0 + Len(s) => new[k] = s[k - 0 + 1]
  <2>1. 0 \in Nat
    OBVIOUS
  <2> QED BY <1>4, <2>1, StoreIs
<1> HIDE DEF new
<1>8. ASSUME NEW k \in 1 .. n + 1
      PROVE  new[0 + k - 1] = s[k]
  <2>1. 0 + k - 1 \in Addresses /\ 0 <= 0 + k - 1 /\ 0 + k - 1 < 0 + Len(s) /\ (0 + k - 1) - 0 + 1 = k
    BY <1>6 DEF Addresses
  <2> QED BY <1>7, <2>1
<1>9. \A k \in 1 .. n : new[0 + k - 1] = bytes[k]
  BY <1>6, <1>8
<1>10. new[n] = 0
  <2>1. 0 + (n + 1) - 1 = n /\ n + 1 \in 1 .. n + 1
    OBVIOUS
  <2>2. new[0 + (n + 1) - 1] = s[n + 1]
    BY <1>8, <2>1
  <2> QED BY <1>6, <2>1, <2>2
<1> QED BY <1>2, <1>7, <1>9, <1>10 DEF Holds, data, new, s

\* The C program converts the bytes where they lie, and the NUL behind them ends the text.
LEMMA TextInPlace ==
  ASSUME NEW m \in Memory, NEW bytes \in Bytes, m[Len(bytes)] = 0
  PROVE  LET new == store(m, data, Text(bytes))
         IN new \in Memory /\ hex_write_string(new, data) = Text(bytes)
<1>1. PICK t \in Seq(Cell) : /\ t = Text(bytes) /\ Len(t) = Len(bytes)
                             /\ \A k \in 1 .. Len(t) : t[k] # 0
  BY TextIs
<1>2. PICK n \in 0 .. 16 : n = Len(bytes)
  BY BytesAre
<1> DEFINE new == store(m, 0, t)
<1>3. Len(t) = n
  BY <1>1, <1>2, Zenon
<1>4. \A k \in 1 .. n : /\ 0 + k - 1 \in Addresses /\ 0 <= 0 + k - 1 /\ 0 + k - 1 < 0 + n
                        /\ (0 + k - 1) - 0 + 1 = k
  BY DEF Addresses
<1>5. n \in Addresses /\ n >= 0 + n /\ 0 + n = n
  BY DEF Addresses
<1>6. 0 \in Nat
  OBVIOUS
<1>7. /\ new \in Memory
      /\ \A k \in Addresses : /\ 0 <= k /\ k < 0 + Len(t) => new[k] = t[k - 0 + 1]
                              /\ k < 0 \/ k >= 0 + Len(t) => new[k] = m[k]
  BY <1>6, StoreIs
<1> HIDE DEF new
<1>8. ASSUME NEW k \in 1 .. Len(t)
      PROVE  new[0 + k - 1] = t[k] /\ t[k] # 0
  <2>1. k \in 1 .. n
    BY <1>3, Zenon
  <2> QED BY <1>1, <1>7, <1>3, <1>4, <2>1
<1>9. 0 + Len(t) \in Addresses /\ new[0 + Len(t)] = 0
  <2>1. new[n] = m[n]
    BY <1>7, <1>3, <1>5
  <2> QED BY <1>2, <1>3, <1>5, <2>1, Zenon
<1>10. hex_write_string(new, 0) = t
  BY <1>6, <1>7, <1>8, <1>9, StringAt
<1> QED BY <1>1, <1>7, <1>10 DEF new, data

\* The assembly program writes the text into an array of its own, with a NUL.
LEMMA TextBehind ==
  ASSUME NEW m \in Memory, NEW bytes \in Bytes
  PROVE  LET new == store(m, printable, Text(bytes) \o << 0 >>)
         IN new \in Memory /\ hex_write_string(new, printable) = Text(bytes)
<1>1. PICK t \in Seq(Cell) : /\ t = Text(bytes) /\ Len(t) = Len(bytes)
                             /\ \A k \in 1 .. Len(t) : t[k] # 0
  BY TextIs
<1>2. PICK n \in 0 .. 16 : n = Len(bytes)
  BY BytesAre
<1>3. PICK z \in Seq(Cell) : z = << 0 >> /\ Len(z) = 1 /\ z[1] = 0
  <2>1. 0 \in Cell
    BY DEF Cell
  <2>2. \A S : \A x \in S : <<x>> \in Seq(S) /\ Len(<<x>>) = 1 /\ <<x>>[1] = x
    OBVIOUS
  <2>3. << 0 >> \in Seq(Cell) /\ Len(<< 0 >>) = 1 /\ << 0 >>[1] = 0
    BY <2>1, <2>2, Zenon
  <2> QED BY <2>3, Zenon
<1> DEFINE s == t \o z
           new == store(m, 29, s)
<1>4. /\ s \in Seq(Cell) /\ Len(s) = Len(t) + Len(z)
      /\ \A k \in 1 .. Len(t) : s[k] = t[k]
      /\ \A k \in 1 .. Len(z) : s[Len(t) + k] = z[k]
  BY Concat
<1> HIDE DEF s
<1>5. Len(s) = n + 1 /\ Len(t) = n /\ s[n + 1] = 0
  <2>1. 1 \in 1 .. Len(z)
    BY <1>3
  <2> QED BY <1>1, <1>2, <1>3, <1>4, <2>1
<1>6. 29 \in Nat
  OBVIOUS
<1>7. /\ new \in Memory
      /\ \A k \in Addresses : 29 <= k /\ k < 29 + Len(s) => new[k] = s[k - 29 + 1]
  <2>1. /\ new \in Memory
        /\ \A k \in Addresses :
             /\ 29 <= k /\ k < 29 + Len(s) => new[k] = s[k - 29 + 1]
             /\ k < 29 \/ k >= 29 + Len(s) => new[k] = m[k]
    BY <1>4, <1>6, StoreIs, Zenon
  <2> QED BY <2>1
<1> HIDE DEF new
<1>8. ASSUME NEW k \in 1 .. n + 1
      PROVE  new[29 + k - 1] = s[k]
  <2>1. /\ 29 + k - 1 \in Addresses /\ 29 <= 29 + k - 1 /\ 29 + k - 1 < 29 + Len(s)
        /\ (29 + k - 1) - 29 + 1 = k
    BY <1>5 DEF Addresses
  <2> QED BY <1>7, <2>1
<1>9. \A k \in 1 .. Len(t) : new[29 + k - 1] = t[k] /\ t[k] # 0
  BY <1>1, <1>4, <1>5, <1>8
<1>10. 29 + Len(t) \in Addresses /\ new[29 + Len(t)] = 0
  <2>1. 29 + (n + 1) - 1 = 29 + n /\ n + 1 \in 1 .. n + 1 /\ 29 + n \in Addresses
    BY DEF Addresses
  <2>2. new[29 + (n + 1) - 1] = s[n + 1]
    BY <1>8, <2>1
  <2> QED BY <1>5, <2>1, <2>2
<1>11. hex_write_string(new, 29) = t
  BY <1>6, <1>7, <1>9, <1>10, StringAt
<1> QED BY <1>1, <1>3, <1>7, <1>11 DEF new, s, printable

-----------------------------------------------------------------------------
(***************************************************************************)
(* The programs.                                                           *)
(***************************************************************************)
Typed == /\ program \in {"c", "asm"} /\ input \in Seq(0 .. 255) /\ mem \in Memory
         /\ index \in Nat /\ i \in Nat /\ line \in Seq(Cell)
         /\ block \in Bytes /\ readlength = Len(block)
         /\ pc \in {"read", "offset", "loop", "text", "end"}
         /\ pc \in {"offset", "loop", "text"} => Len(block) # 0

\* What has been read is in memory, with a NUL behind it in the C program.
Kept == pc \in {"offset", "loop"} =>
          /\ Holds(mem, data, block)
          /\ program = "c" => mem[Len(block)] = 0

\* The line so far.
Digits == pc = "loop" => i <= Len(block) /\ Begun(line, unsigned(index), block, i)

AsmText == pc = "text" /\ program = "asm" =>
             /\ Holds(mem, data, block)
             /\ Padded(line, unsigned(index), block, 16 - Len(block))

CText == pc = "text" /\ program = "c" =>
           /\ hex_write_string(mem, data) = Text(block)
           /\ index - Len(block) \in Nat
           /\ Padded(line \o << 32 >>, unsigned(index - Len(block)), block, supplement(index))

Inv == Typed /\ Kept /\ Digits /\ AsmText /\ CText /\ LinesRight

\* The count as an unsigned is a number, and has eight digits.
LEMMA UnsignedIs ==
  ASSUME NEW n \in Nat
  PROVE  /\ unsigned(n) \in Nat
         /\ Offset(unsigned(n)) \in Seq(Cell) /\ Len(Offset(unsigned(n))) = 8
<1>1. unsigned(n) \in Nat
  BY Counts
<1> QED BY <1>1, OffsetIs, Zenon

\* In the beginning there is no line.
LEMMA InitInv == Init => Inv
<1> SUFFICES ASSUME Init PROVE Inv
  OBVIOUS
<1>1. mem \in Memory
  <2>1. 0 \in Cell /\ 256 \in Cell
    BY DEF Cell
  <2> HIDE DEF Cell
  <2> QED BY <2>1 DEF Init, Memory, Junk
<1>2. line \in Seq(Cell) /\ block \in Bytes /\ Len(block) = 0
  BY DEF Init, Bytes
<1>3. input \in Seq(0 .. 255)
  BY HexdumpAssumption DEF Init
<1>4. Typed
  BY <1>1, <1>2, <1>3 DEF Init, Typed
<1> QED BY <1>4 DEF Init, Inv, Kept, Digits, AsmText, CText, LinesRight

\* A string in two.
LEMMA CutAt ==
  ASSUME NEW S, NEW s \in Seq(S), NEW n \in Nat, n <= Len(s)
  PROVE  /\ SubSeq(s, 1, n) \in Seq(S) /\ Len(SubSeq(s, 1, n)) = n
         /\ SubSeq(s, n + 1, Len(s)) \in Seq(S)
OBVIOUS

\* What a read may return.
LEMMA ReadIs ==
  ASSUME Typed, NEW n \in Available
  PROVE  /\ SubSeq(input, 1, n) \in Bytes /\ Len(SubSeq(input, 1, n)) = n /\ n \in 0 .. 16
         /\ SubSeq(input, n + 1, Len(input)) \in Seq(0 .. 255)
<1>1. input \in Seq(0 .. 255)
  BY DEF Typed
<1>2. n \in 0 .. 16 /\ n <= Len(input)
  <2>1. n \in ShortReads \cup {16, Len(input)} /\ n <= 16 /\ n <= Len(input)
    BY DEF Available
  <2>2. n \in Nat
    BY <1>1, <2>1, HexdumpAssumption
  <2> QED BY <2>1, <2>2
<1>3. n \in Nat /\ n <= 16
  BY <1>2
<1>4. /\ SubSeq(input, 1, n) \in Seq(0 .. 255) /\ Len(SubSeq(input, 1, n)) = n
      /\ SubSeq(input, n + 1, Len(input)) \in Seq(0 .. 255)
  BY <1>1, <1>2, <1>3, CutAt, Zenon
<1>5. SubSeq(input, 1, n) \in Bytes
  BY <1>3, <1>4, Zenon DEF Bytes
<1> QED BY <1>2, <1>4, <1>5

\* hex_read of both programs.
LEMMA ReadKeeps ==
  ASSUME Inv, NEW end \in {<< 0 >>, Quad(0)}, hex_read(end)
  PROVE  Inv'
<1>1. PICK n \in Available :
        /\ mem' = store(mem, data, SubSeq(input, 1, n) \o end)
        /\ readlength' = n
        /\ block' = SubSeq(input, 1, n)
        /\ input' = SubSeq(input, n + 1, Len(input))
        /\ pc' = IF n = 0 THEN "end" ELSE "offset"
  BY DEF hex_read
<1>2. /\ line' = << >> /\ program' = program /\ index' = index /\ i' = i
  BY DEF hex_read
<1>3. Typed
  BY DEF Inv
<1>4. block' \in Bytes /\ Len(block') = n /\ n \in 0 .. 16 /\ input' \in Seq(0 .. 255)
  BY <1>1, <1>3, ReadIs
<1>5. mem' \in Memory /\ Holds(mem', data, block') /\ mem'[Len(block')] = 0
  <2>1. mem \in Memory
    BY <1>3 DEF Typed
  <2>2. mem' = store(mem, data, block' \o end)
    BY <1>1
  <2> QED BY <1>4, <2>1, <2>2, ReadAt, Zenon
<1>6. << >> \in Seq(Cell)
  OBVIOUS
<1>7. Typed'
  BY <1>1, <1>2, <1>3, <1>4, <1>5, <1>6 DEF Typed
<1>8. Kept'
  BY <1>5 DEF Kept
<1>9. (Digits /\ AsmText /\ CText /\ LinesRight)'
  BY <1>1, <1>2 DEF Digits, AsmText, CText, LinesRight
<1> QED BY <1>7, <1>8, <1>9 DEF Inv

\* printoffset.
LEMMA OffsetKeeps ==
  ASSUME Inv, printoffset
  PROVE  Inv'
<1>1. /\ pc = "offset" /\ pc' = "loop" /\ i' = 0
      /\ mem' = store(mem, offset_hex, hex_format_offset(index))
      /\ line' = hex_write_string(mem', offset_hex) \o <<58, 32>>
      /\ program' = program /\ input' = input /\ readlength' = readlength
      /\ index' = index /\ block' = block
  BY DEF printoffset
<1>2. Typed /\ Kept
  BY DEF Inv
<1>3. mem \in Memory /\ index \in Nat /\ block \in Bytes
  BY <1>2 DEF Typed
<1>4. unsigned(index) \in Nat /\ Offset(unsigned(index)) \in Seq(Cell) /\ Len(Offset(unsigned(index))) = 8
  BY <1>3, UnsignedIs
<1>5. /\ mem' \in Memory /\ hex_write_string(mem', offset_hex) = Offset(unsigned(index))
      /\ \A k \in 0 .. 16 : mem'[k] = mem[k]
  BY <1>1, <1>3, <1>4, OffsetAt
<1>6. Begun(line', unsigned(index), block, 0)
  <2>1. Begun(Offset(unsigned(index)) \o <<58, 32>>, unsigned(index), block, 0)
    BY <1>4, LineBegins, Zenon
  <2> QED BY <1>1, <1>5, <2>1, Zenon
<1>7. Typed'
  <2>1. line' \in Seq(Cell)
    BY <1>6 DEF Begun
  <2> QED BY <1>1, <1>2, <1>5, <2>1 DEF Typed
<1>8. Kept'
  <2>1. PICK n \in 0 .. 16 : n = Len(block)
    BY <1>3, BytesAre
  <2>2. Holds(mem, data, block) /\ (program = "c" => mem[n] = 0)
    BY <1>1, <1>2, <2>1 DEF Kept
  <2>3. Holds(mem', data, block)
    <3>1. \A k \in 1 .. n : 0 + k - 1 \in 0 .. 16
      OBVIOUS
    <3> QED BY <1>5, <2>1, <2>2, <3>1 DEF Holds, data
  <2>4. mem'[n] = mem[n]
    BY <1>5
  <2> QED BY <1>1, <2>1, <2>2, <2>3, <2>4 DEF Kept
<1>9. Digits'
  <2>1. 0 <= Len(block)
    BY <1>3, BytesAre
  <2> QED BY <1>1, <1>6, <2>1 DEF Digits
<1>10. (AsmText /\ CText /\ LinesRight)'
  BY <1>1 DEF AsmText, CText, LinesRight
<1> QED BY <1>7, <1>8, <1>9, <1>10 DEF Inv

\* One round of printloop, whatever it is that stores the digits.
LEMMA DigitsKeep ==
  ASSUME Inv, NEW m, PrintByte(m),
         mem[data + i] \in 0 .. 255 => PairAt(mem, m, mem[data + i])
  PROVE  Inv'
<1>1. /\ pc = "loop" /\ pc' = "loop" /\ i < readlength /\ i' = i + 1 /\ mem' = m
      /\ line' = line \o hex_write_string(m, single_hex) \o << 32 >>
      /\ program' = program /\ input' = input /\ readlength' = readlength
      /\ index' = index /\ block' = block
  BY DEF PrintByte
<1>2. Typed /\ Kept /\ Digits
  BY DEF Inv
<1>3. mem \in Memory /\ index \in Nat /\ i \in Nat /\ block \in Bytes /\ readlength = Len(block)
  BY <1>2 DEF Typed
<1>4. PICK n \in 0 .. 16 : n = Len(block)
  BY <1>3, BytesAre
<1>5. PICK j \in Nat : j = i /\ j < n
  BY <1>1, <1>3, <1>4
<1>6. block[j + 1] \in 0 .. 255 /\ mem[data + i] = block[j + 1]
  <2>1. j + 1 \in 1 .. n /\ 0 + (j + 1) - 1 = 0 + j
    BY <1>5
  <2>2. Holds(mem, data, block)
    BY <1>1, <1>2 DEF Kept
  <2>3. mem[0 + (j + 1) - 1] = block[j + 1]
    BY <1>4, <2>1, <2>2 DEF Holds, data
  <2>4. block[j + 1] \in 0 .. 255
    BY <1>3, <1>4, <2>1, BytesAre
  <2> QED BY <1>5, <2>1, <2>3, <2>4 DEF data
<1>7. PairAt(mem, m, block[j + 1])
  BY <1>6
<1>8. /\ m \in Memory /\ hex_write_string(m, single_hex) = Pair(block[j + 1])
      /\ \A k \in 0 .. 16 : m[k] = mem[k]
  BY <1>7 DEF PairAt
<1>9. Begun(line', unsigned(index), block, j + 1)
  <2>1. Begun(line, unsigned(index), block, j)
    BY <1>1, <1>2, <1>5 DEF Digits
  <2>2. Begun(line \o Pair(block[j + 1]) \o << 32 >>, unsigned(index), block, j + 1)
    BY <1>6, <2>1, LineGoesOn, Zenon
  <2> QED BY <1>1, <1>8, <2>2, Zenon
<1>10. Typed'
  <2>1. line' \in Seq(Cell)
    BY <1>9 DEF Begun
  <2>2. i' \in Nat
    BY <1>1, <1>3
  <2> QED BY <1>1, <1>2, <1>8, <2>1, <2>2 DEF Typed
<1>11. Kept'
  <2>1. Holds(mem, data, block) /\ (program = "c" => mem[n] = 0)
    BY <1>1, <1>2, <1>4 DEF Kept
  <2>2. Holds(mem', data, block)
    <3>1. \A k \in 1 .. n : 0 + k - 1 \in 0 .. 16
      OBVIOUS
    <3> QED BY <1>1, <1>4, <1>8, <2>1, <3>1 DEF Holds, data
  <2>3. mem'[n] = mem[n]
    BY <1>1, <1>8
  <2> QED BY <1>1, <1>4, <2>1, <2>2, <2>3 DEF Kept
<1>12. Digits'
  <2>1. i' = j + 1 /\ j + 1 <= n
    BY <1>1, <1>5
  <2> QED BY <1>1, <1>4, <1>9, <2>1 DEF Digits
<1>13. (AsmText /\ CText /\ LinesRight)'
  BY <1>1 DEF AsmText, CText, LinesRight
<1> QED BY <1>10, <1>11, <1>12, <1>13 DEF Inv

\* printloop of the C program.
LEMMA CLoopKeeps ==
  ASSUME Inv, C_printloop
  PROVE  Inv'
<1>1. PrintByte(C_hex_format_byte_as_hex(mem, mem[data + i]))
  BY DEF C_printloop
<1>2. mem \in Memory
  BY DEF Inv, Typed
<1>3. mem[data + i] \in 0 .. 255
      => PairAt(mem, C_hex_format_byte_as_hex(mem, mem[data + i]), mem[data + i])
  BY <1>2, CPair
<1> QED BY <1>1, <1>3, DigitsKeep

\* That of the assembly program.
LEMMA AsmLoopKeeps ==
  ASSUME Inv, Asm_print_input_chars
  PROVE  Inv'
<1>1. PrintByte(Asm_hex_format_byte_as_hex(mem, mem[data + i]))
  BY DEF Asm_print_input_chars
<1>2. mem \in Memory
  BY DEF Inv, Typed
<1>3. mem[data + i] \in 0 .. 255
      => PairAt(mem, Asm_hex_format_byte_as_hex(mem, mem[data + i]), mem[data + i])
  BY <1>2, AsmPair
<1> QED BY <1>1, <1>3, DigitsKeep

\* printsupplement of the C program, with the conversion before it.
LEMMA CSupplementKeeps ==
  ASSUME Inv, C_printsupplement
  PROVE  Inv'
<1>1. /\ program = "c" /\ pc = "loop" /\ i = readlength /\ pc' = "text"
      /\ mem' = store(mem, data, Converted(data, readlength))
      /\ index' = index + readlength
      /\ line' = line \o Spaces(3 * supplement(index'))
      /\ program' = program /\ input' = input /\ readlength' = readlength
      /\ i' = i /\ block' = block
  BY DEF C_printsupplement
<1>2. Typed /\ Kept /\ Digits
  BY DEF Inv
<1>3. mem \in Memory /\ index \in Nat /\ block \in Bytes /\ readlength = Len(block) /\ Len(block) # 0
  BY <1>1, <1>2 DEF Typed
<1>4. PICK n \in 1 .. 16 : n = Len(block)
  <2>1. PICK n \in 0 .. 16 : n = Len(block)
    BY <1>3, BytesAre
  <2>2. n # 0
    BY <1>3, <2>1
  <2>3. n \in 1 .. 16
    BY <2>2
  <2> QED BY <2>1, <2>3
<1>5. Holds(mem, data, block) /\ mem[Len(block)] = 0
  BY <1>1, <1>2 DEF Kept
<1>6. mem' = store(mem, data, Text(block))
  <2>1. Converted(data, Len(block)) = Text(block)
    BY <1>3, <1>5, ConvertedIs DEF Holds
  <2> QED BY <1>1, <1>3, <2>1
<1>7. mem' \in Memory /\ hex_write_string(mem', data) = Text(block)
  BY <1>3, <1>5, <1>6, TextInPlace
<1>8. PICK b \in Nat : b = index /\ index' = b + n
  BY <1>1, <1>3, <1>4
<1>9. index' \in Nat /\ index' - n = b
  BY <1>8
<1>10. supplement(index') \in Nat
  BY <1>8, FillIs
<1>11. /\ line' \in Seq(Cell)
       /\ Padded(line' \o << 32 >>, unsigned(b), block, supplement(index'))
  <2>1. Begun(line, unsigned(b), block, Len(block))
    BY <1>1, <1>2, <1>3, <1>8 DEF Digits
  <2>2. Len(block) \in Nat
    BY <1>4
  <2>3. PICK g \in Nat : g = supplement(index')
    BY <1>10
  <2>4. /\ line \o Spaces(3 * g) \in Seq(Cell)
        /\ Padded((line \o Spaces(3 * g)) \o << 32 >>, unsigned(b), block, g)
    BY <2>1, <2>2, CFilled, Zenon
  <2> QED BY <1>1, <2>3, <2>4, Zenon
<1>12. Typed'
  BY <1>1, <1>2, <1>7, <1>9, <1>11 DEF Typed
<1>13. CText'
  <2>1. index' - Len(block') \in Nat /\ index' - Len(block') = b
    BY <1>1, <1>4, <1>9
  <2>2. /\ hex_write_string(mem', data) = Text(block')
        /\ Padded(line' \o << 32 >>, unsigned(index' - Len(block')), block', supplement(index'))
    BY <1>1, <1>7, <1>11, <2>1, Zenon
  <2>3. hex_write_string(mem, data)' = hex_write_string(mem', data) /\ Text(block)' = Text(block')
    BY DEF hex_write_string, Text, data
  <2> QED BY <2>1, <2>2, <2>3 DEF CText
<1>14. (Kept /\ Digits /\ AsmText /\ LinesRight)'
  BY <1>1 DEF Kept, Digits, AsmText, LinesRight
<1> QED BY <1>12, <1>13, <1>14 DEF Inv

\* The spaces that the assembly program writes behind the digits.
LEMMA AsmSupplementKeeps ==
  ASSUME Inv, Asm_printsupplement
  PROVE  Inv'
<1>1. /\ program = "asm" /\ pc = "loop" /\ i = readlength /\ pc' = "text"
      /\ line' = line \o Spaces(3 * (16 - readlength) + 1)
      /\ program' = program /\ input' = input /\ readlength' = readlength
      /\ index' = index /\ mem' = mem /\ i' = i /\ block' = block
  BY DEF Asm_printsupplement
<1>2. Typed /\ Kept /\ Digits
  BY DEF Inv
<1>3. block \in Bytes /\ readlength = Len(block)
  BY <1>1, <1>2 DEF Typed
<1>4. PICK n \in 0 .. 16 : n = Len(block)
  BY <1>3, BytesAre
<1>5. Padded(line', unsigned(index), block, 16 - Len(block))
  <2>1. Begun(line, unsigned(index), block, Len(block))
    BY <1>1, <1>2, <1>3 DEF Digits
  <2>2. PICK g \in Nat : g = 16 - Len(block)
    <3>1. 16 - n \in Nat
      OBVIOUS
    <3> QED BY <1>4, <3>1, Zenon
  <2>3. Len(block) \in Nat
    BY <1>4
  <2>4. Padded(line \o Spaces(3 * g + 1), unsigned(index), block, g)
    BY <2>1, <2>2, <2>3, AsmFilled, Zenon
  <2> QED BY <1>1, <1>3, <2>2, <2>4, Zenon
<1>6. Typed'
  <2>1. line' \in Seq(Cell)
    BY <1>5 DEF Padded
  <2> QED BY <1>1, <1>2, <2>1 DEF Typed
<1>7. AsmText'
  BY <1>1, <1>2, <1>5 DEF AsmText, Kept
<1>8. (Kept /\ Digits /\ CText /\ LinesRight)'
  BY <1>1 DEF Kept, Digits, CText, LinesRight
<1> QED BY <1>6, <1>7, <1>8 DEF Inv

\* printdata: here the C program's line is right or wrong.
LEMMA CDataKeeps ==
  ASSUME Inv, C_printdata
  PROVE  Inv'
<1>1. /\ program = "c" /\ pc = "text" /\ pc' = "read"
      /\ line' = line \o << 32 >> \o hex_write_string(mem, data) \o << 10 >>
      /\ program' = program /\ input' = input /\ readlength' = readlength
      /\ index' = index /\ mem' = mem /\ i' = i /\ block' = block
  BY DEF C_printdata
<1>2. Typed /\ CText
  BY DEF Inv
<1>3. block \in Bytes /\ readlength = Len(block) /\ Len(block) # 0
  BY <1>1, <1>2 DEF Typed
<1>4. PICK n \in 1 .. 16 : n = Len(block)
  <2>1. PICK n \in 0 .. 16 : n = Len(block)
    BY <1>3, BytesAre
  <2>2. n # 0
    BY <1>3, <2>1
  <2>3. n \in 1 .. 16
    BY <2>2
  <2> QED BY <2>1, <2>3
<1>5. /\ hex_write_string(mem, data) = Text(block) /\ index - n \in Nat
      /\ Padded(line \o << 32 >>, unsigned(index - n), block, supplement(index))
  BY <1>1, <1>2, <1>4 DEF CText
<1>6. PICK b \in Nat : b = index - n /\ index = b + n
  <2>1. index \in Nat
    BY <1>2 DEF Typed
  <2>2. index = (index - n) + n
    BY <2>1
  <2> QED BY <1>5, <2>2
<1>7. PICK g \in Nat : g = supplement(index)
                       /\ (g = 16 - n <=> b % 16 = 0 /\ (n = 16 \/ int(index) >= 0))
  <2>1. /\ supplement(b + n) \in Nat
        /\ supplement(b + n) = 16 - n <=> b % 16 = 0 /\ (n = 16 \/ int(b + n) >= 0)
    BY FillIs
  <2> QED BY <1>6, <2>1, Zenon
<1>8. line' = DumpLine(unsigned(b), block) <=> g = 16 - n
  <2>1. Offset(unsigned(b)) \in Seq(Cell) /\ Len(Offset(unsigned(b))) = 8
    BY UnsignedIs
  <2>2. PICK t : t = line \o << 32 >>
    OBVIOUS
  <2>3. Padded(t, unsigned(b), block, g)
    BY <1>5, <1>6, <1>7, <2>2, Zenon
  <2>4. t \o Text(block) \o << 10 >> = DumpLine(unsigned(b), block) <=> g = 16 - Len(block)
    BY <1>3, <2>1, <2>3, LineIs, Zenon
  <2> QED BY <1>1, <1>4, <1>5, <2>2, <2>4, Zenon
<1>9. line' \in Seq(Cell)
  <2>1. line \o << 32 >> \in Seq(Cell)
    BY <1>5 DEF Padded
  <2>2. Text(block) \in Seq(Cell)
    BY <1>3, TextIs
  <2>3. << 10 >> \in Seq(Cell)
    BY DEF Cell
  <2>4. \A x, y, z \in Seq(Cell) : x \o y \o z \in Seq(Cell)
    OBVIOUS
  <2> QED BY <1>1, <1>5, <2>1, <2>2, <2>3, <2>4, Zenon
<1>10. Typed'
  BY <1>1, <1>2, <1>9 DEF Typed
<1>11. LinesRight'
  <2>1. /\ index' - readlength' = b /\ unsigned(b)' = unsigned(b)
        /\ DumpLine(unsigned(b), block)' = DumpLine(unsigned(b), block') /\ int(index)' = int(index')
    BY <1>1, <1>3, <1>4, <1>6 DEF unsigned, int, DumpLine, Offset, Byte, Pair, Column, HexChar
  <2>2. program' # "asm"
    BY <1>1
  <2>3. line' = DumpLine(unsigned(b), block')
          <=> b % 16 = 0 /\ (readlength' = 16 \/ int(index') >= 0)
    BY <1>1, <1>3, <1>4, <1>7, <1>8, Zenon
  <2>4. line' = DumpLine(unsigned(index' - readlength'), block')
          <=> \/ program' = "asm"
              \/ (index' - readlength') % 16 = 0 /\ (readlength' = 16 \/ int(index') >= 0)
    BY <2>1, <2>2, <2>3, Zenon
  <2> QED BY <2>4 DEF LinesRight
<1>12. (Kept /\ Digits /\ AsmText /\ CText)'
  BY <1>1 DEF Kept, Digits, AsmText, CText
<1> QED BY <1>10, <1>11, <1>12 DEF Inv

\* The end of a line of the assembly program.
LEMMA AsmPrintableKeeps ==
  ASSUME Inv, Asm_print_printable
  PROVE  Inv'
<1>1. /\ program = "asm" /\ pc = "text" /\ pc' = "read"
      /\ mem' = store(mem, printable, Converted(data, readlength) \o << 0 >>)
      /\ line' = line \o hex_write_string(mem', printable) \o << 10 >>
      /\ index' = index + readlength
      /\ program' = program /\ input' = input /\ readlength' = readlength
      /\ i' = i /\ block' = block
  BY DEF Asm_print_printable
<1>2. Typed /\ AsmText
  BY DEF Inv
<1>3. mem \in Memory /\ index \in Nat /\ block \in Bytes /\ readlength = Len(block)
  BY <1>1, <1>2 DEF Typed
<1>4. PICK n \in 0 .. 16 : n = Len(block)
  BY <1>3, BytesAre
<1>5. Holds(mem, data, block) /\ Padded(line, unsigned(index), block, 16 - n)
  BY <1>1, <1>2, <1>4 DEF AsmText
<1>6. mem' \in Memory /\ hex_write_string(mem', printable) = Text(block)
  <2>1. Converted(data, Len(block)) = Text(block)
    BY <1>3, <1>5, ConvertedIs DEF Holds
  <2>2. mem' = store(mem, printable, Text(block) \o << 0 >>)
    BY <1>1, <1>3, <2>1
  <2> QED BY <1>3, <2>2, TextBehind
<1>7. PICK b \in Nat : b = index /\ index' = b + n
  BY <1>1, <1>3, <1>4
<1>8. line' = DumpLine(unsigned(b), block)
  <2>1. Offset(unsigned(b)) \in Seq(Cell) /\ Len(Offset(unsigned(b))) = 8
    BY UnsignedIs
  <2>2. PICK g \in Nat : g = 16 - n
    OBVIOUS
  <2>3. Padded(line, unsigned(b), block, g)
    BY <1>5, <1>7, <2>2, Zenon
  <2>4. line \o Text(block) \o << 10 >> = DumpLine(unsigned(b), block) <=> g = 16 - Len(block)
    BY <1>3, <2>1, <2>3, LineIs, Zenon
  <2> QED BY <1>1, <1>4, <1>6, <2>2, <2>4, Zenon
<1>9. line' \in Seq(Cell)
  <2>1. line \in Seq(Cell)
    BY <1>2 DEF Typed
  <2>2. Text(block) \in Seq(Cell)
    BY <1>3, TextIs
  <2>3. << 10 >> \in Seq(Cell)
    BY DEF Cell
  <2>4. \A x, y, z \in Seq(Cell) : x \o y \o z \in Seq(Cell)
    OBVIOUS
  <2> QED BY <1>1, <1>6, <2>1, <2>2, <2>3, <2>4, Zenon
<1>10. Typed'
  <2>1. index' \in Nat
    BY <1>7
  <2> QED BY <1>1, <1>2, <1>6, <1>9, <2>1 DEF Typed
<1>11. LinesRight'
  <2>1. index' - readlength' = b
    BY <1>1, <1>3, <1>4, <1>7
  <2>2. line' = DumpLine(unsigned(index' - readlength'), block')
          <=> \/ program' = "asm"
              \/ (index' - readlength') % 16 = 0 /\ (readlength' = 16 \/ int(index') >= 0)
    BY <1>1, <1>8, <2>1, Zenon
  <2> QED BY <2>2 DEF LinesRight
<1>12. (Kept /\ Digits /\ AsmText /\ CText)'
  BY <1>1 DEF Kept, Digits, AsmText, CText
<1> QED BY <1>10, <1>11, <1>12 DEF Inv

\* Nothing else changes anything.
LEMMA StutterKeeps ==
  ASSUME Inv, UNCHANGED vars
  PROVE  Inv'
BY DEF vars, Inv, Typed, Kept, Digits, AsmText, CText, LinesRight

\* Each step keeps the invariant.
LEMMA NextKeeps ==
  ASSUME Inv, [Next]_vars
  PROVE  Inv'
<1>1. CASE C_hex_read
  BY <1>1, ReadKeeps DEF C_hex_read
<1>2. CASE Asm_hex_read
  BY <1>2, ReadKeeps DEF Asm_hex_read
<1>3. CASE Finished
  BY <1>3, StutterKeeps DEF Finished
<1> QED BY <1>1, <1>2, <1>3, OffsetKeeps, CLoopKeeps, AsmLoopKeeps, CSupplementKeeps,
           AsmSupplementKeeps, CDataKeeps, AsmPrintableKeeps, StutterKeeps DEF Next

\* Every line of the assembly program is right, and one of the C program exactly when a
\* multiple of sixteen bytes has been read before it and, if it is not full, the number
\* of bytes read with it is not negative as an int.
THEOREM EveryLineRight == Spec => []LinesRight
<1>1. Inv => LinesRight
  BY DEF Inv
<1> QED BY <1>1, InitInv, NextKeeps, PTL DEF Spec
===============================================================================
