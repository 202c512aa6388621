------------------------------- MODULE Hexdump -------------------------------
(***************************************************************************)
(* csf_assign02: the hex dump in C (c_hexmain.c, c_hexfuncs.c) and in      *)
(* assembly (asm_hexmain.S, asm_hexfuncs.S).  Memory is modelled byte by   *)
(* byte, because the assembly program stores eight bytes where one is      *)
(* meant and its arrays lie side by side; the C arrays are taken to lie    *)
(* the same way.  What is written is kept for the current line.            *)
(* A definition whose name tells of a fault is the one after it with a     *)
(* mistake, and is not part of Spec.                                       *)
(***************************************************************************)
EXTENDS Integers, Sequences, FiniteSetsExt

CONSTANTS Inputs,     \* what may come on standard input
          ShortReads, \* sizes below 16 that a read may have before the end
          IntMax      \* the greatest int: 2 ^ 31 - 1 in the program

ASSUME HexdumpAssumption == /\ Inputs \subseteq Seq(0 .. 255)
                            /\ ShortReads \subseteq 1 .. 15
                            /\ IntMax \in Nat /\ (IntMax + 1) % 16 = 0

VARIABLES
  program,      \* "c" or "asm"
  input,        \* what has not been read
  mem,          \* the arrays
  readlength,
  index,        \* `offset' in the assembly program
  i,            \* the counter of printloop
  line,         \* what has been written since the last newline
  block,        \* history: what the last read returned
  pc

vars == <<program, input, mem, readlength, index, i, line, block, pc>>

\* The arrays data, single_hex, offset_hex and printable.
data == 0
single_hex == 17
offset_hex == 20
printable == 29
Addresses == 0 .. 45

Junk == 256       \* not a byte: a C array before it is written

store(m, a, bytes) ==
  [k \in DOMAIN m |-> IF k - a + 1 \in DOMAIN bytes THEN bytes[k - a + 1] ELSE m[k]]

Quad(byte) == <<byte>> \o [k \in 1 .. 7 |-> 0]      \* what movq stores

Init == /\ program \in {"c", "asm"}
        /\ input \in Inputs
        /\ mem = [a \in Addresses |-> IF program = "c" THEN Junk ELSE 0]
        /\ readlength = 0 /\ index = 0 /\ i = 0
        /\ line = << >> /\ block = << >>
        /\ pc = "read"

(***************************************************************************)
(* The functions both programs have.                                       *)
(***************************************************************************)
conbyte_to_hex(d) == IF d < 10 THEN d + 48 ELSE d + 87

\* A long that is passed as an unsigned, and as an int.
unsigned(n) == n % (2 * (IntMax + 1))
int(n) == IF unsigned(n) <= IntMax THEN unsigned(n)
          ELSE unsigned(n) - 2 * (IntMax + 1)

\* 16 ^ 7, 16 ^ 6, ..., 1: what the shifts divide by.
Power16 == <<268435456, 16777216, 1048576, 65536, 4096, 256, 16, 1>>

\* The assembly program writes the eight lowest digits of a quad, which are those
\* of the unsigned.
hex_format_offset(offset) ==
  [k \in 1 .. 9 |-> IF k = 9 THEN 0
                    ELSE conbyte_to_hex((unsigned(offset) \div Power16[k]) % 16)]

hex_to_printable(b) == IF b < 32 \/ b > 126 THEN 46 ELSE b

\* The string at address a, up to its NUL.
hex_write_string(m, a) ==
  LET end == Min({k \in DOMAIN m : k >= a /\ m[k] = 0})
  IN [k \in 1 .. end - a |-> m[a + k - 1]]

C_hex_format_byte_as_hex(m, b) ==
  store(m, single_hex, <<conbyte_to_hex(b \div 16), conbyte_to_hex(b % 16), 0>>)

LowDigitFirst(m, b) ==
  store(store(store(m, single_hex + 1, Quad(conbyte_to_hex(b % 16))),
              single_hex, Quad(conbyte_to_hex(b \div 16))),
        single_hex + 2, Quad(0))

\* Three stores of eight bytes each, the later of which overwrite the zeros of
\* the earlier.
Asm_hex_format_byte_as_hex(m, b) ==
  store(store(store(m, single_hex, Quad(conbyte_to_hex(b \div 16))),
              single_hex + 1, Quad(conbyte_to_hex(b % 16))),
        single_hex + 2, Quad(0))

Spaces(n) == [k \in 1 .. n |-> 32]

(***************************************************************************)
(* A line of output.                                                       *)
(***************************************************************************)
\* read returns what there is, up to sixteen bytes, and may return less; 0 only
\* at the end.
Available == {n \in ShortReads \cup {16, Len(input)} :
                /\ n <= 16 /\ n <= Len(input)
                /\ n = 0 => input = << >>}

hex_read(end) ==
  /\ pc = "read"
  /\ \E n \in Available :
       /\ mem' = store(mem, data, SubSeq(input, 1, n) \o end)
       /\ readlength' = n
       /\ block' = SubSeq(input, 1, n)
       /\ input' = SubSeq(input, n + 1, Len(input))
       /\ pc' = IF n = 0 THEN "end" ELSE "offset"
  /\ line' = << >>
  /\ UNCHANGED <<program, index, i>>

C_hex_read == program = "c" /\ hex_read(<<0>>)
Asm_hex_read == program = "asm" /\ hex_read(Quad(0))

printoffset == /\ pc = "offset"
               /\ mem' = store(mem, offset_hex, hex_format_offset(index))
               /\ line' = hex_write_string(mem', offset_hex) \o <<58, 32>>
               /\ pc' = "loop" /\ i' = 0
               /\ UNCHANGED <<program, input, readlength, index, block>>

PrintByte(m) == /\ pc = "loop" /\ i < readlength
                /\ mem' = m
                /\ line' = line \o hex_write_string(m, single_hex) \o <<32>>
                /\ i' = i + 1
                /\ UNCHANGED <<program, input, readlength, index, block, pc>>

C_printloop == program = "c" /\ PrintByte(C_hex_format_byte_as_hex(mem, mem[data + i]))
Asm_print_input_chars ==
  program = "asm" /\ PrintByte(Asm_hex_format_byte_as_hex(mem, mem[data + i]))

Converted(from, n) == [k \in 1 .. n |-> hex_to_printable(mem[from + k - 1])]

\* The places that printsupplement fills up: the remainder of an int has its sign.
supplement(count) ==
  LET rem == IF int(count) >= 0 THEN int(count) % 16 ELSE - ((- int(count)) % 16)
  IN IF rem = 0 THEN 0 ELSE 16 - rem

\* The C program converts data in place, counts, and fills up the line from the
\* count; the assembly program fills it up from the length of the line.
C_printsupplement ==
  /\ program = "c" /\ pc = "loop" /\ i = readlength
  /\ mem' = store(mem, data, Converted(data, readlength))
  /\ index' = index + readlength
  /\ line' = line \o Spaces(3 * supplement(index'))
  /\ pc' = "text"
  /\ UNCHANGED <<program, input, readlength, i, block>>

Asm_printsupplement ==
  /\ program = "asm" /\ pc = "loop" /\ i = readlength
  /\ line' = line \o Spaces(3 * (16 - readlength) + 1)
  /\ pc' = "text"
  /\ UNCHANGED <<program, input, mem, readlength, index, i, block>>

C_printdata ==
  /\ program = "c" /\ pc = "text"
  /\ line' = line \o <<32>> \o hex_write_string(mem, data) \o <<10>>
  /\ pc' = "read"
  /\ UNCHANGED <<program, input, mem, readlength, index, i, block>>

Asm_print_printable ==
  /\ program = "asm" /\ pc = "text"
  /\ mem' = store(mem, printable, Converted(data, readlength) \o <<0>>)
  /\ line' = line \o hex_write_string(mem', printable) \o <<10>>
  /\ index' = index + readlength
  /\ pc' = "read"
  /\ UNCHANGED <<program, input, readlength, i, block>>

Finished == pc = "end" /\ UNCHANGED vars

Next == \/ C_hex_read \/ Asm_hex_read
        \/ printoffset
        \/ C_printloop \/ Asm_print_input_chars
        \/ C_printsupplement \/ Asm_printsupplement
        \/ C_printdata \/ Asm_print_printable
        \/ Finished

Spec == Init /\ [][Next]_vars
-----------------------------------------------------------------------------
(***************************************************************************)
(* Properties                                                              *)
(***************************************************************************)
\* A line in full: the offset, sixteen places of three characters, and the
\* printable form in a column of its own.
HexChar == <<48, 49, 50, 51, 52, 53, 54, 55, 56, 57, 97, 98, 99, 100, 101, 102>>
Pair(b) == <<HexChar[(b \div 16) + 1], HexChar[(b % 16) + 1]>>

Byte(n, k) == (n \div <<1, 256, 65536, 16777216>>[k + 1]) % 256

\* Place k of the columns: two digits and a space for each byte.
Column(bytes, k) ==
  LET j == ((k - 1) \div 3) + 1
  IN IF j > Len(bytes) \/ (k - 1) % 3 = 2 THEN 32
     ELSE Pair(bytes[j])[((k - 1) % 3) + 1]

Offset(n) == Pair(Byte(n, 3)) \o Pair(Byte(n, 2)) \o Pair(Byte(n, 1)) \o Pair(Byte(n, 0))

DumpLine(n, bytes) ==
  Offset(n) \o <<58, 32>>
  \o [k \in 1 .. 48 |-> Column(bytes, k)]
  \o <<32>>
  \o [k \in 1 .. Len(bytes) |-> IF bytes[k] \in 32 .. 126 THEN bytes[k] ELSE 46]
  \o <<10>>

\* Every line that the assembly program writes is right, although its stores
\* run over the ends of its arrays.  The C program fills up a line by the number
\* of bytes read so far, taken as an int, and not by those of the line.  So its
\* line is right exactly when the number of bytes read before it is a multiple
\* of sixteen, be it by full reads or by short ones that add up, and, if this
\* line is not full, the number with its own bytes is not negative as an int (up
\* to IntMax, or once it has wrapped around to positive numbers again).
LinesRight ==
  pc = "read" /\ line # << >> =>
    LET before == index - readlength
    IN line = DumpLine(unsigned(before), block)
         <=> \/ program = "asm"
             \/ /\ before % 16 = 0
                /\ readlength = 16 \/ int(index) >= 0

\* "this function prints the space between hax pair and printables to reach
\* allignment", by the remainder that "shows how many hex dig are on this line"
\* (c_hexmain.c): the text of each line stands where it should, so that the line
\* is as long as one with its bytes is.
TextAligned ==
  pc = "read" /\ line # << >> =>
    Len(line) = Len(DumpLine(unsigned(index - readlength), block))
=============================================================================
