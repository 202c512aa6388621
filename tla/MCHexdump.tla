------------------------------ MODULE MCHexdump ------------------------------
(* Hexdump with the sizes of the program but for an int of six bits, so     *)
(* that the count of bytes leaves its range.  The inputs end within a line, *)
(* at the end of one, or are empty, and have bytes on both sides of every   *)
(* limit: NUL, newline, 31, 32, 126, 127, and those with the highest bit.   *)
EXTENDS Hexdump

Limits == <<65, 0, 32, 31, 126, 127, 128, 255, 10, 159, 160, 9>>
Stream(n) == [k \in 1 .. n |-> Limits[(k % 12) + 1]]
MCInputs == {Stream(n) : n \in {0, 1, 16, 32, 41, 70}}
MCShortReads == {1, 6, 15}
MCIntMax == 31
=============================================================================
