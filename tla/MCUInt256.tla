----------------------------- MODULE MCUInt256 -----------------------------
(* UInt256 with limbs of two bits, written in two binary digits: every pair *)
(* of the 256 values that four limbs have.                                  *)
EXTENDS UInt256

MCWidth == 2
MCDigits == 2
=============================================================================
