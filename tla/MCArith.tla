------------------------------ MODULE MCArith ------------------------------
(* The helpers on a 7-bit word, over every argument: every dividend with  *)
(* every non-zero divisor, those above 2^(W-1) included, where a bit      *)
(* dropped by `_r <<= 1' would show; and every log2 argument, 0 and the   *)
(* all-ones word included.                                                *)
EXTENDS Arith

MCDividends == 0 .. Word - 1
MCDivisors == 1 .. Word - 1
MCLog2Args == 0 .. Word - 1
=============================================================================
