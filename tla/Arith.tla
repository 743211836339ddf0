------------------------------- MODULE Arith -------------------------------
(***************************************************************************)
(* The arithmetic helpers of src/boot-loader/core/utils:                  *)
(*   bl_divmod64 (divmod64.c), unsigned division by shift and subtract,   *)
(*     one quotient bit per pass over the word's bits, most significant   *)
(*     first; print.c divides by 10 with it, ntfs.c by 10^7 and 86400;    *)
(*   bl_log2 (log2.c), -1 for 0 or a non-power of two, else the number of *)
(*     right shifts that bring the set bit to bit 0; fat.c and ntfs.c     *)
(*     turn sector and cluster sizes into shift counts with it.           *)
(*                                                                         *)
(* A behaviour is one call of one of them.  Words are W bits wide (64 for *)
(* bl_uint64_t, 32 for unsigned); every shift and the n - 1 of log2 are   *)
(* taken modulo 2^W, as the code's unsigned arithmetic does.  Each pass  *)
(* of a loop is one step, so partial results can be related to the input *)
(* between passes.                                                        *)
(***************************************************************************)
EXTENDS Integers
LOCAL INSTANCE Bitwise

CONSTANTS W,          \* the word width
          Dividends,  \* the values of n passed to bl_divmod64
          Divisors,   \* the values of d passed to bl_divmod64
          Log2Args    \* the values of n passed to bl_log2

Word == 2 ^ W
TopBit == 2 ^ (W - 1)   \* 1ULL << 63

ASSUME /\ W \in Nat \ {0}
       /\ Dividends \cup Log2Args \subseteq 0 .. Word - 1
       /\ Divisors \subseteq 1 .. Word - 1

(* x << 1 and x - 1 on a W-bit unsigned word. *)
Shl(x) == (2 * x) % Word
Dec(x) == (x + Word - 1) % Word

VARIABLES fn,   \* the function called: "divmod" or "log2"
          pc,   \* "entry" (log2's checks), "loop", "done"
          n0,   \* the argument n, as passed
          d,    \* divmod's d (0 in a log2 call)
          n,    \* n, shifted once per pass
          q,    \* divmod's _q
          r,    \* divmod's _r
          i,    \* the loop counter of either
          out   \* what the call has returned or stored

vars == <<fn, pc, n0, d, n, q, r, i, out>>

Init == /\ \/ fn = "divmod" /\ pc = "loop" /\ n0 \in Dividends /\ d \in Divisors
           \/ fn = "log2" /\ pc = "entry" /\ n0 \in Log2Args /\ d = 0
        /\ n = n0 /\ q = 0 /\ r = 0 /\ i = 0 /\ out = <<>>

-----------------------------------------------------------------------------
(* bl_divmod64 *)

(* _r << 1 with n's top bit shifted in: the |= 1 lands on the bit the    *)
(* shift has just cleared, so it adds 1.                                  *)
ShiftedRem(m) == Shl(r) + (IF m >= TopBit THEN 1 ELSE 0)

(* A pass that shifts n before it tests n's top bit. *)
PassShiftFirst ==
    /\ fn = "divmod" /\ pc = "loop" /\ i < W
    /\ LET rs == ShiftedRem(Shl(n))
       IN  IF rs >= d THEN q' = Shl(q) + 1 /\ r' = rs - d ELSE q' = Shl(q) /\ r' = rs
    /\ n' = Shl(n) /\ i' = i + 1
    /\ UNCHANGED <<fn, pc, n0, d, out>>

Pass ==
    /\ fn = "divmod" /\ pc = "loop" /\ i < W
    /\ LET rs == ShiftedRem(n)
       IN  IF rs >= d THEN q' = Shl(q) + 1 /\ r' = rs - d ELSE q' = Shl(q) /\ r' = rs
    /\ n' = Shl(n) /\ i' = i + 1
    /\ UNCHANGED <<fn, pc, n0, d, out>>

(* After the loop, _q and _r are stored through q and r (every caller    *)
(* passes both pointers).                                                 *)
Store ==
    /\ fn = "divmod" /\ pc = "loop" /\ i = W
    /\ pc' = "done" /\ out' = <<q, r>>
    /\ UNCHANGED <<fn, n0, d, n, q, r, i>>

-----------------------------------------------------------------------------
(* bl_log2 *)

(* A version without the !n test. *)
Log2ChecksNoZero ==
    /\ fn = "log2" /\ pc = "entry"
    /\ IF (n & Dec(n)) /= 0
       THEN pc' = "done" /\ out' = <<-1>>
       ELSE pc' = "loop" /\ UNCHANGED out
    /\ UNCHANGED <<fn, n0, d, n, q, r, i>>

(* A version that tests n & (n + 1) for a power of two. *)
Log2ChecksPlusOne ==
    /\ fn = "log2" /\ pc = "entry"
    /\ IF n = 0 \/ (n & ((n + 1) % Word)) /= 0
       THEN pc' = "done" /\ out' = <<-1>>
       ELSE pc' = "loop" /\ UNCHANGED out
    /\ UNCHANGED <<fn, n0, d, n, q, r, i>>

(* The two early returns: 0, and n & (n - 1) non-zero (not a power of    *)
(* two), give -1; otherwise the loop runs.                                *)
Log2Checks ==
    /\ fn = "log2" /\ pc = "entry"
    /\ IF n = 0 \/ (n & Dec(n)) /= 0
       THEN pc' = "done" /\ out' = <<-1>>
       ELSE pc' = "loop" /\ UNCHANGED out
    /\ UNCHANGED <<fn, n0, d, n, q, r, i>>

(* (n & 1) == 0: n >>= 1, i++. *)
Log2Shift ==
    /\ fn = "log2" /\ pc = "loop" /\ n % 2 = 0
    /\ n' = n \div 2 /\ i' = i + 1
    /\ UNCHANGED <<fn, pc, n0, d, q, r, out>>

(* Bit 0 is set: return i. *)
Log2Return ==
    /\ fn = "log2" /\ pc = "loop" /\ n % 2 = 1
    /\ pc' = "done" /\ out' = <<i>>
    /\ UNCHANGED <<fn, n0, d, n, q, r, i>>

Next == Pass \/ Store \/ Log2Checks \/ Log2Shift \/ Log2Return

(* The call returns once it is "done"; nothing follows in this model. *)
Spec == Init /\ [][Next]_vars

-----------------------------------------------------------------------------
TypeOK ==
    /\ fn \in {"divmod", "log2"} /\ pc \in {"entry", "loop", "done"}
    /\ n0 \in 0 .. Word - 1 /\ d \in Divisors \cup {0} /\ i \in 0 .. W
    /\ n \in 0 .. Word - 1 /\ q \in 0 .. Word - 1 /\ r \in 0 .. Word - 1
    /\ out \in {<<>>} \cup {<<x>> : x \in -1 .. W - 1} \cup ((0 .. Word - 1) \X (0 .. Word - 1))

(* The top i bits of n0, the ones divmod's loop has consumed. *)
Consumed == n0 \div 2 ^ (W - i)

(* bl_divmod64's loop keeps the invariant of long division: after i       *)
(* passes, _q and _r are the quotient and remainder of the top i bits of *)
(* n by d, so _r < d, and n holds the bits still to come.  Those bits are *)
(* below 2^i, so _r < 2^(W-1) before the last shift and `_r <<= 1' never *)
(* drops a bit, for divisors above 2^63 too.                              *)
PartialDivision ==
    fn = "divmod" =>
        /\ q * d + r = Consumed /\ r < d
        /\ n = (n0 * 2 ^ i) % Word

Log2Exact ==
    fn = "log2" /\ out /= <<>> =>
        out = <<IF \E k \in 0 .. W - 1 : 2 ^ k = n0
                THEN CHOOSE k \in 0 .. W - 1 : 2 ^ k = n0 ELSE -1>>
=============================================================================
