------------------------------- MODULE Words -------------------------------
(***************************************************************************)
(* Unsigned machine words of 2 * HalfBits bits, the uint32_t of the        *)
(* firmware when HalfBits = 16.  TLC's integers stop at 2^31 - 1, so a     *)
(* word is the pair <<hi, lo>> of its two halves.  The operators are the   *)
(* C operators the DMA code applies to uint32_t values: <<, >>, +, & and   *)
(* the comparison with 0x80000000.  WordsCheck compares every operator     *)
(* with ordinary arithmetic modulo 2^(2 * HalfBits) at a small width.      *)
(***************************************************************************)
LOCAL INSTANCE Naturals
LOCAL INSTANCE Bitwise

CONSTANT HalfBits

ASSUME HalfBits \in 1..16

Half == 2^HalfBits

Hi(w) == w[1]
Lo(w) == w[2]

Word == (0..(Half - 1)) \X (0..(Half - 1))

(* The word holding the natural number n < 2^31 (modulo the width).        *)
FromNat(n) == <<(n \div Half) % Half, n % Half>>

Zero == <<0, 0>>

(* Only the top bit set: 0x80000000.                                       *)
TopBit == <<Half \div 2, 0>>

(* w << k, bits shifted out of the top are lost.                           *)
Shl(w, k) ==
  IF k >= 2 * HalfBits THEN Zero
  ELSE IF k >= HalfBits
       THEN <<(Lo(w) * 2^(k - HalfBits)) % Half, 0>>
       ELSE <<(Hi(w) * 2^k + Lo(w) \div 2^(HalfBits - k)) % Half,
              (Lo(w) * 2^k) % Half>>

(* w >> k, logical: zeros come in at the top.                              *)
Shr(w, k) ==
  IF k >= 2 * HalfBits THEN Zero
  ELSE IF k >= HalfBits
       THEN <<0, Hi(w) \div 2^(k - HalfBits)>>
       ELSE <<Hi(w) \div 2^k,
              (Lo(w) \div 2^k) + (Hi(w) % 2^k) * 2^(HalfBits - k)>>

(* w + v, wrapping around.                                                 *)
Add(w, v) ==
  LET lo == Lo(w) + Lo(v)
  IN  <<(Hi(w) + Hi(v) + lo \div Half) % Half, lo % Half>>

(* w & v                                                                   *)
BitAnd(w, v) == <<Hi(w) & Hi(v), Lo(w) & Lo(v)>>

(* ~w                                                                      *)
BitNot(w) == <<Half - 1 - Hi(w), Half - 1 - Lo(w)>>

(* w - v, wrapping around.                                                 *)
Sub(w, v) == Add(w, Add(BitNot(v), FromNat(1)))

(* w * c for a small constant c, wrapping around.                          *)
MulSmall(w, c) ==
  LET lo == Lo(w) * c
  IN  <<(Hi(w) * c + lo \div Half) % Half, lo % Half>>

(* w / c and w % c for a small constant c > 0: long division by halves.    *)
DivSmall(w, c) ==
  <<Hi(w) \div c, ((Hi(w) % c) * Half + Lo(w)) \div c>>
ModSmall(w, c) == ((Hi(w) % c) * Half + Lo(w)) % c

(* The sign bit of w as a two's-complement int.                            *)
IsNegative(w) == Hi(w) >= Half \div 2

=============================================================================
