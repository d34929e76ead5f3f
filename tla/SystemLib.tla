----------------------------- MODULE SystemLib -----------------------------
(***************************************************************************)
(* The C library the firmware brings along (lwiperf/system.c): the console *)
(* printers, the mem* and str* routines and atoi.  Each routine is an      *)
(* operator whose recursion follows the C loop.  Memory is a function from *)
(* byte addresses to bytes 0..255; a pointer is an address.  char is      *)
(* unsigned on RISC-V, so a char is compared as the byte it is.  A value  *)
(* that is an unsigned int or int in C is a word of Words.  What print     *)
(* writes to OUTPORT is the sequence of the bytes written.                 *)
(***************************************************************************)
EXTENDS Naturals, Integers, Sequences, SequencesExt
LOCAL INSTANCE Bitwise

W == INSTANCE Words WITH HalfBits <- 16

(* ASCII codes the routines compare against.                               *)
NUL == 0
Space == 32
Percent == 37
Plus == 43
Minus == 45
Digit0 == 48
Digit9 == 57

IsDigit(c) == c >= Digit0 /\ c <= Digit9

(* Mutant: the word read big-endian.                                      *)
WordAtBigEndian(m, a) == <<m[a] * 256 + m[a + 1], m[a + 2] * 256 + m[a + 3]>>

(* The uint32_t word read at an aligned address a: little-endian.        *)
WordAt(m, a) == <<m[a + 3] * 256 + m[a + 2], m[a + 1] * 256 + m[a]>>

(* Byte k of a word: (v >> 8k) & 0xff.                                     *)
ByteOf(v, k) == W!Lo(W!BitAnd(W!Shr(v, 8 * k), W!FromNat(255)))

(* ((v) - 0x01010101UL) & ~(v) & 0x80808080UL: non-zero when a byte of v  *)
(* is zero.                                                                *)
HasZero(v) ==
  W!BitAnd(W!BitAnd(W!Sub(v, <<257, 257>>), W!BitNot(v)), <<32896, 32896>>) # W!Zero

(* c1 < c2 ? -1 : +1                                                       *)
Order(c1, c2) == IF c1 < c2 THEN -1 ELSE 1

----------------------------------------------------------------------------
(* print_str, print_dec, print_hex                                         *)

RECURSIVE PrintStr(_, _)
PrintStr(s, i) == IF s[i] = NUL THEN <<>> ELSE <<s[i]>> \o PrintStr(s, i + 1)

(* The first loop of print_dec: the digits of val, least significant      *)
(* first, at least one.                                                    *)
(* Mutant: while (val), no digit for zero.                                *)
RECURSIVE DecFillNoZero(_, _)
DecFillNoZero(val, buf) ==
  IF val # W!Zero THEN DecFillNoZero(W!DivSmall(val, 10), Append(buf, W!ModSmall(val, 10))) ELSE buf

RECURSIVE DecFill(_, _)
DecFill(val, buf) ==
  IF val # W!Zero \/ buf = <<>>
  THEN DecFill(W!DivSmall(val, 10), Append(buf, W!ModSmall(val, 10)))
  ELSE buf

(* The second loop: the buffer backwards, as ASCII digits.                 *)
PrintDec(val) == LET buf == DecFill(val, <<>>)
                 IN  [i \in 1..Len(buf) |-> Digit0 + buf[Len(buf) + 1 - i]]

HexChar(n) == IF n < 10 THEN Digit0 + n ELSE 55 + n

(* Mutant: the loop starts at i = 4*digits.                               *)
PrintHexShiftOne(val, digits) ==
  [j \in 1..digits |-> HexChar(W!ModSmall(W!Shr(val, (4 * (digits - j + 1)) % 32), 16))]

(* for (i = 4*digits-4; i >= 0; i -= 4): "0123456789ABCDEF"[(val >> i) % 16]. *)
(* srl takes the shift amount modulo 32, what the build does for i >= 32.  *)
PrintHex(val, digits) ==
  [j \in 1..digits |-> HexChar(W!ModSmall(W!Shr(val, (4 * (digits - j)) % 32), 16))]

----------------------------------------------------------------------------
(* print: the format interpreter of printf.  args is the sequence of the   *)
(* variadic arguments: a word for %d %u %x %X %c, a NUL-terminated byte    *)
(* sequence for %s.  The result is what is written and the return value.  *)

(* The first index from i on whose byte is not in S.                      *)
Skip(f, i, S) == SelectInSubSeq(f, i, Len(f), LAMBDA c : c \notin S)

(* width = width * 10 + digit over f[i..j-1].                              *)
Width(f, i, j) == FoldLeft(LAMBDA w, c : w * 10 + c - Digit0, 0, SubSeq(f, i, j - 1))

(* What one conversion character writes and whether it counts in pc.     *)
Convert(c, arg, width) ==
  CASE c = "s"        -> [out |-> PrintStr(arg, 1), count |-> 0]
    [] c \in {"d", "u"} -> [out |-> PrintDec(arg), count |-> 1]
    [] c \in {"x", "X"} -> [out |-> PrintHex(arg, width), count |-> 1]
    [] c = "c"        -> [out |-> <<W!Lo(arg) % 256>>, count |-> 1]

ConvChar == [b \in {115, 100, 117, 120, 88, 99} |->
               CASE b = 115 -> "s" [] b = 100 -> "d" [] b = 117 -> "u"
                 [] b = 120 -> "x" [] b = 88 -> "X" [] b = 99 -> "c"]

(* Mutant: "%%" advances past one '%' only.                               *)
RECURSIVE PrintLoopPctOnce(_, _, _, _, _)
PrintLoopPctOnce(f, i, args, out, pc) ==
  IF f[i] = NUL THEN [out |-> out, ret |-> pc]
  ELSE IF f[i] # Percent
  THEN PrintLoopPctOnce(f, i + 1, args, Append(out, f[i]), pc + 1)
  ELSE IF f[i + 1] = NUL THEN [out |-> out, ret |-> pc]
  ELSE IF f[i + 1] = Percent
  THEN PrintLoopPctOnce(f, i + 1, args, Append(out, Percent), pc + 1)
  ELSE LET j1 == IF f[i + 1] = Minus THEN i + 2 ELSE i + 1
           j2 == Skip(f, j1, {Digit0})
           j3 == Skip(f, j2, Digit0..Digit9)
       IN  IF f[j3] \in DOMAIN ConvChar
           THEN LET r == Convert(ConvChar[f[j3]], Head(args), Width(f, j2, j3))
                IN  PrintLoopPctOnce(f, j3 + 1, Tail(args), out \o r.out, pc + r.count)
           ELSE PrintLoopPctOnce(f, j3 + 1, args, out, pc)

RECURSIVE PrintLoop(_, _, _, _, _)
PrintLoop(f, i, args, out, pc) ==
  IF f[i] = NUL THEN [out |-> out, ret |-> pc]
  ELSE IF f[i] # Percent
  THEN PrintLoop(f, i + 1, args, Append(out, f[i]), pc + 1)
  ELSE IF f[i + 1] = NUL THEN [out |-> out, ret |-> pc]
  ELSE IF f[i + 1] = Percent
  THEN PrintLoop(f, i + 2, args, Append(out, Percent), pc + 1)
  ELSE LET j1 == IF f[i + 1] = Minus THEN i + 2 ELSE i + 1
           j2 == Skip(f, j1, {Digit0})
           j3 == Skip(f, j2, Digit0..Digit9)
       IN  IF f[j3] \in DOMAIN ConvChar
           THEN LET r == Convert(ConvChar[f[j3]], Head(args), Width(f, j2, j3))
                IN  PrintLoop(f, j3 + 1, Tail(args), out \o r.out, pc + r.count)
           ELSE PrintLoop(f, j3 + 1, args, out, pc)

Printf(f, args) == PrintLoop(f, 1, args, <<>>, 0)

----------------------------------------------------------------------------
(* memcpy, memset, memcmp, memmove: each returns the memory afterwards,   *)
(* memcmp its result.                                                      *)

RECURSIVE MoveFwd(_, _, _, _)
MoveFwd(m, d, s, n) ==
  IF n = 0 THEN m ELSE MoveFwd([m EXCEPT ![d] = m[s]], d + 1, s + 1, n - 1)

RECURSIVE MoveBwd(_, _, _, _)
MoveBwd(m, d, s, n) ==
  IF n = 0 THEN m ELSE MoveBwd([m EXCEPT ![d] = m[s]], d - 1, s - 1, n - 1)

MemCpy(m, a, b, n) == MoveFwd(m, a, b, n)

MemSet(m, dst, val, count) ==
  [a \in DOMAIN m |-> IF a >= dst /\ a < dst + count THEN val % 256 ELSE m[a]]

(* Mutant: while (count-- && ...), one byte further than --count.          *)
RECURSIVE MemCmpLoopPostDec(_, _, _, _)
MemCmpLoopPostDec(m, b1, b2, count) ==
  IF count # 0 /\ m[b1] = m[b2]
  THEN MemCmpLoopPostDec(m, b1 + 1, b2 + 1, count - 1)
  ELSE m[b1] - m[b2]

RECURSIVE MemCmpLoop(_, _, _, _)
MemCmpLoop(m, b1, b2, count) ==
  IF count - 1 # 0 /\ m[b1] = m[b2]
  THEN MemCmpLoop(m, b1 + 1, b2 + 1, count - 1)
  ELSE m[b1] - m[b2]

MemCmp(m, b1, b2, count) == IF count = 0 THEN 0 ELSE MemCmpLoop(m, b1, b2, count)

(* Mutant: memmove always copies from the front.                          *)
MemMoveFwdOnly(m, d, s, n) == MoveFwd(m, d, s, n)

MemMove(m, d, s, n) ==
  IF s > d THEN MoveFwd(m, d, s, n)
  ELSE IF s < d THEN MoveBwd(m, d + n - 1, s + n - 1, n)
  ELSE m


----------------------------------------------------------------------------
(* strnlen, strlen, strcpy, strcmp, strncmp                                *)

RECURSIVE StrNLen(_, _, _)
StrNLen(m, str, maxsize) ==
  IF maxsize > 0 /\ m[str] # NUL THEN 1 + StrNLen(m, str + 1, maxsize - 1) ELSE 0

RECURSIVE StrLen(_, _)
StrLen(m, str) == IF m[str] = NUL THEN 0 ELSE 1 + StrLen(m, str + 1)

Aligned(a, b) == ((a | b) & 3) = 0

(* Mutant: byte 3 is not written when it is the terminator.               *)
RECURSIVE StrCpyTailNoLast(_, _, _, _)
StrCpyTailNoLast(m, dst, v, k) ==
  IF k = 3 THEN m
  ELSE LET m2 == [m EXCEPT ![dst + k] = ByteOf(v, k)]
       IN  IF ByteOf(v, k) = NUL THEN m2 ELSE StrCpyTailNoLast(m2, dst, v, k + 1)

(* The word loop of strcpy once v holds a zero byte: dst[k] = byte k      *)
(* until the zero byte is written; dst[3] is written unconditionally.     *)
RECURSIVE StrCpyTail(_, _, _, _)
StrCpyTail(m, dst, v, k) ==
  LET m2 == [m EXCEPT ![dst + k] = ByteOf(v, k)]
  IN  IF k = 3 \/ ByteOf(v, k) = NUL THEN m2 ELSE StrCpyTail(m2, dst, v, k + 1)

RECURSIVE StrCpyWords(_, _, _)
StrCpyWords(m, dst, src) ==
  LET v == WordAt(m, src)
  IN  IF HasZero(v) THEN StrCpyTail(m, dst, v, 0)
      ELSE StrCpyWords([a \in DOMAIN m |->
                          IF a >= dst /\ a < dst + 4 THEN m[src + a - dst] ELSE m[a]],
                       dst + 4, src + 4)

RECURSIVE StrCpy(_, _, _)
StrCpy(m, dst, src) ==
  IF ~Aligned(dst, src)
  THEN LET m2 == [m EXCEPT ![dst] = m[src]]
       IN  IF m[src] = NUL THEN m2 ELSE StrCpy(m2, dst + 1, src + 1)
  ELSE StrCpyWords(m, dst, src)

(* The word loop of strcmp once the words differ: compare byte by byte.   *)
RECURSIVE StrCmpTail(_, _, _)
StrCmpTail(v1, v2, k) ==
  LET c1 == ByteOf(v1, k)
      c2 == ByteOf(v2, k)
  IN  IF c1 # c2 THEN Order(c1, c2)
      ELSE IF k = 3 \/ c1 = NUL THEN 0
      ELSE StrCmpTail(v1, v2, k + 1)

RECURSIVE StrCmpWords(_, _, _)
StrCmpWords(m, s1, s2) ==
  LET v1 == WordAt(m, s1)
      v2 == WordAt(m, s2)
  IN  IF v1 # v2 THEN StrCmpTail(v1, v2, 0)
      ELSE IF HasZero(v1) THEN 0
      ELSE StrCmpWords(m, s1 + 4, s2 + 4)

RECURSIVE StrCmp(_, _, _)
StrCmp(m, s1, s2) ==
  IF ~Aligned(s1, s2)
  THEN IF m[s1] # m[s2] THEN Order(m[s1], m[s2])
       ELSE IF m[s1] = NUL THEN 0
       ELSE StrCmp(m, s1 + 1, s2 + 1)
  ELSE StrCmpWords(m, s1, s2)

(* Mutant: the loop does not stop at a terminator.                        *)
RECURSIVE StrNCmpNoNulBreak(_, _, _, _, _)
StrNCmpNoNulBreak(m, str1, str2, size, i) ==
  IF i >= size THEN 0
  ELSE IF m[str1 + i] > m[str2 + i] THEN 1
  ELSE IF m[str1 + i] < m[str2 + i] THEN -1
  ELSE StrNCmpNoNulBreak(m, str1, str2, size, i + 1)

RECURSIVE StrNCmpLoop(_, _, _, _, _)
StrNCmpLoop(m, str1, str2, size, i) ==
  IF i >= size THEN 0
  ELSE IF m[str1 + i] > m[str2 + i] THEN 1
  ELSE IF m[str1 + i] < m[str2 + i] THEN -1
  ELSE IF m[str1 + i] = NUL \/ m[str2 + i] = NUL THEN 0
  ELSE StrNCmpLoop(m, str1, str2, size, i + 1)

StrNCmp(m, str1, str2, size) == StrNCmpLoop(m, str1, str2, size, 0)

----------------------------------------------------------------------------
(* atoi: int s accumulates in a 32-bit register; s*10 + *str - '0' wraps   *)
(* around (signed overflow, undefined in C, is what mul and add do), and   *)
(* a negative s is replaced by 2147483647.                                 *)

IntMax == W!FromNat(2147483647)

RECURSIVE AtoiDigits(_, _, _)
AtoiDigits(str, i, s) ==
  IF ~IsDigit(str[i]) THEN s
  ELSE LET s2 == W!Sub(W!Add(W!MulSmall(s, 10), W!FromNat(str[i])), W!FromNat(Digit0))
       IN  IF W!IsNegative(s2) THEN IntMax ELSE AtoiDigits(str, i + 1, s2)

(* Mutant: only '-' is skipped as a sign.                                 *)
AtoiNoPlus(str) ==
  LET i0 == Skip(str, 1, {Space})
      i1 == IF str[i0] = Minus THEN i0 + 1 ELSE i0
      s  == AtoiDigits(str, i1, W!Zero)
  IN  IF str[i0] = Minus THEN W!Sub(W!Zero, s) ELSE s

Atoi(str) ==
  LET i0 == Skip(str, 1, {Space})
      i1 == IF str[i0] \in {Minus, Plus} THEN i0 + 1 ELSE i0
      s  == AtoiDigits(str, i1, W!Zero)
  IN  IF str[i0] = Minus THEN W!Sub(W!Zero, s) ELSE s

=============================================================================
