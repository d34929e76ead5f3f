-------------------------------- MODULE ConvCheck ------------------------------
(***************************************************************************)
(* The number conversions of system.c.  atoi runs on strings built from a  *)
(* prefix of spaces and signs, a run of digits and a tail; print_dec and   *)
(* print_hex run on the uint32_t the digit run denotes modulo 2^32.  The   *)
(* runs extend the decimal prefixes of values around INT_MAX, 2^32 and     *)
(* 2^33 by zero, one or two digits.                                        *)
(***************************************************************************)
EXTENDS SystemLib, FiniteSets

CONSTANTS Bases, Extra  \* digit runs to start from; digits that may follow

VARIABLES pre, digs, tail

vars == <<pre, digs, tail>>

Leads == {<<>>, <<Space>>, <<Space, Space>>, <<Plus>>, <<Minus>>,
             <<Space, Minus>>, <<Minus, Minus>>, <<Plus, Space>>}
Ends == {<<NUL>>, <<120, NUL>>}

(* Decimal digits of a natural, most significant first.                   *)
RECURSIVE DecDigits(_)
DecDigits(n) == IF n < 10 THEN <<n>> ELSE DecDigits(n \div 10) \o <<n % 10>>

Runs == {<<>>} \cup
        {DecDigits(b) \o e : b \in Bases,
                             e \in {<<>>} \cup {<<x>> : x \in Extra} \cup {<<x, y>> : x, y \in Extra}}

Init == pre \in Leads /\ digs \in Runs /\ tail \in Ends

Next ==
  \/ \E x \in Leads : pre' = x /\ UNCHANGED <<digs, tail>>
  \/ \E x \in Runs : digs' = x /\ UNCHANGED <<pre, tail>>
  \/ \E x \in Ends : tail' = x /\ UNCHANGED <<pre, digs>>

Spec == Init /\ [][Next]_vars

Str == pre \o [j \in 1..Len(digs) |-> Digit0 + digs[j]] \o tail

(* The value of the digit run, or -1 once it exceeds INT_MAX.             *)
IntMaxN == 2147483647
RefValue == FoldLeft(LAMBDA v, d : IF v < 0 \/ v > (IntMaxN - d) \div 10 THEN -1 ELSE v * 10 + d,
                     0, digs)

(* The prefix is spaces and at most one sign just before the digits.      *)
Parsed == pre \notin {<<Minus, Minus>>, <<Plus, Space>>}
Negated == Parsed /\ Len(pre) > 0 /\ pre[Len(pre)] = Minus

Expected(v) ==
  IF ~Parsed THEN W!Zero ELSE IF Negated THEN W!Sub(W!Zero, W!FromNat(v)) ELSE W!FromNat(v)

(* atoi returns the value of a string whose digits fit in an int, after    *)
(* leading spaces and one sign.                                            *)
AtoiInRange == RefValue >= 0 => Atoi(Str) = Expected(RefValue)

(* atoi saturates a value beyond INT_MAX at INT_MAX (its sign applied), as *)
(* its s < 0 test is meant to: the test misses a wrap that lands on a      *)
(* non-negative int.                                                       *)
AtoiSaturates == Atoi(Str) = Expected(IF RefValue >= 0 THEN RefValue ELSE IntMaxN)

(* The word a sequence of digits of base b denotes modulo 2^32.           *)
DigitValue(c) == IF c <= Digit9 THEN c - Digit0 ELSE c - 55
RECURSIVE ReadBack(_, _)
ReadBack(s, b) ==
  IF s = <<>> THEN W!Zero
  ELSE W!Add(W!MulSmall(ReadBack(SubSeq(s, 1, Len(s) - 1), b), b), W!FromNat(DigitValue(s[Len(s)])))

Val == ReadBack([j \in 1..Len(digs) |-> Digit0 + digs[j]], 10)

(* print_dec writes between 1 and 10 decimal digits, the first non-zero   *)
(* unless the value is 0, that read back as the value: the ten-byte buffer *)
(* is enough and the digits come out most significant first.               *)
PrintDecRoundTrip ==
  LET s == PrintDec(Val)
  IN  /\ Len(s) \in 1..10
      /\ \A j \in 1..Len(s) : IsDigit(s[j])
      /\ (s[1] = Digit0) => Len(s) = 1
      /\ ReadBack(s, 10) = Val

(* print_hex with eight digits writes every nibble of the value, most      *)
(* significant first, as the "%08x" of the drivers' debug prints asks.    *)
PrintHexRoundTrip == ReadBack(PrintHex(Val, 8), 16) = Val

=============================================================================
