----------------------------- MODULE PrintCheck -----------------------------
(***************************************************************************)
(* printf of system.c on formats of up to MaxPieces pieces.  A piece is a  *)
(* literal byte, "%%", or one conversion with its flags, width and the     *)
(* argument it consumes; the format and the argument list are the pieces   *)
(* put together.  How print renders a piece is defined from its parts,    *)
(* not from the interpreter.                                               *)
(***************************************************************************)
EXTENDS SystemLib, FiniteSets

CONSTANTS
  MaxPieces,   \* pieces in a format
  Specs,       \* conversion specifications: the bytes after '%' and what they mean
  DecArgs,     \* int arguments of %d and %u
  HexArgs      \* arguments of %x and %X, below 2^31

VARIABLE pieces

(* An int argument as the 32-bit word va_arg reads.                        *)
ToWord(i) == IF i < 0 THEN W!Sub(W!Zero, W!FromNat(-i)) ELSE W!FromNat(i)

Pieces ==
  {[fmt |-> <<c>>, args |-> <<>>, kind |-> "lit", n |-> c, sp |-> "none"] : c \in {65, 48}}
  \cup {[fmt |-> <<Percent, Percent>>, args |-> <<>>, kind |-> "pct", n |-> 0, sp |-> "none"]}
  \cup {[fmt |-> <<Percent>> \o sp.bytes, args |-> <<ToWord(n)>>, kind |-> sp.kind, n |-> n, sp |-> sp] :
          sp \in {x \in Specs : x.kind = "dec"}, n \in DecArgs}
  \cup {[fmt |-> <<Percent>> \o sp.bytes, args |-> <<W!FromNat(n)>>, kind |-> sp.kind, n |-> n, sp |-> sp] :
          sp \in {x \in Specs : x.kind = "hex"}, n \in HexArgs}
  \cup {[fmt |-> <<Percent>> \o sp.bytes, args |-> <<W!FromNat(n)>>, kind |-> "chr", n |-> n, sp |-> sp] :
          sp \in {x \in Specs : x.kind = "chr"}, n \in {65, 322}}
  \cup {[fmt |-> <<Percent>> \o sp.bytes, args |-> <<s>>, kind |-> "str", n |-> 0, sp |-> sp] :
          sp \in {x \in Specs : x.kind = "str"}, s \in {<<NUL>>, <<66, 67, NUL>>}}
  \cup {[fmt |-> <<Percent>> \o sp.bytes, args |-> <<>>, kind |-> "bad", n |-> 0, sp |-> sp] :
          sp \in {x \in Specs : x.kind = "bad"}}

Init == pieces = <<>>

Next ==
  \/ Len(pieces) < MaxPieces /\ \E p \in Pieces : pieces' = Append(pieces, p)
  \/ Len(pieces) > 0 /\ pieces' = Tail(pieces)

Spec == Init /\ [][Next]_pieces

Concat(F(_)) == FoldLeft(LAMBDA acc, p : acc \o F(p), <<>>, pieces)
Fmt  == Concat(LAMBDA p : p.fmt) \o <<NUL>>
Args == Concat(LAMBDA p : p.args)

(* Decimal and hexadecimal digits of a natural below 2^31.                *)
NumDigits(n, b) ==
  CHOOSE k \in 1..(IF b = 10 THEN 10 ELSE 8) :
    n \div b ^ (k - 1) \in (IF k = 1 THEN 0 ELSE 1)..(b - 1)
DigitsOf(n, b, k) == [j \in 1..k |-> (n \div b ^ (k - j)) % b]
Ascii(ds, alpha) == [j \in 1..Len(ds) |-> IF ds[j] < 10 THEN Digit0 + ds[j] ELSE alpha + ds[j] - 10]
StrBytes(s) == SubSeq(s, 1, Len(s) - 1)

(* How print renders a piece: decimal without padding, hex as the low      *)
(* width digits in upper case, %s and unknown conversions as written.      *)
Rendered(p) ==
  CASE p.kind = "lit" -> <<p.n>>
    [] p.kind = "pct" -> <<Percent>>
    [] p.kind = "dec" -> Ascii(DigitsOf(p.n, 10, NumDigits(p.n, 10)), 65)
    [] p.kind = "hex" -> Ascii(DigitsOf(p.n, 16, p.sp.w), 65)
    [] p.kind = "chr" -> <<p.n % 256>>
    [] p.kind = "str" -> StrBytes(p.args[1])
    [] p.kind = "bad" -> <<>>

(* print walks the format and the arguments in step: every literal byte     *)
(* and "%%" is written once, and every conversion renders the argument     *)
(* that belongs to it after its flags and width are skipped; an unknown    *)
(* conversion consumes no argument.                                        *)
PrintfFollowsFormat == Printf(Fmt, Args).out = Concat(Rendered)

=============================================================================
