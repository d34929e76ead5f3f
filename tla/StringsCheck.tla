---------------------------- MODULE StringsCheck ----------------------------
(***************************************************************************)
(* The string and memory routines of system.c (strcmp, strcpy, memmove,   *)
(* memcmp, strncmp) against definitions by sequences, for every content of *)
(* a small memory and every address, alignment and count in range.         *)
(*                                                                         *)
(* The memory holds six bytes of Alphabet at 0..5, terminators at 6 and 7  *)
(* (so every string ends inside the words the word loops read) and a       *)
(* destination area at 8..23 whose old contents are 0xFF.                  *)
(***************************************************************************)
EXTENDS SystemLib, FiniteSets

CONSTANTS
  Alphabet,   \* the bytes the memory may hold
  MaxCount    \* the largest count passed to memmove, memcmp and strncmp

VARIABLE src

Mem == [a \in 0..23 |-> IF a < 6 THEN src[a + 1] ELSE IF a < 8 THEN NUL ELSE 255]

Init == src \in [1..6 -> Alphabet]

Next == \E i \in 1..6, c \in Alphabet : c # src[i] /\ src' = [src EXCEPT ![i] = c]

Spec == Init /\ [][Next]_src

(* Reference definitions: the n bytes at a; the string at a, terminator    *)
(* included; at most n bytes of it; lexicographic order of sequences.      *)
Bytes(a, n) == [j \in 1..n |-> Mem[a + j - 1]]
FirstNul(a, n) == LET Z == {j \in 0..(n - 1) : Mem[a + j] = NUL}
                  IN  IF Z = {} THEN n ELSE CHOOSE j \in Z : \A k \in Z : j <= k
RefStr(a) == Bytes(a, FirstNul(a, 8) + 1)
StrPrefix(a, n) == Bytes(a, IF FirstNul(a, n) = n THEN n ELSE FirstNul(a, n) + 1)
Sign(x) == IF x < 0 THEN -1 ELSE IF x > 0 THEN 1 ELSE 0
RefCmp(x, y) ==
  LET D == {j \in 1..Len(x) : j <= Len(y) /\ x[j] # y[j]}
  IN  IF D = {} THEN Sign(Len(x) - Len(y))
      ELSE LET j == CHOOSE j \in D : \A k \in D : j <= k
           IN  Sign(x[j] - y[j])

(* A string at 0..3 and one at 4..7 cover every alignment of the pair.     *)
Firsts == 0..3
Seconds == 4..7
Dsts == 12..15

(* strcmp orders two strings as their first differing bytes do, whatever   *)
(* their alignment: the word loop reads past a terminator into other      *)
(* bytes, and the zero-byte test decides when equal words end a string.   *)
StrCmpMatchesBytes ==
  \A s1 \in Firsts, s2 \in Seconds :
    /\ StrCmp(Mem, s1, s2) = RefCmp(RefStr(s1), RefStr(s2))
    /\ StrCmp(Mem, s2, s1) = RefCmp(RefStr(s2), RefStr(s1))

(* strcpy writes the source string and its terminator at dst and nothing   *)
(* else: the word stores stop before the word holding the terminator.     *)
StrCpyCopiesString ==
  \A s \in Firsts, dst \in Dsts :
    LET n == FirstNul(s, 8)
    IN  StrCpy(Mem, dst, s) =
          [a \in DOMAIN Mem |-> IF a >= dst /\ a <= dst + n THEN Mem[s + a - dst] ELSE Mem[a]]

(* Address pairs and counts whose bytes lie in 0..5.                       *)
Args == {r \in [d : 0..5, s : 0..5, n : 0..MaxCount] : r.d + r.n <= 6 /\ r.s + r.n <= 6}

(* memmove leaves at d what the n bytes at s held before the call, for    *)
(* any overlap: it picks the copy direction from the order of s and d.    *)
MemMoveMatchesSnapshot ==
  \A r \in Args :
    MemMove(Mem, r.d, r.s, r.n) =
      [a \in DOMAIN Mem |-> IF a >= r.d /\ a < r.d + r.n THEN Mem[r.s + a - r.d] ELSE Mem[a]]

(* memcmp's sign orders the two n-byte buffers lexicographically: the      *)
(* pre-decrement stops the loop on the last byte, which it still compares. *)
MemCmpOrdersBuffers ==
  \A r \in Args : Sign(MemCmp(Mem, r.d, r.s, r.n)) = RefCmp(Bytes(r.d, r.n), Bytes(r.s, r.n))

(* strncmp orders the strings at d and s cut at n bytes: bytes after a      *)
(* terminator the two strings share are not compared.                      *)
StrNCmpOrdersPrefixes ==
  \A r \in Args : StrNCmp(Mem, r.d, r.s, r.n) = RefCmp(StrPrefix(r.d, r.n), StrPrefix(r.s, r.n))

=============================================================================
