---------------------------- MODULE MC_Algorithms ---------------------------
(***************************************************************************)
(* One harness for the sequential algorithms of the firmware: the operator *)
(* checks of system.c and the Sudoku demo's search.  The state belongs   *)
(* to one family (a small memory; the parts of a number string; a printf format and its          *)
(* arguments; a board and the search's call stack), and a step stays      *)
(* within its family.  The families are explored side by side, so the     *)
(* states add up instead of multiplying.                                  *)
(***************************************************************************)
EXTENDS Naturals

CONSTANTS Alphabet, MaxCount, Bases, Extra, MaxPieces, DecArgs, HexArgs, N, Box

VARIABLES family, src, pre, digs, tail, pieces, board, stack, pc, ret, given

SC == INSTANCE StringsCheck
CC == INSTANCE ConvCheck

Spec_(bs, kd, w, l, z, u) == [bytes |-> bs, kind |-> kd, w |-> w, left |-> l, zero |-> z, upper |-> u]

(* %d, %u, %-5d, %08x, %2X, %c, %s and the unknown %q ('-' is 45, '0' 48). *)
MCSpecs ==
  {Spec_(<<100>>, "dec", 0, FALSE, FALSE, FALSE), Spec_(<<117>>, "dec", 0, FALSE, FALSE, FALSE),
   Spec_(<<45, 53, 100>>, "dec", 5, TRUE, FALSE, FALSE),
   Spec_(<<48, 56, 120>>, "hex", 8, FALSE, TRUE, FALSE),
   Spec_(<<50, 88>>, "hex", 2, FALSE, FALSE, TRUE),
   Spec_(<<99>>, "chr", 0, FALSE, FALSE, FALSE), Spec_(<<115>>, "str", 0, FALSE, FALSE, FALSE),
   Spec_(<<113>>, "bad", 0, FALSE, FALSE, FALSE)}

PC == INSTANCE PrintCheck WITH Specs <- MCSpecs

(* main.c's board and the boards derived from its solution (MC_Sudoku).    *)
SB == INSTANCE MC_Sudoku WITH Boards <- {}
SU == INSTANCE Sudoku WITH Boards <- SB!MCBoards

memVars == <<src>>
convVars == <<pre, digs, tail>>
printVars == <<pieces>>
sudokuVars == <<board, stack, pc, ret, given>>
allVars == <<family, src, pre, digs, tail, pieces, board, stack, pc, ret, given>>

MemRest == src = [i \in 1..6 |-> 0]
ConvRest == pre = <<>> /\ digs = <<>> /\ tail = <<0>>
PrintRest == pieces = <<>>
SudokuRest == board = <<>> /\ stack = <<>> /\ pc = "done" /\ ret = FALSE /\ given = <<>>

(* The inputs of the other families stay at one fixed value.               *)
Init ==
  \/ family = "mem" /\ SC!Init /\ ConvRest /\ PrintRest /\ SudokuRest
  \/ family = "conv" /\ CC!Init /\ MemRest /\ PrintRest /\ SudokuRest
  \/ family = "print" /\ PC!Init /\ MemRest /\ ConvRest /\ SudokuRest
  \/ family = "sudoku" /\ SU!Init /\ MemRest /\ ConvRest /\ PrintRest

(* A step of the search, the other families' inputs unchanged.  In the    *)
(* other families pc is "done", where the search only stutters.           *)
SudokuStep == SU!Next /\ UNCHANGED <<family, memVars, convVars, printVars>>

Next ==
  /\ UNCHANGED family
  /\ \/ family = "mem" /\ SC!Next /\ UNCHANGED <<convVars, printVars, sudokuVars>>
     \/ family = "conv" /\ CC!Next /\ UNCHANGED <<memVars, printVars, sudokuVars>>
     \/ family = "print" /\ PC!Next /\ UNCHANGED <<memVars, convVars, sudokuVars>>
     \/ family = "sudoku" /\ SudokuStep

(* main runs the search alone on the CPU: its steps are weakly fair.       *)
Spec == Init /\ [][Next]_allVars /\ WF_allVars(SudokuStep)

(* The properties of the four checks, each on its own family; the          *)
(* comments at their definitions in StringsCheck, ConvCheck, PrintCheck   *)
(* and Sudoku state them and the code they are about.                     *)

(* strcmp's word loop orders strings as their bytes do.                    *)
StrCmpMatchesBytes == family = "mem" => SC!StrCmpMatchesBytes
(* strcpy writes the string and its terminator and nothing else.           *)
StrCpyCopiesString == family = "mem" => SC!StrCpyCopiesString
(* memmove copies correctly for every overlap.                             *)
MemMoveMatchesSnapshot == family = "mem" => SC!MemMoveMatchesSnapshot
(* memcmp orders n-byte buffers lexicographically.                         *)
MemCmpOrdersBuffers == family = "mem" => SC!MemCmpOrdersBuffers
(* strncmp orders the strings cut at n bytes.                              *)
StrNCmpOrdersPrefixes == family = "mem" => SC!StrNCmpOrdersPrefixes

(* atoi returns the value of every input whose digits fit in an int.       *)
AtoiInRange == family = "conv" => CC!AtoiInRange
(* print_dec writes the shortest decimal digits that read back as the word. *)
PrintDecRoundTrip == family = "conv" => CC!PrintDecRoundTrip
(* print_hex with 8 digits reads back as the word.                         *)
PrintHexRoundTrip == family = "conv" => CC!PrintHexRoundTrip

(* print writes every literal byte and "%%" once and renders every        *)
(* conversion's own argument after its flags and width.                   *)
PrintfFollowsFormat == family = "print" => PC!PrintfFollowsFormat

(* Every cell solve_sudoku has filled belongs to an active call whose loop *)
(* is at the number the cell holds, and is_valid never lets it contradict *)
(* the board.                                                              *)
SearchMatchesStack == family = "sudoku" => SU!SearchMatchesStack
(* A true result leaves a valid completion of the given board.            *)
SolvedIsCompletion == family = "sudoku" => SU!SolvedIsCompletion
(* A false result means the given board has no completion.                *)
UnsolvedMeansNone == family = "sudoku" => SU!UnsolvedMeansNone
(* The search of main always ends in main's final while(1) (the other     *)
(* families sit at pc = "done" from the start).                           *)
Termination == SU!Termination

=============================================================================
