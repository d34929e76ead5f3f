------------------------------- MODULE Sudoku -------------------------------
(***************************************************************************)
(* The Sudoku demo (firmware/demos/sudoku/src/main.c): solve_sudoku, the   *)
(* recursive backtracking search over the global board, run by main.       *)
(*                                                                         *)
(* The recursion is an explicit stack of frames, one per active call of    *)
(* solve_sudoku(row, col); a frame's num is the loop variable of its for   *)
(* loop.  Each action is one step of the calls: entering a call, trying    *)
(* one num, returning.  The board has N rows of N cells in boxes of        *)
(* Box x Box; the code fixes N = 9 and Box = 3.                            *)
(***************************************************************************)
EXTENDS Integers, Sequences, FiniteSets, TLC

CONSTANTS
  N,        \* the side of the board
  Box,      \* the side of a box
  Boards    \* the boards main may start from

Idx == 0..(N - 1)

VARIABLES
  board,    \* board[row][col], 0 for an empty cell
  stack,    \* the frames of the active calls, the innermost last
  pc,       \* "call": the top frame was just entered; "loop": its for loop
            \* runs; "ret": a call returned ret; "done": main's while(1)
  ret,      \* the value the last call returned
  given     \* the board main started from (history)

vars == <<board, stack, pc, ret, given>>

(* A frame that has not reached its loop has num -1; a frame whose cell   *)
(* was given forwards the result of the call it made and has num 0.       *)
Frame(r, c) == [row |-> r, col |-> c, num |-> -1]

(* The call solve_sudoku makes after (row, col).                          *)
NextFrame(f) == IF f.col = N - 1 THEN Frame(f.row + 1, 0) ELSE Frame(f.row, f.col + 1)

Top == stack[Len(stack)]
SetTop(f) == [stack EXCEPT ![Len(stack)] = f]
Pop == SubSeq(stack, 1, Len(stack) - 1)

is_row_valid(b, row, num) == \A col \in Idx : b[row][col] # num
is_col_valid(b, col, num) == \A row \in Idx : b[row][col] # num
is_box_valid(b, r0, c0, num) == \A i, j \in 0..(Box - 1) : b[r0 + i][c0 + j] # num

(* Mutant: the box is not checked.                                        *)
is_valid_no_box(b, row, col, num) == is_row_valid(b, row, num) /\ is_col_valid(b, col, num)

is_valid(b, row, col, num) ==
  /\ is_row_valid(b, row, num)
  /\ is_col_valid(b, col, num)
  /\ is_box_valid(b, row - (row % Box), col - (col % Box), num)

Init ==
  /\ board \in Boards
  /\ given = board
  /\ stack = <<Frame(0, 0)>>
  /\ pc = "call"
  /\ ret = FALSE

(* solve_sudoku entered: row = N returns true; a given cell calls on to   *)
(* the next cell; an empty cell starts its loop at num = 1.               *)
Enter ==
  /\ pc = "call"
  /\ \/ /\ Top.row = N
        /\ stack' = Pop /\ ret' = TRUE /\ pc' = "ret"
        /\ UNCHANGED board
     \/ /\ Top.row < N /\ board[Top.row][Top.col] # 0
        /\ stack' = Append(SetTop([Top EXCEPT !.num = 0]), NextFrame(Top))
        /\ UNCHANGED <<board, pc, ret>>
     \/ /\ Top.row < N /\ board[Top.row][Top.col] = 0
        /\ stack' = SetTop([Top EXCEPT !.num = 1]) /\ pc' = "loop"
        /\ UNCHANGED <<board, ret>>

(* Mutant: for (num = 1; num < N; num++).                                *)
TryNumBelowN ==
  /\ pc = "loop" /\ Top.num <= N
  /\ IF Top.num < N /\ is_valid(board, Top.row, Top.col, Top.num)
     THEN /\ board' = [board EXCEPT ![Top.row][Top.col] = Top.num]
          /\ stack' = Append(stack, NextFrame(Top))
          /\ pc' = "call"
     ELSE /\ stack' = SetTop([Top EXCEPT !.num = @ + 1])
          /\ UNCHANGED <<board, pc>>
  /\ UNCHANGED ret

(* One iteration of the for loop: a valid num is written and the next     *)
(* cell is called; an invalid one is skipped.                             *)
TryNum ==
  /\ pc = "loop" /\ Top.num <= N
  /\ IF is_valid(board, Top.row, Top.col, Top.num)
     THEN /\ board' = [board EXCEPT ![Top.row][Top.col] = Top.num]
          /\ stack' = Append(stack, NextFrame(Top))
          /\ pc' = "call"
     ELSE /\ stack' = SetTop([Top EXCEPT !.num = @ + 1])
          /\ UNCHANGED <<board, pc>>
  /\ UNCHANGED ret

(* The loop ran out of numbers: return false.                              *)
Exhaust ==
  /\ pc = "loop" /\ Top.num > N
  /\ stack' = Pop /\ ret' = FALSE /\ pc' = "ret"
  /\ UNCHANGED board

(* Mutant: the cell is not cleared when the call below fails.             *)
ReturnNoClear ==
  /\ pc = "ret" /\ stack # <<>>
  /\ IF Top.num = 0 \/ ret
     THEN stack' = Pop /\ UNCHANGED <<board, pc>>
     ELSE /\ stack' = SetTop([Top EXCEPT !.num = @ + 1])
          /\ pc' = "loop"
          /\ UNCHANGED board
  /\ UNCHANGED ret

(* Mutant: the loop retries the num that failed.                          *)
ReturnNoNext ==
  /\ pc = "ret" /\ stack # <<>>
  /\ IF Top.num = 0 \/ ret
     THEN stack' = Pop /\ UNCHANGED <<board, pc>>
     ELSE /\ board' = [board EXCEPT ![Top.row][Top.col] = 0]
          /\ pc' = "loop"
          /\ UNCHANGED stack
  /\ UNCHANGED ret

(* A call returned into the frame below it: a given cell's frame and a     *)
(* true result return at once; a false result clears the cell and the     *)
(* loop goes on with the next num.                                         *)
Return ==
  /\ pc = "ret" /\ stack # <<>>
  /\ IF Top.num = 0 \/ ret
     THEN stack' = Pop /\ UNCHANGED <<board, pc>>
     ELSE /\ board' = [board EXCEPT ![Top.row][Top.col] = 0]
          /\ stack' = SetTop([Top EXCEPT !.num = @ + 1])
          /\ pc' = "loop"
  /\ UNCHANGED ret

(* solve_sudoku(0, 0) returned to main, which prints and spins.           *)
Finish ==
  /\ pc = "ret" /\ stack = <<>>
  /\ pc' = "done"
  /\ UNCHANGED <<board, stack, ret>>

Spin == pc = "done" /\ UNCHANGED <<board, stack, pc, ret>>

Next == (Enter \/ TryNum \/ Exhaust \/ Return \/ Finish \/ Spin) /\ UNCHANGED given

Spec == Init /\ [][Next]_vars /\ WF_vars(Next)

----------------------------------------------------------------------------
(* What a solution is.                                                     *)

Cells == Idx \X Idx

(* The rows, columns and boxes, as sets of cells.                         *)
Units ==
  {{<<r, c>> : c \in Idx} : r \in Idx} \cup {{<<r, c>> : r \in Idx} : c \in Idx}
  \cup {{<<r0 + i, c0 + j>> : i, j \in 0..(Box - 1)} : r0, c0 \in {k * Box : k \in 0..(N \div Box - 1)}}

(* No two filled cells of a row, column or box hold the same number.      *)
Consistent(b) ==
  \A u \in Units : \A x, y \in u : x # y /\ b[x[1]][x[2]] # 0 => b[x[1]][x[2]] # b[y[1]][y[2]]

(* b fills every cell of b0, keeps its givens and is consistent.           *)
Completes(b, b0) ==
  /\ \A x \in Cells : b[x[1]][x[2]] # 0 /\ (b0[x[1]][x[2]] # 0 => b[x[1]][x[2]] = b0[x[1]][x[2]])
  /\ Consistent(b)

(* Filled cells of the board that were empty in given.                   *)
Filled(x) == given[x[1]][x[2]] = 0 /\ board[x[1]][x[2]] # 0

(* Every cell the search has filled is the cell of an active call whose    *)
(* loop is at the number it holds, until a call has returned true; and     *)
(* what the search writes never contradicts the board, when the givens    *)
(* do not: a cell is cleared when the call after it fails, and is_valid    *)
(* checks row, column and box.                                             *)
SearchMatchesStack ==
  /\ ~(pc \in {"ret", "done"} /\ ret) =>
       \A x \in Cells : Filled(x) <=>
         \E i \in 1..Len(stack) : stack[i].row = x[1] /\ stack[i].col = x[2]
                                  /\ stack[i].num = board[x[1]][x[2]]
  /\ Consistent(given) => Consistent(board)

(* When solve_sudoku(0, 0) returns true, main prints a completion of the   *)
(* board it started from.                                                  *)
SolvedIsCompletion == pc = "done" /\ ret /\ Consistent(given) => Completes(board, given)

(* When solve_sudoku(0, 0) returns false ("No solution."), the board has   *)
(* no completion: the search tries every number in every empty cell.  A    *)
(* completion keeps the givens, so it fills each blank with a number no    *)
(* given of the blank's row, column or box holds: only those are tried.    *)
Blanks == {x \in Cells : given[x[1]][x[2]] = 0}
Open(x) == {v \in 1..N : \A u \in Units : x \in u => \A y \in u : given[y[1]][y[2]] # v}
RECURSIVE Fills(_)
Fills(S) == IF S = {} THEN {[x \in {} |-> 0]}
            ELSE LET x == CHOOSE x \in S : TRUE
                 IN  {f @@ (x :> v) : f \in Fills(S \ {x}), v \in Open(x)}
Fill(v) == [r \in Idx |-> [c \in Idx |-> IF <<r, c>> \in Blanks THEN v[<<r, c>>] ELSE given[r][c]]]
UnsolvedMeansNone ==
  pc = "done" /\ ~ret => \A v \in Fills(Blanks) : ~Completes(Fill(v), given)

(* solve_sudoku(0, 0) returns to main: the search terminates.              *)
Termination == <>(pc = "done")

=============================================================================
