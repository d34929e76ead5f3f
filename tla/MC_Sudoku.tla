------------------------------ MODULE MC_Sudoku ------------------------------
EXTENDS Sudoku

(* A board given as rows.                                                  *)
ToBoard(rows) == [r \in Idx |-> [c \in Idx |-> rows[r + 1][c + 1]]]

(* The board of main.c.                                                    *)
BoardOfMain ==
  <<<<1, 0, 8, 6, 0, 0, 0, 0, 7>>,
    <<0, 0, 0, 5, 8, 4, 0, 0, 0>>,
    <<3, 0, 5, 1, 0, 0, 0, 0, 0>>,
    <<6, 2, 1, 0, 0, 0, 0, 7, 0>>,
    <<0, 7, 0, 0, 5, 0, 0, 6, 0>>,
    <<0, 5, 0, 0, 0, 0, 9, 8, 1>>,
    <<0, 0, 0, 0, 0, 8, 7, 0, 6>>,
    <<0, 0, 0, 7, 1, 5, 0, 0, 0>>,
    <<7, 0, 0, 0, 0, 3, 8, 0, 5>>>>

(* Boards built from the solution of main.c's board: four with three to   *)
(* five cells emptied; two with four cells emptied at the corners of a    *)
(* rectangle across boxes, where a search that checked only rows and      *)
(* columns would fill the rectangle the wrong way round; three with a few  *)
(* cells emptied and one given changed to a value its row, column and box  *)
(* do not hold, which leaves no completion.                               *)
Variants ==
  {
    <<<<1, 9, 8, 6, 3, 2, 4, 5, 7>>,
      <<2, 6, 7, 5, 8, 4, 1, 3, 9>>,
      <<3, 4, 5, 1, 9, 7, 6, 2, 8>>,
      <<6, 2, 1, 8, 4, 9, 5, 7, 3>>,
      <<8, 7, 9, 3, 5, 1, 2, 6, 4>>,
      <<4, 5, 3, 2, 7, 6, 9, 8, 1>>,
      <<5, 3, 4, 0, 2, 0, 7, 1, 6>>,
      <<9, 8, 0, 7, 1, 5, 3, 4, 0>>,
      <<7, 1, 2, 4, 6, 3, 8, 9, 5>>>>,
    <<<<1, 9, 8, 6, 3, 2, 4, 5, 7>>,
      <<2, 6, 7, 5, 8, 4, 1, 3, 9>>,
      <<3, 4, 5, 1, 9, 0, 0, 2, 8>>,
      <<6, 2, 1, 8, 4, 9, 5, 7, 3>>,
      <<8, 7, 9, 3, 5, 1, 2, 6, 4>>,
      <<4, 5, 3, 2, 7, 6, 9, 8, 1>>,
      <<5, 3, 4, 9, 2, 8, 0, 1, 6>>,
      <<9, 8, 0, 7, 1, 5, 3, 4, 2>>,
      <<7, 1, 2, 4, 6, 3, 8, 9, 0>>>>,
    <<<<1, 9, 8, 6, 3, 2, 4, 5, 7>>,
      <<2, 6, 7, 0, 8, 4, 1, 3, 9>>,
      <<0, 4, 5, 1, 9, 0, 6, 2, 8>>,
      <<6, 2, 1, 8, 4, 9, 5, 7, 3>>,
      <<8, 7, 0, 3, 5, 1, 2, 6, 4>>,
      <<4, 5, 3, 2, 7, 6, 9, 8, 1>>,
      <<5, 3, 4, 0, 2, 8, 7, 1, 6>>,
      <<9, 8, 6, 7, 1, 5, 3, 4, 2>>,
      <<7, 1, 2, 4, 6, 3, 8, 9, 5>>>>,
    <<<<1, 9, 8, 6, 3, 0, 4, 5, 7>>,
      <<2, 6, 7, 5, 8, 4, 1, 3, 9>>,
      <<3, 4, 5, 1, 9, 7, 6, 2, 8>>,
      <<6, 2, 1, 8, 4, 9, 5, 7, 3>>,
      <<8, 7, 9, 3, 5, 1, 2, 6, 4>>,
      <<4, 5, 3, 2, 7, 6, 9, 8, 1>>,
      <<5, 3, 4, 9, 2, 8, 7, 1, 6>>,
      <<9, 8, 6, 7, 1, 0, 3, 4, 2>>,
      <<7, 1, 2, 4, 0, 3, 8, 9, 5>>>>,
    <<<<1, 0, 8, 6, 3, 0, 4, 5, 7>>,
      <<2, 6, 7, 5, 8, 4, 1, 3, 9>>,
      <<3, 4, 5, 1, 9, 7, 6, 2, 8>>,
      <<6, 0, 1, 8, 4, 0, 5, 7, 3>>,
      <<8, 7, 9, 3, 5, 1, 2, 6, 4>>,
      <<4, 5, 3, 2, 7, 6, 9, 8, 1>>,
      <<5, 3, 4, 9, 2, 8, 7, 1, 6>>,
      <<9, 8, 6, 7, 1, 5, 3, 4, 2>>,
      <<7, 1, 2, 4, 6, 3, 8, 9, 5>>>>,
    <<<<1, 9, 8, 6, 3, 2, 4, 5, 7>>,
      <<2, 6, 7, 5, 8, 4, 1, 3, 9>>,
      <<3, 4, 5, 1, 9, 7, 6, 2, 8>>,
      <<6, 2, 1, 8, 4, 9, 5, 7, 3>>,
      <<8, 7, 9, 3, 5, 1, 2, 6, 4>>,
      <<4, 0, 3, 2, 7, 6, 9, 8, 0>>,
      <<5, 3, 4, 9, 2, 8, 7, 1, 6>>,
      <<9, 8, 6, 7, 1, 5, 3, 4, 2>>,
      <<7, 0, 2, 4, 6, 3, 8, 9, 0>>>>,
    <<<<1, 9, 8, 6, 3, 2, 4, 5, 7>>,
      <<2, 6, 7, 5, 8, 4, 1, 3, 9>>,
      <<3, 4, 5, 1, 9, 7, 6, 2, 8>>,
      <<6, 2, 1, 8, 4, 9, 5, 7, 3>>,
      <<9, 7, 0, 3, 5, 1, 2, 6, 4>>,
      <<4, 5, 3, 2, 7, 6, 9, 8, 1>>,
      <<5, 3, 4, 9, 2, 8, 7, 1, 6>>,
      <<0, 8, 6, 7, 1, 5, 3, 4, 2>>,
      <<7, 1, 2, 4, 6, 3, 8, 9, 5>>>>,
    <<<<1, 9, 8, 6, 3, 2, 4, 5, 7>>,
      <<2, 6, 0, 5, 8, 4, 1, 3, 9>>,
      <<3, 4, 5, 1, 9, 7, 6, 2, 8>>,
      <<6, 2, 1, 8, 4, 9, 5, 7, 3>>,
      <<8, 7, 9, 3, 5, 1, 2, 6, 4>>,
      <<4, 5, 3, 2, 7, 6, 9, 8, 1>>,
      <<5, 3, 4, 9, 2, 8, 7, 1, 6>>,
      <<9, 8, 6, 7, 1, 5, 3, 4, 0>>,
      <<7, 1, 0, 4, 6, 3, 8, 9, 2>>>>,
    <<<<1, 9, 8, 6, 3, 2, 0, 5, 7>>,
      <<2, 6, 0, 5, 8, 4, 1, 3, 9>>,
      <<3, 0, 5, 1, 9, 7, 4, 2, 8>>,
      <<6, 2, 1, 8, 4, 9, 5, 7, 3>>,
      <<8, 7, 9, 3, 5, 1, 2, 6, 4>>,
      <<4, 5, 3, 2, 7, 6, 9, 8, 1>>,
      <<5, 3, 4, 9, 2, 8, 7, 1, 6>>,
      <<9, 8, 6, 7, 1, 5, 3, 4, 2>>,
      <<7, 1, 2, 4, 6, 3, 8, 9, 5>>>>}

MCBoards == {ToBoard(b) : b \in {BoardOfMain} \cup Variants}

=============================================================================
