------------------------------ MODULE MCBoard ------------------------------
(* Instances of Board for TLC.  Ids on a 16 x 16 board: 1-32 are the top   *)
(* left chessboard, 33-64 the one below it; within each, 1-8 white pawns,  *)
(* 9-16 white's back rank, 17-24 black pawns, 25-32 black's back rank.     *)
EXTENDS ClientRules

\* A white and a black pawn that can meet en passant, the black king on the
\* white pawn's way, and a black pawn of the last row of chessboards.
PawnPieces == {5, 20, 29, 49}

\* White's king, both rooks, a knight and a bishop, a black bishop, and the
\* black rook that faces the queenside one across the border of the boards.
BackRankPieces == {9, 10, 11, 13, 16, 30, 57}

\* White's king and kingside rook, one file from the next chessboard.
EdgePieces == {13, 16}
=============================================================================
