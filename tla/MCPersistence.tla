--------------------------- MODULE MCPersistence ---------------------------
(* A piece that goes out and comes back, and an adoption of a board it     *)
(* stands on only when it is at home: which requests are valid depends on  *)
(* every request applied before.                                           *)
EXTENDS Persistence, FiniteSets

MCMoves == {"out", "back"}
MCAdminRequests == {"adopt"}

Outs(board) == Cardinality({i \in DOMAIN board : board[i] = "out"})
Backs(board) == Cardinality({i \in DOMAIN board : board[i] = "back"})

MCAccepts(board, r) == (r = "back") <=> (Outs(board) > Backs(board))
=============================================================================
