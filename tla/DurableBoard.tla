---------------------------- MODULE DurableBoard ----------------------------
(***************************************************************************)
(* What the server promises about its board across restarts, without the   *)
(* second board, the queue, the tickers and the files that implement it.   *)
(* The board is the sequence of requests applied to it since the game      *)
(* began.  Now and then a prefix of it, the board at some earlier moment   *)
(* of the same run, becomes durable; a run that ends is followed by one    *)
(* that resumes from something durable, or from a new game if there is     *)
(* nothing.  Requests applied after the state resumed from are lost.       *)
(***************************************************************************)
EXTENDS Naturals, Sequences

CONSTANT Requests

VARIABLES
    board,      \* requests applied so far, oldest first
    durable,    \* set of boards that would survive the end of this run
    up          \* is a run in progress?

vars == <<board, durable, up>>

Prefixes(s) == {SubSeq(s, 1, n) : n \in 0 .. Len(s)}

Init == board = <<>> /\ durable \subseteq {<<>>} /\ up = TRUE

Apply(r) ==
    /\ up
    /\ board' = Append(board, r)
    /\ UNCHANGED <<durable, up>>

Save ==
    /\ up
    /\ \E b \in Prefixes(board) : durable' = durable \cup {b}
    /\ UNCHANGED <<board, up>>

Stop ==
    /\ up
    /\ up' = FALSE
    /\ UNCHANGED <<board, durable>>

Resume ==
    /\ ~up
    /\ up' = TRUE
    /\ IF durable = {} THEN board' = <<>> ELSE board' \in durable
    /\ durable' \in {durable, durable \cup {board'}}

Next == (\E r \in Requests : Apply(r)) \/ Save \/ Stop \/ Resume

Spec == Init /\ [][Next]_vars
=============================================================================
