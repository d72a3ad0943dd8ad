--------------------------- MODULE OptimisticState ---------------------------
(***************************************************************************)
(* OptimisticState on its own: any sequence of calls of its methods, with  *)
(* any pieces and squares, in whatever order messages and clicks bring     *)
(* them.  PieceHandler calls them in fewer ways; what holds here holds     *)
(* there.                                                                  *)
(***************************************************************************)
EXTENDS Optimistic

CONSTANTS
    Ids,            \* pieces
    BoardSquares,   \* squares
    MaxToken,       \* bound: requests a client makes
    MaxActionId     \* bound: no action is added from this id on

VARIABLES
    optimistic,     \* the state of OptimisticState
    moveToken       \* PieceHandler.moveToken: the last token handed out

optimisticVars == <<optimistic, moveToken>>

Moves == {m \in [id : Ids, from : BoardSquares, to : BoardSquares] : m.from # m.to}
Victims == [id : Ids, at : BoardSquares]

ASSUME OptimisticAssumption == MaxToken \in Nat /\ MaxActionId \in Nat

Init == optimistic = NoOptimism /\ moveToken = 1

(* A move of one piece, or of two, with or without a capture.              *)
FreshToken == moveToken + 1

AddOptimisticMove(moves, victims, couldBeACapture, captureRequired) ==
    /\ FreshToken <= MaxToken /\ optimistic.nextId < MaxActionId
    /\ moveToken' = FreshToken
    /\ optimistic' = addOptimisticMove(optimistic, FreshToken, moves, victims,
                                       couldBeACapture, captureRequired)

AddAfterTheFactSimulatedCapture(captor, victim) ==
    /\ optimistic.nextId < MaxActionId
    /\ CanSimulateCapture(optimistic, captor)
    /\ optimistic' = addAfterTheFactSimulatedCapture(optimistic, captor, victim)
    /\ UNCHANGED moveToken

ProcessConfirmation(token) ==
    /\ optimistic' = processConfirmation(optimistic, token)
    /\ UNCHANGED moveToken

ProcessRevert(tokens, ids) ==
    /\ optimistic' = processRevert(optimistic, tokens, ids)
    /\ UNCHANGED moveToken

RevertAll ==
    /\ optimistic' = revertAll(optimistic)
    /\ UNCHANGED moveToken

RevertSinglePieceId(id) ==
    /\ optimistic' = revertSinglePieceId(optimistic, id)
    /\ UNCHANGED moveToken

(* Pieces on a board of their own stand on different squares, so the two   *)
(* moves of a castling are of different pieces.                            *)
Next ==
    \/ \E m \in Moves, victims \in {{}} \cup {{v} : v \in Victims},
          could, required \in BOOLEAN :
         AddOptimisticMove(<<m>>, victims, could, required)
    \/ \E m, rook \in Moves :
         m.id # rook.id /\ AddOptimisticMove(<<m, rook>>, {}, FALSE, FALSE)
    \/ \E captor \in Ids, victim \in Victims :
         AddAfterTheFactSimulatedCapture(captor, victim)
    \/ \E token \in 1 .. MaxToken : ProcessConfirmation(token)
    \/ \E token \in 1 .. MaxToken : ProcessRevert({token}, {})
    \/ \E id \in Ids : ProcessRevert({}, {id})
    \/ RevertAll
    \/ \E id \in Ids : RevertSinglePieceId(id)

Spec == Init /\ [][Next]_optimisticVars

----------------------------------------------------------------------------
(* Properties *)

(* Every action has a token that was handed out, and an id no later action *)
(* gets.                                                                   *)
ActionsAreNumbered ==
    /\ optimistic.nextId \in Nat /\ moveToken \in Nat
    /\ \A a \in optimistic.byToken :
          /\ a.actionId \in Nat /\ a.actionId < optimistic.nextId
          /\ a.token \in Nat /\ a.token <= moveToken

(* The two maps hold the same actions after any calls, although            *)
(* _removeActions cuts one by action and the other by token: otherwise a   *)
(* piece would be shown moved by a request that nothing can revert any     *)
(* more, or a rejection would miss one of its pieces.                      *)
IndexesAgree == optimistic.byPiece = optimistic.byToken

(* No two actions have one id: cutting the list of a token by action ids   *)
(* removes what it was asked to and nothing else.                          *)
ActionIdsAreUnique ==
    \A a, b \in optimistic.byToken : a.actionId = b.actionId => a = b

(* A token that still touches a square still has an action about it, so a  *)
(* rejection never drags in a square that nothing is pending on.           *)
TouchesAreOfActions ==
    optimistic.touching \subseteq TouchesOf(optimistic.byToken)

(* What is taken back takes along all that was built on it, through any    *)
(* number of requests (_calculateDependencySet): no action that a revert   *)
(* leaves is about the piece of one that went, or of the same request, or  *)
(* of one that touches its square.  A move out of a square that was never  *)
(* left, or onto one never reached, would stay on the screen.              *)
Reverts ==
    \/ \E token \in 1 .. MaxToken : ProcessRevert({token}, {})
    \/ \E id \in Ids : ProcessRevert({}, {id})
RestsOn(o, a, b) ==
    a.id = b.id \/ a.token = b.token \/ \E s \in b.squares : <<s, a.token>> \in o.touching

RevertsAreComplete ==
    [][Reverts =>
         \A gone \in optimistic.byToken \ optimistic'.byToken,
            left \in optimistic'.byToken : ~RestsOn(optimistic, left, gone)]_optimisticVars
=============================================================================
