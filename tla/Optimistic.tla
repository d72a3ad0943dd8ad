----------------------------- MODULE Optimistic -----------------------------
(***************************************************************************)
(* The moves the web client shows before the server has answered           *)
(* (OptimisticState in pieceHandler.js), as operators over its state       *)
(*                                                                         *)
(*   byPiece, byToken   the actions in the two maps of lists the code      *)
(*                      keeps, by piece and by the token of the request;   *)
(*                      a list is its set of actions in order of actionId  *)
(*   touching           the pairs <<square, token>> of tokensTouchingSquare*)
(*   keys               the keys of the map by piece: a key stays where it *)
(*                      was entered, with the action numbered `since',     *)
(*                      until its list is empty                            *)
(*   nextId             the actionId the next action gets                  *)
(*                                                                         *)
(* The two maps hold the same actions as long as every operation keeps     *)
(* them so; _removeActions filters one by action and the other by token.   *)
(***************************************************************************)
EXTENDS Naturals, FiniteSets, Sequences

NoOptimism ==
    [byPiece |-> {}, byToken |-> {}, touching |-> {}, keys |-> {}, nextId |-> 1]

(* An action moves a piece to `at' or captures it there.                   *)
MoveAction(actionId, token, move, couldBeACapture) ==
    [actionId |-> actionId, token |-> token, id |-> move.id, type |-> "move",
     at |-> move.to, squares |-> {move.from, move.to},
     couldBeACapture |-> couldBeACapture, captureRequired |-> FALSE]
CaptureAction(actionId, token, victim, captureRequired) ==
    [actionId |-> actionId, token |-> token, id |-> victim.id,
     type |-> "capture", at |-> victim.at, squares |-> {victim.at},
     couldBeACapture |-> FALSE, captureRequired |-> captureRequired]

TouchesOf(actions) ==
    UNION {{<<s, a.token>> : s \in a.squares} : a \in actions}

(* addActionForPieceId and addForToken, for actions numbered from nextId.  *)
WithActions(o, actions, count) ==
    LET fresh == {a \in actions : \A b \in o.byPiece : b.id # a.id}
    IN  [o EXCEPT !.byPiece = @ \cup actions, !.byToken = @ \cup actions,
                  !.keys = @ \cup {[id |-> a.id, since |-> a.actionId] : a \in fresh},
                  !.nextId = @ + count]

(* `moves' is the moved piece and, for a castling, the rook; `victims' has *)
(* at most one element.                                                    *)
addOptimisticMove(o, token, moves, victims, couldBeACapture, captureRequired) ==
    LET made == {MoveAction(o.nextId + i - 1, token, moves[i], couldBeACapture) :
                    i \in DOMAIN moves}
                \cup {CaptureAction(o.nextId + Len(moves), token, v, captureRequired) :
                    v \in victims}
        count == Len(moves) + IF victims = {} THEN 0 ELSE 1
    IN  [WithActions(o, made, count) EXCEPT !.touching = @ \cup TouchesOf(made)]

ActionsOf(o, id) == {a \in o.byPiece : a.id = id}
LastOf(actions) ==
    CHOOSE a \in actions : \A b \in actions : b.actionId <= a.actionId

(* A piece has arrived where one of ours is shown: if ours may have taken  *)
(* it there, its last move is taken to have done so.                       *)
CanSimulateCapture(o, captor) ==
    /\ ActionsOf(o, captor) # {}
    /\ LastOf(ActionsOf(o, captor)).type = "move"
addAfterTheFactSimulatedCapture(o, captor, victim) ==
    WithActions(o, {CaptureAction(o.nextId, LastOf(ActionsOf(o, captor)).token,
                                  victim, FALSE)}, 1)

Mut_FilterPiecesByAction(o, actions) ==
    LET gone == {a.actionId : a \in actions}
        tokens == {a.token : a \in actions}
        left == {a \in o.byPiece : a.actionId \notin gone}
    IN  [o EXCEPT !.byToken = {a \in @ : a.token \notin tokens},
                  !.byPiece = left,
                  !.keys = {k \in @ : \E a \in left : a.id = k.id},
                  !.touching = @ \ TouchesOf(actions)]
removeActions(o, actions) ==
    LET gone == {a.actionId : a \in actions}
        tokens == {a.token : a \in actions}
        ids == {a.id : a \in actions}
        left == {a \in o.byPiece : ~(a.id \in ids /\ a.token \in tokens)}
    IN  [o EXCEPT
            !.byToken = {a \in @ : ~(a.token \in tokens /\ a.actionId \in gone)},
            !.byPiece = left,
            !.keys = {k \in @ : \E a \in left : a.id = k.id},
            !.touching = @ \ TouchesOf(actions)]

(* What the piece is shown as: moved to `at', or captured.                 *)
Tracked(o, id) == ActionsOf(o, id) # {}
getPredictedState(o, id) == LastOf(ActionsOf(o, id))

(* Does the map by piece go through one piece before another?              *)
ComesBefore(o, first, second) ==
    \E k, l \in o.keys : k.id = first /\ l.id = second /\ k.since < l.since

(* The state the confirmed actions of a token leave each of their pieces   *)
(* in: the last of them counts.                                            *)
ActionsFor(o, token) == {a \in o.byToken : a.token = token}
Mut_LatestOfPiece(o, token) ==
    {getPredictedState(o, a.id) : a \in ActionsFor(o, token)}
GroundTruthUpdates(o, token) ==
    LET confirmed == ActionsFor(o, token)
    IN  {LastOf({b \in confirmed : b.id = a.id}) : a \in confirmed}
processConfirmation(o, token) == removeActions(o, ActionsFor(o, token))

(* The tokens that stand or fall with those of T: another action on a      *)
(* piece, or another token on a square, that one of theirs is about.       *)
Mut_OnlySamePiece(o, T) ==
    LET considered == {a \in o.byToken : a.token \in T}
    IN  T \cup {b.token : b \in {c \in o.byPiece : \E a \in considered : a.id = c.id}}
WithDependants(o, T) ==
    LET considered == {a \in o.byToken : a.token \in T}
        impacted == UNION {a.squares : a \in considered}
    IN  T \cup {b.token : b \in {c \in o.byPiece : \E a \in considered : a.id = c.id}}
          \cup {t[2] : t \in {u \in o.touching : u[1] \in impacted}}

(* All the tokens reached from T: one more step than there are actions is  *)
(* enough, since every step but the last finds a token with an action.     *)
AllDependants(o, T) ==
    LET rounds == Cardinality(o.byToken) + 1
        reached[n \in 0 .. rounds] ==
            IF n = 0 THEN T ELSE WithDependants(o, reached[n - 1])
    IN  reached[rounds]

(* The actions that go when the given tokens and pieces turn out wrong,    *)
(* and the states their pieces were shown in.                              *)
DependencySet(o, tokens, ids) ==
    {a \in o.byToken :
        a.token \in AllDependants(o, tokens \cup {b.token : b \in
                                        {c \in o.byPiece : c.id \in ids}})}
RevertedIds(o, tokens, ids) ==
    LET removed == DependencySet(o, tokens, ids)
    IN  IF removed = {} THEN {} ELSE ids \cup {a.id : a \in removed}
PreRevertVisualStates(o, tokens, ids) ==
    [id \in RevertedIds(o, tokens, ids) |-> getPredictedState(o, id)]
processRevert(o, tokens, ids) == removeActions(o, DependencySet(o, tokens, ids))

revertAll(o) ==
    processRevert(o, {a.token : a \in o.byToken}, {a.id : a \in o.byPiece})

revertSinglePieceId(o, id) == removeActions(o, ActionsOf(o, id))
=============================================================================
