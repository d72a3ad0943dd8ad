-------------------------- MODULE OptimisticProofs --------------------------
(***************************************************************************)
(* Proofs about OptimisticState: for any pieces, squares and bounds, the   *)
(* two maps of the optimistic moves hold the same actions whatever calls   *)
(* are made.  The code cuts one map by action and the other by piece and   *)
(* token; that this is the same cut needs what each operation passes to it *)
(* (all the actions of some tokens, or all those of some piece) and that   *)
(* no action id is ever given twice.                                       *)
(***************************************************************************)
EXTENDS OptimisticState, OptimisticLemmas

Actions ==
    [actionId : Nat, token : Nat, id : Ids, type : {"move", "capture"},
     at : BoardSquares, squares : SUBSET BoardSquares,
     couldBeACapture : BOOLEAN, captureRequired : BOOLEAN]

States ==
    [byPiece : SUBSET Actions, byToken : SUBSET Actions,
     touching : SUBSET (BoardSquares \X Nat), keys : SUBSET [id : Ids, since : Nat],
     nextId : Nat]

TypeOK == optimistic \in States /\ moveToken \in Nat

(* The inductive invariant: types, and everything below.                   *)
IInv ==
    /\ TypeOK
    /\ ActionsAreNumbered
    /\ ActionIdsAreUnique
    /\ IndexesAgree
    /\ TouchesAreOfActions

----------------------------------------------------------------------------
(* The lemmas about the operators hold of a state of these types.          *)
LEMMA StateIsSound ==
    ASSUME IInv
    PROVE  Sound(optimistic)
<1>1. optimistic \in States /\ IndexesAgree /\ ActionsAreNumbered /\ ActionIdsAreUnique
  BY DEF IInv, TypeOK
<1>2. IsOptimism(optimistic)
  BY <1>1 DEF States, IsOptimism
<1> QED
  BY <1>1, <1>2 DEF Sound, IndexesAgree, ActionsAreNumbered, ActionIdsAreUnique

LEMMA RemovalIsTyped ==
    ASSUME optimistic \in States, NEW A
    PROVE  removeActions(optimistic, A) \in States
<1> DEFINE kept == {a \in optimistic.byToken :
                      ~(a.token \in {x.token : x \in A}
                        /\ a.actionId \in {x.actionId : x \in A})}
           shown == {a \in optimistic.byPiece :
                      ~(a.id \in {x.id : x \in A} /\ a.token \in {x.token : x \in A})}
           touched == optimistic.touching \ TouchesOf(A)
           keys == {k \in optimistic.keys : \E a \in shown : a.id = k.id}
<1>1. removeActions(optimistic, A) =
        [optimistic EXCEPT !.byToken = kept, !.byPiece = shown, !.keys = keys,
                           !.touching = touched]
  BY DEF removeActions
<1>2. /\ kept \in SUBSET Actions /\ shown \in SUBSET Actions
      /\ touched \in SUBSET (BoardSquares \X Nat)
      /\ keys \in SUBSET [id : Ids, since : Nat]
  BY DEF States
<1> HIDE DEF kept, shown, touched, keys
<1> QED
  BY <1>1, <1>2 DEF States

(* A removal of a closed set keeps the invariant.                          *)
LEMMA RemovalKeepsIInv ==
    ASSUME IInv, NEW A \in SUBSET optimistic.byToken, Closed(optimistic, A),
           optimistic' = removeActions(optimistic, A), UNCHANGED moveToken
    PROVE  IInv'
<1>1. /\ optimistic'.byToken = optimistic.byToken \ A
      /\ optimistic'.byPiece = optimistic.byToken \ A
      /\ optimistic'.touching = optimistic.touching \ TouchesOf(A)
      /\ optimistic'.nextId = optimistic.nextId
      /\ optimistic' \in States
  BY StateIsSound, RemovalIsExact, RemovalIsTyped DEF IInv, TypeOK
<1>2. TypeOK'
  BY <1>1 DEF IInv, TypeOK
<1>3. ActionsAreNumbered'
  BY <1>1 DEF IInv, ActionsAreNumbered
<1>4. ActionIdsAreUnique' /\ IndexesAgree'
  BY <1>1 DEF IInv, ActionIdsAreUnique, IndexesAgree
<1>5. TouchesAreOfActions'
  BY <1>1 DEF IInv, TouchesAreOfActions, TouchesOf
<1> QED
  BY <1>2, <1>3, <1>4, <1>5 DEF IInv

----------------------------------------------------------------------------
(* What is added: actions with ids of their own, from nextId on, and with  *)
(* tokens that were handed out.                                            *)
Fresh(made, first, next, token) ==
    /\ made \in SUBSET Actions
    /\ \A a \in made : first <= a.actionId /\ a.actionId < next /\ a.token <= token
    /\ \A a, b \in made : a.actionId = b.actionId => a = b

LEMMA AdditionKeepsIInv ==
    ASSUME IInv, NEW made, NEW count \in Nat, NEW touched,
           Fresh(made, optimistic.nextId, optimistic.nextId + count, moveToken'),
           moveToken' \in Nat, moveToken <= moveToken',
           touched \subseteq TouchesOf(made),
           optimistic' = [WithActions(optimistic, made, count) EXCEPT
                             !.touching = @ \cup touched]
    PROVE  IInv'
<1> DEFINE B == optimistic.byToken
           n == optimistic.nextId
<1>1. /\ B \in SUBSET Actions /\ optimistic.byPiece = B /\ n \in Nat
      /\ optimistic.touching \in SUBSET (BoardSquares \X Nat)
  BY DEF IInv, TypeOK, States, IndexesAgree
<1>2. made \in SUBSET Actions
  BY DEF Fresh
<1>3. touched \in SUBSET (BoardSquares \X Nat)
  <2>1. \A a \in made : a.squares \in SUBSET BoardSquares /\ a.token \in Nat
    BY <1>2 DEF Actions
  <2> QED
    BY <2>1 DEF TouchesOf
<1>4. /\ optimistic'.byToken = B \cup made /\ optimistic'.byPiece = B \cup made
      /\ optimistic'.nextId = n + count
      /\ optimistic'.touching = optimistic.touching \cup touched
      /\ optimistic' \in States
  <2> DEFINE all == B \cup made
             touches == optimistic.touching \cup touched
             next == n + count
             fresh == {a \in made : \A b \in optimistic.byPiece : b.id # a.id}
             keys == optimistic.keys \cup {[id |-> a.id, since |-> a.actionId] : a \in fresh}
  <2>1. optimistic \in States
    BY DEF IInv, TypeOK
  <2>2. WithActions(optimistic, made, count) =
            [optimistic EXCEPT !.byPiece = all, !.byToken = all, !.keys = keys,
                               !.nextId = next]
    BY <1>1 DEF WithActions
  <2>3. keys \in SUBSET [id : Ids, since : Nat]
    BY <1>2, <2>1 DEF States, Actions
  <2> HIDE DEF fresh, keys
  <2>4. optimistic' = [optimistic EXCEPT !.byPiece = all, !.byToken = all, !.keys = keys,
                                         !.nextId = next, !.touching = touches]
    BY <2>1, <2>2 DEF States
  <2>5. /\ all \in SUBSET Actions /\ next \in Nat
        /\ touches \in SUBSET (BoardSquares \X Nat)
    BY <1>1, <1>2, <1>3
  <2> HIDE DEF all, touches, next
  <2>6. /\ optimistic'.byToken = all /\ optimistic'.byPiece = all
        /\ optimistic'.nextId = next /\ optimistic'.touching = touches
        /\ optimistic' \in States
    BY <2>1, <2>3, <2>4, <2>5 DEF States
  <2> QED
    BY <2>6 DEF all, touches, next
<1>5. TypeOK'
  BY <1>4 DEF TypeOK
<1>6. ActionsAreNumbered'
  <2>1. \A a \in B : a.actionId \in Nat /\ a.actionId < n /\ a.token \in Nat
                    /\ a.token <= moveToken
    BY DEF IInv, ActionsAreNumbered
  <2>2. \A a \in made : a.actionId \in Nat /\ a.actionId < n + count
                       /\ a.token \in Nat /\ a.token <= moveToken'
    BY <1>2 DEF Fresh, Actions
  <2>3. moveToken \in Nat
    BY DEF IInv, TypeOK
  <2> QED
    BY <1>1, <1>4, <2>1, <2>2, <2>3 DEF ActionsAreNumbered
<1>7. ActionIdsAreUnique'
  <2>1. \A a \in B : a.actionId \in Nat /\ a.actionId < n
    BY DEF IInv, ActionsAreNumbered
  <2>2. \A a \in made : a.actionId \in Nat /\ n <= a.actionId
    BY <1>2 DEF Fresh, Actions
  <2>3. \A a, b \in B : a.actionId = b.actionId => a = b
    BY DEF IInv, ActionIdsAreUnique
  <2>4. \A a, b \in made : a.actionId = b.actionId => a = b
    BY DEF Fresh
  <2> QED
    BY <1>1, <1>4, <2>1, <2>2, <2>3, <2>4 DEF ActionIdsAreUnique
<1>8. IndexesAgree'
  BY <1>4 DEF IndexesAgree
<1>9. TouchesAreOfActions'
  BY <1>4 DEF IInv, TouchesAreOfActions, TouchesOf
<1> QED
  BY <1>5, <1>6, <1>7, <1>8, <1>9 DEF IInv

(* The actions of a move: one for each piece, then one for the victim.     *)
LEMMA MoveActionType ==
    ASSUME NEW n \in Nat, NEW token \in Nat, NEW m \in Moves, NEW could \in BOOLEAN
    PROVE  /\ MoveAction(n, token, m, could) \in Actions
           /\ MoveAction(n, token, m, could).actionId = n
           /\ MoveAction(n, token, m, could).token = token
BY DEF MoveAction, Moves, Actions

LEMMA CaptureActionType ==
    ASSUME NEW n \in Nat, NEW token \in Nat, NEW v \in Victims, NEW required \in BOOLEAN
    PROVE  /\ CaptureAction(n, token, v, required) \in Actions
           /\ CaptureAction(n, token, v, required).actionId = n
           /\ CaptureAction(n, token, v, required).token = token
BY DEF CaptureAction, Victims, Actions

Made(n, token, moves, victims, could, required) ==
    {MoveAction(n + i - 1, token, moves[i], could) : i \in DOMAIN moves}
    \cup {CaptureAction(n + Len(moves), token, v, required) : v \in victims}
CountOf(moves, victims) == Len(moves) + IF victims = {} THEN 0 ELSE 1

LEMMA MadeIsFresh ==
    ASSUME NEW n \in Nat, NEW token \in Nat, NEW moves \in Seq(Moves),
           NEW victims \in SUBSET Victims, \A v, w \in victims : v = w,
           NEW could \in BOOLEAN, NEW required \in BOOLEAN
    PROVE  /\ Fresh(Made(n, token, moves, victims, could, required),
                    n, n + CountOf(moves, victims), token)
           /\ CountOf(moves, victims) \in Nat
<1> DEFINE move(i) == MoveAction(n + i - 1, token, moves[i], could)
           capture(v) == CaptureAction(n + Len(moves), token, v, required)
           made == {move(i) : i \in DOMAIN moves} \cup {capture(v) : v \in victims}
           count == Len(moves) + IF victims = {} THEN 0 ELSE 1
<1>1. Len(moves) \in Nat /\ DOMAIN moves = 1 .. Len(moves)
  OBVIOUS
<1>2. \A i \in DOMAIN moves : /\ move(i) \in Actions /\ move(i).actionId = n + i - 1
                              /\ move(i).token = token
  <2> SUFFICES ASSUME NEW i \in DOMAIN moves
               PROVE  /\ move(i) \in Actions /\ move(i).actionId = n + i - 1
                      /\ move(i).token = token
    OBVIOUS
  <2> DEFINE k == n + i - 1
             m == moves[i]
  <2>1. m \in Moves /\ k \in Nat
    BY <1>1
  <2> HIDE DEF k, m
  <2>2. /\ MoveAction(k, token, m, could) \in Actions
        /\ MoveAction(k, token, m, could).actionId = k
        /\ MoveAction(k, token, m, could).token = token
    BY <2>1, MoveActionType
  <2> QED
    BY <2>2 DEF k, m
<1>3. \A v \in victims : /\ capture(v) \in Actions
                         /\ capture(v).actionId = n + Len(moves)
                         /\ capture(v).token = token
  BY <1>1, CaptureActionType
<1> HIDE DEF move, capture
<1>4. made \in SUBSET Actions
  BY <1>2, <1>3
<1>5. count \in Nat /\ Len(moves) <= count /\ (victims # {} => count = Len(moves) + 1)
  BY <1>1
<1>6. \A a \in made : n <= a.actionId /\ a.actionId < n + count /\ a.token <= token
  <2>1. \A i \in DOMAIN moves : n <= n + i - 1 /\ n + i - 1 < n + count
    BY <1>1, <1>5
  <2>2. \A v \in victims : n <= n + Len(moves) /\ n + Len(moves) < n + count
    BY <1>1, <1>5
  <2> QED
    BY <1>2, <1>3, <2>1, <2>2
<1>7. \A a, b \in made : a.actionId = b.actionId => a = b
  <2>1. \A i, j \in DOMAIN moves : n + i - 1 = n + j - 1 => i = j
    BY <1>1
  <2>2. \A i \in DOMAIN moves : n + i - 1 # n + Len(moves)
    BY <1>1
  <2> QED
    BY <1>2, <1>3, <2>1, <2>2
<1> QED
  BY <1>4, <1>5, <1>6, <1>7 DEF Fresh, move, capture, Made, CountOf

----------------------------------------------------------------------------
LEMMA InitIInv == Init => IInv
<1> SUFFICES ASSUME Init PROVE IInv
  OBVIOUS
<1>1. optimistic = [byPiece |-> {}, byToken |-> {}, touching |-> {}, keys |-> {}, nextId |-> 1]
      /\ moveToken = 1
  BY DEF Init, NoOptimism
<1>2. TypeOK
  BY <1>1 DEF TypeOK, States
<1> QED
  BY <1>1, <1>2 DEF IInv, ActionsAreNumbered, ActionIdsAreUnique, IndexesAgree,
                    TouchesAreOfActions, TouchesOf

LEMMA AddStep ==
    ASSUME IInv, NEW moves \in Seq(Moves), NEW victims \in SUBSET Victims,
           \A v, w \in victims : v = w, NEW could \in BOOLEAN, NEW required \in BOOLEAN,
           AddOptimisticMove(moves, victims, could, required)
    PROVE  IInv'
<1> DEFINE n == optimistic.nextId
           made == Made(n, FreshToken, moves, victims, could, required)
           count == CountOf(moves, victims)
<1>1. /\ moveToken \in Nat /\ n \in Nat /\ moveToken' = FreshToken
      /\ FreshToken \in Nat /\ moveToken <= FreshToken
  BY DEF IInv, TypeOK, States, FreshToken, AddOptimisticMove
<1>2. Fresh(made, n, n + count, FreshToken) /\ count \in Nat
  BY <1>1, MadeIsFresh
<1>3. optimistic' = [WithActions(optimistic, made, count) EXCEPT
                        !.touching = @ \cup TouchesOf(made)]
  BY DEF AddOptimisticMove, addOptimisticMove, Made, CountOf
<1> HIDE DEF made, count
<1> QED
  BY <1>1, <1>2, <1>3, AdditionKeepsIInv

LEMMA AfterTheFactStep ==
    ASSUME IInv, NEW captor \in Ids, NEW victim \in Victims,
           AddAfterTheFactSimulatedCapture(captor, victim)
    PROVE  IInv'
<1> DEFINE n == optimistic.nextId
           own == ActionsOf(optimistic, captor)
           capture == CaptureAction(n, LastOf(own).token, victim, FALSE)
<1>1. /\ n \in Nat /\ moveToken \in Nat /\ moveToken' = moveToken
      /\ own \in SUBSET Actions /\ own # {}
      /\ \A a \in own : a.actionId < n /\ a.token \in Nat /\ a.token <= moveToken
  BY DEF IInv, TypeOK, States, IndexesAgree, ActionsAreNumbered, ActionsOf,
         AddAfterTheFactSimulatedCapture, CanSimulateCapture
<1> HIDE DEF own
<1>2. LastOf(own) \in own
  <2>1. \A a \in own : a.actionId \in Nat
    BY <1>1 DEF Actions
  <2> QED
    BY <1>1, <2>1, LastOfIsLast
<1>3. LastOf(own).token \in Nat /\ LastOf(own).token <= moveToken
  BY <1>1, <1>2
<1>4. /\ capture \in Actions /\ capture.actionId = n
      /\ capture.token = LastOf(own).token
  BY <1>1, <1>3, CaptureActionType
<1> HIDE DEF capture
<1>5. Fresh({capture}, n, n + 1, moveToken')
  BY <1>1, <1>3, <1>4 DEF Fresh
<1>6. optimistic' = WithActions(optimistic, {capture}, 1)
  BY DEF AddAfterTheFactSimulatedCapture, addAfterTheFactSimulatedCapture, own, capture
<1>7. WithActions(optimistic, {capture}, 1) =
        [WithActions(optimistic, {capture}, 1) EXCEPT !.touching = @ \cup {}]
  BY DEF IInv, TypeOK, States, WithActions
<1>8. {} \subseteq TouchesOf({capture}) /\ moveToken' \in Nat /\ moveToken <= moveToken'
  BY <1>1
<1> DEFINE made == {capture}
           touched == {}
           one == 1
<1>9. /\ optimistic' = [WithActions(optimistic, made, one) EXCEPT
                            !.touching = @ \cup touched]
      /\ one \in Nat /\ Fresh(made, optimistic.nextId, optimistic.nextId + one, moveToken')
      /\ touched \subseteq TouchesOf(made)
  BY <1>5, <1>6, <1>7, <1>8
<1> HIDE DEF made, touched, one
<1> QED
  BY <1>8, <1>9, AdditionKeepsIInv

(* What is removed by each operation is closed.                            *)
LEMMA TokensAreClosed ==
    ASSUME NEW X
    PROVE  LET A == {a \in optimistic.byToken : a.token \in X}
           IN  A \in SUBSET optimistic.byToken /\ Closed(optimistic, A)
BY DEF Closed

LEMMA ConfirmationStep ==
    ASSUME IInv, NEW token, ProcessConfirmation(token)
    PROVE  IInv'
<1> DEFINE A == ActionsFor(optimistic, token)
<1>1. A = {a \in optimistic.byToken : a.token \in {token}}
  BY DEF ActionsFor
<1>2. A \in SUBSET optimistic.byToken /\ Closed(optimistic, A)
  BY <1>1, TokensAreClosed
<1> QED
  BY <1>2, RemovalKeepsIInv DEF ProcessConfirmation, processConfirmation

LEMMA RevertStep ==
    ASSUME IInv, NEW tokens, NEW ids,
           optimistic' = processRevert(optimistic, tokens, ids), UNCHANGED moveToken
    PROVE  IInv'
<1> DEFINE A == DependencySet(optimistic, tokens, ids)
<1>1. A \in SUBSET optimistic.byToken /\ Closed(optimistic, A)
  BY TokensAreClosed DEF DependencySet
<1> QED
  BY <1>1, RemovalKeepsIInv DEF processRevert

LEMMA SingleRevertStep ==
    ASSUME IInv, NEW id, RevertSinglePieceId(id)
    PROVE  IInv'
<1> DEFINE A == ActionsOf(optimistic, id)
<1>1. A = {a \in optimistic.byToken : a.id = id}
  BY DEF ActionsOf, IInv, IndexesAgree
<1>2. A \in SUBSET optimistic.byToken /\ Closed(optimistic, A)
  BY <1>1 DEF Closed
<1> QED
  BY <1>2, RemovalKeepsIInv DEF RevertSinglePieceId, revertSinglePieceId

(* Every call keeps the invariant, and so does a stutter.                  *)
LEMMA NextIInv == IInv /\ [Next]_optimisticVars => IInv'
<1> SUFFICES ASSUME IInv, [Next]_optimisticVars PROVE IInv'
  OBVIOUS
<1>1. ASSUME NEW m \in Moves, NEW victims \in {{}} \cup {{v} : v \in Victims},
             NEW could \in BOOLEAN, NEW required \in BOOLEAN,
             AddOptimisticMove(<<m>>, victims, could, required)
      PROVE  IInv'
  <2> DEFINE moves == <<m>>
  <2>1. moves \in Seq(Moves) /\ victims \in SUBSET Victims /\ \A v, w \in victims : v = w
    OBVIOUS
  <2>2. AddOptimisticMove(moves, victims, could, required)
    BY <1>1
  <2> HIDE DEF moves
  <2> QED
    BY <2>1, <2>2, AddStep
<1>2. ASSUME NEW m \in Moves, NEW rook \in Moves,
             AddOptimisticMove(<<m, rook>>, {}, FALSE, FALSE)
      PROVE  IInv'
  <2> DEFINE moves == <<m, rook>>
             victims == {}
             no == FALSE
  <2>1. /\ moves \in Seq(Moves) /\ victims \in SUBSET Victims
        /\ \A v, w \in victims : v = w
        /\ no \in BOOLEAN
    OBVIOUS
  <2>2. AddOptimisticMove(moves, victims, no, no)
    BY <1>2
  <2> HIDE DEF moves, victims, no
  <2> QED
    BY <2>1, <2>2, AddStep
<1>3. ASSUME NEW captor \in Ids, NEW victim \in Victims,
             AddAfterTheFactSimulatedCapture(captor, victim)
      PROVE  IInv'
  BY <1>3, AfterTheFactStep
<1>4. ASSUME NEW token, ProcessConfirmation(token) PROVE IInv'
  BY <1>4, ConfirmationStep
<1>5. ASSUME NEW tokens, NEW ids, ProcessRevert(tokens, ids) PROVE IInv'
  BY <1>5, RevertStep DEF ProcessRevert
<1>6. ASSUME RevertAll PROVE IInv'
  BY <1>6, RevertStep DEF RevertAll, revertAll
<1>7. ASSUME NEW id, RevertSinglePieceId(id) PROVE IInv'
  BY <1>7, SingleRevertStep
<1>8. ASSUME UNCHANGED optimisticVars PROVE IInv'
  <2>1. optimistic' = optimistic /\ moveToken' = moveToken
    BY <1>8 DEF optimisticVars
  <2> QED
    BY <2>1 DEF IInv, TypeOK, ActionsAreNumbered, ActionIdsAreUnique,
                IndexesAgree, TouchesAreOfActions
<1> QED
  BY <1>1, <1>2, <1>3, <1>4, <1>5, <1>6, <1>7, <1>8 DEF Next

(* The state of the optimistic moves has its type.                         *)
THEOREM TypeCorrect == Spec => []TypeOK
<1>1. IInv => TypeOK
  BY DEF IInv
<1> QED
  BY <1>1, InitIInv, NextIInv, PTL DEF Spec

(* The two maps never disagree about a pending move.                       *)
THEOREM MapsAgree == Spec => []IndexesAgree
<1>1. IInv => IndexesAgree
  BY DEF IInv
<1> QED
  BY <1>1, InitIInv, NextIInv, PTL DEF Spec

(* No action id is given twice, and none is given before it is due.        *)
THEOREM IdsAreFresh == Spec => [](ActionIdsAreUnique /\ ActionsAreNumbered)
<1>1. IInv => ActionIdsAreUnique /\ ActionsAreNumbered
  BY DEF IInv
<1> QED
  BY <1>1, InitIInv, NextIInv, PTL DEF Spec

(* Nothing is left touching a square when no action on it is pending.      *)
THEOREM NoStaleTouches == Spec => []TouchesAreOfActions
<1>1. IInv => TouchesAreOfActions
  BY DEF IInv
<1> QED
  BY <1>1, InitIInv, NextIInv, PTL DEF Spec
----------------------------------------------------------------------------
(* A revert is complete: what it leaves rests on nothing that went.        *)
LEMMA CompleteStep ==
    ASSUME IInv, NEW tokens, NEW ids, ProcessRevert(tokens, ids)
    PROVE  \A gone \in optimistic.byToken \ optimistic'.byToken,
              left \in optimistic'.byToken : ~RestsOn(optimistic, left, gone)
<1> DEFINE A == DependencySet(optimistic, tokens, ids)
<1>1. A \in SUBSET optimistic.byToken /\ Closed(optimistic, A)
  BY TokensAreClosed DEF DependencySet
<1>2. optimistic' = removeActions(optimistic, A)
  BY DEF ProcessRevert, processRevert
<1> HIDE DEF A
<1>3. Sound(optimistic)
  BY StateIsSound
<1>4. optimistic'.byToken = optimistic.byToken \ A
  BY <1>1, <1>2, <1>3, RemovalIsExact
<1>5. optimistic.byPiece = optimistic.byToken /\ IsFiniteSet(optimistic.byToken)
  BY <1>3, FinitelyManyActions DEF Sound
<1> QED
  BY <1>4, <1>5, DependencySetIsClosed DEF A, RestsOn

(* A request that is refused, or a piece that turns out to be elsewhere,   *)
(* takes with it everything that was built on it.                          *)
THEOREM NothingIsLeftHanging == Spec => RevertsAreComplete
<1>1. IInv /\ [Next]_optimisticVars =>
        [Reverts =>
           \A gone \in optimistic.byToken \ optimistic'.byToken,
              left \in optimistic'.byToken : ~RestsOn(optimistic, left, gone)]_optimisticVars
  BY CompleteStep DEF Reverts
<1> QED
  BY <1>1, InitIInv, NextIInv, PTL DEF Spec, RevertsAreComplete
=============================================================================
