---------------------------- MODULE PieceHandler ----------------------------
(***************************************************************************)
(* PieceHandler of the web client (pieceHandler.js): the pieces the server *)
(* has told it of, overlaid with the optimistic moves.  Its methods run to *)
(* completion, one per message, click or change of the connection, so each *)
(* is an operator from its state to the next one and to the animations it  *)
(* broadcasts to PieceDisplay.  The state:                                 *)
(*                                                                         *)
(*   pieces          [id -> [at, seqnum]]: piecesById, a partial function  *)
(*   optimistic      see Optimistic                                        *)
(*   activeCaptures  [id -> seqnum]: activeCapturesByPieceId               *)
(*   snapshotSeqnum  of the newest snapshot of this connection, or -1      *)
(*   connected                                                             *)
(*                                                                         *)
(* A piece is its id, its square and the seqnum it was last heard of with; *)
(* the counters and badges that come and go with the square are left out.  *)
(***************************************************************************)
EXTENDS Optimistic, Integers, TLC, SequencesExt

CONSTANT
    White       \* the ids of the white pieces

NoState ==
    [pieces |-> <<>>, optimistic |-> NoOptimism, activeCaptures |-> <<>>,
     snapshotSeqnum |-> -1, connected |-> FALSE]

Knows(h, id) == id \in DOMAIN h.pieces
Without(f, S) == [x \in DOMAIN f \ S |-> f[x]]
With(f, x, v) == [y \in DOMAIN f \cup {x} |-> IF y = x THEN v ELSE f[y]]
Over(f, g) == [x \in DOMAIN f \cup DOMAIN g |-> IF x \in DOMAIN f THEN f[x] ELSE g[x]]
SameColor(id, other) == (id \in White) = (other \in White)

----------------------------------------------------------------------------
(* Animations: a sequence with at most one for a piece, as in the Map the  *)
(* code keeps them in, where a second one takes the place of the first.    *)

Anim(type, id, at) == [type |-> type, id |-> id, at |-> at]

WithAnim(anims, a) ==
    IF \E i \in DOMAIN anims : anims[i].id = a.id
    THEN [i \in DOMAIN anims |-> IF anims[i].id = a.id THEN a ELSE anims[i]]
    ELSE Append(anims, a)
WithoutAnim(anims, id) == SelectSeq(anims, LAMBDA a : a.id # id)

(* The animation that takes back what an optimistic move showed.           *)
animationForRevertedPiece(h, id, shown) ==
    Anim(IF shown.type = "capture" THEN "appearance" ELSE "move", id, h.pieces[id].at)
ShowsAChange(h, id, shown) ==
    Knows(h, id) /\ (shown.type = "move" => h.pieces[id].at # shown.at)

WithReverts(h, anims, states) ==
    FoldLeft(WithAnim, anims,
        SetToSeq({animationForRevertedPiece(h, id, states[id]) :
                    id \in {i \in DOMAIN states : ShowsAChange(h, i, states[i])}}))

----------------------------------------------------------------------------
(* What the player sees and may do                                         *)

(* getPieceById: the square a piece is shown on, for those shown at all.   *)
Captured(h, id) ==
    Tracked(h.optimistic, id) /\ getPredictedState(h.optimistic, id).type = "capture"
View(h) ==
    [id \in {i \in DOMAIN h.pieces : ~Captured(h, i)} |->
        IF Tracked(h.optimistic, id) THEN getPredictedState(h.optimistic, id).at
                                     ELSE h.pieces[id].at]

(* piecesByLocation: a predicted piece hides whatever is known to stand    *)
(* under it, and a piece with a prediction is nowhere else.  Two pieces    *)
(* can be left on one square; the later of the two in the Map counts.      *)
PredictedSquares(h) ==
    {getPredictedState(h.optimistic, a.id).at :
        a \in {b \in h.optimistic.byPiece : ~Captured(h, b.id)}}
Located(h, square) ==
    {id \in DOMAIN h.pieces :
        IF Tracked(h.optimistic, id)
        THEN ~Captured(h, id) /\ View(h)[id] = square
        ELSE h.pieces[id].at = square /\ square \notin PredictedSquares(h)}

----------------------------------------------------------------------------
(* Clicks and answers                                                      *)

Result(h, anims) == [handler |-> h, anims |-> anims]

(* A click whose capture is gone shows the move without it, or nothing at  *)
(* all when the move needs a capture.                                      *)
StillThere(h, victim) ==
    victim.id \in DOMAIN View(h) /\ View(h)[victim.id] = victim.at

AddOptimisticMove(h, token, moves, victims, couldBeACapture, captureRequired) ==
    LET standing == {v \in victims : StillThere(h, v)}
    IN  IF standing # victims /\ captureRequired
        THEN Result(h, <<>>)
        ELSE Result([h EXCEPT !.optimistic =
                        addOptimisticMove(@, token, moves, standing,
                                          couldBeACapture, captureRequired)],
                    [i \in DOMAIN moves |-> Anim("move", moves[i].id, moves[i].to)]
                    \o SetToSeq({Anim("capture", v.id, v.at) : v \in standing}))

(* ValidMove: the ground truth takes the confirmed move over, unless it is *)
(* newer already; captures that were predicted wrongly are taken back, and *)
(* one that was not predicted is applied.  A capture that was predicted    *)
(* leaves the piece known until the capture itself is heard of.            *)
ConfirmedMoves(h, token) ==
    {u \in GroundTruthUpdates(h.optimistic, token) :
        u.type = "move" /\ Knows(h, u.id)}
ConfirmedCaptures(h, token) ==
    {u.id : u \in {v \in GroundTruthUpdates(h.optimistic, token) : v.type = "capture"}}

TakesOver(h, u, seqnum) == h.pieces[u.id].seqnum <= seqnum

confirmOptimisticMove(h, token, seqnum, capturedIds) ==
    LET moved == ConfirmedMoves(h, token)
        taken == {u \in moved : TakesOver(h, u, seqnum)}
        o == processConfirmation(h.optimistic, token)
        stale == {u \in moved \ taken :
                    ~Tracked(o, u.id) /\ h.pieces[u.id].at # u.at}
        wrong == {id \in ConfirmedCaptures(h, token) \ capturedIds : Knows(h, id)}
        unseen == {id \in capturedIds \ ConfirmedCaptures(h, token) : Knows(h, id)}
        truth == [id \in DOMAIN h.pieces |->
                    IF \E u \in taken : u.id = id
                    THEN [at |-> (CHOOSE u \in taken : u.id = id).at, seqnum |-> seqnum]
                    ELSE h.pieces[id]]
    IN  Result([h EXCEPT
                  !.optimistic = o,
                  !.activeCaptures = Over([id \in capturedIds |-> seqnum], @),
                  !.pieces = Without(truth, unseen)],
               SetToSeq({Anim("appearance", id, h.pieces[id].at) : id \in wrong}
                        \cup {Anim("move", u.id, h.pieces[u.id].at) : u \in stale}
                        \cup {Anim("capture", id, h.pieces[id].at) : id \in unseen}))

(* InvalidMove: the move goes, with everything that depended on it.        *)
rejectOptimisticMove(h, token) ==
    LET states == PreRevertVisualStates(h.optimistic, {token}, {})
    IN  Result([h EXCEPT !.optimistic = processRevert(@, {token}, {})],
               WithReverts(h, <<>>, states))

(* The connection opens or closes.  Closing it takes every optimistic move *)
(* back: nothing will answer them.                                         *)
Mut_KeepOptimism(h, connected) == Result([h EXCEPT !.connected = connected], <<>>)
setConnected(h, connected) ==
    IF h.connected /\ ~connected
    THEN LET o == h.optimistic
             states == PreRevertVisualStates(o, {a.token : a \in o.byToken},
                                                {a.id : a \in o.byPiece})
         IN  Result([h EXCEPT !.connected = FALSE, !.optimistic = revertAll(o),
                              !.activeCaptures = <<>>, !.snapshotSeqnum = -1],
                    WithReverts(h, <<>>, states))
    ELSE Result([h EXCEPT !.connected = connected], <<>>)

----------------------------------------------------------------------------
(* Reconciling what the server says with what is shown.  The accumulator   *)
(* of the loop: the handler's optimistic state, the predictions not yet    *)
(* taken back, those that were, and the animations still to broadcast.     *)

Predictions(o) ==
    [id \in {a.id : a \in o.byPiece} |-> getPredictedState(o, id)]

(* The piece predicted on a square: of two, the one that comes last in the *)
(* map by piece.                                                           *)
PredictedThere(predicted, square) ==
    {id \in DOMAIN predicted :
        predicted[id].type = "move" /\ predicted[id].at = square}
PredictedAt(o, predicted, square) ==
    LET there == PredictedThere(predicted, square)
    IN  {id \in there : \A other \in there \ {id} : ComesBefore(o, other, id)}

RevertPiece(acc, id) ==
    LET states == PreRevertVisualStates(acc.optimistic, {}, {id})
    IN  [acc EXCEPT !.optimistic = processRevert(@, {}, {id}),
                    !.predicted = Without(@, DOMAIN states),
                    !.reverted = Over(states, @)]

SimulateCapture(acc, captor, a) ==
    [acc EXCEPT
        !.optimistic = addAfterTheFactSimulatedCapture(@, captor, [id |-> a.id, at |-> a.at]),
        !.anims = WithAnim(@, Anim("capture", a.id, a.at))]

(* Another piece turns up where one of ours is shown.                      *)
Mut_OnlySimulate(h, acc, mine, a) ==
    IF /\ ~SameColor(a.id, mine)
       /\ mine \in DOMAIN acc.predicted
       /\ acc.predicted[mine].couldBeACapture
       /\ CanSimulateCapture(acc.optimistic, mine)
    THEN SimulateCapture(acc, mine, a)
    ELSE acc
MeetAnother(h, acc, mine, a) ==
    IF ~Knows(h, mine) THEN acc
    ELSE IF /\ ~SameColor(a.id, mine)
            /\ mine \in DOMAIN acc.predicted
            /\ acc.predicted[mine].couldBeACapture
            /\ CanSimulateCapture(acc.optimistic, mine)
    THEN SimulateCapture(acc, mine, a)
    ELSE RevertPiece(acc, mine)

(* A piece of which we show something else is heard of elsewhere.          *)
CaptureMissed(acc, a) ==
    IF acc.predicted[a.id].captureRequired THEN RevertPiece(acc, a.id)
    ELSE [acc EXCEPT !.optimistic = revertSinglePieceId(@, a.id),
                     !.predicted = Without(@, {a.id}),
                     !.reverted = With(@, a.id, acc.predicted[a.id])]

Reconcile(h, initially, acc, a) ==
    LET there == PredictedAt(h.optimistic, initially, a.at)
        tracked == a.id \in DOMAIN acc.predicted
    IN  CASE a.type = "capture" /\ tracked /\ acc.predicted[a.id].type = "move" ->
                RevertPiece(acc, a.id)
          [] a.type # "capture" /\ a.id \in there ->
                [acc EXCEPT !.anims = WithoutAnim(@, a.id)]
          [] a.type # "capture" /\ there # {} /\ a.id \notin there ->
                MeetAnother(h, acc, CHOOSE id \in there : TRUE, a)
          [] a.type # "capture" /\ there = {} /\ tracked ->
                IF acc.predicted[a.id].type = "move"
                THEN [acc EXCEPT !.anims = WithoutAnim(@, a.id)]
                ELSE CaptureMissed(acc, a)
          [] OTHER -> acc

(* The squares the predictions name are those of before the loop, whatever *)
(* the loop takes back.                                                    *)
processGroundTruthAnimations(h, anims) ==
    LET initially == Predictions(h.optimistic)
        start == [optimistic |-> h.optimistic, predicted |-> initially,
                  reverted |-> <<>>, anims |-> anims]
        end == FoldLeft(LAMBDA acc, a : Reconcile(h, initially, acc, a), start, anims)
    IN  Result([h EXCEPT !.optimistic = end.optimistic],
               WithReverts(h, end.anims, end.reverted))

----------------------------------------------------------------------------
(* What the server says                                                    *)

(* A snapshot: the squares of all pieces at a seqnum.  A piece known with  *)
(* a newer seqnum keeps what is known, unless the connection is new; one   *)
(* captured since then, as far as we have heard, is left out.              *)
Mut_SnapshotWins(h, snapshot) == {}
KeptFromBefore(h, snapshot) ==
    IF snapshot.newConnection THEN {}
    ELSE {id \in DOMAIN h.pieces : h.pieces[id].seqnum > snapshot.seqnum}

CapturedSince(h, snapshot) ==
    LET later == {id \in DOMAIN h.activeCaptures :
                    h.activeCaptures[id] > snapshot.seqnum}
    IN  [id \in later |-> h.activeCaptures[id]]

handleSnapshot(h, snapshot) ==
    LET captures == CapturedSince(h, snapshot)
        ids == DOMAIN snapshot.squares \ DOMAIN captures
        kept == KeptFromBefore(h, snapshot)
        truth == [id \in ids |->
                    IF id \in kept THEN h.pieces[id]
                    ELSE [at |-> snapshot.squares[id], seqnum |-> snapshot.seqnum]]
        arrived == ids \ DOMAIN h.pieces
        moved == {id \in ids \cap DOMAIN h.pieces : truth[id].at # h.pieces[id].at
                        /\ (snapshot.newConnection
                            \/ h.pieces[id].seqnum < snapshot.seqnum)}
        gone == DOMAIN h.pieces \ (ids \cup DOMAIN h.activeCaptures)
        anims == SetToSeq({Anim("appearance", id, truth[id].at) : id \in arrived}
                          \cup {Anim("move", id, truth[id].at) : id \in moved})
                 \o SetToSeq({Anim("capture", id, h.pieces[id].at) : id \in gone})
    IN  processGroundTruthAnimations(
            [h EXCEPT !.pieces = truth, !.activeCaptures = captures,
                      !.snapshotSeqnum = IF @ > snapshot.seqnum THEN @ ELSE snapshot.seqnum],
            anims)

(* A batch of moves, then of captures, each in the order it was buffered.  *)
(* Moves are compared with what is known of the piece, captures with the   *)
(* newest snapshot.                                                        *)
IsNews(h, m) ==
    /\ m.id \notin DOMAIN h.activeCaptures
    /\ Knows(h, m.id) => m.seqnum >= h.pieces[m.id].seqnum

ApplyMove(r, m) ==
    LET h == r.handler
        anim == Anim(IF Knows(h, m.id) THEN "move" ELSE "appearance", m.id, m.at)
    IN  IF ~IsNews(h, m) THEN r
        ELSE Result([h EXCEPT !.pieces = With(@, m.id, [at |-> m.at, seqnum |-> m.seqnum])],
                    IF Knows(h, m.id) /\ h.pieces[m.id].at = m.at THEN r.anims
                    ELSE WithAnim(r.anims, anim))

ApplyCapture(r, c) ==
    LET h == r.handler
    IN  IF c.seqnum <= h.snapshotSeqnum \/ ~Knows(h, c.id) THEN r
        ELSE Result([h EXCEPT !.activeCaptures = With(@, c.id, c.seqnum),
                              !.pieces = Without(@, {c.id})],
                    WithAnim(r.anims, Anim("capture", c.id, h.pieces[c.id].at)))

handleMoves(h, moves, captures) ==
    LET applied == FoldLeft(ApplyCapture,
                       FoldLeft(ApplyMove, Result(h, <<>>), moves), captures)
    IN  processGroundTruthAnimations(applied.handler, applied.anims)

handleBulkCapture(h, capturedIds, seqnum) ==
    handleMoves(h, <<>>,
        SetToSeq({[id |-> id, seqnum |-> seqnum] : id \in capturedIds}))
=============================================================================
