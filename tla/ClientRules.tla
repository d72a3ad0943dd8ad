----------------------------- MODULE ClientRules -----------------------------
(***************************************************************************)
(* The rules of the game as the web client knows them (utils.js): the      *)
(* squares it lets a player click for a selected piece, what each click    *)
(* would capture and move besides, and what the piece becomes.  The client *)
(* applies a move before the server has seen it, so each offer is a        *)
(* promise about what ValidateAndApplyMove will do.  The rules are written *)
(* twice, in two languages and in two shapes (the server checks one pair   *)
(* of squares, the client walks rays): this module puts them side by side  *)
(* on one board, that of Board.                                            *)
(***************************************************************************)
EXTENDS Board

NoPiece == 0

(* Double steps and castling go two squares.                               *)
ASSUME ClientRulesAssumption == MAX_MOVE_DISTANCE >= 2

spansTwoBoards(from, to) == BoardOf(from) # BoardOf(to)

empty(s) == ~Occupied(s)

capturable(from, to) ==
    /\ Occupied(to)
    /\ pieces[to].white # pieces[from].white
    /\ spansTwoBoards(from, to) => pieces[to].moveCount # 0

(* `beside' holds the pawn to be passed, `to' is the square behind it.     *)
Mut_EnPassantAnyPawn(from, beside, to) ==
    /\ Occupied(beside)
    /\ pieces[beside].white # pieces[from].white
    /\ pieces[beside].type = "Pawn"
    /\ empty(to)
enPassantable(from, beside, to) ==
    /\ Occupied(beside)
    /\ pieces[beside].white # pieces[from].white
    /\ pieces[beside].type = "Pawn"
    /\ pieces[beside].justDoubleMoved
    /\ spansTwoBoards(from, beside) => pieces[beside].moveCount # 0
    /\ empty(to)

(* An offer: where to, the kind of move, the piece it would capture, the   *)
(* other piece it moves and where to, and whether it may turn out to be a  *)
(* capture of something the client has not seen arrive yet.                *)
Offer(from, to, moveType, victim, other, neverCapturable) ==
    [to |-> to, moveType |-> moveType, capturedPiece |-> victim,
     additionalMovedPiece |-> other,
     couldBeACapture |-> ~neverCapturable /\ ~spansTwoBoards(from, to)]

IdAt(s) == IF Occupied(s) THEN pieces[s].id ELSE NoPiece
Nobody == [id |-> NoPiece, to |-> <<0, 0>>]
Plain(from, to) == Offer(from, to, "normal", IdAt(to), Nobody, FALSE)
Quiet(from, to) == Offer(from, to, "normal", NoPiece, Nobody, TRUE)

Step(s, dx, dy) == <<s[1] + dx, s[2] + dy>>

----------------------------------------------------------------------------
(* One operator per kind of piece: the offers for the one on `from'.       *)

MayStepTwice(from) == pieces[from].moveCount = 0

addMoveableSquaresForPawn(from) ==
    LET dy == IF pieces[from].white THEN -1 ELSE 1
        ahead == Step(from, 0, dy)
        twoAhead == Step(from, 0, 2 * dy)
        sides == {Step(from, dx, dy) : dx \in {-1, 1}}
    IN  {Quiet(from, t) : t \in {ahead} \ DOMAIN pieces}
        \cup {Quiet(from, t) : t \in
                {u \in {twoAhead} : /\ empty(ahead) /\ empty(u)
                                    /\ MayStepTwice(from)}}
        \cup {Plain(from, t) : t \in {u \in sides : capturable(from, u)}}
        \cup {Offer(from, t, "en passant", IdAt(<<t[1], from[2]>>), Nobody, FALSE) :
                t \in {u \in sides : /\ ~capturable(from, u)
                                     /\ enPassantable(from, <<u[1], from[2]>>, u)}}

Landable(from, to) == empty(to) \/ capturable(from, to)

KnightJumps == {d \in (-2 .. 2) \X (-2 .. 2) : {AbsInt(d[1]), AbsInt(d[2])} = {1, 2}}
addMoveableSquaresForKnight(from) ==
    {Plain(from, t) : t \in {u \in {Step(from, d[1], d[2]) : d \in KnightJumps} :
                                Landable(from, u)}}

(* The walks of bishop and rook: outwards along each direction, up to the  *)
(* first piece, which is offered if it can be captured.  i stays below     *)
(* MAX_MOVE_DISTANCE, which the server still accepts.                      *)
Mut_WalksStopBefore(from, directions) ==
    {Plain(from, Step(from, w[1] * w[2][1], w[1] * w[2][2])) : w \in
        {v \in (1 .. MAX_MOVE_DISTANCE - 1) \X directions :
            \A i \in 1 .. v[1] : empty(Step(from, i * v[2][1], i * v[2][2]))}}
Walks(from, directions) ==
    {Plain(from, Step(from, w[1] * w[2][1], w[1] * w[2][2])) : w \in
        {v \in (1 .. MAX_MOVE_DISTANCE - 1) \X directions :
            /\ \A i \in 1 .. v[1] - 1 : empty(Step(from, i * v[2][1], i * v[2][2]))
            /\ Landable(from, Step(from, v[1] * v[2][1], v[1] * v[2][2]))}}

addMoveableSquaresForBishop(from) == Walks(from, {-1, 1} \X {-1, 1})

addMoveableSquaresForRook(from) ==
    Walks(from, {<<-1, 0>>, <<1, 0>>, <<0, -1>>, <<0, 1>>})

Around(s) == {Step(s, dx, dy) : dx \in -1 .. 1, dy \in -1 .. 1} \ {s}

(* Castling to the left looks for the rook four files away, to the right   *)
(* three, wherever that is.                                                *)
CornerAllowsCastling(from, left) ==
    LET corner == Step(from, IF left THEN -4 ELSE 3, 0)
    IN  /\ Occupied(corner)
        /\ \A k \in 1 .. IF left THEN 3 ELSE 2 :
              ~Occupied(Step(from, IF left THEN -k ELSE k, 0))
        /\ pieces[corner].type = "Rook"
        /\ pieces[corner].moveCount = 0
        /\ pieces[corner].white = pieces[from].white

CastlingOffer(from, left) ==
    LET side == IF left THEN -1 ELSE 1
        corner == Step(from, IF left THEN -4 ELSE 3, 0)
    IN  Offer(from, Step(from, 2 * side, 0), "castle", NoPiece,
              [id |-> IdAt(corner), to |-> Step(from, side, 0)], TRUE)

addMoveableSquaresForKing(from) ==
    {Plain(from, t) : t \in {u \in Around(from) : /\ ~spansTwoBoards(from, u)
                                                 /\ Landable(from, u)}}
    \cup {CastlingOffer(from, left) :
            left \in {l \in BOOLEAN : /\ pieces[from].moveCount = 0
                                      /\ CornerAllowsCastling(from, l)}}

boundsCheckMoveableSquares(offers) == {o \in offers : o.to \in Squares}

getMoveableSquares(from) ==
    LET type == pieces[from].type
    IN  boundsCheckMoveableSquares(
          CASE type = "Pawn"   -> addMoveableSquaresForPawn(from)
            [] type = "Knight" -> addMoveableSquaresForKnight(from)
            [] type = "Bishop" -> addMoveableSquaresForBishop(from)
            [] type = "Rook"   -> addMoveableSquaresForRook(from)
            [] type = "King"   -> addMoveableSquaresForKing(from)
            [] OTHER -> addMoveableSquaresForBishop(from)
                        \cup addMoveableSquaresForRook(from))

(* What addOptimisticMove and getPieceById show the moved piece as.        *)
Mut_PromotesOnOwnBoard(piece, to) ==
    IF piece.type = "Pawn" /\ to[2] % 8 = IF piece.white THEN 0 ELSE 7
    THEN "PromotedPawn" ELSE piece.type
TypeShown(piece, to) ==
    LET wasPromotion == /\ piece.type = "Pawn"
                        /\ \/ to[2] = 0 /\ piece.white
                           \/ to[2] = BOARD_SIZE - 1 /\ ~piece.white
    IN  IF wasPromotion THEN "PromotedPawn" ELSE piece.type

----------------------------------------------------------------------------
(* Properties *)

(* In every reachable position, for pieces of both colours, the squares    *)
(* the client lets a player click are the moves the server accepts, with   *)
(* the kind of move the click sends: an honest client that is up to date   *)
(* is never rejected, and it withholds nothing but the last square of a    *)
(* slide, since its walks end one short of MAX_MOVE_DISTANCE.              *)
Accepts(moveType, from, to) ==
    CASE moveType = "normal"     -> CanMoveNormally(from, to)
      [] moveType = "castle"     -> CanCastle(from, to)
      [] moveType = "en passant" -> CanTakeEnPassant(from, to)
Slides(piece) == piece.type \in {"Bishop", "Rook", "Queen", "PromotedPawn"}
Clickable(from) ==
    {to \in Destinations(from) :
        Slides(pieces[from]) => Distance(from, to) < MAX_MOVE_DISTANCE}
ClientKnowsTheRules ==
    \A s \in DOMAIN pieces :
        {<<o.moveType, o.to>> : o \in getMoveableSquares(s)} =
        {m \in {"normal", "castle", "en passant"} \X Clickable(s) :
            Accepts(m[1], s, m[2])}

(* What the client shows for a click before the server answers is what the *)
(* server then does: the same piece captured, the same second piece moved  *)
(* to the same square, the same promotion, and nothing captured where it   *)
(* said nothing could be.                                                  *)
Moved == {id \in Standing \cap Standing' : SquareOf(id)' # SquareOf(id)}
Mover(id) == id \in Moved /\ (pieces[SquareOf(id)].type = "King" \/ Moved = {id})
PredictsTheMove ==
    [][totalMoves' # totalMoves =>
        \A id \in {i \in Standing \cap Standing' : Mover(i)} :
          LET from == SquareOf(id)
              to == SquareOf(id)'
          IN  \A o \in {q \in getMoveableSquares(from) : q.to = to} :
                /\ Standing \ Standing' = {o.capturedPiece} \ {NoPiece}
                /\ Moved \ {id} = {o.additionalMovedPiece.id} \ {NoPiece}
                /\ \A other \in Moved \ {id} :
                      SquareOf(other)' = o.additionalMovedPiece.to
                /\ pieces'[to].type = TypeShown(pieces[from], to)
      ]_vars
=============================================================================
