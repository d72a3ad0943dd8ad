------------------------------- MODULE Board -------------------------------
(***************************************************************************)
(* The chess board of the server (board.go, piece.go, move.go): one array  *)
(* of BOARD_SIZE x BOARD_SIZE squares tiled by 8 x 8 chessboards, changed  *)
(* only by its single writer.  An action is one call of                    *)
(* ValidateAndApplyMove__NOTTHREADSAFE, Adopt or DoBulkCapture that the    *)
(* code accepts; a call it rejects leaves the board as it was.             *)
(*                                                                         *)
(* `pieces' is a partial function: a square outside its domain holds       *)
(* EmptyEncodedPiece.  White is the boolean IsWhite of the code, and y     *)
(* grows downwards, as in the code: white pawns move towards y = 0.        *)
(***************************************************************************)
EXTENDS Integers, FiniteSets

CONSTANTS
    BOARD_SIZE,         \* squares per side; 8000 in constants.go
    MAX_MOVE_DISTANCE,  \* 36 in move.go
    MaxMoveCount,       \* where a piece's move counter saturates; 4000
    MaxCaptureCount,    \* where its capture counter saturates; 4000
    Placed,             \* ids of the pieces that stand in the first state
    MaxSeqNum           \* bound: no operation is started from this seqNum on

VARIABLES
    pieces,         \* [occupied squares -> piece]
    seqNum,         \* number of the last change of the board
    totalMoves,     \* accepted moves
    captured,       \* [BOOLEAN -> Nat]: white/blackPiecesCaptured
    kingsCaptured   \* [BOOLEAN -> Nat]: white/blackKingsCaptured

vars == <<pieces, seqNum, totalMoves, captured, kingsCaptured>>

----------------------------------------------------------------------------
(* Geometry.  An operator whose name starts with Mut_ is not part of the   *)
(* model: it is a wrong version of the definition that follows it, used to *)
(* see that a property notices.                                            *)

SINGLE_BOARD_SIZE == 8

Coord == 0 .. BOARD_SIZE - 1
Squares == Coord \X Coord
BoardsPerSide == BOARD_SIZE \div SINGLE_BOARD_SIZE

BoardOf(s) == <<s[1] \div 8, s[2] \div 8>>

AbsInt(a) == IF a < 0 THEN -a ELSE a
AbsDiff(a, b) == AbsInt(a - b)
Dx(from, to) == to[1] - from[1]
Dy(from, to) == to[2] - from[2]
Sign(n) == IF n > 0 THEN 1 ELSE IF n < 0 THEN -1 ELSE 0
Mut_Unsaturated(n, max) == n + 1
Capped(n, max) == IF n < max THEN n + 1 ELSE max

(* The squares a move from `from' may name: on the board, not `from'       *)
(* itself and at most MAX_MOVE_DISTANCE away along either axis.            *)
Reach(c) == {d \in Coord : AbsDiff(d, c) <= MAX_MOVE_DISTANCE}
Destinations(from) == (Reach(from[1]) \X Reach(from[2])) \ {from}

----------------------------------------------------------------------------
(* Pieces.  createPiece hands out ids in the order setupPiecesForColor     *)
(* asks for them: board by board, white's 16 pieces before black's, eight  *)
(* pawns before the back rank.  So an id determines the piece's home.      *)

PieceTypes ==
    {"Pawn", "Knight", "Bishop", "Rook", "Queen", "King", "PromotedPawn"}
Trophies == {"KingKiller", "KingPawner", "QueenKiller", "QueenPawner",
             "AdoptedKiller", "HasCapturedPieceTypeOtherThanOwn"}
Flags == Trophies \cup {"Adopted"}

BackRank(file) == CASE file \in {0, 7} -> "Rook"
                    [] file \in {1, 6} -> "Knight"
                    [] file \in {2, 5} -> "Bishop"
                    [] file = 3 -> "Queen"
                    [] file = 4 -> "King"

AllIds == 1 .. 32 * BoardsPerSide * BoardsPerSide
HomeIsWhite(id) == (id - 1) % 32 < 16
HomeFile(id) == (id - 1) % 8
HomeIsPawn(id) == (id - 1) % 16 < 8
HomeType(id) == IF HomeIsPawn(id) THEN "Pawn" ELSE BackRank(HomeFile(id))
HomeRank(id) == CASE HomeIsWhite(id)  /\ HomeIsPawn(id)  -> 6
                  [] HomeIsWhite(id)  /\ ~HomeIsPawn(id) -> 7
                  [] ~HomeIsWhite(id) /\ HomeIsPawn(id)  -> 1
                  [] ~HomeIsWhite(id) /\ ~HomeIsPawn(id) -> 0
HomeBoard(id) == LET b == (id - 1) \div 32
                 IN  <<b \div BoardsPerSide, b % BoardsPerSide>>
HomeSquare(id) == <<8 * HomeBoard(id)[1] + HomeFile(id),
                    8 * HomeBoard(id)[2] + HomeRank(id)>>

NewPiece(id) ==
    [id |-> id, type |-> HomeType(id), white |-> HomeIsWhite(id),
     moveCount |-> 0, captureCount |-> 0, justDoubleMoved |-> FALSE,
     flags |-> {}]

(* What the values of constants.go, move.go and piece.go satisfy.          *)
ASSUME BoardAssumption ==
    /\ BOARD_SIZE \in Nat \ {0} /\ BOARD_SIZE % SINGLE_BOARD_SIZE = 0
    /\ MAX_MOVE_DISTANCE \in Nat
    /\ MaxMoveCount \in Nat \ {0}
    /\ MaxCaptureCount \in 1 .. MaxMoveCount
    /\ Placed \subseteq AllIds
    /\ MaxSeqNum \in Nat

Piece == [id : Placed, type : PieceTypes, white : BOOLEAN,
          moveCount : 0 .. MaxMoveCount, captureCount : 0 .. MaxCaptureCount,
          justDoubleMoved : BOOLEAN, flags : SUBSET Flags]

(* What InitializeRandom leaves: every placed piece at home, the others    *)
(* counted as captured so that initial minus captured is what stands.      *)
Missing(white) == {id \in AllIds \ Placed : HomeIsWhite(id) = white}
MissingKings(white) == {id \in Missing(white) : HomeType(id) = "King"}

Init ==
    /\ pieces = [s \in {HomeSquare(id) : id \in Placed} |->
                    NewPiece(CHOOSE id \in Placed : HomeSquare(id) = s)]
    /\ seqNum = 1
    /\ totalMoves = 0
    /\ captured = [white \in BOOLEAN |-> Cardinality(Missing(white))]
    /\ kingsCaptured = [white \in BOOLEAN |-> Cardinality(MissingKings(white))]

----------------------------------------------------------------------------
(* Movement rules *)

Occupied(s) == s \in DOMAIN pieces

(* The walk of crossedSquaresAreEmpty.  When the two squares share no      *)
(* line it never meets `to' and ends, false, on a piece or off the board.  *)
Mut_AnyLine(from, to) == TRUE
OnOneLine(from, to) ==
    \/ from[1] = to[1]
    \/ from[2] = to[2]
    \/ AbsDiff(from[1], to[1]) = AbsDiff(from[2], to[2])

Distance(from, to) ==
    IF AbsDiff(from[1], to[1]) > AbsDiff(from[2], to[2])
    THEN AbsDiff(from[1], to[1]) ELSE AbsDiff(from[2], to[2])

crossedSquaresAreEmpty(from, to) ==
    /\ OnOneLine(from, to)
    /\ \A k \in 1 .. Distance(from, to) - 1 :
          ~Occupied(<<from[1] + k * Sign(Dx(from, to)),
                      from[2] + k * Sign(Dy(from, to))>>)

satisfiesPawnMoveRules(piece, from, to) ==
    /\ AbsDiff(from[2], to[2]) \in {1, 2}
    /\ AbsDiff(from[1], to[1]) = IF Occupied(to) THEN 1 ELSE 0
    /\ IF piece.white THEN Dy(from, to) < 0 ELSE Dy(from, to) > 0
    /\ AbsDiff(from[2], to[2]) = 2 => piece.moveCount = 0
    /\ crossedSquaresAreEmpty(from, to)

satisfiesKnightMoveRules(from, to) ==
    {AbsDiff(from[1], to[1]), AbsDiff(from[2], to[2])} = {1, 2}

satisfiesBishopMoveRules(from, to) ==
    /\ AbsDiff(from[1], to[1]) = AbsDiff(from[2], to[2])
    /\ crossedSquaresAreEmpty(from, to)

satisfiesRookMoveRules(from, to) ==
    /\ from[1] = to[1] \/ from[2] = to[2]
    /\ crossedSquaresAreEmpty(from, to)

satisfiesQueenMoveRules(from, to) ==
    satisfiesBishopMoveRules(from, to) \/ satisfiesRookMoveRules(from, to)

Mut_KingCrossesBoards(from, to) == Distance(from, to) <= 1
satisfiesKingMoveRules(from, to) ==
    /\ Distance(from, to) <= 1
    /\ BoardOf(from) = BoardOf(to)

satisfiesMoveRules(piece, from, to) ==
    \/ piece.type = "Pawn"   /\ satisfiesPawnMoveRules(piece, from, to)
    \/ piece.type = "Knight" /\ satisfiesKnightMoveRules(from, to)
    \/ piece.type = "Bishop" /\ satisfiesBishopMoveRules(from, to)
    \/ piece.type = "Rook"   /\ satisfiesRookMoveRules(from, to)
    \/ piece.type \in {"Queen", "PromotedPawn"}
       /\ satisfiesQueenMoveRules(from, to)
    \/ piece.type = "King"   /\ satisfiesKingMoveRules(from, to)

----------------------------------------------------------------------------
(* Changing the board *)

(* The array after the squares of `gone' are emptied and those of `put'    *)
(* (a function) are written.                                               *)
Mut_RewriteCopies(gone, put) ==
    [s \in DOMAIN pieces \cup DOMAIN put |->
        IF s \in DOMAIN put THEN put[s] ELSE pieces[s]]
Rewrite(gone, put) ==
    [s \in (DOMAIN pieces \ gone) \cup DOMAIN put |->
        IF s \in DOMAIN put THEN put[s] ELSE pieces[s]]

(* The piece a request names must stand on the square it names and belong  *)
(* to the colour the client plays.                                         *)
Selects(from, id, white) ==
    /\ Occupied(from)
    /\ pieces[from].white = white
    /\ pieces[from].id = id

CountOf(S, white) == Cardinality({s \in S : pieces[s].white = white})
KingsOf(S) == {s \in S : pieces[s].type = "King"}

(* The counters after the pieces on the squares of S are captured.         *)
Mut_KingsUncounted(S) ==
    /\ captured' = [w \in BOOLEAN |-> captured[w] + CountOf(S, w)]
    /\ UNCHANGED kingsCaptured
CountCaptures(S) ==
    /\ captured' = [w \in BOOLEAN |-> captured[w] + CountOf(S, w)]
    /\ kingsCaptured' =
          [w \in BOOLEAN |-> kingsCaptured[w] + CountOf(KingsOf(S), w)]

CountMove ==
    /\ seqNum' = seqNum + 1
    /\ totalMoves' = totalMoves + 1

----------------------------------------------------------------------------
(* ValidateAndApplyMove: one action per move type.  In each of them the    *)
(* request has already been found to select the piece on `from'.           *)

RookFrom(from, to) == <<from[1] + (IF Dx(from, to) = 2 THEN 3 ELSE -4), from[2]>>
RookTo(from, to) == <<to[1] + (IF Dx(from, to) = 2 THEN -1 ELSE 1), to[2]>>

CanCastle(from, to) ==
    LET king == pieces[from]
        corner == RookFrom(from, to)
    IN  /\ king.type = "King"
        /\ king.moveCount = 0
        /\ Dx(from, to) \in {2, -2}
        /\ Dy(from, to) = 0
        /\ Occupied(corner)
        /\ pieces[corner].type = "Rook"
        /\ pieces[corner].white = king.white
        /\ pieces[corner].moveCount = 0
        /\ crossedSquaresAreEmpty(from, corner)

Mut_CastlingUncounted(piece) == piece
AfterCastling(piece) == [piece EXCEPT !.moveCount = 1]

Castle(from, to) ==
    LET corner == RookFrom(from, to)
    IN  /\ CanCastle(from, to)
        /\ pieces' = Rewrite({from, corner},
              [s \in {to, RookTo(from, to)} |->
                  AfterCastling(pieces[IF s = to THEN from ELSE corner])])
        /\ CountMove
        /\ UNCHANGED <<captured, kingsCaptured>>

(* The pawn a white pawn passes stands beside `from', on the file of `to'. *)
PassedSquare(from, to) == <<to[1], from[2]>>

Mut_AnyPawnEnPassant(from, to) ==
    LET pawn == pieces[from]
        passed == PassedSquare(from, to)
    IN  /\ pawn.type = "Pawn"
        /\ Dy(from, to) = IF pawn.white THEN -1 ELSE 1
        /\ Dx(from, to) \in {1, -1}
        /\ ~Occupied(to)
        /\ Occupied(passed)
        /\ pieces[passed].white # pawn.white
        /\ pieces[passed].type = "Pawn"
CanTakeEnPassant(from, to) ==
    LET pawn == pieces[from]
        passed == PassedSquare(from, to)
    IN  /\ pawn.type = "Pawn"
        /\ Dy(from, to) = IF pawn.white THEN -1 ELSE 1
        /\ Dx(from, to) \in {1, -1}
        /\ ~Occupied(to)
        /\ Occupied(passed)
        /\ pieces[passed].white # pawn.white
        /\ pieces[passed].type = "Pawn"
        /\ pieces[passed].justDoubleMoved

EnPassant(from, to) ==
    LET passed == PassedSquare(from, to)
        pawn == [pieces[from] EXCEPT
                    !.moveCount = Capped(@, MaxMoveCount),
                    !.captureCount = Capped(@, MaxCaptureCount),
                    !.justDoubleMoved = FALSE]
    IN  /\ CanTakeEnPassant(from, to)
        /\ pieces' = Rewrite({from, passed}, [s \in {to} |-> pawn])
        /\ CountMove
        /\ CountCaptures({passed})

(* A piece that has not moved can only be captured from its own board.     *)
Mut_CaptureAcrossBoards(from, to) == pieces[to].white # pieces[from].white
CanCapture(from, to) ==
    /\ pieces[to].white # pieces[from].white
    /\ BoardOf(from) = BoardOf(to) \/ pieces[to].moveCount # 0

CanMoveNormally(from, to) ==
    /\ Occupied(to) => CanCapture(from, to)
    /\ satisfiesMoveRules(pieces[from], from, to)

TypeAfter(piece, to) ==
    IF /\ piece.type = "Pawn"
       /\ to[2] = IF piece.white THEN 0 ELSE BOARD_SIZE - 1
    THEN "PromotedPawn" ELSE piece.type

(* The badges a capture earns; `type' is the captor's after promotion.     *)
Badges(type, victim) ==
    (IF victim.type = "Queen" THEN {"QueenKiller"} ELSE {})
    \cup (IF victim.type = "Queen" /\ type = "Pawn" THEN {"QueenPawner"} ELSE {})
    \cup (IF victim.type = "King" THEN {"KingKiller"} ELSE {})
    \cup (IF victim.type = "King" /\ type = "Pawn" THEN {"KingPawner"} ELSE {})
    \cup (IF "Adopted" \in victim.flags THEN {"AdoptedKiller"} ELSE {})
    \cup (IF victim.type # type
          THEN {"HasCapturedPieceTypeOtherThanOwn"} ELSE {})

AfterStep(piece, from, to) ==
    [piece EXCEPT
        !.type = TypeAfter(piece, to),
        !.moveCount = Capped(@, MaxMoveCount),
        !.justDoubleMoved = IF piece.type = "Pawn"
                            THEN AbsDiff(from[2], to[2]) = 2 ELSE @]

AfterCapture(piece, victim) ==
    [piece EXCEPT !.captureCount = Capped(@, MaxCaptureCount),
                  !.flags = @ \cup Badges(piece.type, victim)]

NormalMove(from, to) ==
    LET stepped == AfterStep(pieces[from], from, to)
        moved == IF Occupied(to) THEN AfterCapture(stepped, pieces[to])
                                 ELSE stepped
    IN  /\ CanMoveNormally(from, to)
        /\ pieces' = Rewrite({from}, [s \in {to} |-> moved])
        /\ CountMove
        /\ CountCaptures({to} \cap DOMAIN pieces)

----------------------------------------------------------------------------
(* Requests over a whole chessboard; `color' is the request's OnlyColor.   *)

OnlyColors == {"white", "black", "either"}
MatchesColor(piece, color) ==
    color = "either" \/ piece.white = (color = "white")

(* StartingX .. EndingX of the request made for coordinate c: the code     *)
(* wants both below BOARD_SIZE.                                            *)
StartOf(c) == (c \div SINGLE_BOARD_SIZE) * SINGLE_BOARD_SIZE
EndOf(c) == StartOf(c) + SINGLE_BOARD_SIZE
OutOfBounds(x, y) ==
    \/ StartOf(x) >= BOARD_SIZE \/ StartOf(y) >= BOARD_SIZE
    \/ EndOf(x) >= BOARD_SIZE   \/ EndOf(y) >= BOARD_SIZE

Box(x, y) == (StartOf(x) .. EndOf(x) - 1) \X (StartOf(y) .. EndOf(y) - 1)
Affected(x, y, color) ==
    {s \in Box(x, y) \cap DOMAIN pieces : MatchesColor(pieces[s], color)}

Adopt(x, y, color) ==
    /\ ~OutOfBounds(x, y)
    /\ pieces' = [s \in DOMAIN pieces |->
                    IF s \in Affected(x, y, color)
                    THEN [pieces[s] EXCEPT !.flags = @ \cup {"Adopted"}]
                    ELSE pieces[s]]
    /\ seqNum' = seqNum + 1
    /\ UNCHANGED <<totalMoves, captured, kingsCaptured>>

DoBulkCapture(x, y, color) ==
    /\ ~OutOfBounds(x, y)
    /\ pieces' = [s \in DOMAIN pieces \ Affected(x, y, color) |-> pieces[s]]
    /\ seqNum' = seqNum + 1
    /\ CountCaptures(Affected(x, y, color))
    /\ UNCHANGED totalMoves

----------------------------------------------------------------------------
(* One coordinate of every chessboard stands for all 64 of them: requests  *)
(* keep only the board it lies on (NewAdoptionRequest, lines 31-37).       *)
BoardOrigins == {c \in Coord : c % SINGLE_BOARD_SIZE = 0}

HasTime == seqNum < MaxSeqNum

(* A client names the piece on `from' and plays its colour.                *)
Requested(from) ==
    /\ HasTime
    /\ \E id \in Placed, white \in BOOLEAN : Selects(from, id, white)

Next ==
    \/ \E from \in DOMAIN pieces : \E to \in Destinations(from) :
         Requested(from) /\ Castle(from, to)
    \/ \E from \in DOMAIN pieces : \E to \in Destinations(from) :
         Requested(from) /\ EnPassant(from, to)
    \/ \E from \in DOMAIN pieces : \E to \in Destinations(from) :
         Requested(from) /\ NormalMove(from, to)
    \/ \E x, y \in BoardOrigins, color \in OnlyColors :
         HasTime /\ Adopt(x, y, color)
    \/ \E x, y \in BoardOrigins, color \in OnlyColors :
         HasTime /\ DoBulkCapture(x, y, color)

Spec == Init /\ [][Next]_vars

----------------------------------------------------------------------------
(* Properties *)

(* Every variable stays in its domain: in particular each stored piece     *)
(* still decodes to a known type and its saturating counters stay within   *)
(* the 12 bits piece.go gives them.                                        *)
TypeOK ==
    /\ DOMAIN pieces \subseteq Squares
    /\ pieces \in [DOMAIN pieces -> Piece]
    /\ seqNum \in Nat
    /\ totalMoves \in Nat
    /\ captured \in [BOOLEAN -> Nat]
    /\ kingsCaptured \in [BOOLEAN -> Nat]

(* No piece is lost or duplicated by any sequence of moves, castlings, en  *)
(* passant and bulk captures: for each colour what stands plus what the    *)
(* counters say was captured is what the game began with, for pieces and   *)
(* for kings.  getSnapshot logs PROBABLE SIZE IS NOT ACTUAL SIZE and       *)
(* refreshStatsOnce ends the game from the counters alone, on the strength *)
(* of exactly this.                                                        *)
CapturesAccountForMissing ==
    \A white \in BOOLEAN :
        /\ captured[white] + CountOf(DOMAIN pieces, white)
              = 16 * BoardsPerSide * BoardsPerSide
        /\ kingsCaptured[white] + CountOf(KingsOf(DOMAIN pieces), white)
              = BoardsPerSide * BoardsPerSide

(* An id is on at most one square: clients key every piece they show, and  *)
(* every capture they are told of, by it.                                  *)
UniqueIds ==
    \A s, t \in DOMAIN pieces : pieces[s].id = pieces[t].id => s = t

(* A piece keeps what its id says of it, whichever operation rewrites its  *)
(* square: its colour never changes, and its type only from pawn to        *)
(* promoted pawn (board.go, ValidateAndApplyMove__NOTTHREADSAFE).          *)
KeepsIdentity ==
    \A s \in DOMAIN pieces :
        LET p == pieces[s]
        IN  /\ p.white = HomeIsWhite(p.id)
            /\ \/ p.type = HomeType(p.id)
               \/ HomeType(p.id) = "Pawn" /\ p.type = "PromotedPawn"

(* A piece whose move count is zero stands where setupPiecesForColor put   *)
(* it.  Castling, the pawn's double step and the protection of unmoved     *)
(* pieces all read the count as "never moved".                             *)
UnmovedAtHome ==
    \A s \in DOMAIN pieces :
        pieces[s].moveCount = 0 => s = HomeSquare(pieces[s].id)

(* A pawn that can be taken en passant is exactly two ranks ahead of its   *)
(* home square, on its home file, however long ago its double step was.    *)
DoubleMovedTwoAhead ==
    \A s \in DOMAIN pieces :
        LET p == pieces[s]
            home == HomeSquare(p.id)
        IN  p.justDoubleMoved =>
                /\ p.type = "Pawn"
                /\ p.moveCount # 0
                /\ s = <<home[1], home[2] + (IF p.white THEN -2 ELSE 2)>>

(* A king never leaves the chessboard it was set up on, castling included. *)
KingsStayOnTheirBoard ==
    \A s \in DOMAIN pieces :
        pieces[s].type = "King" => BoardOf(s) = HomeBoard(pieces[s].id)

(* No unpromoted pawn stands on its last rank.  The en passant branch has  *)
(* no promotion of its own: it is right only because no pawn that can be   *)
(* taken en passant stands next to the last rank.                          *)
NoPawnOnLastRank ==
    \A s \in DOMAIN pieces :
        pieces[s].type = "Pawn" =>
            s[2] # IF pieces[s].white THEN 0 ELSE BOARD_SIZE - 1

(* What the movement rules add up to over a whole game: a bishop keeps to  *)
(* the color of squares it started on, and a knight changes color with     *)
(* every move, for as long as its counter counts.                          *)
ColorOf(s) == (s[1] + s[2]) % 2
SquareColorsAreKept ==
    \A s \in DOMAIN pieces :
        LET p == pieces[s]
            home == ColorOf(HomeSquare(p.id))
        IN  /\ p.type = "Bishop" => ColorOf(s) = home
            /\ p.type = "Knight" /\ p.moveCount < MaxMoveCount =>
                  ColorOf(s) = (home + p.moveCount) % 2

(* A move never captures a piece that has not moved from another           *)
(* chessboard: the piece the step puts where the captured one stood comes  *)
(* from the captured piece's own board.                                    *)
Standing == {pieces[s].id : s \in DOMAIN pieces}
SquareOf(id) == CHOOSE s \in DOMAIN pieces : pieces[s].id = id
UnmovedAreSafeFromOtherBoards ==
    [][totalMoves' # totalMoves =>
        \A s \in DOMAIN pieces :
            (pieces[s].moveCount = 0 /\ pieces[s].id \notin Standing') =>
                /\ Occupied(s)'
                /\ BoardOf(SquareOf(pieces'[s].id)) = HomeBoard(pieces[s].id)
      ]_vars

(* ServeAdoption and ServeBulkCapture refuse only coordinates that are off *)
(* the board, so each piece is one an adoption can reach.  (Not so: the    *)
(* last chessboard of every row and column is out of bounds to Adopt.)     *)
EveryPieceCanBeAdopted ==
    \A s \in DOMAIN pieces : ~OutOfBounds(s[1], s[2])
=============================================================================
