---------------------------- MODULE BoardProofs ----------------------------
(***************************************************************************)
(* Theorems about Board, for every board size, placement and saturation    *)
(* point that BoardAssumption allows.                                      *)
(***************************************************************************)
EXTENDS Board, FiniteSetTheorems, TLAPS

(* The home of a piece in arithmetic that the provers can use.             *)
LEMMA BoardsPerSideFact ==
    BoardsPerSide \in Nat \ {0} /\ BOARD_SIZE = 8 * BoardsPerSide
BY BoardAssumption DEF BoardsPerSide, SINGLE_BOARD_SIZE

LEMMA DivModSquare ==
    ASSUME NEW B \in Nat \ {0}, NEW b \in Nat, b < B * B
    PROVE  b \div B \in 0 .. B - 1 /\ b % B \in 0 .. B - 1
<1> DEFINE q == b \div B
           r == b % B
<1>1. q \in Int /\ r \in 0 .. B - 1 /\ b = B * q + r
  OBVIOUS
<1>2. q >= 0
  BY <1>1
<1>3. q < B
  BY <1>1, <1>2
<1> QED BY <1>1, <1>2, <1>3

LEMMA HomeFacts ==
    ASSUME NEW id \in AllIds
    PROVE  /\ HomeFile(id) \in 0 .. 7
           /\ HomeRank(id) \in {0, 1, 6, 7}
           /\ HomeIsWhite(id) \in BOOLEAN
           /\ HomeBoard(id) \in (0 .. BoardsPerSide - 1) \X (0 .. BoardsPerSide - 1)
           /\ HomeSquare(id) \in Squares
           /\ BoardOf(HomeSquare(id)) = HomeBoard(id)
           /\ HomeSquare(id)[1] = 8 * HomeBoard(id)[1] + HomeFile(id)
           /\ HomeSquare(id)[2] = 8 * HomeBoard(id)[2] + HomeRank(id)
<1> DEFINE B == BoardsPerSide
           b == (id - 1) \div 32
<1>1. B \in Nat \ {0} /\ BOARD_SIZE = 8 * B
  BY BoardsPerSideFact
<1>2. id \in Nat \ {0} /\ id <= 32 * (B * B)
  BY <1>1 DEF AllIds
<1> HIDE DEF B
<1>3. B * B \in Nat
  BY <1>1
<1>4. b \in Nat /\ b < B * B
  BY <1>2, <1>3
<1> HIDE DEF b
<1>5. b \div B \in 0 .. B - 1 /\ b % B \in 0 .. B - 1
  BY <1>1, <1>4, DivModSquare
<1>6. HomeFile(id) \in 0 .. 7
  BY <1>2 DEF HomeFile
<1>7. HomeRank(id) \in {0, 1, 6, 7} /\ HomeIsWhite(id) \in BOOLEAN
  BY DEF HomeRank, HomeIsWhite, HomeIsPawn
<1>8. HomeBoard(id) = <<b \div B, b % B>>
  BY DEF HomeBoard, b, B
<1>9. PICK bx \in 0 .. B - 1, by \in 0 .. B - 1 : HomeBoard(id) = <<bx, by>>
  BY <1>5, <1>8
<1>10. HomeSquare(id) = <<8 * bx + HomeFile(id), 8 * by + HomeRank(id)>>
  BY <1>9 DEF HomeSquare
<1>11. /\ 8 * bx + HomeFile(id) \in Coord /\ 8 * by + HomeRank(id) \in Coord
       /\ (8 * bx + HomeFile(id)) \div 8 = bx
       /\ (8 * by + HomeRank(id)) \div 8 = by
  BY <1>1, <1>6, <1>7 DEF Coord
<1> QED BY <1>6, <1>7, <1>9, <1>10, <1>11 DEF Squares, BoardOf, B

(* Pawns start on ranks 1 and 6 of their board, a king on file 4.          *)
LEMMA HomeTypes ==
    ASSUME NEW id \in AllIds
    PROVE  /\ HomeType(id) \in PieceTypes \ {"PromotedPawn"}
           /\ HomeType(id) = "Pawn" => HomeRank(id) = IF HomeIsWhite(id) THEN 6 ELSE 1
           /\ HomeType(id) = "King" => HomeFile(id) = 4
<1>1. HomeFile(id) \in 0 .. 7
  BY HomeFacts
<1>2. BackRank(HomeFile(id)) \in PieceTypes \ {"PromotedPawn", "Pawn"}
  BY <1>1 DEF BackRank, PieceTypes
<1>3. BackRank(HomeFile(id)) = "King" => HomeFile(id) = 4
  BY <1>1 DEF BackRank
<1> QED BY <1>2, <1>3 DEF HomeType, HomeRank, PieceTypes

----------------------------------------------------------------------------
(* The part of the invariant that speaks of one piece: what must be true   *)
(* of piece p standing on square s.                                        *)
PieceInv(s, p) ==
    /\ p.white = HomeIsWhite(p.id)
    /\ \/ p.type = HomeType(p.id)
       \/ HomeType(p.id) = "Pawn" /\ p.type = "PromotedPawn"
    /\ p.moveCount = 0 => s = HomeSquare(p.id)
    /\ p.justDoubleMoved =>
          /\ p.type = "Pawn"
          /\ p.moveCount # 0
          /\ s = <<HomeSquare(p.id)[1],
                   HomeSquare(p.id)[2] + (IF p.white THEN -2 ELSE 2)>>
    /\ p.type = "King" => BoardOf(s) = HomeBoard(p.id)
    /\ p.type = "Pawn" => s[2] # IF p.white THEN 0 ELSE BOARD_SIZE - 1

PiecesInv == \A s \in DOMAIN pieces : PieceInv(s, pieces[s])

IInv == TypeOK /\ UniqueIds /\ PiecesInv

LEMMA SquareFacts ==
    ASSUME NEW s \in Squares
    PROVE  s[1] \in Coord /\ s[2] \in Coord /\ s = <<s[1], s[2]>>
           /\ s[1] \in Int /\ s[2] \in Int
BY BoardAssumption DEF Squares, Coord

(* A piece set up at home satisfies it.                                    *)
LEMMA NewPieceInv ==
    ASSUME NEW id \in Placed
    PROVE  NewPiece(id) \in Piece /\ PieceInv(HomeSquare(id), NewPiece(id))
<1> DEFINE p == NewPiece(id)
<1>1. id \in AllIds
  BY BoardAssumption
<1>2. HomeType(id) \in PieceTypes /\ HomeIsWhite(id) \in BOOLEAN
  BY <1>1, HomeTypes, HomeFacts DEF PieceTypes
<1>3. p \in Piece
  BY <1>2, BoardAssumption DEF Piece, NewPiece
<1>4. HomeType(id) = "Pawn" =>
         HomeSquare(id)[2] # IF HomeIsWhite(id) THEN 0 ELSE BOARD_SIZE - 1
  <2> SUFFICES ASSUME HomeType(id) = "Pawn"
               PROVE  HomeSquare(id)[2] # IF HomeIsWhite(id) THEN 0 ELSE BOARD_SIZE - 1
    OBVIOUS
  <2>1. PICK by \in 0 .. BoardsPerSide - 1 :
           HomeSquare(id)[2] = 8 * by + IF HomeIsWhite(id) THEN 6 ELSE 1
    BY <1>1, HomeFacts, HomeTypes
  <2> QED BY <2>1, BoardsPerSideFact
<1>5. BoardOf(HomeSquare(id)) = HomeBoard(id)
  BY <1>1, HomeFacts
<1> QED BY <1>3, <1>4, <1>5 DEF NewPiece, PieceInv

(* What a rule-abiding step does to the piece that makes it.  The pawn     *)
(* case is where the walk of crossedSquaresAreEmpty matters: without it a  *)
(* capture two ranks ahead would set justDoubleMoved on the wrong file.    *)
LEMMA StepPieceInv ==
    ASSUME NEW p \in Piece, NEW from \in Squares, NEW to \in Squares,
           PieceInv(from, p), satisfiesMoveRules(p, from, to)
    PROVE  /\ AfterStep(p, from, to) \in Piece
           /\ PieceInv(to, AfterStep(p, from, to))
           /\ AfterStep(p, from, to).id = p.id
<1> DEFINE q == AfterStep(p, from, to)
<1>1. /\ q.id = p.id /\ q.white = p.white
      /\ q.type = TypeAfter(p, to)
      /\ q.moveCount = Capped(p.moveCount, MaxMoveCount)
      /\ q.justDoubleMoved = IF p.type = "Pawn"
                             THEN AbsDiff(from[2], to[2]) = 2 ELSE p.justDoubleMoved
      /\ q.captureCount = p.captureCount /\ q.flags = p.flags
  BY DEF AfterStep, Piece
<1>2. TypeAfter(p, to) \in PieceTypes
  BY DEF TypeAfter, Piece, PieceTypes
<1>3. Capped(p.moveCount, MaxMoveCount) \in 1 .. MaxMoveCount
  BY BoardAssumption DEF Capped, Piece
<1>4. q \in Piece
  <2>1. p.justDoubleMoved \in BOOLEAN
    BY DEF Piece
  <2>2. (AbsDiff(from[2], to[2]) = 2) \in BOOLEAN
    BY Zenon
  <2>3. PICK twice \in BOOLEAN : twice = IF p.type = "Pawn"
                     THEN AbsDiff(from[2], to[2]) = 2 ELSE p.justDoubleMoved
    BY <2>1, <2>2, Zenon
  <2>4. q = [p EXCEPT !.type = TypeAfter(p, to),
                      !.moveCount = Capped(p.moveCount, MaxMoveCount),
                      !.justDoubleMoved = twice]
    BY <2>3, Zenon DEF AfterStep
  <2> HIDE DEF q
  <2>5. q = [id |-> p.id, type |-> TypeAfter(p, to), white |-> p.white,
             moveCount |-> Capped(p.moveCount, MaxMoveCount),
             captureCount |-> p.captureCount,
             justDoubleMoved |-> twice, flags |-> p.flags]
    BY <2>4 DEF Piece
  <2> QED BY <1>2, <1>3, <2>5, BoardAssumption DEF Piece
<1>5. p.id \in AllIds /\ p.white \in BOOLEAN /\ p.moveCount \in Nat
  BY BoardAssumption DEF Piece
<1>6. /\ from[1] \in Int /\ from[2] \in Int /\ to[1] \in Int /\ to[2] \in Int
      /\ to = <<to[1], to[2]>> /\ from = <<from[1], from[2]>>
  BY SquareFacts
<1>7. CASE p.type = "Pawn"
  <2>1. satisfiesPawnMoveRules(p, from, to)
    BY <1>7 DEF satisfiesMoveRules
  <2>2. HomeType(p.id) = "Pawn"
    BY <1>7 DEF PieceInv
  <2>3. q.type = "Pawn" => to[2] # IF p.white THEN 0 ELSE BOARD_SIZE - 1
    BY <1>1, <1>7 DEF TypeAfter
  <2>4. ASSUME AbsDiff(from[2], to[2]) = 2
        PROVE  /\ to = <<HomeSquare(p.id)[1],
                         HomeSquare(p.id)[2] + (IF p.white THEN -2 ELSE 2)>>
               /\ q.type = "Pawn"
    <3>1. from = HomeSquare(p.id)
      BY <2>1, <2>4 DEF satisfiesPawnMoveRules, PieceInv
    <3>2. to[1] = from[1]
      BY <1>6, <2>1, <2>4
      DEF satisfiesPawnMoveRules, crossedSquaresAreEmpty, OnOneLine, AbsDiff, AbsInt
    <3>3. to[2] = from[2] + IF p.white THEN -2 ELSE 2
      BY <1>6, <2>1, <2>4 DEF satisfiesPawnMoveRules, AbsDiff, AbsInt, Dy
    <3>4. PICK by \in 0 .. BoardsPerSide - 1 :
             HomeSquare(p.id)[2] = 8 * by + IF p.white THEN 6 ELSE 1
      BY <1>5, <2>2, HomeFacts, HomeTypes DEF PieceInv
    <3>5. to[2] # IF p.white THEN 0 ELSE BOARD_SIZE - 1
      BY <1>5, <3>1, <3>3, <3>4, BoardsPerSideFact
    <3> QED BY <1>1, <1>6, <1>7, <3>1, <3>2, <3>3, <3>5 DEF TypeAfter
  <2>5. q.type # "King"
    BY <1>1, <1>7 DEF TypeAfter
  <2>6. \/ q.type = HomeType(q.id)
        \/ HomeType(q.id) = "Pawn" /\ q.type = "PromotedPawn"
    BY <1>1, <1>7, <2>2 DEF TypeAfter
  <2>7. q.justDoubleMoved => AbsDiff(from[2], to[2]) = 2
    BY <1>1, <1>7
  <2> QED BY <1>1, <1>3, <1>4, <2>3, <2>4, <2>5, <2>6, <2>7 DEF PieceInv
<1>8. CASE p.type # "Pawn"
  <2>1. q.type = p.type /\ ~q.justDoubleMoved
    BY <1>1, <1>8 DEF TypeAfter, PieceInv, Piece
  <2>2. p.type = "King" => BoardOf(to) = BoardOf(from)
    BY DEF satisfiesMoveRules, satisfiesKingMoveRules
  <2> QED BY <1>1, <1>3, <1>4, <1>8, <2>1, <2>2 DEF PieceInv
<1> QED BY <1>7, <1>8

LEMMA CapturePieceInv ==
    ASSUME NEW p \in Piece, NEW victim \in Piece, NEW s, PieceInv(s, p)
    PROVE  /\ AfterCapture(p, victim) \in Piece
           /\ PieceInv(s, AfterCapture(p, victim))
           /\ AfterCapture(p, victim).id = p.id
<1>1. Capped(p.captureCount, MaxCaptureCount) \in 0 .. MaxCaptureCount
  BY BoardAssumption DEF Capped, Piece
<1>2. Badges(p.type, victim) \subseteq Flags
  BY DEF Badges, Flags, Trophies
<1> QED BY <1>1, <1>2 DEF AfterCapture, Piece, PieceInv

----------------------------------------------------------------------------
(* Rewriting the array preserves the invariant when each piece written     *)
(* satisfies its part of it and was taken off a square of `gone'.          *)
LEMMA RewriteInv ==
    ASSUME IInv, NEW gone \in SUBSET DOMAIN pieces, NEW put,
           DOMAIN put \subseteq Squares,
           \A s \in DOMAIN put : put[s] \in Piece /\ PieceInv(s, put[s]),
           \A s \in DOMAIN put : \E t \in gone : put[s].id = pieces[t].id,
           \A s, t \in DOMAIN put : put[s].id = put[t].id => s = t,
           pieces' = Rewrite(gone, put)
    PROVE  /\ DOMAIN pieces' \subseteq Squares
           /\ pieces' \in [DOMAIN pieces' -> Piece]
           /\ UniqueIds'
           /\ PiecesInv'
<1> DEFINE D == (DOMAIN pieces \ gone) \cup DOMAIN put
<1>1. /\ DOMAIN pieces' = D
      /\ \A s \in D : pieces'[s] = IF s \in DOMAIN put THEN put[s] ELSE pieces[s]
      /\ pieces' = [s \in D |-> pieces'[s]]
  BY DEF Rewrite
<1>2. /\ DOMAIN pieces \subseteq Squares
      /\ \A s \in DOMAIN pieces : pieces[s] \in Piece /\ PieceInv(s, pieces[s])
      /\ \A s, t \in DOMAIN pieces : pieces[s].id = pieces[t].id => s = t
  BY DEF IInv, TypeOK, UniqueIds, PiecesInv
<1>3. \A s \in D : pieces'[s] \in Piece /\ PieceInv(s, pieces'[s])
  BY <1>1, <1>2
<1>4. \A s, t \in D : pieces'[s].id = pieces'[t].id => s = t
  <2> SUFFICES ASSUME NEW s \in D, NEW t \in D, pieces'[s].id = pieces'[t].id
               PROVE  s = t
    OBVIOUS
  <2>1. CASE s \in DOMAIN put /\ t \in DOMAIN put
    BY <1>1, <2>1
  <2>2. CASE s \in DOMAIN put /\ t \notin DOMAIN put
    BY <1>1, <1>2, <2>2
  <2>3. CASE s \notin DOMAIN put /\ t \in DOMAIN put
    BY <1>1, <1>2, <2>3
  <2>4. CASE s \notin DOMAIN put /\ t \notin DOMAIN put
    BY <1>1, <1>2, <2>4
  <2> QED BY <2>1, <2>2, <2>3, <2>4
<1> QED BY <1>1, <1>2, <1>3, <1>4 DEF UniqueIds, PiecesInv

LEMMA DestinationFacts ==
    ASSUME IInv, NEW from \in DOMAIN pieces, NEW to \in Destinations(from)
    PROVE  from \in Squares /\ to \in Squares /\ to # from
BY DEF IInv, TypeOK, Destinations, Reach, Squares

(* The counters stay natural numbers: the squares counted are finitely     *)
(* many.                                                                   *)
LEMMA CountFacts ==
    ASSUME IInv, NEW S \in SUBSET DOMAIN pieces, CountCaptures(S)
    PROVE  captured' \in [BOOLEAN -> Nat] /\ kingsCaptured' \in [BOOLEAN -> Nat]
<1>1. IsFiniteSet(Squares)
  <2>1. IsFiniteSet(Coord)
    BY BoardAssumption, FS_Interval DEF Coord
  <2> QED BY <2>1, FS_Product DEF Squares
<1>2. ASSUME NEW T \in SUBSET DOMAIN pieces, NEW w \in BOOLEAN
      PROVE  CountOf(T, w) \in Nat
  <2> DEFINE U == {s \in T : pieces[s].white = w}
  <2>1. U \in SUBSET Squares
    BY DEF IInv, TypeOK
  <2>2. IsFiniteSet(U)
    BY <1>1, <2>1, FS_Subset
  <2>3. Cardinality(U) \in Nat
    BY <2>2, FS_CardinalityType
  <2> QED BY <2>3 DEF CountOf
<1>3. KingsOf(S) \in SUBSET DOMAIN pieces
  BY DEF KingsOf
<1>4. \A w \in BOOLEAN : CountOf(S, w) \in Nat /\ CountOf(KingsOf(S), w) \in Nat
  BY <1>2, <1>3
<1>5. captured \in [BOOLEAN -> Nat] /\ kingsCaptured \in [BOOLEAN -> Nat]
  BY DEF IInv, TypeOK
<1> QED BY <1>4, <1>5 DEF CountCaptures

LEMMA CastleInv ==
    ASSUME IInv, NEW from \in DOMAIN pieces, NEW to \in Destinations(from),
           Castle(from, to)
    PROVE  IInv'
<1> DEFINE corner == RookFrom(from, to)
           rookTo == RookTo(from, to)
           king == pieces[from]
           rook == pieces[corner]
           put == [s \in {to, rookTo} |->
                      AfterCastling(pieces[IF s = to THEN from ELSE corner])]
<1>1. /\ from \in Squares /\ to \in Squares /\ to # from
      /\ from[1] \in Coord /\ from[2] \in Coord
      /\ to[1] \in Coord /\ to[2] \in Coord
      /\ from = <<from[1], from[2]>> /\ to = <<to[1], to[2]>>
  BY DestinationFacts, SquareFacts
<1>2. /\ CanCastle(from, to)
      /\ pieces' = Rewrite({from, corner}, put)
      /\ CountMove /\ UNCHANGED <<captured, kingsCaptured>>
  BY DEF Castle
<1>3. /\ king \in Piece /\ PieceInv(from, king) /\ king.type = "King"
      /\ king.moveCount = 0
      /\ corner \in DOMAIN pieces
      /\ rook \in Piece /\ PieceInv(corner, rook) /\ rook.type = "Rook"
  BY <1>2 DEF CanCastle, Occupied, IInv, TypeOK, PiecesInv
<1>4. king.id \in AllIds /\ HomeType(king.id) = "King"
  BY <1>3, BoardAssumption, HomeTypes DEF Piece, PieceInv
<1>5. PICK bx \in 0 .. BoardsPerSide - 1, by \in 0 .. BoardsPerSide - 1 :
         /\ HomeBoard(king.id) = <<bx, by>>
         /\ from[1] = 8 * bx + 4
         /\ from[2] = 8 * by + HomeRank(king.id)
         /\ HomeRank(king.id) \in 0 .. 7
  <2>1. from = HomeSquare(king.id)
    BY <1>3 DEF PieceInv
  <2>2. HomeFile(king.id) = 4
    BY <1>4, HomeTypes
  <2>3. HomeRank(king.id) \in 0 .. 7
    BY <1>4, HomeFacts
  <2> QED BY <1>4, <2>1, <2>2, <2>3, HomeFacts
<1>6. to[2] = from[2] /\ to[1] \in {from[1] + 2, from[1] - 2}
  BY <1>1, <1>2 DEF CanCastle, Dx, Dy, Coord
<1>7. rookTo \in Squares /\ rookTo # to
  BY <1>1, <1>5, <1>6, BoardsPerSideFact DEF RookTo, Squares, Coord, Dx
<1>8. BoardOf(to) = HomeBoard(king.id)
  BY <1>5, <1>6, BoardsPerSideFact DEF BoardOf
<1>9. ASSUME NEW s, NEW t, NEW p \in Piece, PieceInv(s, p), p.type \in {"King", "Rook"},
             p.type = "King" => BoardOf(t) = HomeBoard(p.id)
      PROVE  /\ AfterCastling(p) \in Piece /\ PieceInv(t, AfterCastling(p))
             /\ AfterCastling(p).id = p.id
  BY <1>9, BoardAssumption DEF AfterCastling, Piece, PieceInv
<1>10. /\ put[to] = AfterCastling(king) /\ put[rookTo] = AfterCastling(rook)
       /\ DOMAIN put = {to, rookTo}
  BY <1>7
<1>11. \A s \in DOMAIN put : put[s] \in Piece /\ PieceInv(s, put[s])
  BY <1>3, <1>8, <1>9, <1>10
<1>12. put[to].id = king.id /\ put[rookTo].id = rook.id
  BY <1>3, <1>8, <1>9, <1>10
<1>13. king.id # rook.id
  BY <1>3 DEF IInv, UniqueIds
<1> HIDE DEF put, corner, rookTo
<1>14. /\ \A s \in DOMAIN put : \E t \in {from, corner} : put[s].id = pieces[t].id
       /\ \A s, t \in DOMAIN put : put[s].id = put[t].id => s = t
  BY <1>10, <1>12, <1>13
<1>15. DOMAIN put \subseteq Squares /\ {from, corner} \in SUBSET DOMAIN pieces
  BY <1>1, <1>3, <1>7, <1>10
<1>16. /\ DOMAIN pieces' \subseteq Squares
       /\ pieces' \in [DOMAIN pieces' -> Piece] /\ UniqueIds' /\ PiecesInv'
  BY <1>2, <1>11, <1>14, <1>15, RewriteInv
<1>17. seqNum' \in Nat /\ totalMoves' \in Nat
  BY <1>2 DEF CountMove, IInv, TypeOK
<1>18. captured' \in [BOOLEAN -> Nat] /\ kingsCaptured' \in [BOOLEAN -> Nat]
  BY <1>2 DEF IInv, TypeOK
<1> QED BY <1>16, <1>17, <1>18 DEF IInv, TypeOK

LEMMA EnPassantPieceInv ==
    ASSUME NEW p \in Piece, NEW from, NEW to, PieceInv(from, p), p.type = "Pawn",
           to[2] # IF p.white THEN 0 ELSE BOARD_SIZE - 1
    PROVE  LET q == [p EXCEPT !.moveCount = Capped(@, MaxMoveCount),
                              !.captureCount = Capped(@, MaxCaptureCount),
                              !.justDoubleMoved = FALSE]
           IN  q \in Piece /\ PieceInv(to, q) /\ q.id = p.id
<1> DEFINE q == [p EXCEPT !.moveCount = Capped(@, MaxMoveCount),
                          !.captureCount = Capped(@, MaxCaptureCount),
                          !.justDoubleMoved = FALSE]
<1>1. PICK unset \in BOOLEAN : unset = FALSE
  OBVIOUS
<1>2. q = [p EXCEPT !.moveCount = Capped(p.moveCount, MaxMoveCount),
                    !.captureCount = Capped(p.captureCount, MaxCaptureCount),
                    !.justDoubleMoved = unset]
  BY <1>1, Zenon
<1> HIDE DEF q
<1>3. q = [id |-> p.id, type |-> p.type, white |-> p.white,
           moveCount |-> Capped(p.moveCount, MaxMoveCount),
           captureCount |-> Capped(p.captureCount, MaxCaptureCount),
           justDoubleMoved |-> unset, flags |-> p.flags]
  BY <1>2 DEF Piece
<1>4. /\ Capped(p.moveCount, MaxMoveCount) \in 1 .. MaxMoveCount
      /\ Capped(p.captureCount, MaxCaptureCount) \in 0 .. MaxCaptureCount
  BY BoardAssumption DEF Capped, Piece
<1>5. q \in Piece /\ q.id = p.id
  BY <1>3, <1>4, BoardAssumption DEF Piece
<1>6. /\ q.moveCount # 0 /\ q.type = "Pawn" /\ q.white = p.white
      /\ ~q.justDoubleMoved
  BY <1>1, <1>3, <1>4
<1>7. PieceInv(to, q)
  BY <1>5, <1>6 DEF PieceInv
<1> QED BY <1>5, <1>7 DEF q

(* The captor of an en passant capture cannot arrive on its last rank: the *)
(* pawn it passes is two ranks from its own home.                          *)
LEMMA EnPassantInv ==
    ASSUME IInv, NEW from \in DOMAIN pieces, NEW to \in Destinations(from),
           EnPassant(from, to)
    PROVE  IInv'
<1> DEFINE passed == PassedSquare(from, to)
           old == pieces[from]
           other == pieces[passed]
           pawn == [old EXCEPT !.moveCount = Capped(@, MaxMoveCount),
                               !.captureCount = Capped(@, MaxCaptureCount),
                               !.justDoubleMoved = FALSE]
           put == [s \in {to} |-> pawn]
<1>1. /\ from \in Squares /\ to \in Squares /\ to # from
      /\ from[2] \in Int /\ to[1] \in Int /\ to[2] \in Int
  BY DestinationFacts, SquareFacts
<1>2. /\ CanTakeEnPassant(from, to)
      /\ pieces' = Rewrite({from, passed}, put)
      /\ CountMove /\ CountCaptures({passed})
  BY DEF EnPassant
<1>3. /\ old \in Piece /\ PieceInv(from, old) /\ old.type = "Pawn"
      /\ passed \in DOMAIN pieces /\ passed[2] = from[2]
      /\ other \in Piece /\ PieceInv(passed, other)
      /\ other.justDoubleMoved /\ other.white # old.white
      /\ to[2] = from[2] + IF old.white THEN -1 ELSE 1
  BY <1>1, <1>2 DEF CanTakeEnPassant, PassedSquare, Occupied, IInv, TypeOK, PiecesInv, Dy
<1>4. /\ other.id \in AllIds /\ HomeType(other.id) = "Pawn"
      /\ other.white \in BOOLEAN /\ old.white \in BOOLEAN
      /\ other.white = HomeIsWhite(other.id)
  BY <1>3, BoardAssumption, HomeTypes DEF Piece, PieceInv
<1>5. PICK by \in 0 .. BoardsPerSide - 1 :
         HomeSquare(other.id)[2] = 8 * by + IF other.white THEN 6 ELSE 1
  BY <1>4, HomeFacts, HomeTypes
<1>6. from[2] = HomeSquare(other.id)[2] + IF other.white THEN -2 ELSE 2
  BY <1>3 DEF PieceInv
<1>7. to[2] # IF old.white THEN 0 ELSE BOARD_SIZE - 1
  BY <1>1, <1>3, <1>4, <1>5, <1>6, BoardsPerSideFact
<1>9. pawn \in Piece /\ PieceInv(to, pawn) /\ pawn.id = old.id
  BY <1>3, <1>7, EnPassantPieceInv
<1> HIDE DEF pawn, passed
<1>10. /\ \A s \in DOMAIN put : put[s] \in Piece /\ PieceInv(s, put[s])
       /\ \A s \in DOMAIN put : \E t \in {from, passed} : put[s].id = pieces[t].id
       /\ \A s, t \in DOMAIN put : put[s].id = put[t].id => s = t
       /\ DOMAIN put \subseteq Squares
       /\ {from, passed} \in SUBSET DOMAIN pieces
  <2>1. put[to] = pawn /\ DOMAIN put = {to}
    OBVIOUS
  <2>2. from \in DOMAIN pieces /\ passed \in DOMAIN pieces /\ pawn.id = pieces[from].id
    BY <1>3, <1>9
  <2> QED BY <1>1, <1>9, <2>1, <2>2
<1> HIDE DEF put
<1>11. /\ DOMAIN pieces' \subseteq Squares
       /\ pieces' \in [DOMAIN pieces' -> Piece] /\ UniqueIds' /\ PiecesInv'
  BY <1>2, <1>10, RewriteInv
<1>12. seqNum' \in Nat /\ totalMoves' \in Nat
  BY <1>2 DEF CountMove, IInv, TypeOK
<1>13. captured' \in [BOOLEAN -> Nat] /\ kingsCaptured' \in [BOOLEAN -> Nat]
  BY <1>2, <1>3, CountFacts
<1> QED BY <1>11, <1>12, <1>13 DEF IInv, TypeOK

LEMMA NormalMoveInv ==
    ASSUME IInv, NEW from \in DOMAIN pieces, NEW to \in Destinations(from),
           NormalMove(from, to)
    PROVE  IInv'
<1> DEFINE stepped == AfterStep(pieces[from], from, to)
           moved == IF Occupied(to) THEN AfterCapture(stepped, pieces[to])
                                    ELSE stepped
           put == [s \in {to} |-> moved]
<1>1. from \in Squares /\ to \in Squares
  BY DestinationFacts
<1>2. /\ satisfiesMoveRules(pieces[from], from, to)
      /\ pieces' = Rewrite({from}, put)
      /\ CountMove /\ CountCaptures({to} \cap DOMAIN pieces)
  BY DEF NormalMove, CanMoveNormally
<1>3. /\ pieces[from] \in Piece /\ PieceInv(from, pieces[from])
      /\ Occupied(to) => pieces[to] \in Piece
  BY DEF IInv, TypeOK, PiecesInv, Occupied
<1>4. /\ stepped \in Piece /\ PieceInv(to, stepped)
      /\ stepped.id = pieces[from].id
  BY <1>1, <1>2, <1>3, StepPieceInv
<1> HIDE DEF stepped
<1>5. moved \in Piece /\ PieceInv(to, moved) /\ moved.id = pieces[from].id
  BY <1>3, <1>4, CapturePieceInv
<1> HIDE DEF moved
<1>6. /\ \A s \in DOMAIN put : put[s] \in Piece /\ PieceInv(s, put[s])
      /\ \A s \in DOMAIN put : \E t \in {from} : put[s].id = pieces[t].id
      /\ \A s, t \in DOMAIN put : put[s].id = put[t].id => s = t
      /\ DOMAIN put \subseteq Squares
      /\ {from} \in SUBSET DOMAIN pieces
  BY <1>1, <1>5
<1> HIDE DEF put
<1>7. /\ DOMAIN pieces' \subseteq Squares
      /\ pieces' \in [DOMAIN pieces' -> Piece] /\ UniqueIds' /\ PiecesInv'
  BY <1>2, <1>6, RewriteInv
<1>8. seqNum' \in Nat /\ totalMoves' \in Nat
  BY <1>2 DEF CountMove, IInv, TypeOK
<1>9. captured' \in [BOOLEAN -> Nat] /\ kingsCaptured' \in [BOOLEAN -> Nat]
  BY <1>2, CountFacts
<1> QED BY <1>7, <1>8, <1>9 DEF IInv, TypeOK

LEMMA AdoptInv ==
    ASSUME IInv, NEW x, NEW y, NEW color, Adopt(x, y, color)
    PROVE  IInv'
<1> DEFINE marked(s) == [pieces[s] EXCEPT !.flags = @ \cup {"Adopted"}]
<1>1. /\ DOMAIN pieces' = DOMAIN pieces
      /\ pieces' = [s \in DOMAIN pieces |-> pieces'[s]]
      /\ \A s \in DOMAIN pieces : pieces'[s] = marked(s) \/ pieces'[s] = pieces[s]
  BY DEF Adopt
<1>2. \A s \in DOMAIN pieces : pieces[s] \in Piece /\ PieceInv(s, pieces[s])
  BY DEF IInv, TypeOK, PiecesInv
<1>3. ASSUME NEW s \in DOMAIN pieces
      PROVE  /\ marked(s) \in Piece /\ PieceInv(s, marked(s))
             /\ marked(s).id = pieces[s].id
  BY <1>2 DEF Piece, PieceInv, Flags
<1>4. \A s \in DOMAIN pieces : /\ pieces'[s] \in Piece /\ PieceInv(s, pieces'[s])
                               /\ pieces'[s].id = pieces[s].id
  BY <1>1, <1>2, <1>3
<1>5. UniqueIds' /\ PiecesInv'
  BY <1>1, <1>4 DEF IInv, UniqueIds, PiecesInv
<1>6. DOMAIN pieces' \subseteq Squares /\ pieces' \in [DOMAIN pieces' -> Piece]
  BY <1>1, <1>4 DEF IInv, TypeOK
<1>7. /\ seqNum' \in Nat /\ totalMoves' \in Nat
      /\ captured' \in [BOOLEAN -> Nat] /\ kingsCaptured' \in [BOOLEAN -> Nat]
  BY DEF Adopt, IInv, TypeOK
<1> QED BY <1>5, <1>6, <1>7 DEF IInv, TypeOK

LEMMA BulkCaptureInv ==
    ASSUME IInv, NEW x, NEW y, NEW color, DoBulkCapture(x, y, color)
    PROVE  IInv'
<1> DEFINE S == Affected(x, y, color)
<1>1. S \in SUBSET DOMAIN pieces
  BY DEF Affected
<1>2. /\ DOMAIN pieces' = DOMAIN pieces \ S
      /\ pieces' = [s \in DOMAIN pieces \ S |-> pieces[s]]
      /\ seqNum' = seqNum + 1 /\ totalMoves' = totalMoves /\ CountCaptures(S)
  BY DEF DoBulkCapture
<1> HIDE DEF S
<1>3. DOMAIN pieces' \subseteq Squares /\ pieces' \in [DOMAIN pieces' -> Piece]
  BY <1>2 DEF IInv, TypeOK
<1>4. UniqueIds' /\ PiecesInv'
  BY <1>2 DEF IInv, UniqueIds, PiecesInv
<1>5. captured' \in [BOOLEAN -> Nat] /\ kingsCaptured' \in [BOOLEAN -> Nat]
  BY <1>1, <1>2, CountFacts
<1>6. seqNum' \in Nat /\ totalMoves' \in Nat
  BY <1>2 DEF IInv, TypeOK
<1> QED BY <1>3, <1>4, <1>5, <1>6 DEF IInv, TypeOK

----------------------------------------------------------------------------
LEMMA InitInv == Init => IInv
<1> SUFFICES ASSUME Init PROVE IInv
  OBVIOUS
<1> DEFINE D == {HomeSquare(id) : id \in Placed}
           owner(s) == CHOOSE id \in Placed : HomeSquare(id) = s
<1>1. /\ DOMAIN pieces = D
      /\ pieces = [s \in D |-> pieces[s]]
      /\ \A s \in D : pieces[s] = NewPiece(owner(s))
  BY DEF Init
<1>2. \A s \in D : owner(s) \in Placed /\ HomeSquare(owner(s)) = s
  OBVIOUS
<1> HIDE DEF owner
<1>3. \A s \in D : /\ pieces[s] \in Piece /\ PieceInv(s, pieces[s])
                   /\ pieces[s].id = owner(s)
  <2> SUFFICES ASSUME NEW s \in D
               PROVE  /\ pieces[s] \in Piece /\ PieceInv(s, pieces[s])
                      /\ pieces[s].id = owner(s)
    OBVIOUS
  <2>1. PICK id \in Placed : id = owner(s) /\ HomeSquare(id) = s
    BY <1>2
  <2>2. pieces[s] = NewPiece(id)
    BY <1>1, <2>1
  <2>3. NewPiece(id).id = id
    BY DEF NewPiece
  <2> QED BY <2>1, <2>2, <2>3, NewPieceInv
<1>4. D \subseteq Squares
  BY BoardAssumption, HomeFacts
<1> HIDE DEF D
<1>5. UniqueIds /\ PiecesInv
  <2>1. ASSUME NEW s \in D, NEW t \in D, pieces[s].id = pieces[t].id
        PROVE  s = t
    BY <1>2, <1>3, <2>1
  <2> QED BY <1>1, <1>3, <2>1 DEF UniqueIds, PiecesInv
<1>6. \A w \in BOOLEAN : Cardinality(Missing(w)) \in Nat
                         /\ Cardinality(MissingKings(w)) \in Nat
  <2>1. 32 * BoardsPerSide * BoardsPerSide \in Int
    BY BoardsPerSideFact
  <2>2. IsFiniteSet(AllIds)
    BY <2>1, FS_Interval DEF AllIds
  <2>3. \A w \in BOOLEAN : Missing(w) \in SUBSET AllIds
                           /\ MissingKings(w) \in SUBSET AllIds
    BY DEF Missing, MissingKings
  <2> QED BY <2>2, <2>3, FS_Subset, FS_CardinalityType
<1>7. captured \in [BOOLEAN -> Nat] /\ kingsCaptured \in [BOOLEAN -> Nat]
  BY <1>6 DEF Init
<1>8. seqNum \in Nat /\ totalMoves \in Nat
  BY DEF Init
<1>9. pieces \in [DOMAIN pieces -> Piece]
  BY <1>1, <1>3
<1> QED BY <1>1, <1>4, <1>5, <1>7, <1>8, <1>9 DEF IInv, TypeOK

LEMMA NextInv == IInv /\ [Next]_vars => IInv'
<1> SUFFICES ASSUME IInv, [Next]_vars PROVE IInv'
  OBVIOUS
<1>1. CASE UNCHANGED vars
  BY <1>1 DEF vars, IInv, TypeOK, UniqueIds, PiecesInv
<1>2. ASSUME NEW from \in DOMAIN pieces, NEW to \in Destinations(from),
             Castle(from, to) \/ EnPassant(from, to) \/ NormalMove(from, to)
      PROVE  IInv'
  BY <1>2, CastleInv, EnPassantInv, NormalMoveInv
<1>3. ASSUME NEW x \in BoardOrigins, NEW y \in BoardOrigins,
             NEW color \in OnlyColors, Adopt(x, y, color)
      PROVE  IInv'
  BY <1>3, AdoptInv
<1>4. ASSUME NEW x \in BoardOrigins, NEW y \in BoardOrigins,
             NEW color \in OnlyColors, DoBulkCapture(x, y, color)
      PROVE  IInv'
  BY <1>4, BulkCaptureInv
<1> QED BY <1>1, <1>2, <1>3, <1>4 DEF Next

(* Every theorem below is this one and a projection of IInv.               *)
LEMMA Invariance == Spec => []IInv
BY InitInv, NextInv, PTL DEF Spec

(* The board array and the counters keep their types in every reachable    *)
(* state, whatever the size of the board and the sequence of requests.     *)
THEOREM TypeCorrect == Spec => []TypeOK
BY Invariance, PTL DEF IInv

(* No request ever puts the same piece id on two squares.                  *)
THEOREM IdsStayUnique == Spec => []UniqueIds
BY Invariance, PTL DEF IInv

(* Colors never change and only pawns change type.                         *)
THEOREM IdentityKept == Spec => []KeepsIdentity
<1>1. IInv => KeepsIdentity
  BY DEF IInv, PiecesInv, PieceInv, KeepsIdentity
<1> QED BY <1>1, Invariance, PTL

(* A move count of zero means that the piece is on its home square, which  *)
(* is what castling, double steps and capture protection rely on.          *)
THEOREM UnmovedPiecesAreAtHome == Spec => []UnmovedAtHome
<1>1. IInv => UnmovedAtHome
  BY DEF IInv, PiecesInv, PieceInv, UnmovedAtHome
<1> QED BY <1>1, Invariance, PTL

(* A pawn that can be taken en passant stands two ranks from its home.     *)
THEOREM DoubleMovedStandTwoAhead == Spec => []DoubleMovedTwoAhead
<1>1. IInv => DoubleMovedTwoAhead
  BY DEF IInv, PiecesInv, PieceInv, DoubleMovedTwoAhead
<1> QED BY <1>1, Invariance, PTL

(* Kings stay on their own chessboard, through castling too.               *)
THEOREM KingsAreConfined == Spec => []KingsStayOnTheirBoard
<1>1. IInv => KingsStayOnTheirBoard
  BY DEF IInv, PiecesInv, PieceInv, KingsStayOnTheirBoard
<1> QED BY <1>1, Invariance, PTL

(* Every pawn that reaches its last rank is promoted, although en passant  *)
(* has no promotion code.                                                  *)
THEOREM PawnsPromote == Spec => []NoPawnOnLastRank
<1>1. IInv => NoPawnOnLastRank
  BY DEF IInv, PiecesInv, PieceInv, NoPawnOnLastRank
<1> QED BY <1>1, Invariance, PTL

----------------------------------------------------------------------------
(* The colors of squares *)

(* The part of SquareColorsAreKept that speaks of piece p on square s.     *)
ColorInv(s, p) ==
    /\ p.type = "Bishop" => ColorOf(s) = ColorOf(HomeSquare(p.id))
    /\ p.type = "Knight" /\ p.moveCount < MaxMoveCount =>
          ColorOf(s) = (ColorOf(HomeSquare(p.id)) + p.moveCount) % 2

ColorsInv == \A s \in DOMAIN pieces : ColorInv(s, pieces[s])

LEMMA NewPieceColor == \A id \in Placed : ColorInv(HomeSquare(id), NewPiece(id))
<1> SUFFICES ASSUME NEW id \in Placed PROVE ColorInv(HomeSquare(id), NewPiece(id))
  OBVIOUS
<1>1. HomeSquare(id)[1] \in Int /\ HomeSquare(id)[2] \in Int
  BY BoardAssumption, HomeFacts, SquareFacts
<1>2. ColorOf(HomeSquare(id)) = (ColorOf(HomeSquare(id)) + 0) % 2
  BY <1>1 DEF ColorOf
<1> QED BY <1>2 DEF NewPiece, ColorInv

(* The pieces that are written are neither bishops nor knights, or obey.   *)
LEMMA RewriteColors ==
    ASSUME ColorsInv, NEW gone, NEW put, pieces' = Rewrite(gone, put),
           \A s \in DOMAIN put : ColorInv(s, put[s])
    PROVE  ColorsInv'
BY DEF ColorsInv, Rewrite

(* A bishop goes as far sideways as it goes up or down, so it stays on its *)
(* color; a knight goes three squares in all, so it leaves it.             *)
LEMMA StepColor ==
    ASSUME NEW p \in Piece, NEW from \in Squares, NEW to \in Squares,
           ColorInv(from, p), satisfiesMoveRules(p, from, to)
    PROVE  ColorInv(to, AfterStep(p, from, to))
<1> DEFINE q == AfterStep(p, from, to)
           home == ColorOf(HomeSquare(p.id))
<1>1. /\ q.id = p.id /\ q.type = TypeAfter(p, to)
      /\ q.moveCount = Capped(p.moveCount, MaxMoveCount)
  BY DEF AfterStep, Piece
<1>2. /\ from[1] \in Int /\ from[2] \in Int /\ to[1] \in Int /\ to[2] \in Int
  BY SquareFacts
<1>3. HomeSquare(p.id)[1] \in Int /\ HomeSquare(p.id)[2] \in Int
  <2>1. p.id \in AllIds
    BY BoardAssumption DEF Piece
  <2> QED BY <2>1, HomeFacts, SquareFacts
<1>4. home \in {0, 1}
  BY <1>3 DEF ColorOf
<1> HIDE DEF q, home
<1>5. q.type \in {"Bishop", "Knight"} => p.type = q.type
  BY <1>1 DEF TypeAfter
<1>6. ASSUME q.type = "Bishop" PROVE ColorOf(to) = home
  <2>1. AbsDiff(from[1], to[1]) = AbsDiff(from[2], to[2])
    BY <1>5, <1>6 DEF satisfiesMoveRules, satisfiesBishopMoveRules
  <2>2. ColorOf(from) = home
    BY <1>5, <1>6 DEF ColorInv, home
  <2> QED BY <1>2, <2>1, <2>2 DEF ColorOf, AbsDiff, AbsInt
<1>7. ASSUME q.type = "Knight", q.moveCount < MaxMoveCount
      PROVE  ColorOf(to) = (home + q.moveCount) % 2
  <2>1. {AbsDiff(from[1], to[1]), AbsDiff(from[2], to[2])} = {1, 2}
    BY <1>5, <1>7 DEF satisfiesMoveRules, satisfiesKnightMoveRules
  <2>2. \/ AbsDiff(from[1], to[1]) = 1 /\ AbsDiff(from[2], to[2]) = 2
        \/ AbsDiff(from[1], to[1]) = 2 /\ AbsDiff(from[2], to[2]) = 1
    BY <2>1
  <2>3. p.moveCount \in Nat /\ p.moveCount < MaxMoveCount
        /\ q.moveCount = p.moveCount + 1
    BY <1>1, <1>7, BoardAssumption DEF Capped, Piece
  <2>4. ColorOf(from) = (home + p.moveCount) % 2
    BY <1>5, <1>7, <2>3 DEF ColorInv, home
  <2>5. ColorOf(to) = (ColorOf(from) + 1) % 2
    <3> DEFINE m == from[1] + from[2]
               n == to[1] + to[2]
    <3>1. n \in {m - 3, m - 1, m + 1, m + 3}
      BY <1>2, <2>2 DEF AbsDiff, AbsInt
    <3>2. m \in Int
      BY <1>2
    <3> HIDE DEF m, n
    <3>3. n % 2 = ((m % 2) + 1) % 2
      BY <3>1, <3>2
    <3> QED BY <3>3 DEF ColorOf, m, n
  <2> QED BY <1>4, <2>3, <2>4, <2>5
<1> QED BY <1>1, <1>6, <1>7 DEF ColorInv, q, home

LEMMA CastleColors ==
    ASSUME IInv, ColorsInv, NEW from \in DOMAIN pieces,
           NEW to \in Destinations(from), Castle(from, to)
    PROVE  ColorsInv'
<1> DEFINE corner == RookFrom(from, to)
           put == [s \in {to, RookTo(from, to)} |->
                      AfterCastling(pieces[IF s = to THEN from ELSE corner])]
<1>1. pieces' = Rewrite({from, corner}, put)
  BY DEF Castle
<1>2. /\ pieces[from] \in Piece /\ pieces[corner] \in Piece
      /\ pieces[from].type = "King" /\ pieces[corner].type = "Rook"
  BY DEF Castle, CanCastle, Occupied, IInv, TypeOK
<1>3. \A p \in Piece : AfterCastling(p).type = p.type
  BY DEF AfterCastling, Piece
<1>4. \A s \in DOMAIN put : put[s].type \in {"King", "Rook"}
  BY <1>2, <1>3
<1> HIDE DEF put
<1>5. \A s \in DOMAIN put : ColorInv(s, put[s])
  BY <1>4 DEF ColorInv
<1> QED BY <1>1, <1>5, RewriteColors

LEMMA EnPassantColors ==
    ASSUME IInv, ColorsInv, NEW from \in DOMAIN pieces,
           NEW to \in Destinations(from), EnPassant(from, to)
    PROVE  ColorsInv'
<1> DEFINE passed == PassedSquare(from, to)
           pawn == [pieces[from] EXCEPT !.moveCount = Capped(@, MaxMoveCount),
                                        !.captureCount = Capped(@, MaxCaptureCount),
                                        !.justDoubleMoved = FALSE]
           put == [s \in {to} |-> pawn]
<1>1. pieces' = Rewrite({from, passed}, put)
  BY DEF EnPassant
<1>2. pieces[from] \in Piece /\ pieces[from].type = "Pawn"
  BY DEF EnPassant, CanTakeEnPassant, IInv, TypeOK
<1>3. pawn.type = "Pawn"
  BY <1>2 DEF Piece
<1> HIDE DEF pawn
<1>4. \A s \in DOMAIN put : put[s].type = "Pawn"
  BY <1>3
<1> HIDE DEF put
<1>5. \A s \in DOMAIN put : ColorInv(s, put[s])
  BY <1>4 DEF ColorInv
<1> QED BY <1>1, <1>5, RewriteColors

LEMMA NormalMoveColors ==
    ASSUME IInv, ColorsInv, NEW from \in DOMAIN pieces,
           NEW to \in Destinations(from), NormalMove(from, to)
    PROVE  ColorsInv'
<1> DEFINE stepped == AfterStep(pieces[from], from, to)
           moved == IF Occupied(to) THEN AfterCapture(stepped, pieces[to])
                                    ELSE stepped
           put == [s \in {to} |-> moved]
<1>1. /\ pieces' = Rewrite({from}, put)
      /\ satisfiesMoveRules(pieces[from], from, to)
  BY DEF NormalMove, CanMoveNormally
<1>2. from \in Squares /\ to \in Squares
  BY DestinationFacts
<1>3. pieces[from] \in Piece /\ PieceInv(from, pieces[from])
  BY DEF IInv, TypeOK, PiecesInv
<1>4. stepped \in Piece
  BY <1>1, <1>2, <1>3, StepPieceInv
<1>5. ColorInv(to, stepped)
  BY <1>1, <1>2, <1>3, StepColor DEF ColorsInv
<1> HIDE DEF stepped
<1>6. /\ moved.type = stepped.type /\ moved.id = stepped.id
      /\ moved.moveCount = stepped.moveCount
  BY <1>4 DEF AfterCapture, Piece
<1> HIDE DEF moved
<1>7. ColorInv(to, moved)
  BY <1>5, <1>6 DEF ColorInv
<1>8. \A s \in DOMAIN put : ColorInv(s, put[s])
  BY <1>7
<1> HIDE DEF put
<1> QED BY <1>1, <1>8, RewriteColors

LEMMA AdoptColors ==
    ASSUME IInv, ColorsInv, NEW x, NEW y, NEW color, Adopt(x, y, color)
    PROVE  ColorsInv'
<1>1. \A s \in DOMAIN pieces : pieces[s] \in Piece
  BY DEF IInv, TypeOK
<1>2. \A p \in Piece :
         LET q == [p EXCEPT !.flags = @ \cup {"Adopted"}]
         IN  q.type = p.type /\ q.id = p.id /\ q.moveCount = p.moveCount
  BY DEF Piece
<1>3. DOMAIN pieces' = DOMAIN pieces
      /\ \A s \in DOMAIN pieces : /\ pieces'[s].type = pieces[s].type
                                  /\ pieces'[s].id = pieces[s].id
                                  /\ pieces'[s].moveCount = pieces[s].moveCount
  BY <1>1, <1>2 DEF Adopt
<1> QED BY <1>3 DEF ColorsInv, ColorInv

LEMMA InitColors == Init => ColorsInv
<1> SUFFICES ASSUME Init, NEW s \in DOMAIN pieces PROVE ColorInv(s, pieces[s])
  BY DEF ColorsInv
<1>1. \E id \in Placed : HomeSquare(id) = s
  BY DEF Init
<1>2. PICK id \in Placed : HomeSquare(id) = s /\ pieces[s] = NewPiece(id)
  BY <1>1 DEF Init
<1> QED BY <1>2, NewPieceColor

LEMMA NextColors == IInv /\ ColorsInv /\ [Next]_vars => ColorsInv'
<1> SUFFICES ASSUME IInv, ColorsInv, [Next]_vars PROVE ColorsInv'
  OBVIOUS
<1>1. CASE UNCHANGED vars
  BY <1>1 DEF vars, ColorsInv
<1>2. ASSUME NEW from \in DOMAIN pieces, NEW to \in Destinations(from),
             Castle(from, to) \/ EnPassant(from, to) \/ NormalMove(from, to)
      PROVE  ColorsInv'
  BY <1>2, CastleColors, EnPassantColors, NormalMoveColors
<1>3. ASSUME NEW x, NEW y, NEW color, Adopt(x, y, color)
      PROVE  ColorsInv'
  BY <1>3, AdoptColors
<1>4. ASSUME NEW x, NEW y, NEW color, DoBulkCapture(x, y, color)
      PROVE  ColorsInv'
  BY <1>4 DEF DoBulkCapture, ColorsInv
<1> QED BY <1>1, <1>2, <1>3, <1>4 DEF Next

(* What the movement rules add up to over a whole game: bishops keep to    *)
(* the color of their first square, and knights change it with each move.  *)
THEOREM ColorsAreKept == Spec => []SquareColorsAreKept
<1>1. ColorsInv => SquareColorsAreKept
  BY DEF ColorsInv, ColorInv, SquareColorsAreKept
<1> QED BY <1>1, InitColors, NextColors, Invariance, PTL DEF Spec

(* No two pieces have the same home.                                       *)
LEMMA HomeSquaresDiffer ==
    ASSUME NEW id \in AllIds, NEW jd \in AllIds, HomeSquare(id) = HomeSquare(jd)
    PROVE  id = jd
<1> DEFINE B == BoardsPerSide
           place(f, r) == CASE r = 6 -> f [] r = 7 -> 8 + f
                            [] r = 1 -> 16 + f [] r = 0 -> 24 + f
<1>1. B \in Nat \ {0} /\ BOARD_SIZE = 8 * B
  BY BoardsPerSideFact
<1>2. id \in Nat \ {0} /\ id <= 32 * (B * B) /\ jd \in Nat \ {0} /\ B * B \in Nat
  BY <1>1 DEF AllIds
<1> HIDE DEF B
<1>3. ASSUME NEW k \in Nat \ {0}
      PROVE  (k - 1) % 32 = place(HomeFile(k), HomeRank(k))
  <2>1. (k - 1) % 32 \in 0 .. 31 /\ (k - 1) % 16 \in 0 .. 15 /\ (k - 1) % 8 \in 0 .. 7
    OBVIOUS
  <2>2. (k - 1) % 32 = ((k - 1) % 16) + IF (k - 1) % 32 < 16 THEN 0 ELSE 16
    OBVIOUS
  <2>3. (k - 1) % 16 = ((k - 1) % 8) + IF (k - 1) % 16 < 8 THEN 0 ELSE 8
    OBVIOUS
  <2>4. CASE HomeIsWhite(k) /\ HomeIsPawn(k)
    <3>1. HomeRank(k) = 6 /\ (k - 1) % 32 = HomeFile(k)
      BY <2>1, <2>2, <2>3, <2>4 DEF HomeRank, HomeFile, HomeIsWhite, HomeIsPawn
    <3> QED BY <3>1
  <2>5. CASE HomeIsWhite(k) /\ ~HomeIsPawn(k)
    <3>1. HomeRank(k) = 7 /\ (k - 1) % 32 = 8 + HomeFile(k)
      BY <2>1, <2>2, <2>3, <2>5 DEF HomeRank, HomeFile, HomeIsWhite, HomeIsPawn
    <3> QED BY <3>1
  <2>6. CASE ~HomeIsWhite(k) /\ HomeIsPawn(k)
    <3>1. HomeRank(k) = 1 /\ (k - 1) % 32 = 16 + HomeFile(k)
      BY <2>1, <2>2, <2>3, <2>6 DEF HomeRank, HomeFile, HomeIsWhite, HomeIsPawn
    <3> QED BY <3>1
  <2>7. CASE ~HomeIsWhite(k) /\ ~HomeIsPawn(k)
    <3>1. HomeRank(k) = 0 /\ (k - 1) % 32 = 24 + HomeFile(k)
      BY <2>1, <2>2, <2>3, <2>7 DEF HomeRank, HomeFile, HomeIsWhite, HomeIsPawn
    <3> QED BY <3>1
  <2> QED BY <2>4, <2>5, <2>6, <2>7
<1>4. HomeBoard(id) = HomeBoard(jd)
  BY HomeFacts
<1>5. HomeFile(id) = HomeFile(jd) /\ HomeRank(id) = HomeRank(jd)
  <2>1. /\ HomeSquare(id)[1] = 8 * HomeBoard(id)[1] + HomeFile(id)
        /\ HomeSquare(jd)[1] = 8 * HomeBoard(id)[1] + HomeFile(jd)
        /\ HomeSquare(id)[2] = 8 * HomeBoard(id)[2] + HomeRank(id)
        /\ HomeSquare(jd)[2] = 8 * HomeBoard(id)[2] + HomeRank(jd)
        /\ HomeFile(id) \in 0 .. 7 /\ HomeFile(jd) \in 0 .. 7
        /\ HomeRank(id) \in 0 .. 7 /\ HomeRank(jd) \in 0 .. 7
    BY <1>4, HomeFacts
  <2>2. HomeBoard(id)[1] \in Int /\ HomeBoard(id)[2] \in Int
    <3>1. HomeBoard(id) \in (0 .. B - 1) \X (0 .. B - 1)
      BY HomeFacts DEF B
    <3> QED BY <1>1, <3>1
  <2> QED BY <2>1, <2>2
<1>6. (id - 1) \div 32 = (jd - 1) \div 32
  <2> DEFINE b == (id - 1) \div 32
             c == (jd - 1) \div 32
  <2>1. b \in Nat /\ c \in Nat
    BY <1>2
  <2>2. b \div B = c \div B /\ b % B = c % B
    BY <1>4 DEF HomeBoard, B
  <2> HIDE DEF b, c
  <2>3. b = B * (b \div B) + (b % B)
    BY <1>1, <2>1
  <2>4. c = B * (c \div B) + (c % B)
    BY <1>1, <2>1
  <2>5. b = c
    BY <2>2, <2>3, <2>4, Zenon
  <2> QED BY <2>5 DEF b, c
<1>7. (id - 1) % 32 = (jd - 1) % 32
  BY <1>2, <1>3, <1>5
<1> QED BY <1>2, <1>6, <1>7

----------------------------------------------------------------------------
(* The counters of captures.  Squares come and go with every move, so the  *)
(* argument counts ids: the piece an id stands for never changes color and *)
(* is a king or not from the start, and no id is on two squares.           *)

IdsOn(S) == {pieces[s].id : s \in S}
OfColor(ids, w) == {id \in ids : HomeIsWhite(id) = w}
KingIds(ids, w) == {id \in OfColor(ids, w) : HomeType(id) = "King"}

(* Counters and ids together always make up the set the game began with.   *)
CapturesInv ==
    \A w \in BOOLEAN :
        /\ captured[w] + Cardinality(OfColor(Standing, w))
              = 16 * BoardsPerSide * BoardsPerSide
        /\ kingsCaptured[w] + Cardinality(KingIds(Standing, w))
              = BoardsPerSide * BoardsPerSide

LEMMA AllIdsFinite == IsFiniteSet(AllIds)
<1>1. 32 * BoardsPerSide * BoardsPerSide \in Int
  BY BoardsPerSideFact
<1> QED BY <1>1, FS_Interval DEF AllIds

(* Squares and the ids on them are equally many.                           *)
LEMMA CardinalityOfIds ==
    ASSUME IInv, NEW T \in SUBSET DOMAIN pieces
    PROVE  /\ IsFiniteSet(T) /\ IsFiniteSet(IdsOn(T))
           /\ Cardinality(T) = Cardinality(IdsOn(T))
<1> DEFINE f == [s \in T |-> pieces[s].id]
<1>1. IsFiniteSet(T)
  <2>1. IsFiniteSet(Coord)
    BY BoardAssumption, FS_Interval DEF Coord
  <2>2. IsFiniteSet(Squares)
    BY <2>1, FS_Product DEF Squares
  <2>3. T \in SUBSET Squares
    BY DEF IInv, TypeOK
  <2> QED BY <2>2, <2>3, FS_Subset
<1>2. f \in Bijection(T, IdsOn(T))
  <2>1. \A s, t \in T : f[s] = f[t] => s = t
    BY DEF IInv, UniqueIds
  <2>2. f \in [T -> IdsOn(T)] /\ \A id \in IdsOn(T) : \E s \in T : f[s] = id
    BY DEF IdsOn
  <2> QED BY <2>1, <2>2 DEF Bijection, Injection, Surjection, IsInjective
<1>3. ExistsBijection(T, IdsOn(T))
  BY <1>2 DEF ExistsBijection
<1> QED BY <1>1, <1>3, FS_Bijection

LEMMA CountIds ==
    ASSUME IInv, NEW T \in SUBSET DOMAIN pieces, NEW w \in BOOLEAN
    PROVE  /\ CountOf(T, w) = Cardinality(OfColor(IdsOn(T), w))
           /\ CountOf(KingsOf(T), w) = Cardinality(KingIds(IdsOn(T), w))
           /\ CountOf(T, w) \in Nat /\ CountOf(KingsOf(T), w) \in Nat
<1> DEFINE U == {s \in T : pieces[s].white = w}
           V == {s \in KingsOf(T) : pieces[s].white = w}
<1>1. \A s \in DOMAIN pieces :
         /\ pieces[s].white = HomeIsWhite(pieces[s].id)
         /\ pieces[s].type = "King" <=> HomeType(pieces[s].id) = "King"
  <2> SUFFICES ASSUME NEW s \in DOMAIN pieces
               PROVE  /\ pieces[s].white = HomeIsWhite(pieces[s].id)
                      /\ pieces[s].type = "King" <=> HomeType(pieces[s].id) = "King"
    OBVIOUS
  <2>1. PieceInv(s, pieces[s])
    BY DEF IInv, PiecesInv
  <2> QED BY <2>1 DEF PieceInv
<1>2. IdsOn(U) = OfColor(IdsOn(T), w)
  BY <1>1 DEF IdsOn, OfColor
<1>3. IdsOn(V) = KingIds(IdsOn(T), w)
  BY <1>1 DEF IdsOn, KingIds, OfColor, KingsOf
<1>4. U \in SUBSET DOMAIN pieces /\ V \in SUBSET DOMAIN pieces
  BY DEF KingsOf
<1>5. CountOf(T, w) = Cardinality(U) /\ CountOf(KingsOf(T), w) = Cardinality(V)
  BY DEF CountOf
<1> HIDE DEF U, V
<1> QED BY <1>2, <1>3, <1>4, <1>5, CardinalityOfIds, FS_CardinalityType

(* Which ids a move takes off the board: `gone' and `put' as in Rewrite, S *)
(* the squares of the captured.  The pieces on the other squares of `gone' *)
(* are those that are put down again.                                      *)
LEMMA RewriteStanding ==
    ASSUME IInv, NEW gone \in SUBSET DOMAIN pieces, NEW put,
           NEW S \in SUBSET DOMAIN pieces,
           S \subseteq gone \cup DOMAIN put,
           DOMAIN put \cap DOMAIN pieces \subseteq gone \cup S,
           {put[s].id : s \in DOMAIN put} = IdsOn(gone \ S),
           pieces' = Rewrite(gone, put)
    PROVE  Standing' = Standing \ IdsOn(S)
<1> DEFINE D == (DOMAIN pieces \ gone) \cup DOMAIN put
<1>1. /\ DOMAIN pieces' = D
      /\ \A s \in D : pieces'[s] = IF s \in DOMAIN put THEN put[s] ELSE pieces[s]
  BY DEF Rewrite
<1>2. \A s, t \in DOMAIN pieces : pieces[s].id = pieces[t].id => s = t
  BY DEF IInv, UniqueIds
<1>3. ASSUME NEW s \in D PROVE pieces'[s].id \in Standing \ IdsOn(S)
  <2>1. CASE s \in DOMAIN put
    <3>1. PICK t \in gone \ S : pieces'[s].id = pieces[t].id
      BY <1>1, <2>1 DEF IdsOn
    <3> QED BY <1>2, <3>1 DEF IdsOn, Standing
  <2>2. CASE s \notin DOMAIN put
    BY <1>1, <1>2, <2>2 DEF IdsOn, Standing
  <2> QED BY <2>1, <2>2
<1>4. ASSUME NEW t \in DOMAIN pieces, t \notin S
      PROVE  \E s \in D : pieces'[s].id = pieces[t].id
  <2>1. CASE t \in gone
    <3>1. pieces[t].id \in {put[s].id : s \in DOMAIN put}
      BY <1>4, <2>1 DEF IdsOn
    <3> QED BY <1>1, <3>1
  <2>2. CASE t \notin gone
    BY <1>1, <1>4, <2>2
  <2> QED BY <2>1, <2>2
<1>5. Standing' = {pieces'[s].id : s \in D}
  BY <1>1 DEF Standing
<1> HIDE DEF D
<1>6. \A id \in Standing' : id \in Standing \ IdsOn(S)
  BY <1>3, <1>5
<1>7. ASSUME NEW id \in Standing \ IdsOn(S) PROVE id \in Standing'
  <2>1. PICK t \in DOMAIN pieces : id = pieces[t].id
    BY DEF Standing
  <2>2. t \notin S
    BY <1>7, <2>1 DEF IdsOn
  <2> QED BY <1>4, <1>5, <2>1, <2>2
<1> QED BY <1>6, <1>7

(* The squares a castling moves to are free, and different.                *)
LEMMA CastlePathEmpty ==
    ASSUME IInv, NEW from \in DOMAIN pieces, NEW to \in Destinations(from),
           CanCastle(from, to)
    PROVE  /\ to \notin DOMAIN pieces /\ RookTo(from, to) \notin DOMAIN pieces
           /\ RookTo(from, to) # to
<1> DEFINE corner == RookFrom(from, to)
           rookTo == RookTo(from, to)
<1>1. corner \in DOMAIN pieces /\ crossedSquaresAreEmpty(from, corner)
      /\ Dx(from, to) \in {2, -2} /\ Dy(from, to) = 0
  BY DEF CanCastle, Occupied
<1>2. /\ from[1] \in Int /\ from[2] \in Int /\ to[1] \in Int /\ to[2] \in Int
      /\ to = <<to[1], to[2]>>
  BY DestinationFacts, SquareFacts
<1>3. to \notin DOMAIN pieces /\ rookTo \notin DOMAIN pieces /\ rookTo # to
  <2>1. CASE Dx(from, to) = 2
    <3>1. corner = <<from[1] + 3, from[2]>> /\ to = <<from[1] + 2, from[2]>>
          /\ rookTo = <<from[1] + 1, from[2]>>
      BY <1>1, <1>2, <2>1 DEF RookFrom, RookTo, Dx, Dy
    <3>2. Distance(from, corner) = 3 /\ Sign(Dx(from, corner)) = 1
          /\ Sign(Dy(from, corner)) = 0
      BY <1>2, <3>1 DEF Distance, AbsDiff, AbsInt, Sign, Dx, Dy
    <3>3. \A k \in 1 .. 2 : <<from[1] + k * 1, from[2] + k * 0>> \notin DOMAIN pieces
      BY <1>1, <3>2 DEF crossedSquaresAreEmpty, Occupied
    <3>4. <<from[1] + 1, from[2]>> \notin DOMAIN pieces
          /\ <<from[1] + 2, from[2]>> \notin DOMAIN pieces
      BY <1>2, <3>3
    <3> QED BY <1>2, <3>1, <3>4
  <2>2. CASE Dx(from, to) = -2
    <3>1. corner = <<from[1] - 4, from[2]>> /\ to = <<from[1] - 2, from[2]>>
          /\ rookTo = <<from[1] - 1, from[2]>>
      BY <1>1, <1>2, <2>2 DEF RookFrom, RookTo, Dx, Dy
    <3>2. Distance(from, corner) = 4 /\ Sign(Dx(from, corner)) = -1
          /\ Sign(Dy(from, corner)) = 0
      BY <1>2, <3>1 DEF Distance, AbsDiff, AbsInt, Sign, Dx, Dy
    <3>3. \A k \in 1 .. 3 : <<from[1] + k * (-1), from[2] + k * 0>> \notin DOMAIN pieces
      BY <1>1, <3>2 DEF crossedSquaresAreEmpty, Occupied
    <3>4. <<from[1] - 1, from[2]>> \notin DOMAIN pieces
          /\ <<from[1] - 2, from[2]>> \notin DOMAIN pieces
      BY <1>2, <3>3
    <3> QED BY <1>2, <3>1, <3>4
  <2> QED BY <1>1, <2>1, <2>2
<1> QED BY <1>3

LEMMA CastleStanding ==
    ASSUME IInv, NEW from \in DOMAIN pieces, NEW to \in Destinations(from),
           Castle(from, to)
    PROVE  Standing' = Standing
<1> DEFINE corner == RookFrom(from, to)
           rookTo == RookTo(from, to)
           put == [s \in {to, rookTo} |->
                      AfterCastling(pieces[IF s = to THEN from ELSE corner])]
<1>1. CanCastle(from, to) /\ pieces' = Rewrite({from, corner}, put)
  BY DEF Castle
<1>2. corner \in DOMAIN pieces
  BY <1>1 DEF CanCastle, Occupied
<1>3. to \notin DOMAIN pieces /\ rookTo \notin DOMAIN pieces /\ rookTo # to
  BY <1>1, CastlePathEmpty
<1>4. \A p \in Piece : AfterCastling(p).id = p.id
  BY DEF AfterCastling, Piece
<1>5. pieces[from] \in Piece /\ pieces[corner] \in Piece
  BY <1>2 DEF IInv, TypeOK
<1>6. put[to].id = pieces[from].id /\ put[rookTo].id = pieces[corner].id
  BY <1>3, <1>4, <1>5
<1>7. DOMAIN put = {to, rookTo}
  OBVIOUS
<1> HIDE DEF put, corner, rookTo
<1>8. {put[s].id : s \in DOMAIN put} = IdsOn({from, corner} \ {})
  BY <1>6, <1>7 DEF IdsOn
<1>9. DOMAIN put \cap DOMAIN pieces \subseteq {from, corner} \cup {}
  BY <1>3, <1>7
<1>10. Standing' = Standing \ IdsOn({})
  BY <1>1, <1>2, <1>8, <1>9, RewriteStanding
<1> QED BY <1>10 DEF IdsOn

LEMMA EnPassantStanding ==
    ASSUME IInv, NEW from \in DOMAIN pieces, NEW to \in Destinations(from),
           EnPassant(from, to)
    PROVE  /\ PassedSquare(from, to) \in DOMAIN pieces
           /\ Standing' = Standing \ IdsOn({PassedSquare(from, to)})
<1> DEFINE passed == PassedSquare(from, to)
           pawn == [pieces[from] EXCEPT !.moveCount = Capped(@, MaxMoveCount),
                                        !.captureCount = Capped(@, MaxCaptureCount),
                                        !.justDoubleMoved = FALSE]
           put == [s \in {to} |-> pawn]
<1>1. CanTakeEnPassant(from, to) /\ pieces' = Rewrite({from, passed}, put)
  BY DEF EnPassant
<1>2. /\ passed \in DOMAIN pieces /\ to \notin DOMAIN pieces
      /\ pieces[passed].white # pieces[from].white
  BY <1>1 DEF CanTakeEnPassant, Occupied
<1>3. passed # from
  BY <1>2
<1>4. pawn.id = pieces[from].id
  BY DEF IInv, TypeOK, Piece
<1> HIDE DEF pawn, passed
<1>5. DOMAIN put = {to} /\ put[to] = pawn
  OBVIOUS
<1> HIDE DEF put
<1>6. {put[s].id : s \in DOMAIN put} = IdsOn({from, passed} \ {passed})
  BY <1>3, <1>4, <1>5 DEF IdsOn
<1>7. Standing' = Standing \ IdsOn({passed})
  BY <1>1, <1>2, <1>5, <1>6, RewriteStanding
<1> QED BY <1>2, <1>7 DEF passed

LEMMA NormalMoveStanding ==
    ASSUME IInv, NEW from \in DOMAIN pieces, NEW to \in Destinations(from),
           NormalMove(from, to)
    PROVE  /\ Standing' = Standing \ IdsOn({to} \cap DOMAIN pieces)
           /\ to \in DOMAIN pieces' /\ pieces'[to].id = pieces[from].id
<1> DEFINE stepped == AfterStep(pieces[from], from, to)
           moved == IF Occupied(to) THEN AfterCapture(stepped, pieces[to])
                                    ELSE stepped
           put == [s \in {to} |-> moved]
<1>1. pieces' = Rewrite({from}, put) /\ satisfiesMoveRules(pieces[from], from, to)
  BY DEF NormalMove, CanMoveNormally
<1>2. from \in Squares /\ to \in Squares /\ to # from
  BY DestinationFacts
<1>3. pieces[from] \in Piece /\ PieceInv(from, pieces[from])
  BY DEF IInv, TypeOK, PiecesInv
<1>4. stepped \in Piece /\ stepped.id = pieces[from].id
  BY <1>1, <1>2, <1>3, StepPieceInv
<1> HIDE DEF stepped
<1>5. moved.id = pieces[from].id
  BY <1>4 DEF AfterCapture, Piece
<1> HIDE DEF moved
<1>6. DOMAIN put = {to} /\ put[to] = moved
  OBVIOUS
<1> HIDE DEF put
<1>7. {put[s].id : s \in DOMAIN put} = IdsOn({from} \ ({to} \cap DOMAIN pieces))
  BY <1>2, <1>5, <1>6 DEF IdsOn
<1>8. Standing' = Standing \ IdsOn({to} \cap DOMAIN pieces)
  BY <1>1, <1>6, <1>7, RewriteStanding
<1>9. to \in DOMAIN pieces' /\ pieces'[to] = moved
  BY <1>1, <1>6 DEF Rewrite
<1> QED BY <1>5, <1>8, <1>9

(* What is captured moves from one side of the sum to the other.           *)
LEMMA CaptureStep ==
    ASSUME IInv, CapturesInv, NEW S \in SUBSET DOMAIN pieces, CountCaptures(S),
           Standing' = Standing \ IdsOn(S)
    PROVE  CapturesInv'
<1>1. Standing = IdsOn(DOMAIN pieces)
  BY DEF Standing, IdsOn
<1>2. IsFiniteSet(Standing) /\ IdsOn(S) \subseteq Standing
  BY <1>1, CardinalityOfIds DEF IdsOn
<1> DEFINE ids == IdsOn(S)
<1> SUFFICES ASSUME NEW w \in BOOLEAN
             PROVE  /\ captured'[w] + Cardinality(OfColor(Standing', w))
                           = 16 * BoardsPerSide * BoardsPerSide
                    /\ kingsCaptured'[w] + Cardinality(KingIds(Standing', w))
                           = BoardsPerSide * BoardsPerSide
  BY DEF CapturesInv
<1>3. /\ captured[w] + Cardinality(OfColor(Standing, w))
            = 16 * BoardsPerSide * BoardsPerSide
      /\ kingsCaptured[w] + Cardinality(KingIds(Standing, w))
            = BoardsPerSide * BoardsPerSide
      /\ captured[w] \in Nat /\ kingsCaptured[w] \in Nat
  BY DEF CapturesInv, IInv, TypeOK
<1>4. /\ captured'[w] = captured[w] + Cardinality(OfColor(ids, w))
      /\ kingsCaptured'[w] = kingsCaptured[w] + Cardinality(KingIds(ids, w))
  <2>1. KingsOf(S) \in SUBSET DOMAIN pieces
    BY DEF KingsOf
  <2> QED BY <2>1, CountIds DEF CountCaptures
<1>5. ASSUME NEW A, NEW C, IsFiniteSet(A), C \subseteq A
      PROVE  /\ Cardinality(A \ C) = Cardinality(A) - Cardinality(C)
             /\ Cardinality(A) \in Nat /\ Cardinality(C) \in Nat
  <2>1. A \cap C = C
    BY <1>5
  <2> QED BY <1>5, <2>1, FS_Difference, FS_Subset, FS_CardinalityType
<1>6. /\ OfColor(Standing', w) = OfColor(Standing, w) \ OfColor(ids, w)
      /\ OfColor(ids, w) \subseteq OfColor(Standing, w)
      /\ OfColor(Standing, w) \subseteq Standing
  BY <1>2 DEF OfColor
<1>7. /\ KingIds(Standing', w) = KingIds(Standing, w) \ KingIds(ids, w)
      /\ KingIds(ids, w) \subseteq KingIds(Standing, w)
      /\ KingIds(Standing, w) \subseteq Standing
  BY <1>2 DEF KingIds, OfColor
<1>8. IsFiniteSet(OfColor(Standing, w)) /\ IsFiniteSet(KingIds(Standing, w))
  BY <1>2, <1>6, <1>7, FS_Subset
<1> HIDE DEF ids
<1>9. /\ Cardinality(OfColor(Standing', w))
            = Cardinality(OfColor(Standing, w)) - Cardinality(OfColor(ids, w))
      /\ Cardinality(OfColor(Standing, w)) \in Nat
      /\ Cardinality(OfColor(ids, w)) \in Nat
  BY <1>5, <1>6, <1>8
<1>10. /\ Cardinality(KingIds(Standing', w))
             = Cardinality(KingIds(Standing, w)) - Cardinality(KingIds(ids, w))
       /\ Cardinality(KingIds(Standing, w)) \in Nat
       /\ Cardinality(KingIds(ids, w)) \in Nat
  BY <1>5, <1>7, <1>8
<1> QED BY <1>3, <1>4, <1>9, <1>10

LEMMA NothingCaptured ==
    ASSUME CapturesInv, UNCHANGED <<captured, kingsCaptured>>, Standing' = Standing
    PROVE  CapturesInv'
<1>1. ASSUME NEW w \in BOOLEAN
      PROVE  /\ captured'[w] = captured[w] /\ kingsCaptured'[w] = kingsCaptured[w]
             /\ OfColor(Standing', w) = OfColor(Standing, w)
             /\ KingIds(Standing', w) = KingIds(Standing, w)
  BY DEF OfColor, KingIds
<1> QED BY <1>1 DEF CapturesInv

(* Each chessboard has 16 pieces of each color, one of them a king.        *)
LEMMA InitialCounts ==
    ASSUME NEW w \in BOOLEAN
    PROVE  /\ Cardinality(OfColor(AllIds, w)) = 16 * BoardsPerSide * BoardsPerSide
           /\ Cardinality(KingIds(AllIds, w)) = BoardsPerSide * BoardsPerSide
<1> DEFINE N == BoardsPerSide * BoardsPerSide
           off == IF w THEN 0 ELSE 16
           Boards == 0 .. N - 1
           f == [br \in Boards \X (0 .. 15) |-> 32 * br[1] + br[2] + 1 + off]
           g == [b \in Boards |-> 32 * b + 13 + off]
<1>1. N \in Nat /\ 32 * BoardsPerSide * BoardsPerSide = 32 * N
      /\ 16 * BoardsPerSide * BoardsPerSide = 16 * N
  BY BoardsPerSideFact
<1>2. AllIds = 1 .. 32 * N
  BY <1>1 DEF AllIds
<1> HIDE DEF N
<1>3. off \in {0, 16} /\ (w <=> off = 0)
  OBVIOUS
<1> HIDE DEF off
<1>4. ASSUME NEW b \in Boards, NEW r \in 0 .. 15
      PROVE  /\ 32 * b + r + 1 + off \in AllIds
             /\ (32 * b + r + off) \div 32 = b
             /\ (32 * b + r + off) % 32 = r + off
  BY <1>1, <1>2, <1>3
<1>5. \A id \in AllIds : id \in OfColor(AllIds, w) <=>
            \E r \in 0 .. 15 : (id - 1) % 32 = r + off
  <2> SUFFICES ASSUME NEW id \in AllIds
               PROVE  HomeIsWhite(id) = w <=>
                         \E r \in 0 .. 15 : (id - 1) % 32 = r + off
    BY DEF OfColor
  <2>1. id \in Int
    BY <1>1, <1>2
  <2>2. (id - 1) % 32 \in 0 .. 31
    BY <2>1
  <2>3. CASE w
    <3>1. off = 0 /\ (HomeIsWhite(id) = w <=> (id - 1) % 32 < 16)
      BY <1>3, <2>3 DEF HomeIsWhite
    <3> QED BY <2>2, <3>1
  <2>4. CASE ~w
    <3>1. off = 16 /\ (HomeIsWhite(id) = w <=> ~((id - 1) % 32 < 16))
      BY <1>3, <2>4 DEF HomeIsWhite
    <3>2. ASSUME ~((id - 1) % 32 < 16)
          PROVE  \E r \in 0 .. 15 : (id - 1) % 32 = r + 16
      <4>1. ((id - 1) % 32) - 16 \in 0 .. 15 /\ (id - 1) % 32 = (((id - 1) % 32) - 16) + 16
        BY <2>2, <3>2
      <4> QED BY <4>1
    <3> QED BY <2>2, <3>1, <3>2
  <2> QED BY <2>3, <2>4
<1>6. f \in Bijection(Boards \X (0 .. 15), OfColor(AllIds, w))
  <2>1. ASSUME NEW br \in Boards \X (0 .. 15)
        PROVE  /\ f[br] \in OfColor(AllIds, w)
               /\ (f[br] - 1) \div 32 = br[1]
               /\ (f[br] - 1) % 32 = br[2] + off
    <3>1. br[1] \in Boards /\ br[2] \in 0 .. 15
      OBVIOUS
    <3>2. f[br] - 1 = 32 * br[1] + br[2] + off
      BY <1>1, <1>3, <3>1
    <3> QED BY <1>4, <1>5, <3>1, <3>2
  <2>2. ASSUME NEW s \in Boards \X (0 .. 15), NEW t \in Boards \X (0 .. 15),
               f[s] = f[t]
        PROVE  s = t
    <3>1. s[1] = (f[s] - 1) \div 32 /\ s[2] + off = (f[s] - 1) % 32
      BY <2>1, Zenon
    <3>2. t[1] = (f[t] - 1) \div 32 /\ t[2] + off = (f[t] - 1) % 32
      BY <2>1, Zenon
    <3>3. s[1] = t[1] /\ s[2] + off = t[2] + off
      BY <2>2, <3>1, <3>2, Zenon
    <3>4. s[2] \in Int /\ t[2] \in Int /\ s = <<s[1], s[2]>> /\ t = <<t[1], t[2]>>
      OBVIOUS
    <3>5. s[2] = t[2]
      BY <1>3, <3>3, <3>4
    <3> QED BY <3>3, <3>4, <3>5, Zenon
  <2>3. ASSUME NEW id \in OfColor(AllIds, w)
        PROVE  \E br \in Boards \X (0 .. 15) : f[br] = id
    <3>1. id \in AllIds
      BY DEF OfColor
    <3>2. PICK r \in 0 .. 15 : (id - 1) % 32 = r + off
      BY <1>5, <3>1
    <3>3. (id - 1) \div 32 \in Boards
      BY <1>1, <1>2, <3>1
    <3>4. id = 32 * ((id - 1) \div 32) + r + 1 + off
      BY <1>1, <1>2, <1>3, <3>1, <3>2
    <3>5. <<(id - 1) \div 32, r>> \in Boards \X (0 .. 15)
      BY <3>2, <3>3
    <3>6. f[<<(id - 1) \div 32, r>>] = id
      BY <3>4, <3>5
    <3> QED BY <3>5, <3>6
  <2>4. f \in [Boards \X (0 .. 15) -> OfColor(AllIds, w)]
    BY <2>1
  <2> QED BY <2>2, <2>3, <2>4 DEF Bijection, Injection, Surjection, IsInjective
<1>7. g \in Bijection(Boards, KingIds(AllIds, w))
  <2>1. ASSUME NEW b \in Boards
        PROVE  g[b] \in KingIds(AllIds, w) /\ (g[b] - 1) \div 32 = b
    <3>1. g[b] = 32 * b + 12 + 1 + off /\ g[b] - 1 = 32 * b + 12 + off
      BY <1>1, <1>3
    <3>2. /\ g[b] \in AllIds /\ (g[b] - 1) \div 32 = b
          /\ (g[b] - 1) % 32 = 12 + off
      BY <1>4, <3>1
    <3>3. g[b] \in OfColor(AllIds, w)
      BY <1>5, <3>2
    <3>4. (g[b] - 1) % 16 = 12 /\ (g[b] - 1) % 8 = 4
      BY <1>1, <1>3, <3>1
    <3>5. HomeType(g[b]) = "King"
      BY <3>4 DEF HomeType, HomeIsPawn, HomeFile, BackRank
    <3> QED BY <3>2, <3>3, <3>5 DEF KingIds
  <2>2. ASSUME NEW id \in KingIds(AllIds, w) PROVE \E b \in Boards : g[b] = id
    <3>1. id \in AllIds /\ id \in OfColor(AllIds, w) /\ HomeType(id) = "King"
      BY DEF KingIds, OfColor
    <3>2. PICK r \in 0 .. 15 : (id - 1) % 32 = r + off
      BY <1>5, <3>1
    <3>3. HomeFile(id) = 4 /\ ~HomeIsPawn(id)
      BY <3>1, HomeTypes DEF HomeType
    <3>4. id \in Int /\ (id - 1) % 8 = 4 /\ ~((id - 1) % 16 < 8)
      BY <1>1, <1>2, <3>1, <3>3 DEF HomeFile, HomeIsPawn
    <3>5. (id - 1) % 32 = 12 + off
      BY <1>3, <3>2, <3>4
    <3>6. id = 32 * ((id - 1) \div 32) + 13 + off /\ (id - 1) \div 32 \in Boards
      BY <1>1, <1>2, <1>3, <3>1, <3>4, <3>5
    <3> QED BY <3>6
  <2>3. g \in [Boards -> KingIds(AllIds, w)]
    BY <2>1
  <2> QED BY <2>1, <2>2, <2>3 DEF Bijection, Injection, Surjection, IsInjective
<1> HIDE DEF f, g
<1>8. IsFiniteSet(Boards) /\ Cardinality(Boards) = N
  <2>1. 0 \in Int /\ N - 1 \in Int /\ (0 > N - 1 <=> N = 0) /\ (N - 1) - 0 + 1 = N
    BY <1>1
  <2> QED BY <2>1, FS_Interval
<1>9. IsFiniteSet(0 .. 15) /\ Cardinality(0 .. 15) = 16
  <2>1. 0 \in Int /\ 15 \in Int /\ ~(0 > 15) /\ 15 - 0 + 1 = 16
    OBVIOUS
  <2> QED BY <2>1, FS_Interval
<1> HIDE DEF Boards
<1>10. /\ IsFiniteSet(Boards \X (0 .. 15))
       /\ Cardinality(Boards \X (0 .. 15)) = N * 16
  BY <1>8, <1>9, FS_Product
<1>11. Cardinality(OfColor(AllIds, w)) = N * 16
  BY <1>6, <1>10, FS_Bijection DEF ExistsBijection
<1>12. Cardinality(KingIds(AllIds, w)) = N
  BY <1>7, <1>8, FS_Bijection DEF ExistsBijection
<1> QED BY <1>1, <1>11, <1>12 DEF N

LEMMA InitCaptures == Init => CapturesInv
<1> SUFFICES ASSUME Init PROVE CapturesInv
  OBVIOUS
<1>1. Standing = Placed
  <2>1. DOMAIN pieces = {HomeSquare(id) : id \in Placed}
    BY DEF Init
  <2>2. \A s \in DOMAIN pieces : \E id \in Placed :
           HomeSquare(id) = s /\ pieces[s].id = id
    BY DEF Init, NewPiece
  <2>3. \A id, jd \in Placed : HomeSquare(id) = HomeSquare(jd) => id = jd
    BY HomeSquaresDiffer, BoardAssumption
  <2> QED BY <2>1, <2>2, <2>3 DEF Standing
<1>2. ASSUME NEW A, NEW C, IsFiniteSet(A), C \subseteq A
      PROVE  Cardinality(A \ C) + Cardinality(C) = Cardinality(A)
  <2>1. A \cap C = C
    BY <1>2
  <2>2. Cardinality(A \ C) = Cardinality(A) - Cardinality(C)
    BY <1>2, <2>1, FS_Difference
  <2>3. Cardinality(A) \in Nat /\ Cardinality(C) \in Nat
    BY <1>2, FS_Subset, FS_CardinalityType
  <2> QED BY <2>2, <2>3
<1> SUFFICES ASSUME NEW w \in BOOLEAN
             PROVE  /\ captured[w] + Cardinality(OfColor(Standing, w))
                           = 16 * BoardsPerSide * BoardsPerSide
                    /\ kingsCaptured[w] + Cardinality(KingIds(Standing, w))
                           = BoardsPerSide * BoardsPerSide
  BY DEF CapturesInv
<1>3. /\ Missing(w) = OfColor(AllIds, w) \ OfColor(Placed, w)
      /\ OfColor(Placed, w) \subseteq OfColor(AllIds, w)
      /\ OfColor(AllIds, w) \subseteq AllIds
  BY BoardAssumption DEF Missing, OfColor
<1>4. /\ MissingKings(w) = KingIds(AllIds, w) \ KingIds(Placed, w)
      /\ KingIds(Placed, w) \subseteq KingIds(AllIds, w)
      /\ KingIds(AllIds, w) \subseteq AllIds
  BY BoardAssumption DEF MissingKings, Missing, KingIds, OfColor
<1>5. IsFiniteSet(OfColor(AllIds, w)) /\ IsFiniteSet(KingIds(AllIds, w))
  BY <1>3, <1>4, AllIdsFinite, FS_Subset
<1>6. captured[w] = Cardinality(Missing(w))
      /\ kingsCaptured[w] = Cardinality(MissingKings(w))
  BY DEF Init
<1> QED BY <1>1, <1>2, <1>3, <1>4, <1>5, <1>6, InitialCounts

LEMMA NextCaptures == IInv /\ CapturesInv /\ [Next]_vars => CapturesInv'
<1> SUFFICES ASSUME IInv, CapturesInv, [Next]_vars PROVE CapturesInv'
  OBVIOUS
<1>1. CASE UNCHANGED vars
  BY <1>1, NothingCaptured DEF vars, Standing
<1>2. ASSUME NEW from \in DOMAIN pieces, NEW to \in Destinations(from),
             Castle(from, to)
      PROVE  CapturesInv'
  BY <1>2, CastleStanding, NothingCaptured DEF Castle
<1>3. ASSUME NEW from \in DOMAIN pieces, NEW to \in Destinations(from),
             EnPassant(from, to)
      PROVE  CapturesInv'
  <2>1. CountCaptures({PassedSquare(from, to)})
    BY <1>3 DEF EnPassant
  <2>2. {PassedSquare(from, to)} \in SUBSET DOMAIN pieces
    BY <1>3, EnPassantStanding
  <2> QED BY <1>3, <2>1, <2>2, EnPassantStanding, CaptureStep
<1>4. ASSUME NEW from \in DOMAIN pieces, NEW to \in Destinations(from),
             NormalMove(from, to)
      PROVE  CapturesInv'
  <2>1. CountCaptures({to} \cap DOMAIN pieces)
    BY <1>4 DEF NormalMove
  <2> QED BY <1>4, <2>1, NormalMoveStanding, CaptureStep
<1>5. ASSUME NEW x, NEW y, NEW color, Adopt(x, y, color)
      PROVE  CapturesInv'
  <2>1. DOMAIN pieces' = DOMAIN pieces
        /\ \A s \in DOMAIN pieces : pieces'[s].id = pieces[s].id
    BY <1>5 DEF Adopt, IInv, TypeOK, Piece
  <2>2. Standing' = Standing
    BY <2>1 DEF Standing
  <2> QED BY <1>5, <2>2, NothingCaptured DEF Adopt
<1>6. ASSUME NEW x, NEW y, NEW color, DoBulkCapture(x, y, color)
      PROVE  CapturesInv'
  <2> DEFINE S == Affected(x, y, color)
  <2>1. S \in SUBSET DOMAIN pieces
    BY DEF Affected
  <2>2. CountCaptures(S) /\ pieces' = [s \in DOMAIN pieces \ S |-> pieces[s]]
    BY <1>6 DEF DoBulkCapture
  <2> HIDE DEF S
  <2>3. Standing' = Standing \ IdsOn(S)
    BY <2>1, <2>2 DEF Standing, IdsOn, IInv, UniqueIds
  <2> QED BY <2>1, <2>2, <2>3, CaptureStep
<1> QED BY <1>1, <1>2, <1>3, <1>4, <1>5, <1>6 DEF Next

(* The counters can be trusted: for either color, captured pieces and      *)
(* standing pieces always add up to the army, and so do the kings, so the  *)
(* statistics may announce the end of the game from the counters alone.    *)
THEOREM CapturesAccounted == Spec => []CapturesAccountForMissing
<1>1. IInv /\ CapturesInv => CapturesAccountForMissing
  <2> SUFFICES ASSUME IInv, CapturesInv, NEW w \in BOOLEAN
               PROVE  /\ captured[w] + CountOf(DOMAIN pieces, w)
                             = 16 * BoardsPerSide * BoardsPerSide
                      /\ kingsCaptured[w] + CountOf(KingsOf(DOMAIN pieces), w)
                             = BoardsPerSide * BoardsPerSide
    BY DEF CapturesAccountForMissing
  <2>1. IdsOn(DOMAIN pieces) = Standing
    BY DEF IdsOn, Standing
  <2> QED BY <2>1, CountIds DEF CapturesInv
<1> QED BY <1>1, InitCaptures, NextCaptures, Invariance, PTL DEF Spec

----------------------------------------------------------------------------
(* The protection of unmoved pieces *)

(* What UnmovedAreSafeFromOtherBoards says of one step that is a move.     *)
SafeStep ==
    \A s \in DOMAIN pieces :
        (pieces[s].moveCount = 0 /\ pieces[s].id \notin Standing') =>
            /\ Occupied(s)'
            /\ BoardOf(SquareOf(pieces'[s].id)) = HomeBoard(pieces[s].id)

(* Only a pawn that has moved can be taken in passing.                     *)
LEMMA EnPassantSafe ==
    ASSUME IInv, NEW from \in DOMAIN pieces, NEW to \in Destinations(from),
           EnPassant(from, to)
    PROVE  SafeStep
<1> DEFINE passed == PassedSquare(from, to)
<1>1. passed \in DOMAIN pieces /\ pieces[passed].justDoubleMoved
  BY DEF EnPassant, CanTakeEnPassant, Occupied
<1>2. PieceInv(passed, pieces[passed])
  BY <1>1 DEF IInv, PiecesInv
<1>3. pieces[passed].moveCount # 0
  BY <1>1, <1>2 DEF PieceInv
<1>4. Standing' = Standing \ IdsOn({passed})
  BY EnPassantStanding
<1> HIDE DEF passed
<1>5. ASSUME NEW s \in DOMAIN pieces, pieces[s].id \notin Standing'
      PROVE  pieces[s].moveCount # 0
  <2>1. pieces[s].id \in IdsOn({passed})
    BY <1>4, <1>5 DEF Standing
  <2>2. s = passed
    BY <1>1, <2>1 DEF IdsOn, IInv, UniqueIds
  <2> QED BY <1>3, <2>2
<1> QED BY <1>5 DEF SafeStep

(* A piece that has not moved is at home, so CanCapture's comparison of    *)
(* the two squares compares the captor's board with the victim's own.      *)
LEMMA NormalMoveSafe ==
    ASSUME IInv, NEW from \in DOMAIN pieces, NEW to \in Destinations(from),
           NormalMove(from, to)
    PROVE  SafeStep
<1>1. Standing' = Standing \ IdsOn({to} \cap DOMAIN pieces)
      /\ to \in DOMAIN pieces' /\ pieces'[to].id = pieces[from].id
  BY NormalMoveStanding
<1> SUFFICES ASSUME NEW s \in DOMAIN pieces, pieces[s].moveCount = 0,
                    pieces[s].id \notin Standing'
             PROVE  /\ Occupied(s)'
                    /\ BoardOf(SquareOf(pieces'[s].id)) = HomeBoard(pieces[s].id)
  BY DEF SafeStep
<1>2. s = to
  <2>1. pieces[s].id \in IdsOn({to} \cap DOMAIN pieces)
    BY <1>1 DEF Standing
  <2> QED BY <2>1 DEF IdsOn, IInv, UniqueIds
<1>3. BoardOf(from) = BoardOf(to)
  BY <1>2 DEF NormalMove, CanMoveNormally, CanCapture, Occupied
<1>4. pieces[to].id \in AllIds /\ to = HomeSquare(pieces[to].id)
  <2>1. PieceInv(to, pieces[to]) /\ pieces[to] \in Piece
    BY <1>2 DEF IInv, TypeOK, PiecesInv
  <2> QED BY <1>2, <2>1, BoardAssumption DEF PieceInv, Piece
<1>5. BoardOf(to) = HomeBoard(pieces[to].id)
  BY <1>4, HomeFacts
<1>6. SquareOf(pieces[from].id) = from
  BY DEF SquareOf, IInv, UniqueIds
<1> QED BY <1>1, <1>2, <1>3, <1>5, <1>6 DEF Occupied

(* No move captures a piece that has never moved from another chessboard.  *)
THEOREM UnmovedAreSafe == Spec => UnmovedAreSafeFromOtherBoards
<1>1. IInv /\ [Next]_vars => [totalMoves' # totalMoves => SafeStep]_vars
  <2> SUFFICES ASSUME IInv, Next, totalMoves' # totalMoves PROVE SafeStep
    OBVIOUS
  <2>1. ASSUME NEW from \in DOMAIN pieces, NEW to \in Destinations(from),
               Castle(from, to)
        PROVE  SafeStep
    BY <2>1, CastleStanding DEF SafeStep, Standing
  <2>2. ASSUME NEW from \in DOMAIN pieces, NEW to \in Destinations(from),
               EnPassant(from, to) \/ NormalMove(from, to)
        PROVE  SafeStep
    BY <2>2, EnPassantSafe, NormalMoveSafe
  <2>3. ASSUME NEW x, NEW y, NEW color,
               Adopt(x, y, color) \/ DoBulkCapture(x, y, color)
        PROVE  totalMoves' = totalMoves
    BY <2>3 DEF Adopt, DoBulkCapture
  <2> QED BY <2>1, <2>2, <2>3 DEF Next
<1>2. [][totalMoves' # totalMoves => SafeStep]_vars => UnmovedAreSafeFromOtherBoards
  BY PTL DEF SafeStep, UnmovedAreSafeFromOtherBoards
<1> QED BY <1>1, <1>2, Invariance, PTL DEF Spec
=============================================================================
