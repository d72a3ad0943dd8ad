-------------------------- MODULE ClientRulesProofs --------------------------
(***************************************************************************)
(* The client's rules are the server's, on every board and in every        *)
(* position a game can reach: the theorem goes through the kinds of piece. *)
(***************************************************************************)
EXTENDS ClientRules, BoardProofs

(* Some offer is of a move of this kind to this square.                    *)
Offered(offers, moveType, to) ==
    \E o \in offers : o.moveType = moveType /\ o.to = to

LEMMA OfferFields ==
    \A from, to :
        /\ Plain(from, to).moveType = "normal" /\ Plain(from, to).to = to
        /\ Quiet(from, to).moveType = "normal" /\ Quiet(from, to).to = to
        /\ \A moveType, victim, other, never :
              LET o == Offer(from, to, moveType, victim, other, never)
              IN  o.moveType = moveType /\ o.to = to
BY DEF Plain, Quiet, Offer

(* A destination in arithmetic.                                            *)
LEMMA DestinationArithmetic ==
    ASSUME NEW from \in Squares, NEW to \in Squares
    PROVE  to \in Destinations(from) <=>
              /\ to # from
              /\ AbsDiff(to[1], from[1]) <= MAX_MOVE_DISTANCE
              /\ AbsDiff(to[2], from[2]) <= MAX_MOVE_DISTANCE
BY SquareFacts DEF Destinations, Reach

LEMMA DestinationsAreSquares ==
    ASSUME NEW from, NEW to \in Destinations(from)
    PROVE  to \in Squares /\ to # from
BY DEF Destinations, Reach, Squares

(* The two ways to say what may be captured.                               *)
LEMMA LandableFact ==
    \A from, to : Landable(from, to) <=> (Occupied(to) => CanCapture(from, to))
BY DEF Landable, empty, capturable, CanCapture, spansTwoBoards

LEMMA StepFact ==
    \A s, dx, dy : Step(s, dx, dy) = <<s[1] + dx, s[2] + dy>>
                   /\ Step(s, dx, dy)[1] = s[1] + dx /\ Step(s, dx, dy)[2] = s[2] + dy
BY DEF Step

-----------------------------------------------------------------------------
(* Walks *)

Diagonals == {-1, 1} \X {-1, 1}
Straights == {<<-1, 0>>, <<1, 0>>, <<0, -1>>, <<0, 1>>}

(* Where a walk of n steps along d leads.                                  *)
Along(from, d, n) == Step(from, n * d[1], n * d[2])

(* The offer of a walk to `to'.                                            *)
Walked(from, directions, to) ==
    \E n \in 1 .. MAX_MOVE_DISTANCE - 1, d \in directions :
        /\ to = Along(from, d, n)
        /\ \A i \in 1 .. n - 1 : empty(Along(from, d, i))
        /\ Landable(from, to)

LEMMA WalkOffers ==
    ASSUME NEW from, NEW directions, NEW moveType, NEW to
    PROVE  Offered(Walks(from, directions), moveType, to) <=>
              moveType = "normal" /\ Walked(from, directions, to)
<1> DEFINE V == {v \in (1 .. MAX_MOVE_DISTANCE - 1) \X directions :
                   /\ \A i \in 1 .. v[1] - 1 : empty(Along(from, v[2], i))
                   /\ Landable(from, Along(from, v[2], v[1]))}
<1>1. Walks(from, directions) = {Plain(from, Along(from, v[2], v[1])) : v \in V}
  BY DEF Walks, Along
<1>2. ASSUME Offered(Walks(from, directions), moveType, to)
      PROVE  moveType = "normal" /\ Walked(from, directions, to)
  <2>1. PICK v \in V : Plain(from, Along(from, v[2], v[1])).moveType = moveType
                       /\ Plain(from, Along(from, v[2], v[1])).to = to
    BY <1>1, <1>2 DEF Offered
  <2>2. moveType = "normal" /\ to = Along(from, v[2], v[1])
    BY <2>1, OfferFields
  <2> QED BY <2>2 DEF Walked
<1>3. ASSUME moveType = "normal", Walked(from, directions, to)
      PROVE  Offered(Walks(from, directions), moveType, to)
  <2>1. PICK n \in 1 .. MAX_MOVE_DISTANCE - 1, d \in directions :
           /\ to = Along(from, d, n)
           /\ \A i \in 1 .. n - 1 : empty(Along(from, d, i))
           /\ Landable(from, to)
    BY <1>3 DEF Walked
  <2>2. <<n, d>> \in V
    BY <2>1
  <2>3. Plain(from, to) \in Walks(from, directions)
    BY <1>1, <2>1, <2>2
  <2> QED BY <1>3, <2>3, OfferFields DEF Offered
<1> QED BY <1>2, <1>3

(* A walk of n steps is a move over the distance n, in the direction that  *)
(* the signs of the two differences give.                                  *)
LEMMA AlongFacts ==
    ASSUME NEW from \in Squares, NEW d \in Diagonals \cup Straights,
           NEW n \in Nat \ {0}, NEW to, to = Along(from, d, n)
    PROVE  /\ Distance(from, to) = n /\ to # from
           /\ Sign(Dx(from, to)) = d[1] /\ Sign(Dy(from, to)) = d[2]
           /\ OnOneLine(from, to)
           /\ d \in Diagonals <=> AbsDiff(from[1], to[1]) = AbsDiff(from[2], to[2])
           /\ d \in Straights <=> from[1] = to[1] \/ from[2] = to[2]
           /\ AbsDiff(to[1], from[1]) <= n /\ AbsDiff(to[2], from[2]) <= n
<1>1. PICK x \in Int, y \in Int : from = <<x, y>>
  BY SquareFacts
<1>2. PICK u \in {-1, 0, 1}, v \in {-1, 0, 1} : d = <<u, v>> /\ ~(u = 0 /\ v = 0)
  BY DEF Diagonals, Straights
<1>3. PICK p \in Int, q \in Int : to = <<p, q>> /\ p = x + n * u /\ q = y + n * v
  BY <1>1, <1>2 DEF Along, Step
<1>4. /\ u = 0 => p = x
      /\ u = 1 => p = x + n
      /\ u = -1 => p = x - n
      /\ v = 0 => q = y
      /\ v = 1 => q = y + n
      /\ v = -1 => q = y - n
  BY <1>3
<1>5. /\ AbsDiff(x, p) = IF u = 0 THEN 0 ELSE n
      /\ AbsDiff(y, q) = IF v = 0 THEN 0 ELSE n
      /\ AbsDiff(p, x) = AbsDiff(x, p) /\ AbsDiff(q, y) = AbsDiff(y, q)
      /\ Sign(p - x) = u /\ Sign(q - y) = v
  BY <1>2, <1>4 DEF AbsDiff, AbsInt, Sign
<1>6. d \in Diagonals <=> u # 0 /\ v # 0
  BY <1>2 DEF Diagonals
<1>7. d \in Straights <=> u = 0 \/ v = 0
  BY <1>2 DEF Straights
<1>8. from[1] = x /\ from[2] = y /\ to[1] = p /\ to[2] = q
  BY <1>1, <1>3
<1>9. (x = p <=> u = 0) /\ (y = q <=> v = 0)
  BY <1>2, <1>4
<1>10. AbsDiff(x, p) = AbsDiff(y, q) <=> u # 0 /\ v # 0
  BY <1>2, <1>5
<1>11. Distance(from, to) = n
  BY <1>2, <1>5, <1>8 DEF Distance
<1>12. to # from /\ AbsDiff(p, x) <= n /\ AbsDiff(q, y) <= n
  BY <1>2, <1>5, <1>8, <1>9
<1>13. Sign(Dx(from, to)) = d[1] /\ Sign(Dy(from, to)) = d[2]
  BY <1>2, <1>5, <1>8 DEF Dx, Dy
<1>14. OnOneLine(from, to)
  BY <1>2, <1>8, <1>9, <1>10 DEF OnOneLine
<1> QED BY <1>6, <1>7, <1>8, <1>9, <1>10, <1>11, <1>12, <1>13, <1>14

(* Squares on one line are joined by a walk.                               *)
LEMMA LineIsWalk ==
    ASSUME NEW from \in Squares, NEW to \in Squares, to # from, OnOneLine(from, to)
    PROVE  \E d \in Diagonals \cup Straights :
              Distance(from, to) \in Nat \ {0} /\ to = Along(from, d, Distance(from, to))
<1>1. PICK x \in Int, y \in Int, p \in Int, q \in Int : from = <<x, y>> /\ to = <<p, q>>
  BY SquareFacts
<1>2. from[1] = x /\ from[2] = y /\ to[1] = p /\ to[2] = q
  BY <1>1
<1> DEFINE n == Distance(from, to)
<1>3. n \in Nat \ {0}
  BY <1>1, <1>2 DEF Distance, AbsDiff, AbsInt
<1>4. \/ p = x + n /\ q = y + n
      \/ p = x + n /\ q = y - n
      \/ p = x - n /\ q = y + n
      \/ p = x - n /\ q = y - n
      \/ p = x + n /\ q = y
      \/ p = x - n /\ q = y
      \/ p = x /\ q = y + n
      \/ p = x /\ q = y - n
  BY <1>1, <1>2 DEF OnOneLine, Distance, AbsDiff, AbsInt
<1> HIDE DEF n
<1>5. \E u, v \in {-1, 0, 1} : ~(u = 0 /\ v = 0) /\ p = x + n * u /\ q = y + n * v
  <2>1. /\ n * 1 = n /\ n * 0 = 0 /\ n * (-1) = -n
    BY <1>3
  <2> QED BY <1>3, <1>4, <2>1
<1>6. PICK u \in {-1, 0, 1}, v \in {-1, 0, 1} :
         ~(u = 0 /\ v = 0) /\ p = x + n * u /\ q = y + n * v
  BY <1>5
<1>7. <<u, v>> \in Diagonals \cup Straights
  BY <1>6 DEF Diagonals, Straights
<1>8. to = Along(from, <<u, v>>, n)
  BY <1>1, <1>2, <1>6 DEF Along, Step
<1> QED BY <1>3, <1>7, <1>8 DEF n

(* What the client walks is what the server lets a slide cross.            *)
LEMMA WalksAreSlides ==
    ASSUME NEW from \in Squares, NEW to \in Squares,
           NEW directions \in SUBSET (Diagonals \cup Straights)
    PROVE  Walked(from, directions, to) <=>
              /\ to # from
              /\ Distance(from, to) < MAX_MOVE_DISTANCE
              /\ \E d \in directions : to = Along(from, d, Distance(from, to))
              /\ crossedSquaresAreEmpty(from, to)
              /\ Landable(from, to)
<1>1. ASSUME NEW d \in directions, NEW n \in Nat \ {0}, to = Along(from, d, n)
      PROVE  /\ Distance(from, to) = n /\ to # from
             /\ crossedSquaresAreEmpty(from, to) <=>
                   \A i \in 1 .. n - 1 : empty(Along(from, d, i))
  <2>1. d \in Diagonals \cup Straights
    OBVIOUS
  <2>2. /\ Distance(from, to) = n /\ to # from /\ OnOneLine(from, to)
        /\ Sign(Dx(from, to)) = d[1] /\ Sign(Dy(from, to)) = d[2]
    BY <1>1, <2>1, AlongFacts
  <2> QED BY <2>2 DEF crossedSquaresAreEmpty, empty, Along, Step
<1>2. ASSUME Walked(from, directions, to)
      PROVE  /\ to # from
             /\ Distance(from, to) < MAX_MOVE_DISTANCE
             /\ \E d \in directions : to = Along(from, d, Distance(from, to))
             /\ crossedSquaresAreEmpty(from, to)
             /\ Landable(from, to)
  <2>1. PICK n \in 1 .. MAX_MOVE_DISTANCE - 1, d \in directions :
           /\ to = Along(from, d, n)
           /\ \A i \in 1 .. n - 1 : empty(Along(from, d, i))
           /\ Landable(from, to)
    BY <1>2 DEF Walked
  <2>2. n \in Nat \ {0} /\ n < MAX_MOVE_DISTANCE
    BY BoardAssumption
  <2> QED BY <1>1, <2>1, <2>2
<1>3. ASSUME to # from, Distance(from, to) < MAX_MOVE_DISTANCE,
             NEW d \in directions, to = Along(from, d, Distance(from, to)),
             crossedSquaresAreEmpty(from, to), Landable(from, to)
      PROVE  Walked(from, directions, to)
  <2>1. Distance(from, to) \in Nat \ {0}
    BY <1>3, LineIsWalk DEF crossedSquaresAreEmpty
  <2>2. Distance(from, to) \in 1 .. MAX_MOVE_DISTANCE - 1
    BY <1>3, <2>1, BoardAssumption
  <2>3. \A i \in 1 .. Distance(from, to) - 1 : empty(Along(from, d, i))
    BY <1>1, <1>3, <2>1
  <2> QED BY <1>3, <2>2, <2>3 DEF Walked
<1> QED BY <1>2, <1>3

-----------------------------------------------------------------------------
(* One lemma per kind of piece: the offers to squares of the board are the *)
(* accepted moves.                                                         *)

(* The two ways to say which offers are right.                             *)
OffersRight(from) ==
    \A moveType, to :
        (to \in Squares /\ Offered(getMoveableSquares(from), moveType, to)) <=>
        (/\ moveType \in {"normal", "castle", "en passant"}
         /\ to \in Clickable(from)
         /\ Accepts(moveType, from, to))

(* For every kind but kings and pawns all that matters is the normal move. *)
LEMMA OnlyNormalMoves ==
    ASSUME NEW from \in DOMAIN pieces,
           pieces[from].type \notin {"King", "Pawn"},
           NEW offers,
           getMoveableSquares(from) = boundsCheckMoveableSquares(offers),
           \A moveType, to : Offered(offers, moveType, to) => moveType = "normal",
           \A to \in Squares :
              Offered(offers, "normal", to) <=>
                 to \in Clickable(from) /\ CanMoveNormally(from, to)
    PROVE  OffersRight(from)
<1>1. \A to : ~CanCastle(from, to) /\ ~CanTakeEnPassant(from, to)
  BY DEF CanCastle, CanTakeEnPassant
<1>2. \A moveType, to : Offered(getMoveableSquares(from), moveType, to) <=>
                           to \in Squares /\ Offered(offers, moveType, to)
  BY DEF Offered, boundsCheckMoveableSquares
<1>3. \A to \in Clickable(from) : to \in Squares
  BY DestinationsAreSquares DEF Clickable
<1>4. \A to : /\ Accepts("normal", from, to) <=> CanMoveNormally(from, to)
              /\ Accepts("castle", from, to) <=> CanCastle(from, to)
              /\ Accepts("en passant", from, to) <=> CanTakeEnPassant(from, to)
  BY DEF Accepts
<1> SUFFICES ASSUME NEW moveType, NEW to
             PROVE  (to \in Squares /\ Offered(getMoveableSquares(from), moveType, to)) <=>
                    (/\ moveType \in {"normal", "castle", "en passant"}
                     /\ to \in Clickable(from)
                     /\ Accepts(moveType, from, to))
  BY DEF OffersRight
<1> QED BY <1>1, <1>2, <1>3, <1>4

LEMMA KnightOffers ==
    ASSUME IInv, NEW from \in DOMAIN pieces, pieces[from].type = "Knight"
    PROVE  OffersRight(from)
<1> DEFINE offers == addMoveableSquaresForKnight(from)
<1>1. from \in Squares
  BY DEF IInv, TypeOK
<1>2. getMoveableSquares(from) = boundsCheckMoveableSquares(offers)
  BY DEF getMoveableSquares
<1>3. ASSUME NEW moveType, NEW to
      PROVE  Offered(offers, moveType, to) <=>
                /\ moveType = "normal" /\ Landable(from, to)
                /\ \E d \in KnightJumps : to = Step(from, d[1], d[2])
  BY OfferFields DEF Offered, addMoveableSquaresForKnight
<1>4. ASSUME NEW to \in Squares
      PROVE  (\E d \in KnightJumps : to = Step(from, d[1], d[2])) <=>
                to \in Destinations(from) /\ satisfiesKnightMoveRules(from, to)
  <2>1. PICK x \in Int, y \in Int, p \in Int, q \in Int : from = <<x, y>> /\ to = <<p, q>>
    BY <1>1, SquareFacts
  <2>2. from[1] = x /\ from[2] = y /\ to[1] = p /\ to[2] = q
    BY <2>1
  <2>3. ASSUME NEW d \in KnightJumps, to = Step(from, d[1], d[2])
        PROVE  to \in Destinations(from) /\ satisfiesKnightMoveRules(from, to)
    <3>1. PICK a \in -2 .. 2, b \in -2 .. 2 : d = <<a, b>>
      BY DEF KnightJumps
    <3>2. p = x + a /\ q = y + b /\ {AbsInt(a), AbsInt(b)} = {1, 2}
      BY <2>1, <2>2, <2>3, <3>1 DEF Step, KnightJumps
    <3>3. AbsDiff(x, p) = AbsInt(a) /\ AbsDiff(y, q) = AbsInt(b)
          /\ AbsDiff(p, x) = AbsInt(a) /\ AbsDiff(q, y) = AbsInt(b)
      BY <3>2 DEF AbsDiff, AbsInt
    <3>4. AbsInt(a) \in {1, 2} /\ AbsInt(b) \in {1, 2} /\ AbsInt(a) # AbsInt(b)
      BY <3>2
    <3>5. p # x
      BY <3>2, <3>4 DEF AbsInt
    <3>6. to # from
      BY <2>1, <3>5
    <3> QED BY <1>1, <2>2, <3>2, <3>3, <3>4, <3>6, BoardAssumption, ClientRulesAssumption,
               DestinationArithmetic DEF satisfiesKnightMoveRules
  <2>4. ASSUME satisfiesKnightMoveRules(from, to)
        PROVE  \E d \in KnightJumps : to = Step(from, d[1], d[2])
    <3>1. {AbsDiff(x, p), AbsDiff(y, q)} = {1, 2}
      BY <2>2, <2>4 DEF satisfiesKnightMoveRules
    <3>2. AbsDiff(x, p) = AbsInt(p - x) /\ AbsDiff(y, q) = AbsInt(q - y)
      BY DEF AbsDiff, AbsInt
    <3>3. AbsDiff(x, p) \in {1, 2} /\ AbsDiff(y, q) \in {1, 2}
      BY <3>1
    <3>4. p - x \in -2 .. 2 /\ q - y \in -2 .. 2
      BY <3>2, <3>3 DEF AbsInt
    <3>5. <<p - x, q - y>> \in KnightJumps
      BY <3>1, <3>2, <3>4 DEF KnightJumps
    <3>6. x + (p - x) = p /\ y + (q - y) = q
      OBVIOUS
    <3>7. to = Step(from, p - x, q - y)
      BY <2>1, <2>2, <3>6 DEF Step
    <3> QED BY <3>5, <3>7
  <2> QED BY <2>3, <2>4
<1>5. ASSUME NEW to \in Squares
      PROVE  Offered(offers, "normal", to) <=>
                to \in Clickable(from) /\ CanMoveNormally(from, to)
  <2>1. satisfiesMoveRules(pieces[from], from, to) <=> satisfiesKnightMoveRules(from, to)
    BY DEF satisfiesMoveRules
  <2>2. to \in Clickable(from) <=> to \in Destinations(from)
    BY DEF Clickable, Slides
  <2> QED BY <1>3, <1>4, <2>1, <2>2, LandableFact DEF CanMoveNormally
<1> HIDE DEF offers
<1> QED BY <1>2, <1>3, <1>5, OnlyNormalMoves

(* What a slide along one of the directions means to the server.           *)
LEMMA SlideOffers ==
    ASSUME IInv, NEW from \in DOMAIN pieces, Slides(pieces[from]),
           NEW to \in Squares
    PROVE  /\ Walked(from, Diagonals, to) <=>
                 /\ to \in Clickable(from) /\ Landable(from, to)
                 /\ satisfiesBishopMoveRules(from, to)
           /\ Walked(from, Straights, to) <=>
                 /\ to \in Clickable(from) /\ Landable(from, to)
                 /\ satisfiesRookMoveRules(from, to)
<1>1. from \in Squares
  BY DEF IInv, TypeOK
<1>2. /\ Walked(from, Diagonals, to) <=>
            /\ to # from /\ Distance(from, to) < MAX_MOVE_DISTANCE
            /\ \E d \in Diagonals : to = Along(from, d, Distance(from, to))
            /\ crossedSquaresAreEmpty(from, to) /\ Landable(from, to)
      /\ Walked(from, Straights, to) <=>
            /\ to # from /\ Distance(from, to) < MAX_MOVE_DISTANCE
            /\ \E d \in Straights : to = Along(from, d, Distance(from, to))
            /\ crossedSquaresAreEmpty(from, to) /\ Landable(from, to)
  BY <1>1, WalksAreSlides
<1>3. ASSUME to # from, OnOneLine(from, to)
      PROVE  /\ (\E d \in Diagonals : to = Along(from, d, Distance(from, to))) <=>
                   AbsDiff(from[1], to[1]) = AbsDiff(from[2], to[2])
             /\ (\E d \in Straights : to = Along(from, d, Distance(from, to))) <=>
                   from[1] = to[1] \/ from[2] = to[2]
             /\ Distance(from, to) < MAX_MOVE_DISTANCE => to \in Destinations(from)
  <2>1. PICK e \in Diagonals \cup Straights :
           Distance(from, to) \in Nat \ {0} /\ to = Along(from, e, Distance(from, to))
    BY <1>1, <1>3, LineIsWalk
  <2>2. ASSUME NEW d \in Diagonals \cup Straights, to = Along(from, d, Distance(from, to))
        PROVE  /\ d \in Diagonals <=> AbsDiff(from[1], to[1]) = AbsDiff(from[2], to[2])
               /\ d \in Straights <=> from[1] = to[1] \/ from[2] = to[2]
               /\ AbsDiff(to[1], from[1]) <= Distance(from, to)
               /\ AbsDiff(to[2], from[2]) <= Distance(from, to)
    BY <1>1, <2>1, <2>2, AlongFacts
  <2>3. ASSUME Distance(from, to) < MAX_MOVE_DISTANCE PROVE to \in Destinations(from)
    <3>1. AbsDiff(to[1], from[1]) \in Int /\ AbsDiff(to[2], from[2]) \in Int
      BY <1>1, SquareFacts DEF AbsDiff, AbsInt
    <3>2. AbsDiff(to[1], from[1]) <= MAX_MOVE_DISTANCE
          /\ AbsDiff(to[2], from[2]) <= MAX_MOVE_DISTANCE
      BY <2>1, <2>2, <2>3, <3>1, BoardAssumption
    <3> QED BY <1>1, <1>3, <3>2, DestinationArithmetic
  <2> QED BY <2>1, <2>2, <2>3
<1>4. to \in Clickable(from) <=>
         to \in Destinations(from) /\ Distance(from, to) < MAX_MOVE_DISTANCE
  BY DEF Clickable
<1>5. to \in Destinations(from) => to # from
  BY DestinationsAreSquares
<1>6. satisfiesBishopMoveRules(from, to) <=>
         /\ AbsDiff(from[1], to[1]) = AbsDiff(from[2], to[2])
         /\ crossedSquaresAreEmpty(from, to)
  BY DEF satisfiesBishopMoveRules
<1>7. satisfiesRookMoveRules(from, to) <=>
         (from[1] = to[1] \/ from[2] = to[2]) /\ crossedSquaresAreEmpty(from, to)
  BY DEF satisfiesRookMoveRules
<1>8. crossedSquaresAreEmpty(from, to) => OnOneLine(from, to)
  BY DEF crossedSquaresAreEmpty
<1> QED BY <1>2, <1>3, <1>4, <1>5, <1>6, <1>7, <1>8

LEMMA SliderOffers ==
    ASSUME IInv, NEW from \in DOMAIN pieces, Slides(pieces[from])
    PROVE  OffersRight(from)
<1> DEFINE type == pieces[from].type
           offers == CASE type = "Bishop" -> addMoveableSquaresForBishop(from)
                       [] type = "Rook" -> addMoveableSquaresForRook(from)
                       [] OTHER -> addMoveableSquaresForBishop(from)
                                   \cup addMoveableSquaresForRook(from)
<1>1. type \in {"Bishop", "Rook", "Queen", "PromotedPawn"}
  BY DEF Slides
<1>2. getMoveableSquares(from) = boundsCheckMoveableSquares(offers)
  <2>1. CASE type = "Bishop"
    BY <2>1 DEF getMoveableSquares
  <2>2. CASE type = "Rook"
    BY <2>2 DEF getMoveableSquares
  <2>3. CASE type \in {"Queen", "PromotedPawn"}
    BY <2>3 DEF getMoveableSquares
  <2> QED BY <1>1, <2>1, <2>2, <2>3
<1>3. /\ addMoveableSquaresForBishop(from) = Walks(from, Diagonals)
      /\ addMoveableSquaresForRook(from) = Walks(from, Straights)
  BY DEF addMoveableSquaresForBishop, addMoveableSquaresForRook, Diagonals, Straights
<1>4. /\ type = "Bishop" => offers = Walks(from, Diagonals)
      /\ type = "Rook" => offers = Walks(from, Straights)
      /\ type \in {"Queen", "PromotedPawn"} =>
            offers = Walks(from, Diagonals) \cup Walks(from, Straights)
  BY <1>3
<1> HIDE DEF offers
<1>5. ASSUME NEW moveType, NEW to
      PROVE  Offered(offers, moveType, to) <=>
                /\ moveType = "normal"
                /\ \/ type # "Rook" /\ Walked(from, Diagonals, to)
                   \/ type # "Bishop" /\ Walked(from, Straights, to)
  <2>1. \A D \in {Diagonals, Straights} :
           Offered(Walks(from, D), moveType, to) <=>
              moveType = "normal" /\ Walked(from, D, to)
    BY WalkOffers
  <2>2. Offered(Walks(from, Diagonals) \cup Walks(from, Straights), moveType, to) <=>
           \/ Offered(Walks(from, Diagonals), moveType, to)
           \/ Offered(Walks(from, Straights), moveType, to)
    BY DEF Offered
  <2> QED BY <1>1, <1>4, <2>1, <2>2
<1>6. ASSUME NEW to \in Squares
      PROVE  Offered(offers, "normal", to) <=>
                to \in Clickable(from) /\ CanMoveNormally(from, to)
  <2>1. satisfiesMoveRules(pieces[from], from, to) <=>
           \/ type # "Rook" /\ satisfiesBishopMoveRules(from, to)
           \/ type # "Bishop" /\ satisfiesRookMoveRules(from, to)
    BY <1>1 DEF satisfiesMoveRules, satisfiesQueenMoveRules
  <2> HIDE DEF type
  <2> QED BY <1>5, <2>1, SlideOffers, LandableFact DEF CanMoveNormally
<1> QED BY <1>1, <1>2, <1>5, <1>6, OnlyNormalMoves

(* A king's castling: the same corner, the same squares between, the same  *)
(* rook, for the two directions.                                           *)
LEMMA CastlingOffers ==
    ASSUME IInv, NEW from \in DOMAIN pieces, pieces[from].type = "King",
           NEW to \in Squares
    PROVE  (\E left \in BOOLEAN :
               /\ pieces[from].moveCount = 0
               /\ CornerAllowsCastling(from, left)
               /\ to = Step(from, 2 * (IF left THEN -1 ELSE 1), 0))
           <=> to \in Destinations(from) /\ CanCastle(from, to)
<1>1. from \in Squares
  BY DEF IInv, TypeOK
<1>2. PICK x \in Int, y \in Int, p \in Int, q \in Int : from = <<x, y>> /\ to = <<p, q>>
  BY <1>1, SquareFacts
<1>3. from[1] = x /\ from[2] = y /\ to[1] = p /\ to[2] = q
  BY <1>2
<1>4. ASSUME p = x + 2, q = y
      PROVE  CanCastle(from, to) <=>
                pieces[from].moveCount = 0 /\ CornerAllowsCastling(from, FALSE)
  <2> DEFINE corner == <<x + 3, y>>
  <2>1. RookFrom(from, to) = corner /\ Step(from, 3, 0) = corner
        /\ Dx(from, to) = 2 /\ Dy(from, to) = 0
    BY <1>3, <1>4 DEF RookFrom, Step, Dx, Dy
  <2>2. Distance(from, corner) = 3 /\ Sign(Dx(from, corner)) = 1
        /\ Sign(Dy(from, corner)) = 0 /\ OnOneLine(from, corner)
    <3>1. corner[1] = x + 3 /\ corner[2] = y
      OBVIOUS
    <3>2. AbsDiff(x, x + 3) = 3 /\ AbsDiff(y, y) = 0
      <4>1. PICK a \in Int : a = x - (x + 3)
        OBVIOUS
      <4>2. a < 0 /\ a + 3 = 0
        BY <4>1
      <4>3. AbsInt(a) = 3
        BY <4>2 DEF AbsInt
      <4>4. AbsInt(y - y) = 0
        BY DEF AbsInt
      <4> QED BY <4>1, <4>3, <4>4 DEF AbsDiff
    <3>3. Sign((x + 3) - x) = 1 /\ Sign(y - y) = 0
      BY DEF Sign
    <3> HIDE DEF corner
    <3> QED BY <1>3, <3>1, <3>2, <3>3 DEF Distance, Dx, Dy, OnOneLine
  <2>3. \A k \in 1 .. 2 : <<from[1] + k * 1, from[2] + k * 0>> = Step(from, k, 0)
    BY <1>3 DEF Step
  <2>4. crossedSquaresAreEmpty(from, corner) <=>
           \A k \in 1 .. 2 : ~Occupied(Step(from, k, 0))
    BY <2>2, <2>3 DEF crossedSquaresAreEmpty
  <2> HIDE DEF corner
  <2> QED BY <2>1, <2>4 DEF CanCastle, CornerAllowsCastling
<1>5. ASSUME p = x - 2, q = y
      PROVE  CanCastle(from, to) <=>
                pieces[from].moveCount = 0 /\ CornerAllowsCastling(from, TRUE)
  <2> DEFINE corner == <<x - 4, y>>
  <2>1. RookFrom(from, to) = corner /\ Step(from, -4, 0) = corner
        /\ Dx(from, to) = -2 /\ Dy(from, to) = 0
    BY <1>3, <1>5 DEF RookFrom, Step, Dx, Dy
  <2>2. Distance(from, corner) = 4 /\ Sign(Dx(from, corner)) = -1
        /\ Sign(Dy(from, corner)) = 0 /\ OnOneLine(from, corner)
    <3>1. corner[1] = x - 4 /\ corner[2] = y
      OBVIOUS
    <3>2. AbsDiff(x, x - 4) = 4 /\ AbsDiff(y, y) = 0
      BY DEF AbsDiff, AbsInt
    <3>3. Sign((x - 4) - x) = -1 /\ Sign(y - y) = 0
      BY DEF Sign
    <3> HIDE DEF corner
    <3> QED BY <1>3, <3>1, <3>2, <3>3 DEF Distance, Dx, Dy, OnOneLine
  <2>3. \A k \in 1 .. 3 : <<from[1] + k * (-1), from[2] + k * 0>> = Step(from, -k, 0)
    BY <1>3 DEF Step
  <2>4. crossedSquaresAreEmpty(from, corner) <=>
           \A k \in 1 .. 3 : ~Occupied(Step(from, -k, 0))
    BY <2>2, <2>3 DEF crossedSquaresAreEmpty
  <2> HIDE DEF corner
  <2> QED BY <2>1, <2>4 DEF CanCastle, CornerAllowsCastling
<1>6. CanCastle(from, to) => q = y /\ (p = x + 2 \/ p = x - 2)
  BY <1>3 DEF CanCastle, Dx, Dy
<1>7. q = y /\ (p = x + 2 \/ p = x - 2) => to \in Destinations(from)
  <2> SUFFICES ASSUME q = y, p = x + 2 \/ p = x - 2 PROVE to \in Destinations(from)
    OBVIOUS
  <2>1. AbsDiff(p, x) = 2 /\ AbsDiff(q, y) = 0 /\ to # from
    BY <1>2 DEF AbsDiff, AbsInt
  <2> QED BY <1>1, <1>3, <2>1, BoardAssumption, ClientRulesAssumption, DestinationArithmetic
<1>8. /\ to = Step(from, 2 * (-1), 0) <=> p = x - 2 /\ q = y
      /\ to = Step(from, 2 * 1, 0) <=> p = x + 2 /\ q = y
  BY <1>2, <1>3 DEF Step
<1>9. (\E left \in BOOLEAN :
         /\ pieces[from].moveCount = 0
         /\ CornerAllowsCastling(from, left)
         /\ to = Step(from, 2 * (IF left THEN -1 ELSE 1), 0))
      <=> \/ /\ pieces[from].moveCount = 0 /\ CornerAllowsCastling(from, TRUE)
             /\ to = Step(from, 2 * (-1), 0)
          \/ /\ pieces[from].moveCount = 0 /\ CornerAllowsCastling(from, FALSE)
             /\ to = Step(from, 2 * 1, 0)
  OBVIOUS
<1> QED BY <1>4, <1>5, <1>6, <1>7, <1>8, <1>9

(* One step in any direction within the chessboard.                        *)
LEMMA KingSteps ==
    ASSUME IInv, NEW from \in DOMAIN pieces, NEW to \in Squares
    PROVE  to \in Around(from) /\ ~spansTwoBoards(from, to) <=>
              to \in Destinations(from) /\ satisfiesKingMoveRules(from, to)
<1>1. from \in Squares
  BY DEF IInv, TypeOK
<1>2. PICK x \in Int, y \in Int, p \in Int, q \in Int : from = <<x, y>> /\ to = <<p, q>>
  BY <1>1, SquareFacts
<1>3. from[1] = x /\ from[2] = y /\ to[1] = p /\ to[2] = q
  BY <1>2
<1>4. to \in Around(from) <=> to # from /\ p - x \in -1 .. 1 /\ q - y \in -1 .. 1
  <2>1. ASSUME NEW dx \in -1 .. 1, NEW dy \in -1 .. 1
        PROVE  to = Step(from, dx, dy) <=> p - x = dx /\ q - y = dy
    BY <1>2, <1>3 DEF Step
  <2>2. to \in Around(from) <=>
           to # from /\ \E dx \in -1 .. 1, dy \in -1 .. 1 : to = Step(from, dx, dy)
    BY DEF Around
  <2> QED BY <2>1, <2>2
<1>5. Distance(from, to) <= 1 <=> p - x \in -1 .. 1 /\ q - y \in -1 .. 1
  BY <1>3 DEF Distance, AbsDiff, AbsInt
<1>6. ASSUME to # from, p - x \in -1 .. 1, q - y \in -1 .. 1
      PROVE  to \in Destinations(from)
  <2>1. AbsDiff(p, x) \in 0 .. 1 /\ AbsDiff(q, y) \in 0 .. 1
    BY <1>6 DEF AbsDiff, AbsInt
  <2>2. AbsDiff(p, x) <= MAX_MOVE_DISTANCE /\ AbsDiff(q, y) <= MAX_MOVE_DISTANCE
    BY <2>1, BoardAssumption, ClientRulesAssumption
  <2> QED BY <1>1, <1>3, <1>6, <2>2, DestinationArithmetic
<1>7. to \in Destinations(from) => to # from
  BY DestinationsAreSquares
<1> QED BY <1>4, <1>5, <1>6, <1>7 DEF satisfiesKingMoveRules, spansTwoBoards

LEMMA KingOffers ==
    ASSUME IInv, NEW from \in DOMAIN pieces, pieces[from].type = "King"
    PROVE  OffersRight(from)
<1> DEFINE offers == addMoveableSquaresForKing(from)
<1>1. ASSUME NEW moveType, NEW to
      PROVE  Offered(getMoveableSquares(from), moveType, to) <=>
                to \in Squares /\ Offered(offers, moveType, to)
  BY DEF getMoveableSquares, Offered, boundsCheckMoveableSquares
<1>2. ASSUME NEW moveType, NEW to
      PROVE  Offered(offers, moveType, to) <=>
                \/ /\ moveType = "normal" /\ to \in Around(from)
                   /\ ~spansTwoBoards(from, to) /\ Landable(from, to)
                \/ /\ moveType = "castle"
                   /\ \E left \in BOOLEAN :
                         /\ pieces[from].moveCount = 0
                         /\ CornerAllowsCastling(from, left)
                         /\ to = Step(from, 2 * (IF left THEN -1 ELSE 1), 0)
  <2> DEFINE steps == {Plain(from, t) : t \in {u \in Around(from) :
                                          /\ ~spansTwoBoards(from, u)
                                          /\ Landable(from, u)}}
             castlings == {CastlingOffer(from, left) :
                              left \in {l \in BOOLEAN :
                                           /\ pieces[from].moveCount = 0
                                           /\ CornerAllowsCastling(from, l)}}
  <2>1. Offered(offers, moveType, to) <=>
           Offered(steps, moveType, to) \/ Offered(castlings, moveType, to)
    BY DEF Offered, addMoveableSquaresForKing
  <2>2. Offered(steps, moveType, to) <=>
           /\ moveType = "normal" /\ to \in Around(from)
           /\ ~spansTwoBoards(from, to) /\ Landable(from, to)
    <3>1. \A t : Plain(from, t).moveType = "normal" /\ Plain(from, t).to = t
      BY OfferFields
    <3>2. Offered(steps, moveType, to) <=>
             \E t \in {u \in Around(from) : ~spansTwoBoards(from, u) /\ Landable(from, u)} :
                Plain(from, t).moveType = moveType /\ Plain(from, t).to = to
      BY DEF Offered
    <3> QED BY <3>1, <3>2
  <2>3. \A left : /\ CastlingOffer(from, left).moveType = "castle"
                  /\ CastlingOffer(from, left).to =
                        Step(from, 2 * (IF left THEN -1 ELSE 1), 0)
    BY DEF CastlingOffer, Offer
  <2>4. Offered(castlings, moveType, to) <=>
           /\ moveType = "castle"
           /\ \E left \in BOOLEAN :
                 /\ pieces[from].moveCount = 0
                 /\ CornerAllowsCastling(from, left)
                 /\ to = Step(from, 2 * (IF left THEN -1 ELSE 1), 0)
    BY <2>3 DEF Offered
  <2> QED BY <2>1, <2>2, <2>4
<1> HIDE DEF offers
<1>3. ASSUME NEW to
      PROVE  /\ Accepts("normal", from, to) <=>
                   Landable(from, to) /\ satisfiesKingMoveRules(from, to)
             /\ Accepts("castle", from, to) <=> CanCastle(from, to)
             /\ ~Accepts("en passant", from, to)
             /\ to \in Clickable(from) <=> to \in Destinations(from)
             /\ to \in Destinations(from) => to \in Squares
  BY LandableFact, DestinationsAreSquares
     DEF Accepts, CanMoveNormally, satisfiesMoveRules, CanTakeEnPassant, Clickable, Slides
<1> SUFFICES ASSUME NEW moveType, NEW to
             PROVE  (to \in Squares /\ Offered(getMoveableSquares(from), moveType, to)) <=>
                    (/\ moveType \in {"normal", "castle", "en passant"}
                     /\ to \in Clickable(from)
                     /\ Accepts(moveType, from, to))
  BY DEF OffersRight
<1>4. CASE to \in Squares
  <2>1. Offered(offers, "normal", to) <=>
           to \in Destinations(from) /\ Landable(from, to) /\ satisfiesKingMoveRules(from, to)
    BY <1>2, <1>4, KingSteps
  <2>2. Offered(offers, "castle", to) <=> to \in Destinations(from) /\ CanCastle(from, to)
    BY <1>2, <1>4, CastlingOffers
  <2>3. Offered(offers, moveType, to) => moveType \in {"normal", "castle"}
    BY <1>2
  <2> QED BY <1>1, <1>3, <1>4, <2>1, <2>2, <2>3
<1>5. CASE to \notin Squares
  BY <1>3, <1>5
<1> QED BY <1>4, <1>5

(* A pawn's moves, by the shape of the move.                               *)
LEMMA PawnArithmetic ==
    ASSUME IInv, NEW from \in DOMAIN pieces, pieces[from].type = "Pawn",
           NEW to \in Squares, NEW dy, dy = IF pieces[from].white THEN -1 ELSE 1
    PROVE  /\ satisfiesPawnMoveRules(pieces[from], from, to) <=>
                 \/ to = Step(from, 0, dy) /\ empty(to)
                 \/ /\ to = Step(from, 0, 2 * dy) /\ empty(to)
                    /\ empty(Step(from, 0, dy)) /\ MayStepTwice(from)
                 \/ \E dx \in {-1, 1} : to = Step(from, dx, dy) /\ Occupied(to)
           /\ satisfiesPawnMoveRules(pieces[from], from, to) => to \in Destinations(from)
           /\ (Dy(from, to) = dy /\ Dx(from, to) \in {1, -1}) <=>
                 \E dx \in {-1, 1} : to = Step(from, dx, dy)
           /\ (Dy(from, to) = dy /\ Dx(from, to) \in {1, -1}) => to \in Destinations(from)
<1>1. from \in Squares /\ pieces[from].white \in BOOLEAN
  BY DEF IInv, TypeOK, Piece
<1>2. PICK x \in Int, y \in Int, p \in Int, q \in Int : from = <<x, y>> /\ to = <<p, q>>
  BY <1>1, SquareFacts
<1>3. from[1] = x /\ from[2] = y /\ to[1] = p /\ to[2] = q
  BY <1>2
<1>4. dy \in {-1, 1} /\ (pieces[from].white <=> dy = -1)
  BY <1>1
<1>5. \A a \in Int, b \in Int : to = Step(from, a, b) <=> p = x + a /\ q = y + b
  BY <1>2, <1>3 DEF Step
<1>6. /\ to = Step(from, 0, dy) <=> p = x /\ q = y + dy
      /\ to = Step(from, 0, 2 * dy) <=> p = x /\ q = y + 2 * dy
      /\ to = Step(from, 1, dy) <=> p = x + 1 /\ q = y + dy
      /\ to = Step(from, -1, dy) <=> p = x - 1 /\ q = y + dy
  BY <1>2, <1>3, <1>4 DEF Step
<1>7. satisfiesPawnMoveRules(pieces[from], from, to) <=>
         /\ \/ q = y + dy
            \/ q = y + 2 * dy /\ pieces[from].moveCount = 0
         /\ IF Occupied(to) THEN p \in {x + 1, x - 1} ELSE p = x
         /\ crossedSquaresAreEmpty(from, to)
  <2>1. /\ (AbsDiff(y, q) \in {1, 2} /\ IF dy = -1 THEN q - y < 0 ELSE q - y > 0)
              <=> (q = y + dy \/ q = y + 2 * dy)
        /\ AbsDiff(y, q) = 2 => ~(q = y + dy)
        /\ q = y + 2 * dy => AbsDiff(y, q) = 2
        /\ AbsDiff(x, p) = 1 <=> p \in {x + 1, x - 1}
        /\ AbsDiff(x, p) = 0 <=> p = x
    BY <1>4 DEF AbsDiff, AbsInt
  <2>2. /\ (IF pieces[from].white THEN Dy(from, to) < 0 ELSE Dy(from, to) > 0)
              <=> (IF dy = -1 THEN q - y < 0 ELSE q - y > 0)
        /\ (AbsDiff(from[1], to[1]) = IF Occupied(to) THEN 1 ELSE 0)
              <=> (IF Occupied(to) THEN AbsDiff(x, p) = 1 ELSE AbsDiff(x, p) = 0)
    BY <1>3, <1>4 DEF Dy
  <2> QED BY <1>3, <2>1, <2>2 DEF satisfiesPawnMoveRules
<1>8. ASSUME q = y + dy, p \in {x, x + 1, x - 1} PROVE crossedSquaresAreEmpty(from, to)
  <2>1. AbsDiff(y, q) = 1 /\ AbsDiff(x, p) \in {0, 1} /\ (AbsDiff(x, p) = 0 => x = p)
    <3>1. p - x \in -1 .. 1 /\ q - y \in {-1, 1}
      BY <1>4, <1>8
    <3> QED BY <3>1 DEF AbsDiff, AbsInt
  <2>2. Distance(from, to) = 1 /\ OnOneLine(from, to)
    BY <1>3, <2>1 DEF Distance, OnOneLine
  <2>3. 1 .. 1 - 1 = {}
    OBVIOUS
  <2> QED BY <2>2, <2>3 DEF crossedSquaresAreEmpty
<1>9. ASSUME q = y + 2 * dy, p = x
      PROVE  crossedSquaresAreEmpty(from, to) <=> empty(Step(from, 0, dy))
  <2>1. Distance(from, to) = 2 /\ OnOneLine(from, to)
        /\ Sign(Dx(from, to)) = 0 /\ Sign(Dy(from, to)) = dy
    <3>1. AbsDiff(y, q) = 2 /\ AbsDiff(x, p) = 0
      <4>1. y - q \in {2, -2} /\ x - p = 0
        <5>1. CASE dy = 1
          BY <1>9, <5>1
        <5>2. CASE dy = -1
          <6>1. y + 2 * (-1) = y - 2
            OBVIOUS
          <6>2. q = y - 2
            BY <1>9, <5>2, <6>1
          <6>3. y - q = 2
            BY <6>2
          <6>4. x - p = 0
            BY <1>9
          <6> QED BY <6>3, <6>4
        <5> QED BY <1>4, <5>1, <5>2
      <4> QED BY <4>1 DEF AbsDiff, AbsInt
    <3>2. Sign(p - x) = 0 /\ Sign(q - y) = dy
      BY <1>4, <1>9 DEF Sign
    <3> QED BY <1>3, <1>9, <3>1, <3>2 DEF Distance, OnOneLine, Dx, Dy
  <2>2. <<from[1] + 1 * 0, from[2] + 1 * dy>> = Step(from, 0, dy)
    BY <1>3, <1>4 DEF Step
  <2>3. 1 .. 2 - 1 = {1}
    OBVIOUS
  <2> QED BY <2>1, <2>2, <2>3 DEF crossedSquaresAreEmpty, empty
<1>10. ASSUME q = y + 2 * dy, p \in {x + 1, x - 1} PROVE ~crossedSquaresAreEmpty(from, to)
  <2>1. AbsDiff(x, p) = 1 /\ AbsDiff(y, q) = 2 /\ x # p /\ y # q
    <3>1. p - x \in {-1, 1} /\ q - y \in {-2, 2}
      BY <1>4, <1>10
    <3> QED BY <3>1 DEF AbsDiff, AbsInt
  <2>2. ~OnOneLine(from, to)
    BY <1>3, <2>1 DEF OnOneLine
  <2> QED BY <2>2 DEF crossedSquaresAreEmpty
<1>11. satisfiesPawnMoveRules(pieces[from], from, to) <=>
          \/ p = x /\ q = y + dy /\ empty(to)
          \/ /\ p = x /\ q = y + 2 * dy /\ empty(to)
             /\ empty(Step(from, 0, dy)) /\ MayStepTwice(from)
          \/ p \in {x + 1, x - 1} /\ q = y + dy /\ Occupied(to)
  BY <1>7, <1>8, <1>9, <1>10 DEF empty, MayStepTwice
<1>12. ASSUME p \in {x, x + 1, x - 1}, q = y + dy \/ q = y + 2 * dy
       PROVE  to \in Destinations(from)
  <2>1. AbsDiff(p, x) \in 0 .. 1 /\ AbsDiff(q, y) \in 1 .. 2 /\ q # y
    BY <1>4, <1>12 DEF AbsDiff, AbsInt
  <2>2. AbsDiff(p, x) <= MAX_MOVE_DISTANCE /\ AbsDiff(q, y) <= MAX_MOVE_DISTANCE
    BY <2>1, BoardAssumption, ClientRulesAssumption
  <2> QED BY <1>1, <1>2, <1>3, <2>1, <2>2, DestinationArithmetic
<1>13. (Dy(from, to) = dy /\ Dx(from, to) \in {1, -1}) <=>
          (p = x + 1 \/ p = x - 1) /\ q = y + dy
  BY <1>3, <1>4 DEF Dx, Dy
<1> QED BY <1>6, <1>11, <1>12, <1>13

LEMMA PawnOffers ==
    ASSUME IInv, PiecesInv, NEW from \in DOMAIN pieces, pieces[from].type = "Pawn"
    PROVE  OffersRight(from)
<1> DEFINE dy == IF pieces[from].white THEN -1 ELSE 1
           ahead == Step(from, 0, dy)
           twoAhead == Step(from, 0, 2 * dy)
           sides == {Step(from, dx, dy) : dx \in {-1, 1}}
           beside(to) == <<to[1], from[2]>>
           offers == addMoveableSquaresForPawn(from)
<1>1. ASSUME NEW moveType, NEW to
      PROVE  Offered(getMoveableSquares(from), moveType, to) <=>
                to \in Squares /\ Offered(offers, moveType, to)
  BY DEF getMoveableSquares, Offered, boundsCheckMoveableSquares
<1>2. ASSUME NEW moveType, NEW to
      PROVE  Offered(offers, moveType, to) <=>
                \/ /\ moveType = "normal"
                   /\ \/ to = ahead /\ empty(to)
                      \/ to = twoAhead /\ empty(ahead) /\ empty(to) /\ MayStepTwice(from)
                      \/ to \in sides /\ capturable(from, to)
                \/ /\ moveType = "en passant" /\ to \in sides
                   /\ ~capturable(from, to) /\ enPassantable(from, beside(to), to)
  <2> DEFINE one == {Quiet(from, t) : t \in {ahead} \ DOMAIN pieces}
             two == {Quiet(from, t) : t \in
                       {u \in {twoAhead} : empty(ahead) /\ empty(u) /\ MayStepTwice(from)}}
             takes == {Plain(from, t) : t \in {u \in sides : capturable(from, u)}}
             passes == {Offer(from, t, "en passant", IdAt(<<t[1], from[2]>>), Nobody, FALSE) :
                          t \in {u \in sides : /\ ~capturable(from, u)
                                               /\ enPassantable(from, <<u[1], from[2]>>, u)}}
  <2>1. Offered(offers, moveType, to) <=>
           \/ Offered(one, moveType, to) \/ Offered(two, moveType, to)
           \/ Offered(takes, moveType, to) \/ Offered(passes, moveType, to)
    <3>1. offers = one \cup two \cup takes \cup passes
      BY DEF addMoveableSquaresForPawn
    <3> HIDE DEF offers, one, two, takes, passes
    <3> QED BY <3>1 DEF Offered
  <2>2. Offered(one, moveType, to) <=> moveType = "normal" /\ to = ahead /\ empty(to)
    BY OfferFields DEF Offered, empty, Occupied
  <2>3. Offered(two, moveType, to) <=>
           /\ moveType = "normal" /\ to = twoAhead
           /\ empty(ahead) /\ empty(to) /\ MayStepTwice(from)
    BY OfferFields DEF Offered
  <2>4. Offered(takes, moveType, to) <=>
           moveType = "normal" /\ to \in sides /\ capturable(from, to)
    <3>1. \A t : Plain(from, t).moveType = "normal" /\ Plain(from, t).to = t
      BY OfferFields
    <3> HIDE DEF sides
    <3>2. Offered(takes, moveType, to) <=>
             \E t \in {u \in sides : capturable(from, u)} :
                Plain(from, t).moveType = moveType /\ Plain(from, t).to = to
      BY DEF Offered
    <3> QED BY <3>1, <3>2
  <2>5. Offered(passes, moveType, to) <=>
           /\ moveType = "en passant" /\ to \in sides
           /\ ~capturable(from, to) /\ enPassantable(from, beside(to), to)
    <3>1. \A t : /\ Offer(from, t, "en passant", IdAt(<<t[1], from[2]>>), Nobody, FALSE).moveType
                       = "en passant"
                 /\ Offer(from, t, "en passant", IdAt(<<t[1], from[2]>>), Nobody, FALSE).to = t
      BY DEF Offer
    <3> HIDE DEF sides
    <3>2. Offered(passes, moveType, to) <=>
             \E t \in {u \in sides : /\ ~capturable(from, u)
                                   /\ enPassantable(from, <<u[1], from[2]>>, u)} :
                LET o == Offer(from, t, "en passant", IdAt(<<t[1], from[2]>>), Nobody, FALSE)
                IN  o.moveType = moveType /\ o.to = to
      BY DEF Offered
    <3> QED BY <3>1, <3>2
  <2> HIDE DEF one, two, takes, passes, offers, ahead, twoAhead, sides, beside
  <2> QED BY <2>1, <2>2, <2>3, <2>4, <2>5
<1> HIDE DEF offers
<1>3. ASSUME NEW to
      PROVE  /\ Offered(offers, "normal", to) <=>
                   \/ to = ahead /\ empty(to)
                   \/ to = twoAhead /\ empty(ahead) /\ empty(to) /\ MayStepTwice(from)
                   \/ to \in sides /\ capturable(from, to)
             /\ Offered(offers, "en passant", to) <=>
                   /\ to \in sides /\ ~capturable(from, to)
                   /\ enPassantable(from, beside(to), to)
  <2> HIDE DEF dy, ahead, twoAhead, sides, beside
  <2>1. "normal" # "en passant"
    OBVIOUS
  <2> QED BY <1>2, <2>1
<1>4. ASSUME NEW to
      PROVE  /\ Accepts("normal", from, to) <=>
                   Landable(from, to) /\ satisfiesPawnMoveRules(pieces[from], from, to)
             /\ Accepts("en passant", from, to) <=> CanTakeEnPassant(from, to)
             /\ ~Accepts("castle", from, to)
             /\ to \in Clickable(from) <=> to \in Destinations(from)
             /\ to \in Destinations(from) => to \in Squares
  BY LandableFact, DestinationsAreSquares
     DEF Accepts, CanMoveNormally, satisfiesMoveRules, CanCastle, Clickable, Slides
<1>5. ASSUME NEW to \in Squares
      PROVE  Offered(offers, "normal", to) <=>
                /\ to \in Destinations(from) /\ Landable(from, to)
                /\ satisfiesPawnMoveRules(pieces[from], from, to)
  <2>1. to \in sides <=> \E dx \in {-1, 1} : to = Step(from, dx, dy)
    OBVIOUS
  <2>2. /\ satisfiesPawnMoveRules(pieces[from], from, to) <=>
              \/ to = ahead /\ empty(to)
              \/ to = twoAhead /\ empty(to) /\ empty(ahead) /\ MayStepTwice(from)
              \/ to \in sides /\ Occupied(to)
        /\ satisfiesPawnMoveRules(pieces[from], from, to) => to \in Destinations(from)
    BY <2>1, PawnArithmetic
  <2> HIDE DEF ahead, twoAhead, sides
  <2>3. capturable(from, to) => Occupied(to) /\ Landable(from, to)
    BY DEF capturable, Landable
  <2>4. Occupied(to) /\ Landable(from, to) => capturable(from, to)
    BY DEF Landable, empty
  <2>5. empty(to) <=> ~Occupied(to)
    BY DEF empty
  <2>6. empty(to) => Landable(from, to)
    BY DEF Landable
  <2> QED BY <1>3, <2>2, <2>3, <2>4, <2>5, <2>6
<1>6. ASSUME NEW to \in Squares
      PROVE  Offered(offers, "en passant", to) <=>
                to \in Destinations(from) /\ CanTakeEnPassant(from, to)
  <2>1. to \in sides <=> \E dx \in {-1, 1} : to = Step(from, dx, dy)
    OBVIOUS
  <2>2. /\ to \in sides <=> Dy(from, to) = dy /\ Dx(from, to) \in {1, -1}
        /\ to \in sides => to \in Destinations(from)
    BY <2>1, PawnArithmetic
  <2> HIDE DEF sides
  <2>3. Offered(offers, "en passant", to) <=>
           to \in sides /\ ~capturable(from, to) /\ enPassantable(from, beside(to), to)
    BY <1>3
  <2>4. CanTakeEnPassant(from, to) <=>
           /\ Dy(from, to) = dy /\ Dx(from, to) \in {1, -1} /\ ~Occupied(to)
           /\ Occupied(beside(to)) /\ pieces[beside(to)].white # pieces[from].white
           /\ pieces[beside(to)].type = "Pawn" /\ pieces[beside(to)].justDoubleMoved
    BY DEF CanTakeEnPassant, PassedSquare
  <2>5. Occupied(beside(to)) /\ pieces[beside(to)].justDoubleMoved =>
           pieces[beside(to)].moveCount # 0
    BY DEF PiecesInv, PieceInv, Occupied
  <2>6. enPassantable(from, beside(to), to) <=>
           /\ Occupied(beside(to)) /\ pieces[beside(to)].white # pieces[from].white
           /\ pieces[beside(to)].type = "Pawn" /\ pieces[beside(to)].justDoubleMoved
           /\ ~Occupied(to)
    BY <2>5 DEF enPassantable, empty
  <2>7. capturable(from, to) => Occupied(to)
    BY DEF capturable
  <2> HIDE DEF dy, beside
  <2> QED BY <2>2, <2>3, <2>4, <2>6, <2>7
<1> SUFFICES ASSUME NEW moveType, NEW to
             PROVE  (to \in Squares /\ Offered(getMoveableSquares(from), moveType, to)) <=>
                    (/\ moveType \in {"normal", "castle", "en passant"}
                     /\ to \in Clickable(from)
                     /\ Accepts(moveType, from, to))
  BY DEF OffersRight
<1>7. Offered(offers, moveType, to) => moveType \in {"normal", "en passant"}
  BY <1>2
<1> HIDE DEF dy, ahead, twoAhead, sides, beside
<1>8. CASE to \in Squares
  BY <1>1, <1>4, <1>5, <1>6, <1>7, <1>8
<1>9. CASE to \notin Squares
  BY <1>4, <1>9
<1> QED BY <1>8, <1>9

-----------------------------------------------------------------------------
(* Every kind of piece at once.                                            *)

LEMMA SetsOfPairs ==
    ASSUME NEW A, NEW B, NEW S, NEW T,
           \A m \in S : m \in A \X B,
           \A m \in T : m \in A \X B,
           \A a \in A, b \in B : <<a, b>> \in S <=> <<a, b>> \in T
    PROVE  S = T
<1>1. \A m \in A \X B : m[1] \in A /\ m[2] \in B /\ m = <<m[1], m[2]>>
  OBVIOUS
<1> QED BY <1>1

LEMMA EveryOfferIsRight ==
    ASSUME IInv, NEW from \in DOMAIN pieces
    PROVE  OffersRight(from)
<1>1. pieces[from].type \in PieceTypes /\ PiecesInv
  BY DEF IInv, TypeOK, Piece
<1>2. CASE pieces[from].type = "Pawn"
  BY <1>1, <1>2, PawnOffers
<1>3. CASE pieces[from].type = "Knight"
  BY <1>3, KnightOffers
<1>4. CASE pieces[from].type = "King"
  BY <1>4, KingOffers
<1>5. CASE Slides(pieces[from])
  BY <1>5, SliderOffers
<1> QED BY <1>1, <1>2, <1>3, <1>4, <1>5 DEF PieceTypes, Slides

(* In every reachable position, on a board of any size and with any        *)
(* pieces placed, the squares the client lets a player click are exactly   *)
(* the moves ValidateAndApplyMove accepts, but for the last square of a    *)
(* slide (getMoveableSquares in utils.js against board.go and move.go).    *)
THEOREM RulesAgree == Spec => []ClientKnowsTheRules
<1>1. ASSUME IInv PROVE ClientKnowsTheRules
  <2> SUFFICES ASSUME NEW s \in DOMAIN pieces
               PROVE  {<<o.moveType, o.to>> : o \in getMoveableSquares(s)} =
                      {m \in {"normal", "castle", "en passant"} \X Clickable(s) :
                          Accepts(m[1], s, m[2])}
    BY DEF ClientKnowsTheRules
  <2> DEFINE kinds == {"normal", "castle", "en passant"}
             targets == Clickable(s)
             offered == {<<o.moveType, o.to>> : o \in getMoveableSquares(s)}
             accepted == {m \in kinds \X targets : Accepts(m[1], s, m[2])}
  <2>1. OffersRight(s)
    BY <1>1, EveryOfferIsRight
  <2>2. ASSUME NEW o \in getMoveableSquares(s)
        PROVE  <<o.moveType, o.to>> \in kinds \X targets
    <3>1. o.to \in Squares /\ Offered(getMoveableSquares(s), o.moveType, o.to)
      BY DEF getMoveableSquares, boundsCheckMoveableSquares, Offered
    <3> QED BY <2>1, <3>1 DEF OffersRight
  <2>3. \A kind \in kinds, to \in targets :
           <<kind, to>> \in offered <=> Offered(getMoveableSquares(s), kind, to)
    BY DEF Offered
  <2>4. \A kind \in kinds, to \in targets :
           <<kind, to>> \in accepted <=> Accepts(kind, s, to)
    OBVIOUS
  <2>5. \A kind \in kinds, to \in targets :
           Offered(getMoveableSquares(s), kind, to) <=> Accepts(kind, s, to)
    <3>1. \A to \in targets : to \in Squares
      BY DestinationsAreSquares DEF Clickable
    <3> QED BY <2>1, <3>1 DEF OffersRight
  <2>6. (\A m \in offered : m \in kinds \X targets)
        /\ (\A m \in accepted : m \in kinds \X targets)
    BY <2>2
  <2>7. offered = accepted
    <3> HIDE DEF kinds, targets, offered, accepted
    <3> QED BY <2>3, <2>4, <2>5, <2>6, SetsOfPairs
  <2> QED BY <2>7
<1> QED BY <1>1, Invariance, PTL

-----------------------------------------------------------------------------
(* What the client shows before the server has answered.                   *)

(* What PredictsTheMove says of one step that is a move.                   *)
PredictedStep ==
    \A id \in {i \in Standing \cap Standing' : Mover(i)} :
        LET from == SquareOf(id)
            to == SquareOf(id)'
        IN  \A o \in {q \in getMoveableSquares(from) : q.to = to} :
              /\ Standing \ Standing' = {o.capturedPiece} \ {NoPiece}
              /\ Moved \ {id} = {o.additionalMovedPiece.id} \ {NoPiece}
              /\ \A other \in Moved \ {id} :
                    SquareOf(other)' = o.additionalMovedPiece.to
              /\ pieces'[to].type = TypeShown(pieces[from], to)

LEMMA SquareOfFact ==
    ASSUME IInv, NEW s \in DOMAIN pieces
    PROVE  /\ SquareOf(pieces[s].id) = s /\ pieces[s].id \in Standing
           /\ pieces[s].id # NoPiece /\ IdAt(s) = pieces[s].id
<1>1. pieces[s] \in Piece
  BY DEF IInv, TypeOK
<1>2. pieces[s].id \in AllIds
  BY <1>1, BoardAssumption DEF Piece
<1>3. pieces[s].id # NoPiece
  BY <1>2, BoardsPerSideFact DEF AllIds, NoPiece
<1> QED BY <1>3 DEF SquareOf, Standing, IInv, UniqueIds, IdAt, Occupied

LEMMA SquareOfNext ==
    ASSUME IInv', NEW s \in DOMAIN pieces', NEW id, id = pieces'[s].id
    PROVE  SquareOf(id)' = s /\ id \in Standing'
BY DEF SquareOf, Standing, IInv, UniqueIds

(* What is neither taken up nor put down stays where it is.                *)
LEMMA RewriteStays ==
    ASSUME IInv, IInv', NEW gone, NEW put, pieces' = Rewrite(gone, put),
           NEW s \in DOMAIN pieces, s \notin gone \cup DOMAIN put,
           NEW id, id = pieces[s].id
    PROVE  id \notin Moved
<1>1. s \in DOMAIN pieces' /\ pieces'[s] = pieces[s]
  BY DEF Rewrite
<1>2. SquareOf(id)' = s
  BY <1>1, SquareOfNext
<1>3. SquareOf(id) = s
  BY SquareOfFact
<1> QED BY <1>2, <1>3 DEF Moved

(* What an offer of each kind promises.                                    *)
LEMMA OfferKinds ==
    ASSUME IInv, NEW from \in DOMAIN pieces, NEW o \in getMoveableSquares(from)
    PROVE  /\ Accepts(o.moveType, from, o.to)
           /\ \/ /\ o.moveType = "normal" /\ o.capturedPiece = IdAt(o.to)
                 /\ o.additionalMovedPiece = Nobody
              \/ /\ o.moveType = "en passant"
                 /\ o.capturedPiece = IdAt(<<o.to[1], from[2]>>)
                 /\ o.additionalMovedPiece = Nobody
              \/ /\ o.moveType = "castle"
                 /\ \E left \in BOOLEAN : o = CastlingOffer(from, left)
<1> DEFINE Normal == /\ o.moveType = "normal" /\ o.capturedPiece = IdAt(o.to)
                     /\ o.additionalMovedPiece = Nobody
           Passing == /\ o.moveType = "en passant"
                      /\ o.capturedPiece = IdAt(<<o.to[1], from[2]>>)
                      /\ o.additionalMovedPiece = Nobody
           Castling == /\ o.moveType = "castle"
                       /\ \E left \in BOOLEAN : o = CastlingOffer(from, left)
<1>1. Accepts(o.moveType, from, o.to)
  <2>1. o.to \in Squares /\ Offered(getMoveableSquares(from), o.moveType, o.to)
    BY DEF getMoveableSquares, boundsCheckMoveableSquares, Offered
  <2>2. OffersRight(from)
    BY EveryOfferIsRight
  <2> QED BY <2>1, <2>2 DEF OffersRight
<1>2. ASSUME NEW t, o = Plain(from, t) PROVE Normal
  BY <1>2 DEF Plain, Offer
<1>3. ASSUME NEW t, empty(t), o = Quiet(from, t) PROVE Normal
  BY <1>3 DEF Quiet, Offer, IdAt, empty
<1>4. ASSUME NEW t, o = Offer(from, t, "en passant", IdAt(<<t[1], from[2]>>), Nobody, FALSE)
      PROVE  Passing
  BY <1>4 DEF Offer
<1>5. ASSUME NEW left \in BOOLEAN, o = CastlingOffer(from, left)
      PROVE  Castling
  BY <1>5 DEF CastlingOffer, Offer
<1>6. ASSUME NEW directions, o \in Walks(from, directions) PROVE Normal
  BY <1>2, <1>6 DEF Walks
<1> DEFINE type == pieces[from].type
<1>7. CASE type = "Pawn"
  <2>1. o \in addMoveableSquaresForPawn(from)
    BY <1>7 DEF getMoveableSquares, boundsCheckMoveableSquares
  <2>2. \/ \E t : empty(t) /\ o = Quiet(from, t)
        \/ \E t : o = Plain(from, t)
        \/ \E t : o = Offer(from, t, "en passant", IdAt(<<t[1], from[2]>>), Nobody, FALSE)
    BY <2>1 DEF addMoveableSquaresForPawn, empty, Occupied
  <2> HIDE DEF Normal, Passing, Castling
  <2>3. Normal \/ Passing
    BY <1>2, <1>3, <1>4, <2>2
  <2> QED BY <1>1, <2>3 DEF Normal, Passing
<1>8. CASE type = "Knight"
  <2>1. o \in addMoveableSquaresForKnight(from)
    BY <1>8 DEF getMoveableSquares, boundsCheckMoveableSquares
  <2>2. \E t : o = Plain(from, t)
    BY <2>1 DEF addMoveableSquaresForKnight
  <2> QED BY <1>1, <1>2, <2>2
<1>9. CASE type = "King"
  <2>1. o \in addMoveableSquaresForKing(from)
    BY <1>9 DEF getMoveableSquares, boundsCheckMoveableSquares
  <2>2. \/ \E t : o = Plain(from, t)
        \/ \E left \in BOOLEAN : o = CastlingOffer(from, left)
    BY <2>1 DEF addMoveableSquaresForKing
  <2> HIDE DEF Normal, Passing, Castling
  <2>3. Normal \/ Castling
    BY <1>2, <1>5, <2>2
  <2> QED BY <1>1, <2>3 DEF Normal, Castling
<1>10. CASE type \notin {"Pawn", "Knight", "King"}
  <2>1. o \in addMoveableSquaresForBishop(from) \cup addMoveableSquaresForRook(from)
    <3>1. CASE type = "Bishop"
      BY <1>10, <3>1 DEF getMoveableSquares, boundsCheckMoveableSquares
    <3>2. CASE type = "Rook"
      BY <1>10, <3>2 DEF getMoveableSquares, boundsCheckMoveableSquares
    <3>3. CASE type \notin {"Bishop", "Rook"}
      BY <1>10, <3>3 DEF getMoveableSquares, boundsCheckMoveableSquares
    <3> QED BY <3>1, <3>2, <3>3
  <2> HIDE DEF Normal, Passing, Castling
  <2>2. Normal
    BY <1>6, <2>1 DEF addMoveableSquaresForBishop, addMoveableSquaresForRook
  <2> QED BY <1>1, <2>2 DEF Normal
<1> QED BY <1>7, <1>8, <1>9, <1>10

(* The squares of a move say of which kind it is.                          *)
LEMMA KindsDiffer ==
    ASSUME NEW from \in Squares, NEW to \in Squares
    PROVE  /\ ~(CanMoveNormally(from, to) /\ CanCastle(from, to))
           /\ ~(CanMoveNormally(from, to) /\ CanTakeEnPassant(from, to))
           /\ ~(CanCastle(from, to) /\ CanTakeEnPassant(from, to))
<1>1. PICK x \in Int, y \in Int, p \in Int, q \in Int : from = <<x, y>> /\ to = <<p, q>>
  BY SquareFacts
<1>2. from[1] = x /\ from[2] = y /\ to[1] = p /\ to[2] = q
  BY <1>1
<1>3. ASSUME CanMoveNormally(from, to), CanCastle(from, to) PROVE FALSE
  <2>1. Distance(from, to) <= 1
    BY <1>3 DEF CanMoveNormally, CanCastle, satisfiesMoveRules, satisfiesKingMoveRules
  <2>2. p - x \in {2, -2}
    BY <1>2, <1>3 DEF CanCastle, Dx
  <2>3. AbsDiff(x, p) = 2 /\ AbsDiff(y, q) \in Int
    BY <2>2 DEF AbsDiff, AbsInt
  <2> QED BY <1>2, <2>1, <2>3 DEF Distance
<1>4. ASSUME CanMoveNormally(from, to), CanTakeEnPassant(from, to) PROVE FALSE
  <2>1. AbsDiff(from[1], to[1]) = 0
    BY <1>4 DEF CanMoveNormally, CanTakeEnPassant, satisfiesMoveRules, satisfiesPawnMoveRules
  <2>2. p - x \in {1, -1}
    BY <1>2, <1>4 DEF CanTakeEnPassant, Dx
  <2>3. AbsDiff(x, p) = 1
    BY <2>2 DEF AbsDiff, AbsInt
  <2> QED BY <1>2, <2>1, <2>3
<1> QED BY <1>3, <1>4 DEF CanCastle, CanTakeEnPassant

(* A piece that stands before and after stood on a square of its own.      *)
LEMMA StandingFact ==
    ASSUME IInv, NEW id \in Standing
    PROVE  /\ SquareOf(id) \in DOMAIN pieces /\ pieces[SquareOf(id)].id = id
           /\ id # NoPiece
<1>1. PICK s \in DOMAIN pieces : id = pieces[s].id
  BY DEF Standing
<1> QED BY <1>1, SquareOfFact

(* The piece that moves is the only one: normal moves and en passant.      *)
LEMMA OneMoves ==
    ASSUME IInv, IInv', NEW from \in DOMAIN pieces, NEW to \in Squares, to # from,
           NEW gone, NEW put, pieces' = Rewrite(gone, put), DOMAIN put = {to},
           from \in gone, put[to].id = pieces[from].id,
           \A s \in gone \cup {to} :
              s \in DOMAIN pieces /\ s # from => pieces[s].id \notin Standing',
           NEW id, id \in Standing \cap Standing', Mover(id)
    PROVE  /\ id = pieces[from].id /\ Moved = {id}
           /\ SquareOf(id) = from /\ SquareOf(id)' = to
<1> DEFINE m == pieces[from].id
<1>1. to \in DOMAIN pieces' /\ pieces'[to] = put[to]
  BY DEF Rewrite
<1>2. ASSUME NEW k \in Moved PROVE k = m
  <2>1. k \in Standing /\ k \in Standing'
    BY DEF Moved
  <2>2. PICK s \in DOMAIN pieces : k = pieces[s].id
    BY <2>1 DEF Standing
  <2>3. s \in gone \cup {to}
    BY <2>2, RewriteStays
  <2> QED BY <2>1, <2>2, <2>3
<1>3. id \in Moved
  BY DEF Mover
<1>4. id = m
  BY <1>2, <1>3
<1>5. Moved = {id}
  BY <1>2, <1>3, <1>4
<1>6. SquareOf(id) = from
  BY <1>4, SquareOfFact
<1>7. SquareOf(id)' = to
  BY <1>1, <1>4, SquareOfNext
<1> QED BY <1>4, <1>5, <1>6, <1>7

LEMMA NormalMovePredicted ==
    ASSUME IInv, IInv', NEW from \in DOMAIN pieces, NEW to \in Destinations(from),
           NormalMove(from, to)
    PROVE  PredictedStep
<1> DEFINE stepped == AfterStep(pieces[from], from, to)
           moved == IF Occupied(to) THEN AfterCapture(stepped, pieces[to])
                                    ELSE stepped
           put == [s \in {to} |-> moved]
<1>1. pieces' = Rewrite({from}, put) /\ CanMoveNormally(from, to)
      /\ satisfiesMoveRules(pieces[from], from, to)
  BY DEF NormalMove, CanMoveNormally
<1>2. from \in Squares /\ to \in Squares /\ to # from
  BY DestinationFacts
<1>3. pieces[from] \in Piece /\ PieceInv(from, pieces[from])
  BY DEF IInv, TypeOK, PiecesInv
<1>4. stepped \in Piece /\ stepped.id = pieces[from].id
  BY <1>1, <1>2, <1>3, StepPieceInv
<1>5. stepped.type = TypeAfter(pieces[from], to)
  BY <1>3 DEF AfterStep, Piece
<1> HIDE DEF stepped
<1>6. moved.id = pieces[from].id /\ moved.type = TypeAfter(pieces[from], to)
  BY <1>4, <1>5 DEF AfterCapture, Piece
<1> HIDE DEF moved
<1>7. DOMAIN put = {to} /\ put[to] = moved
  OBVIOUS
<1> HIDE DEF put
<1>8. Standing' = Standing \ IdsOn({to} \cap DOMAIN pieces)
  BY NormalMoveStanding
<1>9. pieces'[to].type = TypeShown(pieces[from], to)
  <2>1. pieces'[to] = moved
    BY <1>1, <1>7 DEF Rewrite
  <2>2. TypeAfter(pieces[from], to) = TypeShown(pieces[from], to)
    BY <1>3 DEF TypeAfter, TypeShown, Piece
  <2> QED BY <1>6, <2>1, <2>2
<1>10. Standing \ Standing' = {IdAt(to)} \ {NoPiece}
  <2>1. CASE to \in DOMAIN pieces
    <3>1. IdAt(to) = pieces[to].id /\ IdAt(to) # NoPiece /\ IdAt(to) \in Standing
      BY <2>1, SquareOfFact
    <3>2. IdsOn({to} \cap DOMAIN pieces) = {IdAt(to)}
      BY <2>1, <3>1 DEF IdsOn
    <3> QED BY <1>8, <3>1, <3>2
  <2>2. CASE to \notin DOMAIN pieces
    <3>1. IdAt(to) = NoPiece /\ IdsOn({to} \cap DOMAIN pieces) = {}
      BY <2>2 DEF IdAt, Occupied, IdsOn
    <3> QED BY <1>8, <3>1
  <2> QED BY <2>1, <2>2
<1>11. \A s \in {from} \cup {to} :
          s \in DOMAIN pieces /\ s # from => pieces[s].id \notin Standing'
  BY <1>8 DEF IdsOn
<1> SUFFICES ASSUME NEW id \in {i \in Standing \cap Standing' : Mover(i)},
                    NEW o \in {q \in getMoveableSquares(SquareOf(id)) :
                                  q.to = SquareOf(id)'}
             PROVE  /\ Standing \ Standing' = {o.capturedPiece} \ {NoPiece}
                    /\ Moved \ {id} = {o.additionalMovedPiece.id} \ {NoPiece}
                    /\ \A other \in Moved \ {id} :
                          SquareOf(other)' = o.additionalMovedPiece.to
                    /\ pieces'[SquareOf(id)'].type =
                          TypeShown(pieces[SquareOf(id)], SquareOf(id)')
  BY DEF PredictedStep
<1>12. Moved = {id} /\ SquareOf(id) = from /\ SquareOf(id)' = to
  BY <1>1, <1>2, <1>6, <1>7, <1>11, OneMoves
<1>13. o \in getMoveableSquares(from) /\ o.to = to
  BY <1>12
<1>14. o.moveType = "normal"
  <2>1. ~CanCastle(from, to) /\ ~CanTakeEnPassant(from, to)
    BY <1>1, <1>2, KindsDiffer
  <2>2. Accepts(o.moveType, from, to) /\ o.moveType \in {"normal", "en passant", "castle"}
    BY <1>13, OfferKinds
  <2> QED BY <2>1, <2>2 DEF Accepts
<1>15. o.capturedPiece = IdAt(to) /\ o.additionalMovedPiece = Nobody
  BY <1>13, <1>14, OfferKinds
<1>16. o.additionalMovedPiece.id = NoPiece
  BY <1>15 DEF Nobody
<1> QED BY <1>9, <1>10, <1>12, <1>15, <1>16

(* No pawn reaches its last rank in passing, so there is no promotion for  *)
(* the client to predict.                                                  *)
LEMMA EnPassantPredicted ==
    ASSUME IInv, IInv', NEW from \in DOMAIN pieces, NEW to \in Destinations(from),
           EnPassant(from, to)
    PROVE  PredictedStep
<1> DEFINE passed == PassedSquare(from, to)
           pawn == [pieces[from] EXCEPT !.moveCount = Capped(@, MaxMoveCount),
                                        !.captureCount = Capped(@, MaxCaptureCount),
                                        !.justDoubleMoved = FALSE]
           put == [s \in {to} |-> pawn]
<1>1. pieces' = Rewrite({from, passed}, put) /\ CanTakeEnPassant(from, to)
  BY DEF EnPassant
<1>2. from \in Squares /\ to \in Squares /\ to # from
  BY DestinationFacts
<1>3. pieces[from] \in Piece
  BY DEF IInv, TypeOK
<1>4. /\ pawn.id = pieces[from].id /\ pawn.type = pieces[from].type
      /\ pawn.white = pieces[from].white /\ pieces[from].type = "Pawn"
  BY <1>1, <1>3 DEF CanTakeEnPassant, Piece
<1>5. passed \in DOMAIN pieces /\ to \notin DOMAIN pieces
  BY <1>1 DEF CanTakeEnPassant, Occupied
<1>6. Standing' = Standing \ IdsOn({passed})
  BY EnPassantStanding
<1>7. passed = <<to[1], from[2]>>
  BY DEF PassedSquare
<1> HIDE DEF pawn
<1>8. DOMAIN put = {to} /\ put[to] = pawn
  OBVIOUS
<1> HIDE DEF put, passed
<1>9. pieces'[to].type = TypeShown(pieces[from], to)
  <2>1. pieces'[to] = pawn /\ to \in DOMAIN pieces'
    BY <1>1, <1>8 DEF Rewrite
  <2>2. PieceInv(to, pawn)
    <3>1. \A s \in DOMAIN pieces' : PieceInv(s, pieces'[s])
      BY DEF IInv, PiecesInv, PieceInv
    <3> QED BY <2>1, <3>1
  <2>3. to[2] # IF pieces[from].white THEN 0 ELSE BOARD_SIZE - 1
    BY <1>4, <2>2 DEF PieceInv
  <2>4. pieces[from].white \in BOOLEAN
    BY <1>3 DEF Piece
  <2> QED BY <1>4, <2>1, <2>3, <2>4 DEF TypeShown
<1>10. Standing \ Standing' = {IdAt(passed)} \ {NoPiece}
  <2>1. IdAt(passed) = pieces[passed].id /\ IdAt(passed) # NoPiece
        /\ IdAt(passed) \in Standing
    BY <1>5, SquareOfFact
  <2>2. IdsOn({passed}) = {IdAt(passed)}
    BY <2>1 DEF IdsOn
  <2> QED BY <1>6, <2>1, <2>2
<1>11. \A s \in {from, passed} \cup {to} :
          s \in DOMAIN pieces /\ s # from => pieces[s].id \notin Standing'
  BY <1>5, <1>6 DEF IdsOn
<1> SUFFICES ASSUME NEW id \in {i \in Standing \cap Standing' : Mover(i)},
                    NEW o \in {q \in getMoveableSquares(SquareOf(id)) :
                                  q.to = SquareOf(id)'}
             PROVE  /\ Standing \ Standing' = {o.capturedPiece} \ {NoPiece}
                    /\ Moved \ {id} = {o.additionalMovedPiece.id} \ {NoPiece}
                    /\ \A other \in Moved \ {id} :
                          SquareOf(other)' = o.additionalMovedPiece.to
                    /\ pieces'[SquareOf(id)'].type =
                          TypeShown(pieces[SquareOf(id)], SquareOf(id)')
  BY DEF PredictedStep
<1>12. Moved = {id} /\ SquareOf(id) = from /\ SquareOf(id)' = to
  BY <1>1, <1>2, <1>4, <1>8, <1>11, OneMoves
<1>13. o \in getMoveableSquares(from) /\ o.to = to
  BY <1>12
<1>14. o.moveType = "en passant"
  <2>1. ~CanCastle(from, to) /\ ~CanMoveNormally(from, to)
    BY <1>1, <1>2, KindsDiffer
  <2>2. Accepts(o.moveType, from, to) /\ o.moveType \in {"normal", "en passant", "castle"}
    BY <1>13, OfferKinds
  <2> QED BY <2>1, <2>2 DEF Accepts
<1>15. o.capturedPiece = IdAt(passed) /\ o.additionalMovedPiece = Nobody
  BY <1>7, <1>13, <1>14, OfferKinds
<1>16. o.additionalMovedPiece.id = NoPiece
  BY <1>15 DEF Nobody
<1> QED BY <1>9, <1>10, <1>12, <1>15, <1>16

(* The squares of a castling, as the server and as the client say them.    *)
LEMMA CastlingSquares ==
    ASSUME NEW from \in Squares, NEW to \in Squares, CanCastle(from, to),
           NEW left \in BOOLEAN, to = Step(from, 2 * (IF left THEN -1 ELSE 1), 0)
    PROVE  /\ RookFrom(from, to) = Step(from, IF left THEN -4 ELSE 3, 0)
           /\ RookTo(from, to) = Step(from, IF left THEN -1 ELSE 1, 0)
<1>1. PICK x \in Int, y \in Int, p \in Int, q \in Int : from = <<x, y>> /\ to = <<p, q>>
  BY SquareFacts
<1>2. from[1] = x /\ from[2] = y /\ to[1] = p /\ to[2] = q
  BY <1>1
<1>3. CASE left
  <2>1. p = x - 2 /\ q = y
    BY <1>1, <1>2, <1>3 DEF Step
  <2>2. Dx(from, to) = -2
    BY <1>2, <2>1 DEF Dx
  <2>3. p + 1 = x + -1
    BY <2>1
  <2> QED BY <1>2, <1>3, <2>1, <2>2, <2>3 DEF RookFrom, RookTo, Step
<1>4. CASE ~left
  <2>1. p = x + 2 /\ q = y
    BY <1>1, <1>2, <1>4 DEF Step
  <2>2. Dx(from, to) = 2
    BY <1>2, <2>1 DEF Dx
  <2> QED BY <1>2, <1>4, <2>1, <2>2 DEF RookFrom, RookTo, Step
<1> QED BY <1>3, <1>4

LEMMA CastlePredicted ==
    ASSUME IInv, IInv', NEW from \in DOMAIN pieces, NEW to \in Destinations(from),
           Castle(from, to)
    PROVE  PredictedStep
<1> DEFINE corner == RookFrom(from, to)
           rookTo == RookTo(from, to)
           put == [s \in {to, rookTo} |->
                      AfterCastling(pieces[IF s = to THEN from ELSE corner])]
<1>1. pieces' = Rewrite({from, corner}, put) /\ CanCastle(from, to)
  BY DEF Castle
<1>2. from \in Squares /\ to \in Squares /\ to # from
  BY DestinationFacts
<1>3. /\ corner \in DOMAIN pieces /\ pieces[corner].type = "Rook"
      /\ pieces[from].type = "King" /\ corner # from
  BY <1>1 DEF CanCastle, Occupied
<1>4. rookTo # to /\ rookTo # corner
  <2>1. /\ from[1] \in Int /\ from[2] \in Int /\ to[1] \in Int /\ to[2] \in Int
        /\ to = <<to[1], to[2]>>
    BY <1>2, SquareFacts
  <2>2. Dx(from, to) \in {2, -2}
    BY <1>1 DEF CanCastle
  <2>3. CASE Dx(from, to) = 2
    BY <2>1, <2>3 DEF RookFrom, RookTo, Dx
  <2>4. CASE Dx(from, to) = -2
    <3>1. corner = <<from[1] + -4, from[2]>> /\ rookTo = <<to[1] + 1, to[2]>>
      BY <2>4 DEF RookFrom, RookTo
    <3>2. to[1] = from[1] - 2
      BY <2>1, <2>4 DEF Dx
    <3>3. to[1] + 1 # to[1] /\ to[1] + 1 # from[1] + -4
      BY <2>1, <3>2
    <3>4. rookTo[1] = to[1] + 1 /\ corner[1] = from[1] + -4
      BY <3>1
    <3> QED BY <3>3, <3>4
  <2> QED BY <2>2, <2>3, <2>4
<1>5. \A p \in Piece : AfterCastling(p).id = p.id /\ AfterCastling(p).type = p.type
  BY DEF AfterCastling, Piece
<1>6. pieces[from] \in Piece /\ pieces[corner] \in Piece
  BY <1>3 DEF IInv, TypeOK
<1>7. /\ DOMAIN put = {to, rookTo}
      /\ put[to].id = pieces[from].id /\ put[rookTo].id = pieces[corner].id
      /\ put[to].type = "King"
  BY <1>3, <1>4, <1>5, <1>6
<1>8. Standing' = Standing
  BY CastleStanding
<1> HIDE DEF put, corner, rookTo
<1>9. /\ to \in DOMAIN pieces' /\ pieces'[to].id = pieces[from].id
      /\ rookTo \in DOMAIN pieces' /\ pieces'[rookTo].id = pieces[corner].id
      /\ pieces'[to].type = "King"
  BY <1>1, <1>7 DEF Rewrite
<1>10. PICK king, rook : king = pieces[from].id /\ rook = pieces[corner].id
  OBVIOUS
<1>11. /\ SquareOf(king) = from /\ SquareOf(king)' = to
       /\ SquareOf(rook) = corner /\ SquareOf(rook)' = rookTo
       /\ king \in Standing /\ rook \in Standing
  BY <1>3, <1>9, <1>10, SquareOfFact, SquareOfNext
<1>12. Moved = {king, rook} /\ king # rook
  <2>1. king \in Moved /\ rook \in Moved /\ king # rook
    BY <1>2, <1>3, <1>4, <1>8, <1>11 DEF Moved
  <2>2. ASSUME NEW k \in Moved PROVE k \in {king, rook}
    <3>1. k \in Standing /\ k \in Standing'
      BY DEF Moved
    <3>2. PICK s \in DOMAIN pieces : k = pieces[s].id
      BY <3>1 DEF Standing
    <3>3. s \in {from, corner} \cup {to, rookTo}
      BY <1>1, <1>7, <3>2, RewriteStays
    <3>4. ASSUME s \in {to, rookTo}, s \notin {from, corner} PROVE FALSE
      <4>1. to \notin DOMAIN pieces /\ rookTo \notin DOMAIN pieces
        BY <1>1, CastlePathEmpty DEF rookTo
      <4> QED BY <3>4, <4>1
    <3> QED BY <1>10, <3>2, <3>3, <3>4
  <2> QED BY <2>1, <2>2
<1> SUFFICES ASSUME NEW id \in {i \in Standing \cap Standing' : Mover(i)},
                    NEW o \in {q \in getMoveableSquares(SquareOf(id)) :
                                  q.to = SquareOf(id)'}
             PROVE  /\ Standing \ Standing' = {o.capturedPiece} \ {NoPiece}
                    /\ Moved \ {id} = {o.additionalMovedPiece.id} \ {NoPiece}
                    /\ \A other \in Moved \ {id} :
                          SquareOf(other)' = o.additionalMovedPiece.to
                    /\ pieces'[SquareOf(id)'].type =
                          TypeShown(pieces[SquareOf(id)], SquareOf(id)')
  BY DEF PredictedStep
<1>13. id = king
  <2>1. id \in Moved /\ (pieces[SquareOf(id)].type = "King" \/ Moved = {id})
    BY DEF Mover
  <2>2. pieces[SquareOf(id)].type = "King"
    BY <1>12, <2>1
  <2> QED BY <1>3, <1>11, <1>12, <2>1, <2>2
<1>14. o \in getMoveableSquares(from) /\ o.to = to
  BY <1>11, <1>13
<1>15. o.moveType = "castle"
  <2>1. ~CanTakeEnPassant(from, to) /\ ~CanMoveNormally(from, to)
    BY <1>1, <1>2, KindsDiffer
  <2>2. Accepts(o.moveType, from, to) /\ o.moveType \in {"normal", "en passant", "castle"}
    BY <1>14, OfferKinds
  <2> QED BY <2>1, <2>2 DEF Accepts
<1>16. PICK left \in BOOLEAN : o = CastlingOffer(from, left)
  BY <1>14, <1>15, OfferKinds
<1>17. /\ o.to = Step(from, 2 * (IF left THEN -1 ELSE 1), 0)
       /\ o.capturedPiece = NoPiece
       /\ o.additionalMovedPiece.id = IdAt(Step(from, IF left THEN -4 ELSE 3, 0))
       /\ o.additionalMovedPiece.to = Step(from, IF left THEN -1 ELSE 1, 0)
  BY <1>16 DEF CastlingOffer, Offer
<1>18. /\ corner = Step(from, IF left THEN -4 ELSE 3, 0)
       /\ rookTo = Step(from, IF left THEN -1 ELSE 1, 0)
  BY <1>1, <1>2, <1>14, <1>17, CastlingSquares DEF corner, rookTo
<1>19. o.additionalMovedPiece.id = rook /\ rook # NoPiece
       /\ o.additionalMovedPiece.to = rookTo
  BY <1>3, <1>10, <1>17, <1>18, SquareOfFact
<1>20. TypeShown(pieces[from], to) = "King"
  BY <1>3 DEF TypeShown
<1>21. Moved \ {id} = {rook}
  BY <1>12, <1>13
<1>22. pieces'[SquareOf(id)'].type = TypeShown(pieces[SquareOf(id)], SquareOf(id)')
  BY <1>9, <1>11, <1>13, <1>20
<1>23. \A other \in Moved \ {id} : SquareOf(other)' = o.additionalMovedPiece.to
  BY <1>11, <1>19, <1>21
<1> QED BY <1>8, <1>17, <1>19, <1>21, <1>22, <1>23

(* What the client shows for a click before the server answers is what the *)
(* server does: the same capture, the same second piece moved to the same  *)
(* square, the same promotion (addOptimisticMove in pieceHandler.js        *)
(* against ValidateAndApplyMove).                                          *)
THEOREM PredictionsComeTrue == Spec => PredictsTheMove
<1>1. IInv /\ IInv' /\ [Next]_vars => [totalMoves' # totalMoves => PredictedStep]_vars
  <2> SUFFICES ASSUME IInv, IInv', Next, totalMoves' # totalMoves PROVE PredictedStep
    OBVIOUS
  <2>1. ASSUME NEW from \in DOMAIN pieces, NEW to \in Destinations(from),
               Castle(from, to) \/ EnPassant(from, to) \/ NormalMove(from, to)
        PROVE  PredictedStep
    BY <2>1, CastlePredicted, EnPassantPredicted, NormalMovePredicted
  <2>2. ASSUME NEW x, NEW y, NEW color,
               Adopt(x, y, color) \/ DoBulkCapture(x, y, color)
        PROVE  totalMoves' = totalMoves
    BY <2>2 DEF Adopt, DoBulkCapture
  <2> QED BY <2>1, <2>2 DEF Next
<1>2. [][totalMoves' # totalMoves => PredictedStep]_vars => PredictsTheMove
  BY PTL DEF PredictedStep, PredictsTheMove
<1> QED BY <1>1, <1>2, Invariance, PTL DEF Spec
=============================================================================
