# One Million Chessboards: a verification project

One Million Chessboards is a single chess game on a grid of 1000 x 1000 chessboards that
everybody plays at once, in real time and without turns. A Go server
(`src/server/server`) holds one array of 8000 x 8000 squares in memory, one goroutine
changes it, and a React client (`src/client/src`) shows a window of it and plays moves
before they are confirmed. The repository has no tests and one paragraph of documentation,
so the code and its comments are the reference here.

This directory holds TLA+ models of the server's core and of the web client, the TLC
configurations that check them on small instances, and proofs, checked by TLAPS, for all
values of the constants.

## 1. The system

| Component | Source | State | Operations |
|---|---|---|---|
| Board | `board.go`, `piece.go`, `move.go`, `adoption-request.go`, `bulk-capture-request.go` | the array of 64-bit pieces, `seqNum`, `totalMoves`, four capture counters | set up; validate and apply a move (normal, castling, en passant); `Adopt`, `DoBulkCapture`; snapshots; `GetStats` |
| Board-to-disk handler | `board-to-disk-handler.go`, `util.go`, `cmd/main.go` | a second board, the channel `requests` (16384), `requestsToSerialize`, the files | replay a request, flush requests, save a snapshot, shut down, load |
| Move processing, end of the game | `server.go` (`processMoves`, `refreshStatsOnce`, `GracefulShutdown`), `client.go` (`handleProtoMessage`) | `moveRequests` (1024), `adoptionRequests` (128), `bulkCaptureRequests` (16), `gameOver`, `processMovesCtx`, `currentStats` | enqueue a move, apply, answer, broadcast, end the game, drain, refuse |
| Clients, zones, snapshots | `client.go`, `client-manager.go` | position, subscribed zones, pending snapshot, buffers of moves and captures, three pumps | subscribe, move the window, send a snapshot, buffer and flush broadcasts, close |
| Colours and limits | `server.go` (`DetermineColor`, `maybeAddNewIp`, `ClearOldLimits`), `client-manager.go` | players of each colour; per address a bucket of connections and requests | admit, choose a colour, count, discount, forget old buckets |
| Minimap and recent captures | `minimap-aggregator.go`, `recent-captures.go` | pieces per colour and cell; a ring of captures | update per move, recount from time to time |
| Web client: pieces | `client/src/pieceHandler.js`, `utils.js`, `components/PieceDisplay`, `components/SelectedPieceAndSquaresContext` | pieces the server told of, optimistic moves and what depends on them, recent captures, what is drawn and selected | offer squares, move optimistically, confirm, reject, revert, apply a snapshot or broadcasts, lose the connection |
| Web client: connection and view | `components/WebsocketProvider`, `CoordsContext`, `LogicallyLoadingContext`, `PanzoomBox`, `Minimap`, `hooks/` | the websocket and its reconnection timer, coordinates, the URL's hash, the debouncer, sizes | connect, reconnect, pan, jump, zoom, subscribe |
| Web client: polling | `statsHandler.js`, `recentCapturesHandler.js`, `minimapHandler.js` | the latest answer, what was heard since, timers | poll, overlay, show |
| Protocol | `protocol/chess.proto`, `chess.pb.go`, `protoCompiled.js` | none | encode, decode, read a field, copy |
| Logging, tools | `udp-logger.go`, `benchmark/`, deploy scripts | none that matters here | |

How they interact. A client's `ReadPump` puts a `MoveRequest` on `moveRequests`.
`processMoves` is the only writer of the live board: it takes moves, adoptions and bulk
captures off three channels, applies each, hands the accepted ones to the board-to-disk
handler through a bounded channel, answers the client and starts a goroutine that
broadcasts to the clients subscribed to the zones concerned. The handler's own goroutine
replays the same requests on a second board, so that a snapshot of it can be taken while
the game goes on; one goroutine for each snapshot writes the file. Once a second
`refreshStatsOnce` reads four atomic counters that `processMoves` is incrementing, and may
end the game. A restart loads the snapshot with the latest time in its name.

The web client shows a move at once and sends a `ClientMove` with a token. What became of it
it learns in three ways, in no fixed order: the answer with the token, sent by `processMoves`
at once; the broadcast of the move, which a goroutine per move puts into the client's buffer;
and snapshots, which are copied under the board's read lock and sent later. Everything the
server says of a piece carries the board's sequence number.

What is hard about it:

* *Interleavings.* Counters read one after the other while they are counted; two parties
  that can end the game; ReadPumps that wait for room in a channel whose reader stops; a
  broadcast goroutine for each move; subscriptions that change while moves are broadcast;
  polls in flight while broadcasts, colours or connections change.
* *Guesses.* Optimistic moves that depend on other optimistic moves, of which any may be
  refused, overtaken by another player's, or never answered.
* *Ordering.* The second board panics on a request that the first one accepted, so the way
  to it may not lose, repeat or reorder anything. Snapshot files are ordered by a time that
  is read in the saving goroutine.
* *Crashes and restarts.* At any point, between any two steps of a save or of a shutdown.
* *Long sequences.* Castling, en passant and the protection of unmoved pieces read what
  earlier moves left behind (move counts, the double-move mark) rather than the position.
* *Two copies of one thing.* The rules of chess in Go and in JavaScript; actions indexed by
  piece, by token and by square; a field that is zero for Go and missing for JavaScript.

`PROJECT.json` lists the hazards at the lines where they bite.

What makes each component correct:

* Board: no piece is lost, copied or turned into another by any sequence of operations;
  what the special moves assume of the past is true; counters account for what is missing.
* Persistence: the second board is the first one, some steps behind; a restart resumes a
  board that the server really had; a graceful shutdown loses nothing and ends.
* Move processing: nobody is told something false about a move; no ReadPump is stuck; the
  game ends when, and only when, a side has won.
* Clients and web client, pieces: what a client holds of a piece was true at its sequence
  number and never gets older; each guess is resolved; at rest it shows the board; the squares
  it offers are those the server accepts, and it predicts what the server then does.
* Connection and view: the server serves the place the client looks at, and at rest the
  client is connected and shows that place.
* Polling: what is known is not forgotten between a poll and a broadcast; at rest it is true.
* Protocol: a message is understood as it was meant, copies of its parts included.
* Colours and limits (planned): counts return to zero when everybody has left; colours stay
  balanced.

## 2. Modules

| Module | What it models | Depends on |
|---|---|---|
| `Board` | the board and its rules | |
| `ClientRules` | the same rules as the web client knows them | `Board` |
| `DurableBoard` | what the server promises about its board across restarts (abstract) | |
| `Persistence` | the way from the live board to the disk and back | `DurableBoard` |
| `GameOver` | moves, answers, statistics, the end of the game | |
| `Optimistic` | the web client's optimistic moves, as operators on their state | |
| `OptimisticState` | any sequence of calls of these operators | `Optimistic` |
| `PieceHandler` | the handlers of clicks and messages, as operators on the handler's state | `Optimistic` |
| `ClientView` | one web client, the server and the websocket between them | `PieceHandler` |
| `Session` | connection, reconnection, coordinates, subscriptions, snapshots' places | |
| `Polling` | polled statistics with what was heard since, polled recent captures | |
| `Wire` | messages, their encoding, and what the other end reads | |
| `MCBoard`, `MCPersistence`, `MCGameOver`, `MCClientView`, `MCWebClient` | instances for TLC | the modules they are about |
| `BoardProofs`, `ClientRulesProofs`, `PersistenceProofs`, `GameOverProofs`, `OptimisticProofs`, `ClientViewProofs` | theorems | the module each is about |
| `OptimisticLemmas` | lemmas about the operators of `Optimistic`, for two of these | `Optimistic` |
| `WebClientProofs` | theorems | `Session`, `Polling` |

Operators whose names start with `Mut_` are no part of a model: each is a wrong version of
the definition after it, listed in `PROJECT.json` to see that a property notices it.

### Board and ClientRules

State: `pieces`, a partial function from squares to records (the fields of `Piece`; the
seven badge bits are the set `flags`), and the counters of `type Board`. An action is one
accepted call; a rejected call changes nothing and is no step. `Castle`, `EnPassant` and
`NormalMove` are the three parts of `ValidateAndApplyMove__NOTTHREADSAFE`, each with its
conditions in its guard and all its effects (the squares, `totalMoves`, `seqNum`, the
capture counters, the badges of the capturing piece) in its primed variables. `Adopt` and
`DoBulkCapture` work on one chessboard, as the constructors of their requests arrange. The
ids `setupPiecesForColor` deals out determine each piece's home, type and colour, which is
what the properties compare a piece with. The model has one action per call as the board
has one writer; the only concurrent reader whose result matters, `GetStats`, is in
`GameOver`. For model checking, `Placed` says which pieces stand in the first state; the
others count as captured. The proofs allow any `Placed`, so also the full board.

`ClientRules` is `getMoveableSquares` of `utils.js` on the same board: which squares it offers
for a piece, with which kind of move, which victim and which second piece. The server
checks one pair of squares, the client walks rays; the two are written independently in the
code and here. `ClientKnowsTheRules` and `PredictsTheMove` compare them in every position.

### Persistence

A board is the sequence of requests applied to it: two boards with the same history are
equal, and `Accepts(board, request)` stands for whatever makes a request valid. The proofs
hold for every `Accepts`.

| Model | Code |
|---|---|
| `ApplyLive`, then `HandOver` | `processMoves`: apply, then `AddMove` / `AddAdoption` / `AddBulkCapture`, which wait for room |
| `EndGame`, `StopMover` | `processMovesCancel`, and the loop's return |
| `ReplayOne` | `RunForever` taking a request: `apply`, and the flush at the size limit |
| `TickRequests`, `TickBoard` | its two tickers |
| `SaveStarts`, `SaveEnds` | `saveToFile`: reading the clock, and `WriteFileAtomic` |
| `BeginShutdown`, `AwaitJobs` | `Server.GracefulShutdown`: cancel, `backgroundJobWg.Wait` |
| `StopLooper`, `AwaitLooper`, `Drain`, `FinalSnapshot` | `BoardToDiskHandler.GracefulShutdown` |
| `ExitNormally`, `Crash`, `Boot` | the end of `main`, death at any moment, `NewBoardToDiskHandler` with `loadLatestBoard` and `GetLiveBoard` |

A crash loses everything but `files`. A save that fails leaves no file and, as in the
code, nobody notices. The save of a new game's first board may fail too. A batch of requests (`Batch`)
is what its file holds: the numbers in its name, and the requests twice, of which a reader takes
one. Batches are in no file that a restart reads, so the model remembers them for one run.
`DurableBoard` says the same without any of this: a board, a set of boards that would
survive, and runs that resume from one of them.

### GameOver

The board is how many kings and other pieces stand (`kings`, `others`) and, separately,
the four counters; `processMoves` first changes the board and then counts capture by
capture, a king among the pieces (`CountPiece`) before it counts among the kings
(`CountKing`), as lines 687-711 of `board.go` do. `DoBulkCapture` counts in the order of
the squares, so the model takes every order. `ReadCounter` is one of the four loads of
`GetStats`; `Judge`, `CancelMoves` and `Publish` are the rest of `refreshStatsOnce`.
A client's moves are numbered, so that each answer names its move. `Reject` covers all
the ways in which `handleProtoMessage` answers, pretends or says nothing without queueing;
`Suspects` are the clients it may pretend to, because they are banned or look like bots: they
are told "valid" of moves that nobody looks at. `Answer` is `compressAndSend`: an answer is put
on the way, or dropped because the client's connection is closed, or closes it because the
channel to the client (32) is full.
A send to the channel is two steps, `SendMove` (past the `gameOver` test) and `Enqueue` or
`GiveUp` (the select). `TakeMove` has the context test of line 447 in it: a move that is
dequeued after the cancellation is dropped without an answer.

Adoptions are not in this module, as they capture nothing and answer nobody. The hand-over
to the disk is not in it either: it takes time but not for ever (`AcceptedIsReplayed`).

### Optimistic, OptimisticState, PieceHandler

JavaScript runs a handler to its end before the next one, so a method is an operator from
the handler's state to the next state and to the animations it broadcasts; the actions of
`ClientView` are the events that call them.

An optimistic move is one to three *actions* (the piece, the rook of a castling, the victim),
kept in two maps of lists, by piece and by token; a list is modelled as a set of actions
ordered by `actionId`. `removeActions` keeps the code's asymmetry: one map is filtered by
action, the other by piece and token. `DependencySet` is the closure `_calculateDependencySet`
computes with a work list: tokens that share a piece, or a touched square, with one that goes.
`OptimisticState` calls these operators with any arguments in any order, which is more than
`PieceHandler` does; `OptimisticProofs` is about it.

`PieceHandler` has the rest of the class: `confirmOptimisticMove`, `rejectOptimisticMove`,
`setConnected`, `handleSnapshot`, `handleMoves`, `handleBulkCapture`, and
`processGroundTruthAnimations`, which folds over the animations in their order while it
reverts and simulates. A piece is its id, square and sequence number. Of two pieces predicted on
one square the code's index has the one whose key comes last in a JavaScript `Map`; `keys` is that
order: a key keeps its place when the first of its actions goes, and comes last when it is
entered again. Tokens count up and do not wrap (in the code after 65000 moves).

### ClientView

| Model | Code |
|---|---|
| `ServeRequest`, `MoveOfAnother`, `BulkCapture` | `processMoves`: apply, answer, start a broadcast |
| `RejectRequest`, `DropRequest` | the rate limits of `handleProtoMessage` |
| `Broadcast` | the goroutine of a move or of a bulk capture |
| `MaybeSendMoveUpdates`, `TakeSnapshot`, `SendSnapshot` | the client's tickers on the server |
| `Select`, `submitMove` | a click on a piece, and on a square offered for it |
| `Deliver` | `ws.onmessage`, which calls the handler |
| `Disconnect`, `Reconnect` | the websocket closes, losing what is on its way; a new one opens |
| `Display`, `Deselect` | the subscribers `PieceDisplay` and `SelectedPieceAndSquaresContext` |

The board is a function from pieces to squares, and the rules are a set of steps (`Steps`),
each of which may, must or must not capture: which steps are legal chess is the subject of
`Board` and `ClientRules`. All boards so far are kept in `history`, so that what a client
holds can be compared with what was true. The window of the client is the whole board.

### Session, Polling, Wire

`Session`: the life of the websocket (`connecting`, `accepted`, `open`, `closed`, with the
flags and the timer of `WebsocketProvider`), the debouncer of subscriptions, the URL's hash
and its delayed update, every gesture that moves the view, and on the server the position,
the snapshot goroutine of `UpdatePositionAndMaybeSnapshot` and the periodic one, each of which
reads the position first and sends later. One coordinate stands for both. Constants are the
code's (radius 47, threshold 12, 8000 squares), as the arithmetic between them is what keeps
a client that has not subscribed again inside its last snapshot. Times are left out: a timer
that is set may fire at any later moment. A React effect runs with the update that triggers it.

`Polling`: `GetStats` reads the sequence number and then one counter after the other while the
board goes on; the client adds broadcasts that are newer than its latest poll. `handleMoves` tells
the statistics of each move, but of a capture only if the piece taken is still held
(`WithoutVictim`); whether it is, a snapshot or an answer may have decided, so `HearOf` takes
either. For the recent
captures, the two ways a poll is started, and the timers that are no longer stored anywhere.

`Wire`: a message is a function from the fields it holds to their values; each of the
generated classes of `protoCompiled.js` is one definition, which stands for its constructor,
the defaults on its prototype, and its `encode` and `decode`, which differ between classes in
the fields only. The general operators say what these do: Go leaves out fields that are
zero, protobufjs writes what an object owns, a decoded object owns what the wire carried,
reading falls back on the prototype, and a copy (`{...piece}`) does not.

## 3. Runs

All runs together take about twelve minutes. Each sets `CHECK_DEADLOCK FALSE` because the modelled
system does stop: operations, moves and runs are bounded, a game that is over is over, and
a process may exit for the last time.

| Run | Question | Bounds |
|---|---|---|
| `BoardPawns` | Do double steps, en passant and promotion keep the books right? Does the client offer and predict them as the server makes them? | two pawns that can meet, a pawn of another board, a king; operations up to sequence number 8, so seven of them: a double step, an en passant and a promotion take six |
| `BoardOfficers` | Can castling, slides and jumps, with captures, adoptions and bulk captures around them, move a wrong rook, take a king off its board, or fool the protection of unmoved pieces? Does the client know these rules? | king, both rooks, knight, bishops and a rook of the chessboard below; walks of up to three squares, operations up to sequence number 4 |
| `BoardEdges` | Can each piece be adopted? **No** (see 5) | king and rook, which step onto the last chessboard |
| `Persistence` | Is the second board always the first one, late? Do restarts resume a real board, and the longest? Is every request in one batch? Does every accepted request arrive, and every shutdown end? | three requests whose validity depends on all earlier ones, a channel for one, flushes at one request and at ticks, a periodic save besides the shutdown's, two runs with a crash or a shutdown anywhere; saves do not overlap |
| `PersistenceLateSave` | Does a restart after a clean shutdown resume it? **No** | one periodic save, which may overlap the shutdown's |
| `GameOverSafety` | Are winners real, answers true and final, and is the winning move the last? | two kings a side, so that the last king differs from the first; two clients with a move each that compete for one place; a bulk capture |
| `GameOverProgress` | Is every waiting ReadPump released? Is the end noticed, the winner answered, the channel emptied? | one king a side; either three moves of a client that stays until the shutdown, of which one wins, one fills the channel and one waits, or a move and a bulk capture that can take both kings |
| `GameOverWithdrawn` | Does a published winner stay? **No** | one move |
| `ClientView` | Is what a client holds history? Is every guess resolved? Does it show the board in the end? | two pieces of the client and one of another player on three squares; steps that must capture, may capture, and a castling; two moves of the client, or one and a broken connection, against two changes of the board |
| `ClientViewDropped` | Is every guess resolved if the server may drop a request? **No** | one move |
| `ClientViewGhost` | Does a piece stay away that the newest snapshot knew to be captured? **No** | two changes of the board, one broken connection |
| `ClientParts` | Do the indices of the optimistic moves agree, and are reverts complete? Is the client subscribed where it looks? Are statistics and captures right? Do messages survive the wire? | two pieces, two squares, two tokens, three actions; a gesture and two failures, or two gestures; two changes of the board, three colours, a failed request; each message with one field that differs from the least |

`ClientParts` checks four modules that share no state: the variable `part` says which of them
runs in a behaviour, so the number of states is the sum of theirs and not the product. Likewise
`scenario` of `MCGameOver` says whether a behaviour is about several moves or about one move and
a bulk capture; it bounds what clients and administrators do, never what the server does (an
answer to a client that stays is put on the way). Both passing runs of `GameOver` start with at
least as many white kings as black ones, and as many other pieces of either colour: the code
treats the colours alike.

The chessboards are 2 x 2, the least with a border in both directions and with chessboards
that are neither first nor last in a row. `MAX_MOVE_DISTANCE` is 2 where pawns
are concerned (the double step needs 2) and 3 where castling and walks are. The counters
saturate at 1 to 3, so that saturation happens. In the code, capacities are in the
thousands; one place is enough for a channel to be full, empty and contended. In `ClientView`
a second move of the client is needed for one that depends on another, and a second change
of the board for two messages that overtake each other; the bound on sequence numbers makes
the server refuse later requests, so refusals of every move are covered too.

The passing properties:

* `Board`: `UniqueIds`, `UnmovedAtHome`, `KingsStayOnTheirBoard`,
  `CapturesAccountForMissing`, `DoubleMovedTwoAhead` and `NoPawnOnLastRank` (why en passant
  needs no promotion), `UnmovedAreSafeFromOtherBoards`. Proved and in no run:
  `KeepsIdentity`, `SquareColorsAreKept` (what the moves of bishops and knights add up to).
* `ClientRules`: `ClientKnowsTheRules` (but for the last square of a slide, which the client
  withholds), `PredictsTheMove`.
* `Persistence`: `ReplicaTrailsLive`, `NeverPanics`, `ShutdownFlushesEverything`,
  `NewestIsLongest` (only if saves do not overlap, and with a clock that never goes back),
  `EveryRequestIsFiledOnce`, the refinement `KeepsDurableBoard`, and
  under fairness `AcceptedIsReplayed`, `ShutdownEnds`.
* `GameOver`: `WinnersWon`, `TheWinningMoveIsTheLast`, `AnswersTellTheTruth` ("valid" may be
  false for a client in `Suspects`, and for nobody else), `AnswersAreFinal`, and under
  fairness `EndIsNoticed`, `PumpsAreReleased`, `QueueKeepsMoving`, `AcceptedIsAnswered` (unless
  the client's connection is closed; `GracefulShutdown` closes all).
* `ClientView`: `RecordsAreHistory`, `NeverBackInTime`, `MessagesLeaveNoClash`, and under
  fairness `EveryMoveIsResolved`, `ViewConverges`. `MessagesLeaveNoClash` is about the piece a
  message brings, and excepts pieces that reappear where they have been, as those do clash
  (see section 5): with a third move of the client, the run would show it. It supposes that
  no two of our moved pieces are shown on one square before the message (`GuessesApart`): the
  code keeps one prediction a square, and what is brought meets only that one.
* `OptimisticState`: `IndexesAgree`, `RevertsAreComplete` (the run has room for two requests,
  so its dependencies have one link; the theorem is about chains of any length).
  `Session`: `SubscribedWhereItLooks`. `Polling`: `NothingKnownIsForgotten` (known to the
  statistics, that is). `Wire`: `MeaningSurvives`.
  `MCWebClient`: under fairness `ComesToRest`, of `Session` and `Polling`.

### Fairness

Every goroutine that can go on does so (weak fairness of each one's steps); that is the Go
scheduler. Two actions have strong fairness. `StopMover` of `Persistence`: `select` picks
at random among the ready cases, so a `processMoves` whose context is done cannot prefer
other channels for ever. `Enqueue(c)` of `GameOver`: a full channel serves waiting senders
in the order they came, so one cannot be overtaken for ever (it matters with several clients;
the liveness run has one). The ticker of the statistics
ticks. Nothing is assumed of clients, administrators, signals, crashes or the tickers of the
disk handler: none of these needs to come.

The web client's models add: the browser delivers messages and fires timers, the server's
tickers (buffers, periodic snapshots) tick, requests and reconnection attempts are served.
In `ClientView` this is said of each queue: a request that is first leaves it (applied or
rejected), a broadcast runs, the buffer is sent, a message arrives. Nobody is obliged to move,
to click, to pan, or to lose a connection; failures and gestures are bounded, so that there is
a rest to come to, and a reconnection that is tried for ever succeeds once they are used up.

Both server models assume that the goroutines started by `Run` have entered their wait groups
before a shutdown begins (the code calls `Add` inside them, see the hazards).

## 4. Proofs

TLAPS proves these theorems for all values of the constants that satisfy the modules' named
assumptions, and without the bounds of the runs: `BoardAssumption`, `PersistenceAssumption`,
`GameOverAssumption`, `OptimisticAssumption` (sizes are natural numbers, the side of the board
is a multiple of 8, and the like), and

* `ClientRulesAssumption`: `MAX_MOVE_DISTANCE` is at least 2 (it is 36 in the code), as a
  double step and a castling cover two squares;
* `SessionAssumption`: coordinates that are clicked, typed or drawn are integers, and null is
  none of them;
* `PollingAssumption`: a move has a natural number of entries;
* `ClientViewAssumption`: there are finitely many pieces, each on a square of its own; a step
  of the rules moves at most one piece besides its own, and one of the same colour, as no move
  but a castling has a second one, and the rook must be of the king's colour (`board.go:490`,
  `utils.js:501`); a bulk capture is of pieces that exist, or of none (it is broadcast all the same).

Each proof rests on one inductive invariant, named below, and on one lemma for each action.

**BoardProofs.** Invariant: `TypeOK`, `UniqueIds`, and `PiecesInv`, a statement about each
piece by itself (`PieceInv`): it is what its id says, a piece that never moved is at home,
a king is on its board, a pawn is between its home rank and its last rank, a pawn with the
double-move mark stands two ranks ahead of home. None of the properties is inductive alone:
that a king stays on its board needs `UnmovedAtHome` for castling, and that en passant never
ends on the last rank needs `DoubleMovedTwoAhead` of the pawn taken. `RewriteInv`
shows once that rewriting some squares with pieces that satisfy `PieceInv`, with ids that
stood on the erased squares, keeps the invariant; castling, en passant and normal moves are
instances of it. On top of it, `ColorsInv`: a knight that can still count its moves stands on a
square of the colour that the parity of its count gives, whatever captures and adoptions it saw;
and `CapturesInv`, the books kept by the *ids* that stand and not by squares, so that a
capture takes away one id whether its square is taken over (a normal move) or left empty
(en passant, bulk). Theorems: `TypeCorrect`, `IdsStayUnique`, `IdentityKept`,
`UnmovedPiecesAreAtHome`, `DoubleMovedStandTwoAhead`, `KingsAreConfined`, `PawnsPromote`,
`ColorsAreKept`, `CapturesAccounted`, `UnmovedAreSafe`.

**ClientRulesProofs.** No induction of its own: both theorems hold in every state of `IInv` of
`BoardProofs`. `RulesAgree` goes through the kinds of pieces. The heart is `WalksAreSlides`: the
squares a walk from square to square reaches, until something stops it, are those whose line
back is straight and empty, which is what the server tests. `PredictionsComeTrue` takes the three
kinds of accepted moves one by one, and needs `UniqueIds` to know that the piece the client
shows elsewhere is the one the server moved. It holds for the full board, for any distance,
and so also for moves across chessboards that no run has room for.

**PersistenceProofs.** Invariant: `TypeOK`; `BoardsInv` (the live board is the second board,
the channel and the request being sent, one after the other, and `Reachable`, that is, each
of its requests was accepted by what came before); `FilesInv` (every save under way is of a
prefix of the live board, every file of a reachable one); `ShutdownInv` (what has ended in
which phase of the shutdown). `NeverPanics` follows since the next request in the channel is
the one that extended the same prefix on the live board. Theorems: `TypeCorrect`,
`NothingIsLostOnTheWay`, `ReplayIsTotal`, `ShutdownIsComplete`, and `RestartsAreDurable`,
`Spec => Durable!Spec`, where `live`, the set of boards on file and `Running` stand for the
abstract variables. They hold with overlapping saves too, which the run leaves out.
`LaterFilesAreLonger` is about saves that do not overlap (`~SavesOverlap`; the run
`PersistenceLateSave` shows that it fails otherwise): `OrderInv` puts the boards on file, the
one being saved and the second board in one order, by their times and by their lengths.
`BatchesAreComplete` is about batches as they are read back: by its numbers each batch ends where
the next one begins (`FiledBefore`), and what waits for the next ends at the second board.

**GameOverProofs.** Invariant: the types; `CountersInv` (for each side, what stands, what is
counted and what is still to be counted add up, a half-counted king included); `PhaseInv`.
On top of it: `SeenInv` (a king counter that was read as zero means that the side has no king:
kings do not come back and are counted after they fell) for `WinnersHaveWon`; `EndInv` (as
long as no bulk capture came, a side without kings implies that `processMoves` is on its way
from that capture to its end) for `NoMoveAfterTheLastKing`; `AnswerInv` (a move that waits
in the channel or in its ReadPump is in neither set, waits once, and no answer
was given for it) for `AnswersAreTrue` and for `NothingAfterTheAnswer`: what is taken from
the channel to be applied has no answer yet.

**OptimisticProofs.** Invariant: types, `ActionsAreNumbered`, `ActionIdsAreUnique`,
`IndexesAgree`, `TouchesAreOfActions`. The difficulty is `removeActions`, which cuts one map by
action and the other by piece and token. The two cuts are the same if whoever calls it
removes *all* actions of the tokens concerned (confirmations, and reverts: the
closure contains whole tokens) or all actions of one piece (`revertSinglePieceId`),
and if no id is used twice. Each operation is shown to be one or the other, for any pieces,
squares and numbers of moves. Theorems: `TypeCorrect`, `IdsAreFresh`, `MapsAgree`,
`NoStaleTouches`. `NothingIsLeftHanging` is about the closure of a revert, in `OptimisticLemmas`. Each round of
`AllDependants` adds the tokens that share a piece or a touched square with an action reached
so far; a round after which no further action is reached is the last to add a token, and until
then each reaches at least one more of the finitely many actions (`LastRoundIsClosed`), so one
round more than there are actions is enough.

**ClientViewProofs.** Invariant: `ViewInv`, one part for each part of the state. Snapshots and
broadcasts carry squares of the board they were taken from, and remain true as the board's
history grows. An answer carries no squares: the client enters those of its own optimistic
actions with the sequence number of the answer. So the invariant says of each request under
way that the actions the client still shows for its token are what the request asks for
(`Asks`), of each answer that they are what happened (`Answers`), and that no token is under
way that is not given out yet. What the handler does in the meantime, with other answers,
reverts, simulated captures and whole batches of animations, only takes moves of a token away
(`FewerMoves`). The three loops of the handler are folds; a fold is, by its definition, a
function on sets of indices, and the lemmas about the loops go by induction on these sets. One
lemma for each kind of message then says that the records stay true and none gets older
(`Onward`). Theorems: `RecordsAreTrue`, `NothingOlderIsBelieved`, for any number of pieces, moves,
broadcasts under way and broken connections. The second is about what the client remembers: the
run `ClientViewGhost` shows what it forgets.

The third theorem, `NothingBroughtIsUnderAGuess`, states `MessagesLeaveNoClash`. A *guess* is the
last action of a piece that is shown moved (`Guesses`). The argument has three parts.

* No message makes a guess of what was none (`ShowsLess`). A revert takes pieces whole, and so does
  `revertSinglePieceId`; a simulated capture only hides a piece. A confirmation takes the actions of
  one token, and would bring an older guess of the piece back to light if there were one: there
  is none, as confirmations come in the order of the moves. Hence the second part of the
  invariant, `GuessInv`: every action has a token whose answer is under way (`Awaited`), and each
  confirmation precedes the answers to all later moves (`InOrder`), although rejections may come
  before their turn. It does not hold of `SpecWithDrops`, where a request may get no answer.
* Every piece that a message brings to a square has one animation there (`Announced`, `Distinct`).
  For a snapshot this needs `PiecesTrue` once more: a record as old as the snapshot agrees with it.
* The loop over the animations leaves each arrival `Settled`: a guess on its square is gone, or
  has captured the arrival under its own token. The later rounds of the loop spare that capture as
  long as they spare the guess (`Spares`), since a revert takes tokens whole and a single revert
  is only of the piece that the animation is about. That two pieces of one colour do not capture
  each other is `Coloured`, and rests on the clicks (`OfferGood`).

So a piece that was brought is hidden, or not where a guess is shown.

**WebClientProofs, about Session.** Invariant: `SInv`. It names the *last word* the server will hear if the user
does nothing more (what the timer will send, else what was sent last, else what the server
has), and says that the debouncer believes in it (`Told`). This fails between the opening of a
connection and the arrival of the initial state, and the property rests on what holds there
instead: the debouncer is silent and the initial state on its way is of the server's position.
Theorem: `ServedWhereItLooks`.

**WebClientProofs, about Polling.** Invariant: `PInv`. Statistics *cover* the changes up to their sequence number:
each counter is at least the number of those changes that count for it (`Covers`), which
survives a `GetStats` that reads the counters one by one while they grow, as the number is
read first. Numbers of polls never go back (`AnswerInv`), so the changes its statistics were told of
and have not covered are still in its list, and its additions count them (`ToldInv`). Lemmas
about the two folds, the sum over the list and the filter of the list, connect the two. Theorem:
`NothingIsForgotten`.

Only model-checked: everything under fairness, which is beyond this prover
(`AcceptedIsReplayed`, `ShutdownEnds`, `EndIsNoticed`, `PumpsAreReleased`,
`QueueKeepsMoving`, `AcceptedIsAnswered`, `EveryMoveIsResolved`, `ViewConverges`,
`ComesToRest`); and `MeaningSurvives`, as `Wire` is recursive over the shape of messages, and
what a recursive definition computes for every message needs an induction over data that this
prover has no rule for.

## 5. Findings

* `BoardEdges`: `Adopt` and `DoBulkCapture` compare the exclusive end of their box with
  `>= BOARD_SIZE`, so the last chessboard of every row and column is refused, although the
  HTTP handlers accept its coordinates (`board.go:279, 346`). In the run a rook that could be
  adopted steps onto that chessboard.
* `PersistenceLateSave`: a periodic save whose goroutine is scheduled after the save of the
  shutdown has read the clock gets the later name, and the next start loads its older board
  (`board-to-disk-handler.go:186, 610`). `main` exits soon after, so this needs a slow
  periodic save to start late, but nothing in the code excludes it.
* `GameOverWithdrawn`: `GetStats` can see a king counted among the pieces and not yet among
  the kings. If the sides then look as if only kings were left, a draw is published and the
  game is over for good; the next refresh takes the winner back and the game stays over with
  no winner (`board.go:687-711, 772`). The web client logs `Game-un-over??`.
* `ClientViewDropped`: a move over both rate limits is dropped without an answer, and the
  comment says that clients will figure it out (`client.go:483-485`). The web client does not:
  it shows the move until the connection ends or another message contradicts it.
* `ClientViewGhost`: captures are remembered until a snapshot that is newer
  (`pieceHandler.js:1024-1025`), and a move of a piece that is not held brings it in, however old
  it is (1151-1156). So a broadcast that is older than the snapshot brings a captured piece back,
  and its capture is ignored, as it is no newer than the snapshot (1204-1205). `NeverBackInTime`
  speaks of what is still remembered; `ViewConverges` says that the next snapshot repairs it.

Noticed while reading or modelling, with no run; each is modelled as the code has it:

* A file of requests is named by the second board's sequence number *after* they were applied
  (`board-to-disk-handler.go:544`), so the range in the name does not span them, as the
  comment on lines 37-39 fears; nothing reads these names. The requests are encoded into the file
  twice (lines 419-423), and its reader decodes one of the two (434).
* Moves that wait in the channel when a *winning move* ends the game get no answer, as only
  `refreshStatsOnce` starts a drainer, and not when the game is over already
  (`server.go:384-391`): `QueueKeepsMoving` excepts them.
* `confirmOptimisticMove` drops the simulated capture of a confirmed move and keeps the piece
  in `piecesById` until the broadcast of the capture comes: for that time a captured piece
  is shown again, under the one that took it, or under the guess that another piece has moved
  there since. A piece of ours that another player moved reappears in the same way, where it
  was brought in the meantime, when a guess about it is refused.
* `revertSinglePieceId` removes the touch of a square that another action of the same token
  may still be about; a later rejection then misses that dependency. `RevertsAreComplete` goes
  by the touches there are.
* `piecesByLocation` (line 1310) does not count the moves of a predicted piece, so a rook or
  pawn that moved only optimistically is still offered as unmoved. An offer computed before
  the last message may be for a rook that is gone; the server refuses it. Until then the client
  holds a guess about a piece it does not know.
* Two of our pieces can be predicted on one square, by offers that are older than the last message;
  `predictedLocToPieceId` (lines 455 to 482) then has one of them (the comment "complain if this
  is already set for another piece?" stands there), and a piece that arrives meets only that one.
  `MessagesLeaveNoClash` excepts these states.
* A pan within the debouncer's delay of a reconnection is undone by the initial state.
* The statistics read the sequence number first, so a poll may contain moves that are counted
  again on top of it, and a castling counts as two moves until the next poll: the page may
  show too much of these for a while.
* A capture is counted only if its piece is still held (`pieceHandler.js:1190-1202`). One that
  follows a snapshot without the piece, or the confirmation of a capture of ours that we had not
  foreseen (708), is not counted until the next poll, while its move is.
* Banned and suspected addresses get `ValidMove` with a sequence number far in the future, so
  that their records are wrong on purpose; `ClientView` has no such client.
* `useStartBot` reads `data.targetMoveType`, which does not exist: its moves carry no kind and
  are normal ones to the server (`WithoutMoveType` of `Wire`).

## 6. Not modelled, and the plan

Not modelled: the bits of a piece (a record, with the saturation points as constants);
the cut of a snapshot's or a zone's window, and so also that `GetAffectedZones` of an adoption
or bulk capture may name too few zones; contents and encoding of files; authentication of the
administrative handlers; logging; pings and the timeouts that close a connection (the models
let it break at any time); `handleAdoption`, which sets a flag; shared HTTP caches, of which the
repository has none; drawing, sounds, dialogs, the zoomed-out
overview and the minimap; how the bot loop picks its moves; the benchmark and the scripts.

The order of the plan, most important first. Items 1 to 5 are done, with proofs except of `Wire`.

1. `Board`, with proofs.
2. `DurableBoard` and `Persistence`, with the refinement and proofs.
3. `GameOver`, with proofs.
4. `ClientRules`, `Optimistic`, `OptimisticState` with proofs, `PieceHandler`, `ClientView`.
5. `Session`, `Polling`, `Wire`.
6. `Admission`: `maybeAddNewIp`, `DecrementCountForIp`, `ClearOldLimits`, `DetermineColor` and
   the two places where they are undone. Properties: counts return to zero; colours differ by a
   bounded number.
7. `Zones`: the maps of `client-manager.go` with clients that register, move and close.
   Properties: a client is subscribed to exactly the zones of its position once it is idle; a
   closed client is in no zone.
8. `Minimap`: goroutines that update an aggregate while it is recounted.
