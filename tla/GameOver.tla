------------------------------ MODULE GameOver ------------------------------
(***************************************************************************)
(* How a move gets from a client to the board and is answered, and how the *)
(* game ends (client.go, handleProtoMessage; server.go, processMoves and   *)
(* refreshStatsOnce).  Each client's ReadPump puts its moves on one        *)
(* channel.  processMoves takes them off, applies and answers them, and    *)
(* ends the game after the move that takes a side's last king.  Once a     *)
(* second refreshStatsOnce reads the board's four counters, one atomic     *)
(* load after the other while processMoves goes on counting, publishes a   *)
(* winner, and ends the game if processMoves has not.                      *)
(*                                                                         *)
(* The board is the number of pieces that stand (module Board says how     *)
(* they move), a move is what it captures.  Adoptions capture nothing, and *)
(* handing requests to the disk is module Persistence's.                   *)
(***************************************************************************)
EXTENDS Integers, Sequences

CONSTANTS
    Clients,
    Suspects,               \* clients that are banned or may be taken for bots
    QueueCapacity,          \* of moveRequests; 1024
    BulkCapacity,           \* of bulkCaptureRequests; 16
    TOTAL_KINGS_PER_SIDE,   \* 1000000
    TotalOthers,            \* the pieces of a side that are no kings; 15000000
    MaxMoves,               \* bound: moves sent by one client
    MaxBulks,               \* bound: bulk captures requested
    MaxVictims              \* bound: pieces one bulk capture takes; 64

VARIABLES
    pump,           \* what each client's ReadPump does: "reading" or "sending"
    sent,           \* the number of moves each client sent: the last one's token
    closed,         \* is the client's context done?
    answers,        \* put on the way to clients
    queue,          \* s.moveRequests
    bulks,          \* s.bulkCaptureRequests: how many
    bulksAsked,     \* how many there were in all
    mover,          \* what processMoves does
    request,        \* the request it is at
    todoKings,      \* kings captured by that request and not counted yet,
    todoOthers,     \* and other pieces, of each side
    half,           \* the side whose king is counted among the pieces, not yet
                    \* among the kings; "none" if there is none
    won,            \* was the last move applied the winning move?
    applied,        \* moves the board accepted
    kings,          \* that no accepted request has captured, of each side
    others,         \* the same of the other pieces
    capturedPieces, \* board.whitePiecesCaptured, blackPiecesCaptured
    capturedKings,  \* board.whiteKingsCaptured, blackKingsCaptured
    stats,          \* what refreshStatsOnce does
    seen,           \* the counters it has read
    winner,         \* in s.currentStats
    gameOver,       \* s.gameOver
    cancelled,      \* is s.processMovesCtx done?
    drainer,        \* is there a goroutine that refuses all moves?
    shutdown        \* of the server: "no", "clients" (closing them), "jobs"

clientVars == <<pump, sent, closed>>
channelVars == <<queue, bulks, bulksAsked>>
captureVars == <<todoKings, todoOthers, half>>
moverVars == <<mover, request, captureVars, won>>
boardVars == <<applied, kings, others, capturedPieces, capturedKings>>
statsVars == <<stats, seen, winner>>
endVars == <<gameOver, cancelled, drainer, shutdown>>
vars == <<clientVars, answers, channelVars, moverVars, boardVars, statsVars, endVars>>

ASSUME GameOverAssumption ==
    /\ QueueCapacity \in Nat \ {0} /\ BulkCapacity \in Nat \ {0}
    /\ TOTAL_KINGS_PER_SIDE \in Nat \ {0} /\ TotalOthers \in Nat
    /\ Suspects \subseteq Clients
    /\ MaxMoves \in Nat /\ MaxBulks \in Nat /\ MaxVictims \in Nat

Colors == {"white", "black"}
nobody == [c \in Colors |-> 0]
Requests == [client : Clients, token : 1 .. MaxMoves]
bulkCapture == [client |-> "none", token |-> 0]

-----------------------------------------------------------------------------
(* The statistics *)

(* GetStats loads the counters in this order.                              *)
Remaining == <<
    TOTAL_KINGS_PER_SIDE + TotalOthers - capturedPieces["white"],
    TOTAL_KINGS_PER_SIDE + TotalOthers - capturedPieces["black"],
    TOTAL_KINGS_PER_SIDE - capturedKings["white"],
    TOTAL_KINGS_PER_SIDE - capturedKings["black"] >>

Mut_SidesSwapped(s) ==
    CASE s[3] = 0 /\ s[4] = 0 -> "draw"
      [] s[3] = 0 /\ s[4] # 0 -> "white"
      [] s[3] # 0 /\ s[4] = 0 -> "black"
      [] s[3] # 0 /\ s[4] # 0 ->
            IF s[1] = s[3] /\ s[2] = s[4] THEN "draw" ELSE "none"

Mut_OnlyDraws(s) ==
    IF <<s[3], s[4]>> = <<0, 0>> \/ <<s[1], s[2]>> = <<s[3], s[4]>> THEN "draw" ELSE "none"

(* Who won, as far as the numbers tell; "none" if nobody did.              *)
Verdict(s) ==
    CASE s[3] = 0 /\ s[4] = 0 -> "draw"
      [] s[3] = 0 /\ s[4] # 0 -> "black"
      [] s[3] # 0 /\ s[4] = 0 -> "white"
      [] s[3] # 0 /\ s[4] # 0 ->
            IF s[1] = s[3] /\ s[2] = s[4] THEN "draw" ELSE "none"

(* A server starts with any board a snapshot may hold.  Run refreshes the  *)
(* statistics before the first client comes.                               *)
Init ==
    /\ pump = [c \in Clients |-> "reading"] /\ sent = [c \in Clients |-> 0]
    /\ closed = [c \in Clients |-> FALSE] /\ answers = {}
    /\ queue = <<>> /\ bulks = 0 /\ bulksAsked = 0
    /\ mover = "idle" /\ request = bulkCapture /\ todoKings = nobody
    /\ todoOthers = nobody /\ half = "none" /\ won = FALSE /\ applied = {}
    /\ kings \in [Colors -> 0 .. TOTAL_KINGS_PER_SIDE]
    /\ others \in [Colors -> 0 .. TotalOthers]
    /\ capturedKings = [c \in Colors |-> TOTAL_KINGS_PER_SIDE - kings[c]]
    /\ capturedPieces = [c \in Colors |->
                           TOTAL_KINGS_PER_SIDE + TotalOthers - kings[c] - others[c]]
    /\ stats = "idle" /\ seen = <<>> /\ winner = Verdict(Remaining)
    /\ gameOver = (winner # "none") /\ cancelled = gameOver /\ drainer = gameOver
    /\ shutdown = "no"

StatsTick ==
    /\ stats = "idle"
    /\ stats' = "reading" /\ seen' = <<>>
    /\ UNCHANGED <<winner, clientVars, answers, channelVars, moverVars, boardVars, endVars>>

ReadCounter ==
    /\ stats = "reading" /\ Len(seen) < 4
    /\ seen' = Append(seen, Remaining[Len(seen) + 1])
    /\ UNCHANGED <<stats, winner, clientVars, answers, channelVars, moverVars,
                   boardVars, endVars>>

Judge ==
    /\ stats = "reading" /\ Len(seen) = 4
    /\ IF Verdict(seen) # "none" /\ ~gameOver
       THEN gameOver' = TRUE /\ stats' = "cancelling"
       ELSE stats' = "publishing" /\ UNCHANGED gameOver
    /\ UNCHANGED <<seen, winner, cancelled, drainer, shutdown, clientVars, answers,
                   channelVars, moverVars, boardVars>>

Mut_NobodyDrains == FALSE

(* Cancelling comes with a goroutine that takes over the channel.          *)
Drains == TRUE

CancelMoves ==
    /\ stats = "cancelling"
    /\ cancelled' = TRUE /\ drainer' = Drains
    /\ stats' = "publishing"
    /\ UNCHANGED <<seen, winner, gameOver, shutdown, clientVars, answers, channelVars,
                   moverVars, boardVars>>

Publish ==
    /\ stats = "publishing"
    /\ winner' = Verdict(seen)
    /\ stats' = "idle"
    /\ UNCHANGED <<seen, clientVars, answers, channelVars, moverVars, boardVars, endVars>>

StatsStop ==
    /\ stats = "idle" /\ shutdown = "jobs"
    /\ stats' = "stopped"
    /\ UNCHANGED <<seen, winner, clientVars, answers, channelVars, moverVars,
                   boardVars, endVars>>

-----------------------------------------------------------------------------
(* Clients *)

Latest(c) == [client |-> c, token |-> sent[c]]

(* compressAndSend: the answer is put into the client's send channel, or   *)
(* dropped because the client's context is done, or the channel is full,   *)
(* which closes the client.  What else fills it is not modelled, so it may *)
(* be full at any time.                                                    *)
Answer(r, verdict) ==
    \/ /\ answers' = answers \cup {[req |-> r, verdict |-> verdict]}
       /\ UNCHANGED closed
    \/ /\ closed' = [closed EXCEPT ![r.client] = TRUE]
       /\ UNCHANGED answers

(* A move that never gets to the channel: the game is over, or the client  *)
(* exceeds a rate, is banned or suspected to be a bot.  Rejections have a  *)
(* rate limit of their own; the last two are told that the move was made.  *)
Reject(c) ==
    /\ ~closed[c] /\ pump[c] = "reading" /\ sent[c] < MaxMoves
    /\ sent' = [sent EXCEPT ![c] = @ + 1]
    /\ \/ Answer(Latest(c)', "invalid")
       \/ c \in Suspects /\ ~gameOver /\ Answer(Latest(c)', "valid")
       \/ UNCHANGED <<answers, closed>>
    /\ UNCHANGED <<pump, channelVars, moverVars, boardVars, statsVars, endVars>>

SendMove(c) ==
    /\ ~closed[c] /\ pump[c] = "reading" /\ sent[c] < MaxMoves
    /\ ~gameOver
    /\ sent' = [sent EXCEPT ![c] = @ + 1]
    /\ pump' = [pump EXCEPT ![c] = "sending"]
    /\ UNCHANGED <<closed, answers, channelVars, moverVars, boardVars, statsVars, endVars>>

Mut_AtMostFull == Len(queue) <= QueueCapacity

HasRoom == Len(queue) < QueueCapacity

Mut_EnqueueAgain(c) ==
    /\ pump[c] = "sending" /\ HasRoom
    /\ queue' = Append(queue, Latest(c))
    /\ UNCHANGED <<clientVars, bulks, bulksAsked, answers, moverVars, boardVars,
                   statsVars, endVars>>

Enqueue(c) ==
    /\ pump[c] = "sending" /\ HasRoom
    /\ queue' = Append(queue, Latest(c))
    /\ pump' = [pump EXCEPT ![c] = "reading"]
    /\ UNCHANGED <<sent, closed, bulks, bulksAsked, answers, moverVars, boardVars,
                   statsVars, endVars>>

Mut_WaitsForever(c) == closed[c]

(* What else wakes a ReadPump that waits for room in the channel.          *)
Released(c) == closed[c] \/ cancelled

GiveUp(c) ==
    /\ pump[c] = "sending" /\ Released(c)
    /\ pump' = [pump EXCEPT ![c] = "reading"]
    /\ UNCHANGED <<sent, closed, answers, channelVars, moverVars, boardVars,
                   statsVars, endVars>>

Close(c) ==
    /\ ~closed[c]
    /\ closed' = [closed EXCEPT ![c] = TRUE]
    /\ UNCHANGED <<pump, sent, answers, channelVars, moverVars, boardVars,
                   statsVars, endVars>>

(* ServeBulkCapture waits for room, for as long as it takes.               *)
AskBulk ==
    /\ bulksAsked < MaxBulks /\ bulks < BulkCapacity
    /\ bulks' = bulks + 1 /\ bulksAsked' = bulksAsked + 1
    /\ UNCHANGED <<queue, clientVars, answers, moverVars, boardVars, statsVars, endVars>>

-----------------------------------------------------------------------------
(* processMoves *)

(* ks kings and os other pieces can be captured, n pieces at most.         *)
CanCapture(n, ks, os) ==
    /\ \A c \in Colors : ks[c] <= kings[c] /\ os[c] <= others[c]
    /\ ks["white"] + ks["black"] + os["white"] + os["black"] <= n

(* The board accepts a request that captures n pieces at most.             *)
Apply(n) ==
    /\ \E ks, os \in [Colors -> 0 .. n] :
         /\ CanCapture(n, ks, os)
         /\ kings' = [c \in Colors |-> kings[c] - ks[c]]
         /\ others' = [c \in Colors |-> others[c] - os[c]]
         /\ todoKings' = ks /\ todoOthers' = os
    /\ mover' = "counting"
    /\ UNCHANGED <<half, capturedPieces, capturedKings>>

(* A move the board refuses is answered at once.  One that arrives after   *)
(* the end ends processMoves, and nobody answers it.                       *)
TakeMove ==
    /\ mover = "idle" /\ queue # <<>>
    /\ queue' = Tail(queue) /\ request' = Head(queue)
    /\ \/ /\ cancelled
          /\ mover' = "stopped"
          /\ UNCHANGED <<captureVars, won, answers, closed, boardVars>>
       \/ /\ ~cancelled
          /\ Answer(Head(queue), "invalid")
          /\ UNCHANGED <<mover, captureVars, won, boardVars>>
       \/ /\ ~cancelled
          /\ Apply(1)
          /\ won' = FALSE
          /\ applied' = applied \cup {Head(queue)}
          /\ UNCHANGED <<answers, closed>>
    /\ UNCHANGED <<bulks, bulksAsked, pump, sent, statsVars, endVars>>

(* DoBulkCapture, even after the end if select picks it.                   *)
TakeBulk ==
    /\ mover = "idle" /\ bulks > 0
    /\ bulks' = bulks - 1 /\ request' = bulkCapture
    /\ Apply(MaxVictims)
    /\ UNCHANGED <<applied, won, queue, bulksAsked, clientVars, answers, statsVars, endVars>>

(* The captures are counted one by one, in any order: a king first among   *)
(* the pieces, then among the kings.                                       *)
CountOther(c) ==
    /\ mover = "counting" /\ half = "none" /\ todoOthers[c] > 0
    /\ capturedPieces' = [capturedPieces EXCEPT ![c] = @ + 1]
    /\ todoOthers' = [todoOthers EXCEPT ![c] = @ - 1]
    /\ UNCHANGED <<mover, request, todoKings, half, won, applied, kings, others,
                   capturedKings, clientVars, answers, channelVars, statsVars, endVars>>

CountPiece(c) ==
    /\ mover = "counting" /\ half = "none" /\ todoKings[c] > 0
    /\ capturedPieces' = [capturedPieces EXCEPT ![c] = @ + 1]
    /\ half' = c
    /\ UNCHANGED <<mover, request, todoKings, todoOthers, won, applied, kings, others,
                   capturedKings, clientVars, answers, channelVars, statsVars, endVars>>

Mut_OneMoreKing(count) == count = TOTAL_KINGS_PER_SIDE + 1

WinsGame(count) == count = TOTAL_KINGS_PER_SIDE

CountKing(c) ==
    /\ mover = "counting" /\ half = c
    /\ capturedKings' = [capturedKings EXCEPT ![c] = @ + 1]
    /\ won' = IF request = bulkCapture THEN won ELSE WinsGame(capturedKings[c] + 1)
    /\ todoKings' = [todoKings EXCEPT ![c] = @ - 1]
    /\ half' = "none"
    /\ UNCHANGED <<mover, request, todoOthers, applied, kings, others, capturedPieces,
                   clientVars, answers, channelVars, statsVars, endVars>>

Finish ==
    /\ mover = "counting" /\ todoKings = nobody /\ todoOthers = nobody
    /\ mover' = IF request = bulkCapture THEN "idle"
                ELSE IF won THEN "winning" ELSE "answering"
    /\ UNCHANGED <<request, captureVars, won, clientVars, answers, channelVars,
                   boardVars, statsVars, endVars>>

(* s.gameOver first ...                                                    *)
EndGame ==
    /\ mover = "winning"
    /\ gameOver' = TRUE /\ mover' = "cancelling"
    /\ UNCHANGED <<request, captureVars, won, cancelled, drainer, shutdown,
                   clientVars, answers, channelVars, boardVars, statsVars>>

Mut_StopsUnanswered ==
    /\ mover = "cancelling"
    /\ cancelled' = TRUE /\ mover' = "stopped"
    /\ UNCHANGED <<request, captureVars, won, gameOver, drainer, shutdown,
                   clientVars, answers, channelVars, boardVars, statsVars>>

(* ... then the context.  Nobody drains the channel.                       *)
StopMoves ==
    /\ mover = "cancelling"
    /\ cancelled' = TRUE /\ mover' = "answering"
    /\ UNCHANGED <<request, captureVars, won, gameOver, drainer, shutdown,
                   clientVars, answers, channelVars, boardVars, statsVars>>

AnswerMove ==
    /\ mover = "answering"
    /\ Answer(request, "valid") /\ mover' = "idle"
    /\ UNCHANGED <<request, captureVars, won, pump, sent, channelVars, boardVars,
                   statsVars, endVars>>

StopMover ==
    /\ mover = "idle" /\ cancelled
    /\ mover' = "stopped"
    /\ UNCHANGED <<request, captureVars, won, clientVars, answers, channelVars,
                   boardVars, statsVars, endVars>>

Drain ==
    /\ drainer /\ queue # <<>>
    /\ Answer(Head(queue), "invalid") /\ queue' = Tail(queue)
    /\ UNCHANGED <<bulks, bulksAsked, pump, sent, moverVars, boardVars, statsVars, endVars>>

-----------------------------------------------------------------------------
(* GracefulShutdown closes the clients, waits for them, but not for long,  *)
(* and stops the background jobs.                                          *)
CloseClients ==
    /\ shutdown = "no"
    /\ shutdown' = "clients" /\ closed' = [c \in Clients |-> TRUE]
    /\ UNCHANGED <<pump, sent, gameOver, cancelled, drainer, answers, channelVars,
                   moverVars, boardVars, statsVars>>

StopJobs ==
    /\ shutdown = "clients"
    /\ shutdown' = "jobs" /\ cancelled' = TRUE
    /\ UNCHANGED <<gameOver, drainer, clientVars, answers, channelVars, moverVars,
                   boardVars, statsVars>>

Mover ==
    \/ TakeMove \/ TakeBulk
    \/ \E c \in Colors : CountOther(c) \/ CountPiece(c) \/ CountKing(c)
    \/ Finish \/ EndGame \/ StopMoves \/ AnswerMove \/ StopMover

Stats == StatsTick \/ ReadCounter \/ Judge \/ CancelMoves \/ Publish \/ StatsStop

Next ==
    \/ \E c \in Clients :
         Reject(c) \/ SendMove(c) \/ Enqueue(c) \/ GiveUp(c) \/ Close(c)
    \/ AskBulk \/ Mover \/ Stats \/ Drain
    \/ CloseClients \/ StopJobs

Spec == Init /\ [][Next]_vars

(* Every goroutine keeps running, and the ticker of the statistics ticks   *)
(* for ever.  A sender that waits for room gets its turn, as Go's channels *)
(* serve their waiters in order: hence the strong fairness of Enqueue.     *)
Fairness ==
    /\ WF_vars(Mover) /\ WF_vars(Stats) /\ WF_vars(Drain)
    /\ \A c \in Clients : SF_vars(Enqueue(c)) /\ WF_vars(GiveUp(c))


-----------------------------------------------------------------------------
(* Properties *)

TypeOK ==
    /\ pump \in [Clients -> {"reading", "sending"}]
    /\ sent \in [Clients -> 0 .. MaxMoves] /\ closed \in [Clients -> BOOLEAN]
    /\ answers \subseteq [req : Requests, verdict : {"valid", "invalid"}]
    /\ queue \in Seq(Requests) /\ Len(queue) <= QueueCapacity
    /\ bulks \in 0 .. BulkCapacity /\ bulksAsked \in 0 .. MaxBulks
    /\ mover \in {"idle", "counting", "winning", "cancelling", "answering", "stopped"}
    /\ request \in Requests \cup {bulkCapture}
    /\ todoKings \in [Colors -> Nat] /\ todoOthers \in [Colors -> Nat]
    /\ half \in Colors \cup {"none"} /\ won \in BOOLEAN
    /\ applied \subseteq Requests
    /\ kings \in [Colors -> Nat] /\ others \in [Colors -> Nat]
    /\ capturedPieces \in [Colors -> 0 .. TOTAL_KINGS_PER_SIDE + TotalOthers]
    /\ capturedKings \in [Colors -> 0 .. TOTAL_KINGS_PER_SIDE]
    /\ stats \in {"idle", "reading", "cancelling", "publishing", "stopped"}
    /\ seen \in Seq(Nat) /\ Len(seen) <= 4
    /\ winner \in {"none", "white", "black", "draw"}
    /\ gameOver \in BOOLEAN /\ cancelled \in BOOLEAN /\ drainer \in BOOLEAN
    /\ shutdown \in {"no", "clients", "jobs"}

(* Whatever is counted while the counters are read, a side that is said to *)
(* have won has taken every king of the other (server.go:361-382).         *)
WinnersWon ==
    /\ winner = "white" => kings["black"] = 0
    /\ winner = "black" => kings["white"] = 0

(* As long as only moves capture, the move that takes a side's last king   *)
(* is the last one the board accepts: processMoves ends the game before it *)
(* looks at another, and does not wait for the statistics (server.go:      *)
(* 447-462, board.go:700-711).                                             *)
TheWinningMoveIsTheLast ==
    [][bulksAsked = 0 /\ (\E c \in Colors : kings[c] = 0)
         => applied' = applied]_vars

(* No move is told two things, whoever answers it; a move told to be       *)
(* invalid was not applied, as the client reverts what it had shown of it; *)
(* and one told to be valid was, unless its client is banned or suspected, *)
(* which is told so of moves that never get to the board (server.go:453-   *)
(* 455, 467-487, 387-391; client.go:432-442, 457-479, 518-524).            *)
AnswersTellTheTruth ==
    /\ \A a, b \in answers : a.req = b.req => a = b
    /\ \A a \in answers :
         /\ a.verdict = "valid" => a.req \in applied \/ a.req.client \in Suspects
         /\ a.verdict = "invalid" => a.req \notin applied

(* Whatever was answered is over: the board does not accept a move after   *)
(* its client was told about it, neither one that was refused nor one that *)
(* was only pretended (client.go:432-495, server.go:387-391, 446-487).     *)
AnswersAreFinal ==
    [][\A a \in answers : a.req \in applied' => a.req \in applied]_vars

(* A game in which a side has no king ends, however it lost the last one:  *)
(* a bulk capture ends no game, the statistics do (server.go:349-391).     *)
EndIsNoticed ==
    (\E c \in Colors : kings[c] = 0) ~> gameOver \/ shutdown = "jobs"

(* No ReadPump waits for ever for room in the channel, not even once       *)
(* nobody takes anything off it (client.go:518-524).                       *)
PumpsAreReleased ==
    \A c \in Clients : pump[c] = "sending" ~> pump[c] = "reading"

(* Moves the board accepted, the winning move included, are answered,      *)
(* unless the connection of the client is closed: by itself, by a shutdown *)
(* or because its send channel is full (server.go:458-487, client.go:280-  *)
(* 287).                                                                   *)
Unanswered ==
    {r \in applied : [req |-> r, verdict |-> "valid"] \notin answers /\ ~closed[r.client]}
AcceptedIsAnswered == Unanswered # {} ~> Unanswered = {}

(* The channel gets empty, unless the server shuts down or the game ended  *)
(* with the winning move: then, unlike after any other end, nobody takes   *)
(* the moves that are left (server.go:384-391, 458-462).                   *)
QueueKeepsMoving == queue # <<>> ~> queue = <<>> \/ won \/ shutdown # "no"

(* Claimed by the web client: a game that is over does not become one that *)
(* is not ("Game-un-over??", statsHandler.js:65-68).                       *)
WinnerStands == [][winner # "none" => winner' # "none"]_vars
=============================================================================
