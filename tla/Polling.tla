------------------------------- MODULE Polling -------------------------------
(***************************************************************************)
(* What the web client asks for again and again over HTTP: the game's      *)
(* statistics, completed by the moves and captures it hears of on the      *)
(* websocket, and the recent captures of its colour.                       *)
(*                                                                         *)
(* Counters count up: the page shows the pieces and kings that remain, a   *)
(* constant minus the captures counted here.                               *)
(***************************************************************************)
EXTENDS Integers, Sequences, SequencesExt

CONSTANTS
    Kinds,          \* kinds of changes of the board: see Counted
    NoColor,        \* null
    MaxEvents,      \* bound: changes of the board
    MaxColors,      \* bound: initial states, each of which sets the colour
    MaxErrors       \* bound: requests that fail or are aborted

(* Numbers of entries are counts.                                          *)
ASSUME PollingAssumption == \A kind \in Kinds : kind.entries \in Nat

Colors == {"white", "black"}

(* In the order in which GetStats reads them, after the sequence number.   *)
CounterOrder == <<"totalMoves", "whitePieces", "blackPieces", "whiteKings", "blackKings">>
Counters == Range(CounterOrder)
NoCounts == [c \in Counters |-> 0]
Plus(f, g) == [c \in Counters |-> f[c] + g[c]]

(* What a change adds to the counters.  A kind says how many entries a     *)
(* move has (none for a bulk capture, two for a castling) and what was     *)
(* captured.                                                               *)
Captured(kind) ==
    [c \in Counters |->
        IF \/ c = "whitePieces" /\ kind.victim \in {"whitePiece", "whiteKing"}
           \/ c = "blackPieces" /\ kind.victim \in {"blackPiece", "blackKing"}
           \/ c = "whiteKings" /\ kind.victim = "whiteKing"
           \/ c = "blackKings" /\ kind.victim = "blackKing"
        THEN 1 ELSE 0]
Counted(kind) == [Captured(kind) EXCEPT !["totalMoves"] = IF kind.entries = 0 THEN 0 ELSE 1]
(* The client counts every entry of a move.                                *)
Heard(kind) == [Captured(kind) EXCEPT !["totalMoves"] = kind.entries]

SumOver(Effect(_), events) ==
    FoldSeq(LAMBDA e, counts : Plus(Effect(e.kind), counts), NoCounts, events)

VARIABLES
    history,        \* the board's changes; the seqnum of one is its index
    boardCounts,    \* the board's counters
    refresh,        \* refreshStatsOnce under way: its seqnum and the counters read so far
    currentStats,   \* the server's latest statistics
    statsRequest,   \* the client's request: timer, asked, or the answer
    stats,          \* StatsHandler
    winner,         \* StatsHandler.winner, and the game over it announced
    unheard,        \* changes not yet told to the client, nor passed over
    told,           \* history variable: what the statistics were told of
    captures,       \* RecentCapturesHandler
    colorsSet, errors

serverVars == <<history, boardCounts, refresh, currentStats>>
statsVars == <<statsRequest, stats, winner, unheard, told>>
pollingVars == <<serverVars, statsVars, captures, colorsSet, errors>>

-----------------------------------------------------------------------------
(* The server.                                                             *)

BoardChanges(kind) ==
    /\ Len(history) < MaxEvents
    /\ history' = Append(history, kind)
    /\ boardCounts' = Plus(boardCounts, Counted(kind))
    /\ unheard' = unheard \cup {[seqnum |-> Len(history) + 1, kind |-> kind]}
    /\ UNCHANGED <<refresh, currentStats, statsRequest, stats, winner, told, captures,
                   colorsSet, errors>>

(* A kind of colour without kings has lost.  (The draw of lone kings is    *)
(* out of these bounds.)                                                   *)
WinnerOf(kings) ==
    CASE kings["whiteKings"] = 1 /\ kings["blackKings"] = 1 -> "draw"
      [] kings["whiteKings"] = 1 /\ kings["blackKings"] = 0 -> "black"
      [] kings["whiteKings"] = 0 /\ kings["blackKings"] = 1 -> "white"
      [] OTHER -> ""

NotRefreshing == [seqnum |-> 0, read |-> <<>>, active |-> FALSE]

(* GetStats holds the board's lock for the sequence number only: moves go  *)
(* on between its reads.                                                   *)
RefreshStarts ==
    /\ ~refresh.active
    /\ refresh' = [seqnum |-> Len(history), read |-> <<>>, active |-> TRUE]
    /\ UNCHANGED <<history, boardCounts, currentStats, statsVars, captures, colorsSet, errors>>

RefreshReads ==
    /\ refresh.active
    /\ Len(refresh.read) < Len(CounterOrder)
    /\ refresh' = [refresh EXCEPT
                     !.read = Append(@, boardCounts[CounterOrder[Len(@) + 1]])]
    /\ UNCHANGED <<history, boardCounts, currentStats, statsVars, captures, colorsSet, errors>>

RefreshEnds ==
    LET counts == [c \in Counters |->
                      refresh.read[CHOOSE i \in DOMAIN CounterOrder : CounterOrder[i] = c]]
    IN  /\ refresh.active
        /\ Len(refresh.read) = Len(CounterOrder)
        /\ currentStats' = [seqnum |-> refresh.seqnum, counts |-> counts,
                            winner |-> WinnerOf(counts)]
        /\ refresh' = NotRefreshing
        /\ UNCHANGED <<history, boardCounts, statsVars, captures, colorsSet, errors>>

-----------------------------------------------------------------------------
(* The statistics.                                                         *)

(* A change the client is told of counts until a poll has it.              *)
Applies(event, seqnum) == event.seqnum > seqnum

addNewMovesAndCaptures(event) ==
    stats' = IF Applies(event, stats.seqnum)
             THEN [stats EXCEPT !.toApply = Append(@, event),
                                !.delta = Plus(@, Heard(event.kind))]
             ELSE stats

WithoutVictim(kind) == [entries |-> kind.entries, victim |-> "nothing"]

(* The changes come in any order; the client is not told of those out of   *)
(* its zones.  handleMoves hands every move to the statistics, but a       *)
(* capture only if it still holds the piece: a newer snapshot, or the      *)
(* confirmation of the move that took it, may have removed it already.     *)
HearOf(event) ==
    /\ event \in unheard
    /\ unheard' = unheard \ {event}
    /\ \E kind \in {event.kind, WithoutVictim(event.kind)} :
         LET heard == [seqnum |-> event.seqnum, kind |-> kind]
         IN  told' = told \cup {heard} /\ addNewMovesAndCaptures(heard)
    /\ UNCHANGED <<serverVars, statsRequest, winner, captures, colorsSet, errors>>

PassOver(event) ==
    /\ event \in unheard
    /\ unheard' = unheard \ {event}
    /\ UNCHANGED <<serverVars, statsRequest, stats, winner, told, captures, colorsSet, errors>>

Mut_NothingIsStillToApply(toApply, seqnum) == <<>>
StillToApply(toApply, seqnum) ==
    FoldLeft(LAMBDA kept, e : IF Applies(e, seqnum) THEN Append(kept, e) ELSE kept,
             <<>>, toApply)

Mut_DeltaIsKept(toApply) == Plus(stats.delta, SumOver(Heard, toApply))
DeltaOf(toApply) == SumOver(Heard, toApply)

setGlobalStats(answer) ==
    LET toApply == StillToApply(stats.toApply, answer.seqnum)
    IN  stats' = [seqnum |-> answer.seqnum,
                  counts |-> answer.counts,
                  toApply |-> toApply,
                  delta |-> DeltaOf(toApply)]

Displayed == Plus(stats.counts, stats.delta)

NoAnswer == [seqnum |-> 0, counts |-> NoCounts, winner |-> ""]
PollTimer == [phase |-> "timer", answer |-> NoAnswer]

StatsPollStarts ==
    /\ statsRequest = PollTimer
    /\ statsRequest' = [phase |-> "asked", answer |-> NoAnswer]
    /\ UNCHANGED <<serverVars, stats, winner, unheard, told, captures, colorsSet, errors>>

ServeGlobalStats ==
    /\ statsRequest.phase = "asked"
    /\ statsRequest' = [phase |-> "answered", answer |-> currentStats]
    /\ UNCHANGED <<serverVars, stats, winner, unheard, told, captures, colorsSet, errors>>

(* A winner is announced, withdrawn or replaced as the answer says.        *)
StatsPollEnds ==
    /\ statsRequest.phase = "answered"
    /\ statsRequest' = PollTimer
    /\ winner' = statsRequest.answer.winner
    /\ setGlobalStats(statsRequest.answer)
    /\ UNCHANGED <<serverVars, unheard, told, captures, colorsSet, errors>>

StatsPollFails ==
    /\ statsRequest.phase # "timer"
    /\ errors < MaxErrors
    /\ errors' = errors + 1
    /\ statsRequest' = PollTimer
    /\ UNCHANGED <<serverVars, stats, winner, unheard, told, captures, colorsSet>>

-----------------------------------------------------------------------------
(* The recent captures.  stored: the timer in pollLoopTimeout is pending;  *)
(* orphans: pending timers that it no longer holds; requests: the colours  *)
(* of the requests under way.                                              *)

NoCaptures == [playingWhite |-> NoColor, stored |-> FALSE, orphans |-> 0,
               requests |-> <<>>, shown |-> NoColor]

runPollLoop(h) ==
    IF h.playingWhite = NoColor THEN h
    ELSE [h EXCEPT !.stored = FALSE, !.requests = Append(@, h.playingWhite)]

(* The finally clause, whatever the request came to.                       *)
SetTimer(h, i) ==
    [h EXCEPT !.requests = RemoveAt(@, i),
              !.orphans = IF h.stored THEN @ + 1 ELSE @,
              !.stored = TRUE]

(* By setCurrentColor, with the initial state of every connection.         *)
setColorAndRunPollLoop(color) ==
    /\ colorsSet < MaxColors
    /\ colorsSet' = colorsSet + 1
    /\ captures' = runPollLoop([captures EXCEPT !.stored = FALSE, !.playingWhite = color])
    /\ UNCHANGED <<serverVars, statsVars, errors>>

TimerFires ==
    /\ \/ /\ captures.stored
          /\ captures' = runPollLoop([captures EXCEPT !.stored = FALSE])
       \/ /\ captures.orphans > 0
          /\ captures' = runPollLoop([captures EXCEPT !.orphans = @ - 1])
    /\ UNCHANGED <<serverVars, statsVars, colorsSet, errors>>

CapturesPollEnds(i) ==
    /\ captures' = [SetTimer(captures, i) EXCEPT !.shown = captures.requests[i]]
    /\ UNCHANGED <<serverVars, statsVars, colorsSet, errors>>

CapturesPollFails(i) ==
    /\ errors < MaxErrors
    /\ errors' = errors + 1
    /\ captures' = SetTimer(captures, i)
    /\ UNCHANGED <<serverVars, statsVars, colorsSet>>

-----------------------------------------------------------------------------
PollingInit ==
    /\ history = <<>>
    /\ boardCounts = NoCounts
    /\ refresh = NotRefreshing
    /\ currentStats = NoAnswer
    /\ statsRequest = [phase |-> "asked", answer |-> NoAnswer]
    /\ stats = [seqnum |-> 0, counts |-> NoCounts, toApply |-> <<>>, delta |-> NoCounts]
    /\ winner = ""
    /\ unheard = {}
    /\ told = {}
    /\ captures = NoCaptures
    /\ colorsSet = 0
    /\ errors = 0

ServerRefreshes == RefreshStarts \/ RefreshReads \/ RefreshEnds
StatsPoll == StatsPollStarts \/ ServeGlobalStats \/ StatsPollEnds
CapturesPoll == TimerFires \/ \E i \in DOMAIN captures.requests : CapturesPollEnds(i)

StatsNext ==
    \/ \E kind \in Kinds : BoardChanges(kind)
    \/ ServerRefreshes
    \/ \E event \in unheard : HearOf(event) \/ PassOver(event)
    \/ StatsPoll
    \/ StatsPollFails

CapturesNext ==
    \/ \E color \in Colors : setColorAndRunPollLoop(color)
    \/ CapturesPoll
    \/ \E i \in DOMAIN captures.requests : CapturesPollFails(i)

PollingSpec == PollingInit /\ [][StatsNext \/ CapturesNext]_pollingVars

-----------------------------------------------------------------------------
(* The page never shows fewer moves or captures than its latest poll and   *)
(* what the statistics were told of since add up to, however polls and     *)
(* messages overtake each other (statsHandler.js:151-229).  They are told  *)
(* of every move that reaches the client, but only of captures of pieces   *)
(* that it still holds (pieceHandler.js:1147, 1190-1202).                  *)
NothingKnownIsForgotten ==
    \A c \in Counters :
        Displayed[c] >= Cardinality({n \in DOMAIN history :
            \/ n <= stats.seqnum /\ Counted(history[n])[c] = 1
            \/ \E e \in told : e.seqnum = n /\ Counted(e.kind)[c] = 1})

(* When the game comes to rest, the page shows its true counters and its   *)
(* winner, and the captures of the player's own colour.                    *)
CaughtUp ==
    /\ Displayed = boardCounts
    /\ winner = WinnerOf(boardCounts)
    /\ captures.shown = captures.playingWhite
=============================================================================
