----------------------------- MODULE MCWebClient -----------------------------
(***************************************************************************)
(* The parts of the web client that do not share state, one of which runs  *)
(* in a behaviour while the others stay as they start.                     *)
(***************************************************************************)
EXTENDS OptimisticState, Session, Polling, Wire

VARIABLE part       \* the part that runs

vars == <<part, optimisticVars, sessionVars, pollingVars, wireVars>>

MCPanSteps == {-13}
MCOuterSizes == {<<980, 700>>}
MCBudgets == {<<2, 0>>, <<1, 2>>}
MCKinds == {[entries |-> 2, victim |-> "nothing"],
            [entries |-> 1, victim |-> "blackKing"],
            [entries |-> 0, victim |-> "whitePiece"]}

PartsInit ==
    /\ part \in {"optimistic", "session", "stats", "captures", "wire"}
    /\ Init /\ SessionInit /\ PollingInit /\ WireInit
    /\ part = "session" \/ url = NoCoords

OptimisticRuns == /\ part = "optimistic" /\ Next
                  /\ UNCHANGED <<part, sessionVars, pollingVars, wireVars>>
SessionRuns == /\ part = "session" /\ SessionNext
               /\ UNCHANGED <<part, optimisticVars, pollingVars, wireVars>>
StatsRun == /\ part = "stats" /\ StatsNext
            /\ UNCHANGED <<part, optimisticVars, sessionVars, wireVars>>
CapturesRun == /\ part = "captures" /\ CapturesNext
               /\ UNCHANGED <<part, optimisticVars, sessionVars, wireVars>>
WireRuns == /\ part = "wire" /\ WireNext
            /\ UNCHANGED <<part, optimisticVars, sessionVars, pollingVars>>

PartsNext == OptimisticRuns \/ SessionRuns \/ StatsRun \/ CapturesRun \/ WireRuns

(* Of the session that runs, timers fire, messages arrive and the server's *)
(* goroutines go on.                                                       *)
SessionFairness ==
    /\ WF_sessionVars(part = "session" /\ ConnectionActs)
    /\ WF_sessionVars(part = "session" /\ (ReceiveInitialState \/ ReceiveSnapshot))
    /\ WF_sessionVars(part = "session" /\ RequestTimerFires)
    /\ WF_sessionVars(part = "session" /\ HandleSubscribe)
    /\ WF_sessionVars(part = "session" /\ PeriodicTick)
    /\ \A w \in Senders :
          WF_sessionVars(part = "session" /\ (ReadPosition(w) \/ SendSnapshot(w)))

(* Refreshes, polls and their timers go on.                                *)
PollingFairness ==
    /\ WF_pollingVars(part = "stats" /\ ServerRefreshes)
    /\ WF_pollingVars(part = "stats" /\ StatsPoll)
    /\ WF_pollingVars(part = "captures" /\ CapturesPoll)

PartsSpec == PartsInit /\ [][PartsNext]_vars /\ SessionFairness /\ PollingFairness

(* When the user, the network and the game come to rest, the client is     *)
(* connected, served where it looks, and shows that place                  *)
(* (WebsocketProvider.jsx, pieceHandler.js handleSnapshot, client.go       *)
(* Subscribe); the page shows the true counters, their winner, and the     *)
(* captures of the player's colour (statsHandler.js,                       *)
(* recentCapturesHandler.js).                                              *)
ComesToRest == <>[](/\ part = "session" => Settled
                    /\ part \in {"stats", "captures"} => CaughtUp)
=============================================================================
