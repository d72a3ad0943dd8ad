----------------------------- MODULE MCGameOver -----------------------------
(***************************************************************************)
(* Instances of GameOver for TLC.  `scenario' says what clients and        *)
(* administrators do in a behaviour of the instance for liveness: either   *)
(* one move and a bulk capture, with all that can happen to them, or       *)
(* several moves of a client that stays connected until the server shuts   *)
(* down, each of which gets as far as the channel.                         *)
(***************************************************************************)
EXTENDS GameOver

VARIABLE scenario

SeveralMoves ==
    /\ bulksAsked' = 0
    /\ \A c \in Clients : sent'[c] # sent[c] => pump'[c] = "sending"
    /\ closed' # closed => shutdown' # "no"

OneMove == \A c \in Clients : sent'[c] <= 1

\* Games of at most as many black kings as white ones, and of as many other
\* pieces.
GameInit ==
    Init /\ kings["white"] >= kings["black"] /\ others["white"] = others["black"]

ProgressInit == GameInit /\ scenario \in {"several moves", "one move"}

ProgressNext ==
    /\ Next /\ UNCHANGED scenario
    /\ scenario = "several moves" => SeveralMoves
    /\ scenario = "one move" => OneMove

ProgressSpec == ProgressInit /\ [][ProgressNext]_<<vars, scenario>> /\ Fairness

\* For safety anything may happen.
SafetyInit == GameInit /\ scenario = "anything"

SafetyNext == Next /\ UNCHANGED scenario

SafetySpec == SafetyInit /\ [][SafetyNext]_<<vars, scenario>>
=============================================================================
