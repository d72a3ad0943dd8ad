------------------------------- MODULE Session -------------------------------
(***************************************************************************)
(* The web client's connection and its view: the websocket with its        *)
(* reconnections, the coordinates the user looks at with the URL's hash,   *)
(* the debounced subscriptions, the snapshots the server answers with, and *)
(* the client's own idea of whether it is still loading.                   *)
(*                                                                         *)
(* Both axes are treated alike everywhere, so one coordinate stands for    *)
(* the pair.  Clocks are left out: a timer that is set may fire at any     *)
(* later moment, and what depends on how long ago something was is a       *)
(* choice.  A React effect runs with the update that triggers it.          *)
(***************************************************************************)
EXTENDS Integers, Sequences, FiniteSetsExt

CONSTANTS
    NoCoords,       \* null
    Clicked,        \* where a click on the minimap or on recent captures leads
    Typed,          \* hashes the user types
    DefaultPlaces,  \* where the server puts a client that names no place
    PanSteps,       \* by how much one gesture pans the view
    OuterSizes,     \* <<width, height>> the board's element can have, in pixels
    Budgets,        \* bound: pairs of how many gestures, and how many failed
                    \* attempts and broken connections, come together
    MaxWaiting      \* bound: no periodic snapshot while so many messages wait

MIN_COORD == 2
MAX_COORD == 7997
BOARD_SIZE == 8000
VIEW_RADIUS == 47
MAX_CLIENT_HALF_VIEW_RADIUS == 35
SNAPSHOT_THRESHOLD == VIEW_RADIUS - MAX_CLIENT_HALF_VIEW_RADIUS
MAX_COORD_DELTA == 50

(* Coordinates are integers, on the board or not, and null is none of      *)
(* those a view can have.                                                  *)
ASSUME SessionAssumption ==
    /\ NoCoords \notin MIN_COORD .. MAX_COORD
    /\ Clicked \subseteq Int /\ Typed \subseteq Int
    /\ DefaultPlaces \subseteq Int /\ PanSteps \subseteq Int

VARIABLES
    coords,             \* where the user looks
    url,                \* the hash of the URL
    replaceState,       \* what the timer of setCoords will write there
    showLargeBoard,     \* zoomed out
    outerSize,          \* the size of the board's element
    lastSnapshotCoords, \* pieceHandler.lastSnapshotCoords
    socket,             \* none, connecting, accepted (onopen is due), open, closed (onclose is due)
    connecting,         \* useWebsocket's flag
    connected,          \* WebsocketProvider's state
    failedReconnections,
    reconnectTimer,     \* reconnectTimeout is set
    currentCoords,      \* CoordsDebouncer.currentCoords
    requestTimer,       \* the coordinates when requestTimeout was set, or NoCoords
    uplink,             \* subscriptions on their way to the server
    downlink,           \* snapshots on their way to the client
    server,             \* the server's end: see Serving
    gestures, failures

viewVars == <<coords, url, replaceState>>
screenVars == <<showLargeBoard, outerSize>>
connectionVars == <<connecting, connected, failedReconnections, reconnectTimer>>
debouncerVars == <<currentCoords, requestTimer>>
linkVars == <<socket, uplink, downlink, server>>
sessionVars == <<viewVars, screenVars, lastSnapshotCoords, connectionVars,
                 debouncerVars, linkVars, gestures, failures>>

InBudget(g, f) == \E budget \in Budgets : g <= budget[1] /\ f <= budget[2]

Distance(a, b) == IF a > b THEN a - b ELSE b - a
Smaller(a, b) == Min({a, b})
Larger(a, b) == Max({a, b})
clamp(value, low, high) == Larger(low, Smaller(value, high))
InView(c) == clamp(c, MIN_COORD, MAX_COORD)

-----------------------------------------------------------------------------
(* The size of the view.                                                   *)

MIN_PIXELS_PER_SQUARE == 28
MAX_NUM_ZOOMED_IN_SQUARES == 35
MIN_NUM_ZOOMED_IN_SQUARES == 8

(* Squares grow until the long side shows few enough of them or the short  *)
(* side as few as it may.                                                  *)
SquarePx(long, short) ==
    Min({px \in MIN_PIXELS_PER_SQUARE .. MIN_PIXELS_PER_SQUARE + long :
           /\ px % 2 = 0
           /\ \/ long \div px <= MAX_NUM_ZOOMED_IN_SQUARES
              \/ short \div px <= MIN_NUM_ZOOMED_IN_SQUARES})

BoardSizeParams(size) ==
    LET long == Larger(size[1], size[2])
        short == Smaller(size[1], size[2])
        tiny == short < MIN_PIXELS_PER_SQUARE * MIN_NUM_ZOOMED_IN_SQUARES
        px == IF tiny THEN MIN_PIXELS_PER_SQUARE ELSE SquarePx(long, short)
        largeCount == IF tiny THEN long \div px
                      ELSE Smaller(long \div px, MAX_NUM_ZOOMED_IN_SQUARES)
        smallCount == IF tiny THEN short \div px
                      ELSE Larger(short \div px, MIN_NUM_ZOOMED_IN_SQUARES)
    IN  IF size[2] <= size[1]
        THEN [squareWidth |-> largeCount, squareHeight |-> smallCount]
        ELSE [squareWidth |-> smallCount, squareHeight |-> largeCount]

(* A zoomed out board shows twice the squares.                             *)
HalfWidth == LET squareWidth == BoardSizeParams(outerSize).squareWidth
             IN  IF showLargeBoard THEN (squareWidth * 2) \div 2 ELSE squareWidth \div 2

isLogicallyLoading ==
    \/ lastSnapshotCoords = NoCoords
    \/ coords = NoCoords
    \/ Distance(lastSnapshotCoords, coords) > VIEW_RADIUS - HalfWidth

-----------------------------------------------------------------------------
(* The server's end of a connection: where it believes the client looks,   *)
(* the last snapshot's place, and its three senders of snapshots, each of  *)
(* which reads the position first and sends later.                         *)

Senders == {"initial", "subscribe", "periodic"}
NotSending == [phase |-> "idle", at |-> NoCoords]
Wanted == [phase |-> "wanted", at |-> NoCoords]
ToSend(position) == [phase |-> "send", at |-> position]
NoServer == [position |-> NoCoords, lastSnapshot |-> NoCoords,
             sending |-> [w \in Senders |-> NotSending]]

(* NewClient and Run.                                                      *)
Serving(position) ==
    [position |-> position, lastSnapshot |-> position,
     sending |-> [[w \in Senders |-> NotSending] EXCEPT !["initial"] = Wanted]]

GetMaybeRequestedCoords(requested) ==
    IF requested \in 0 .. BOARD_SIZE - 1 THEN {requested} ELSE DefaultPlaces

shouldSendSnapshot(last, position) == Distance(last, position) > SNAPSHOT_THRESHOLD

(* The subscription's snapshot is sent by one goroutine at a time.         *)
UpdatePositionAndMaybeSnapshot(position) ==
    LET wanted == /\ shouldSendSnapshot(server.lastSnapshot, position)
                  /\ server.sending["subscribe"] = NotSending
    IN  server' = [server EXCEPT
                     !.position = position,
                     !.sending["subscribe"] = IF wanted THEN Wanted ELSE @]

HandleSubscribe ==
    /\ socket \in {"accepted", "open"}
    /\ uplink # <<>>
    /\ UpdatePositionAndMaybeSnapshot(Head(uplink))
    /\ uplink' = Tail(uplink)
    /\ UNCHANGED <<socket, downlink, viewVars, screenVars, lastSnapshotCoords,
                   connectionVars, debouncerVars, gestures, failures>>

ReadPosition(w) ==
    /\ socket \in {"accepted", "open"}
    /\ server.sending[w] = Wanted
    /\ server' = [server EXCEPT !.sending[w] = ToSend(server.position)]
    /\ UNCHANGED <<socket, uplink, downlink, viewVars, screenVars, lastSnapshotCoords,
                   connectionVars, debouncerVars, gestures, failures>>

PeriodicTick ==
    /\ socket \in {"accepted", "open"}
    /\ server.sending["periodic"] = NotSending
    /\ Len(downlink) < MaxWaiting
    /\ server' = [server EXCEPT !.sending["periodic"] = ToSend(server.position)]
    /\ UNCHANGED <<socket, uplink, downlink, viewVars, screenVars, lastSnapshotCoords,
                   connectionVars, debouncerVars, gestures, failures>>

(* sendInitialState, or SendStateSnapshot for the other two; the goroutine *)
(* of a subscription goes on while the client has moved too far away.      *)
SendSnapshot(w) ==
    LET at == server.sending[w].at
        last == IF w = "initial" THEN server.lastSnapshot ELSE at
        goesOn == w = "subscribe" /\ shouldSendSnapshot(last, server.position)
    IN  /\ socket \in {"accepted", "open"}
        /\ server.sending[w].phase = "send"
        /\ downlink' = Append(downlink, [kind |-> IF w = "initial" THEN "initialState"
                                                  ELSE "snapshot", at |-> at])
        /\ server' = [server EXCEPT
                        !.lastSnapshot = last,
                        !.sending[w] = IF goesOn THEN Wanted ELSE NotSending]
        /\ UNCHANGED <<socket, uplink, viewVars, screenVars, lastSnapshotCoords,
                       connectionVars, debouncerVars, gestures, failures>>

-----------------------------------------------------------------------------
(* The debouncer.                                                          *)

(* encodeAndSendIfOpen: what is said to a socket that is not open is lost. *)
Sent(position) ==
    uplink' = IF socket' = "open" THEN Append(uplink, position) ELSE uplink

(* A request goes out at once when none did for a while, and after a delay *)
(* otherwise; one that waits will carry the newest coordinates.            *)
Mut_TimerKeepsItsCoords == requestTimer
CoordsOfTimer == currentCoords

UpdateCoords(position) ==
    IF position \in {NoCoords, currentCoords} \/ ~connected'
    THEN UNCHANGED <<debouncerVars, uplink>>
    ELSE /\ currentCoords' = position
         /\ \/ requestTimer # NoCoords /\ UNCHANGED <<requestTimer, uplink>>
            \/ requestTimer = NoCoords /\ Sent(position) /\ UNCHANGED requestTimer
            \/ requestTimer = NoCoords /\ requestTimer' = position /\ UNCHANGED uplink

RequestTimerFires ==
    /\ requestTimer # NoCoords
    /\ requestTimer' = NoCoords
    /\ UNCHANGED socket
    /\ Sent(CoordsOfTimer)
    /\ UNCHANGED <<currentCoords, downlink, server, viewVars, screenVars,
                   lastSnapshotCoords, connectionVars, gestures, failures>>

-----------------------------------------------------------------------------
(* Where the user looks.                                                   *)

setCoords(position, updateHash) ==
    /\ coords' = InView(position)
    /\ replaceState' = IF updateHash THEN InView(position) ELSE replaceState
    /\ UpdateCoords(InView(position))

ReplaceStateFires ==
    /\ replaceState # NoCoords
    /\ url' = replaceState
    /\ replaceState' = NoCoords
    /\ UNCHANGED <<coords, screenVars, lastSnapshotCoords, connectionVars,
                   debouncerVars, linkVars, gestures, failures>>

Gesture ==
    /\ InBudget(gestures + 1, failures)
    /\ gestures' = gestures + 1
    /\ UNCHANGED <<lastSnapshotCoords, failures>>

(* Arrow keys, buttons and drags; a drag before the first coordinates      *)
(* starts from null, which counts as zero.                                 *)
Pan(step) ==
    /\ Gesture
    /\ UNCHANGED <<url, screenVars, connectionVars, socket, downlink, server>>
    /\ setCoords((IF coords = NoCoords THEN 0 ELSE coords) + step, TRUE)

(* A click on the minimap, or on the button of recent captures.            *)
Jump(place) ==
    /\ Gesture
    /\ UNCHANGED <<url, screenVars, connectionVars, socket, downlink, server>>
    /\ setCoords(place, TRUE)

(* A hash typed into the address bar.                                      *)
HashChange(place) ==
    /\ Gesture
    /\ url # place
    /\ url' = place
    /\ UNCHANGED <<screenVars, connectionVars, socket, downlink, server>>
    /\ setCoords(place, FALSE)

Zoom ==
    /\ Gesture
    /\ showLargeBoard' = ~showLargeBoard
    /\ UNCHANGED <<outerSize, viewVars, connectionVars, debouncerVars, linkVars>>

Resize(size) ==
    /\ Gesture
    /\ size # outerSize
    /\ outerSize' = size
    /\ UNCHANGED <<showLargeBoard, viewVars, connectionVars, debouncerVars, linkVars>>

-----------------------------------------------------------------------------
(* The connection.                                                         *)

(* A hash may hold any coordinates; those of the board are asked for.      *)
computeInitialArguments ==
    IF url = NoCoords THEN NoCoords ELSE clamp(url, 0, BOARD_SIZE - 1)

(* connect(): the attempt names the place in the URL of that moment.       *)
ConnectUnless(busy) ==
    IF busy THEN /\ connecting' = busy
                 /\ socket' = "none"
                 /\ UNCHANGED <<uplink, downlink, server>>
    ELSE /\ connecting' = TRUE
         /\ socket' = "connecting"
         /\ uplink' = <<>>
         /\ downlink' = <<>>
         /\ server' = [NoServer EXCEPT !.position = computeInitialArguments]

Accept ==
    /\ socket = "connecting"
    /\ socket' = "accepted"
    /\ \E position \in GetMaybeRequestedCoords(server.position) :
           server' = Serving(position)
    /\ UNCHANGED <<uplink, downlink, viewVars, screenVars, lastSnapshotCoords,
                   connectionVars, debouncerVars, gestures, failures>>

OnOpen ==
    /\ socket = "accepted"
    /\ socket' = "open"
    /\ connecting' = FALSE
    /\ connected' = TRUE
    /\ failedReconnections' = 0
    /\ UpdateCoords(coords)
    /\ UNCHANGED <<downlink, server, viewVars, screenVars, lastSnapshotCoords,
                   reconnectTimer, gestures, failures>>

(* An attempt fails, or either end or the network closes the connection:   *)
(* all that was on its way is lost.                                        *)
Break ==
    /\ InBudget(gestures, failures + 1)
    /\ failures' = failures + 1
    /\ socket \in {"connecting", "accepted", "open"}
    /\ socket' = "closed"
    /\ uplink' = <<>>
    /\ downlink' = <<>>
    /\ server' = NoServer
    /\ UNCHANGED <<viewVars, screenVars, lastSnapshotCoords, connectionVars,
                   debouncerVars, gestures>>

(* The first failure reconnects at once, later ones after a growing sleep. *)
Mut_StillConnecting == connecting
ConnectingOnceClosed == FALSE

OnClose ==
    /\ socket = "closed"
    /\ connected' = FALSE
    /\ failedReconnections' = Smaller(5, failedReconnections + 1)
    /\ IF failedReconnections = 0
       THEN ConnectUnless(ConnectingOnceClosed) /\ UNCHANGED reconnectTimer
       ELSE /\ reconnectTimer' = TRUE
            /\ connecting' = ConnectingOnceClosed
            /\ socket' = "none"
            /\ UNCHANGED <<uplink, downlink, server>>
    /\ UNCHANGED <<viewVars, screenVars, lastSnapshotCoords, debouncerVars,
                   gestures, failures>>

(* The sleep ends, or the page becomes visible again before that.          *)
ReconnectTimerFires ==
    /\ reconnectTimer
    /\ reconnectTimer' = FALSE
    /\ socket = "none"
    /\ ConnectUnless(connecting)
    /\ UNCHANGED <<connected, failedReconnections, viewVars, screenVars,
                   lastSnapshotCoords, debouncerVars, gestures, failures>>

-----------------------------------------------------------------------------
(* What the server says.                                                   *)

(* A snapshot far from where the client looks is dropped.                  *)
handleSnapshot(at, looksAt) ==
    lastSnapshotCoords' =
        IF looksAt # NoCoords /\ Distance(looksAt, at) > MAX_COORD_DELTA
        THEN lastSnapshotCoords ELSE at

(* React may run the updater of setCoords at once or after the handler, so *)
(* the snapshot is judged by the new coordinates or by the old ones.       *)
ReceiveInitialState ==
    /\ socket = "open"
    /\ downlink # <<>>
    /\ Head(downlink).kind = "initialState"
    /\ downlink' = Tail(downlink)
    /\ UNCHANGED <<url, screenVars, connectionVars, socket, server, gestures, failures>>
    /\ setCoords(Head(downlink).at, TRUE)
    /\ \E looksAt \in {coords, coords'} : handleSnapshot(Head(downlink).at, looksAt)

ReceiveSnapshot ==
    /\ socket = "open"
    /\ downlink # <<>>
    /\ Head(downlink).kind = "snapshot"
    /\ downlink' = Tail(downlink)
    /\ handleSnapshot(Head(downlink).at, coords)
    /\ UNCHANGED <<viewVars, screenVars, connectionVars, debouncerVars, socket, uplink,
                   server, gestures, failures>>

-----------------------------------------------------------------------------
(* A page opened with or without a place in its hash.                      *)
SessionInit ==
    /\ url \in Typed \cup {NoCoords}
    /\ coords = IF url = NoCoords THEN NoCoords ELSE InView(computeInitialArguments)
    /\ replaceState = NoCoords
    /\ showLargeBoard = FALSE
    /\ outerSize \in OuterSizes
    /\ lastSnapshotCoords = NoCoords
    /\ socket = "connecting"
    /\ connecting = TRUE
    /\ connected = FALSE
    /\ failedReconnections = 0
    /\ reconnectTimer = FALSE
    /\ currentCoords = NoCoords
    /\ requestTimer = NoCoords
    /\ uplink = <<>>
    /\ downlink = <<>>
    /\ server = [NoServer EXCEPT !.position = computeInitialArguments]
    /\ gestures = 0
    /\ failures = 0

UserActs ==
    \/ \E step \in PanSteps : Pan(step)
    \/ \E place \in Clicked : Jump(place)
    \/ \E place \in Typed : HashChange(place)
    \/ Zoom
    \/ \E size \in OuterSizes : Resize(size)

ServerActs ==
    \/ HandleSubscribe
    \/ PeriodicTick
    \/ \E w \in Senders : ReadPosition(w) \/ SendSnapshot(w)

ConnectionActs == Accept \/ OnOpen \/ OnClose \/ ReconnectTimerFires

ClientActs ==
    \/ ReceiveInitialState
    \/ ReceiveSnapshot
    \/ RequestTimerFires
    \/ ReplaceStateFires

SessionNext == UserActs \/ ServerActs \/ ConnectionActs \/ ClientActs \/ Break

SessionSpec == SessionInit /\ [][SessionNext]_sessionVars

-----------------------------------------------------------------------------
(* Once the initial state has arrived and nothing is on its way, the       *)
(* server serves the place the user looks at: moves there reach the        *)
(* client, whatever was lost, debounced or typed before.                   *)
SubscribedWhereItLooks ==
    (/\ socket = "open"
     /\ connected
     /\ uplink = <<>>
     /\ requestTimer = NoCoords
     /\ server.sending["initial"] = NotSending
     /\ \A i \in DOMAIN downlink : downlink[i].kind # "initialState")
    => InView(server.position) = coords

(* When the user and the network come to rest, the client is connected,    *)
(* served where it looks, and shows that place instead of a loading view.  *)
Settled ==
    /\ socket = "open"
    /\ connected
    /\ InView(server.position) = coords
    /\ ~isLogicallyLoading
=============================================================================
