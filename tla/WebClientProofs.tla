--------------------------- MODULE WebClientProofs ---------------------------
(***************************************************************************)
(* Theorems about the two parts of the web client around its pieces.       *)
(*                                                                         *)
(* Session: what keeps the server's idea of the place a client looks at in *)
(* step with the client, for every timing of the debouncer, the goroutines *)
(* and the network, and without the bounds.                                *)
(*                                                                         *)
(* Polling: what the page shows covers all the client knows of, whatever   *)
(* the order of polls, refreshes and messages.  The server's statistics    *)
(* are read one counter at a time while the board goes on changing, so     *)
(* what is read can be ahead of the sequence number it is stored with, and *)
(* never behind; and the client's own additions cover what it heard of     *)
(* since that number, because the numbers of its polls never go back.      *)
(***************************************************************************)
EXTENDS Session, Polling, FiniteSetTheorems, SequenceTheorems, WellFoundedInduction, TLAPS

-----------------------------------------------------------------------------
(* Session.                                                                *)

View == MIN_COORD .. MAX_COORD
Place == Int \cup {NoCoords}

(* What is sent carries coordinates; null is sent by nobody.               *)
SessionTypes ==
    /\ coords \in View \cup {NoCoords}
    /\ url \in Place /\ replaceState \in Place
    /\ currentCoords \in View \cup {NoCoords}
    /\ requestTimer \in View \cup {NoCoords}
    /\ requestTimer # NoCoords => currentCoords \in View
    /\ uplink \in Seq(View)
    /\ downlink \in Seq([kind : {"initialState", "snapshot"}, at : Int])
    /\ server \in [position : Place, lastSnapshot : Place,
                   sending : [Senders -> [phase : {"idle", "wanted", "send"}, at : Place]]]
    /\ \A w \in Senders :
          server.sending[w].phase = "send" => server.sending[w].at \in Int
    /\ socket \in {"accepted", "open"} => server.position \in Int

(* The initial state is still to come.                                     *)
InitialInDownlink == \E i \in DOMAIN downlink : downlink[i].kind = "initialState"
InitialPending == server.sending["initial"] # NotSending \/ InitialInDownlink

(* It will show the place the server has now, if the server has read that  *)
(* place already.                                                          *)
InitialIsOfPosition ==
    /\ server.sending["initial"].phase = "send" =>
          server.sending["initial"].at = server.position
    /\ \A i \in DOMAIN downlink :
          downlink[i].kind = "initialState" => downlink[i].at = server.position

(* The last thing the server will hear if the user does nothing more, and  *)
(* that the debouncer believes in it.                                      *)
LastWord == IF requestTimer # NoCoords THEN currentCoords
            ELSE IF uplink # <<>> THEN uplink[Len(uplink)]
            ELSE server.position
Told == InView(LastWord) = currentCoords

LinkInv ==
    /\ socket # "open" => uplink = <<>>
    /\ socket \notin {"accepted", "open"} => downlink = <<>>

AcceptedInv == socket = "accepted" => InitialPending /\ InitialIsOfPosition

(* Before the initial state arrives the debouncer may be wrong about what  *)
(* the server believes, but only as long as it says nothing: then the      *)
(* initial state will correct it.                                          *)
OpenInv ==
    socket = "open" =>
        /\ connected
        /\ InitialPending =>
              \/ Told
              \/ /\ requestTimer = NoCoords
                 /\ uplink = <<>>
                 /\ InitialIsOfPosition
        /\ ~InitialPending => Told /\ coords = currentCoords

SInv == SessionTypes /\ LinkInv /\ AcceptedInv /\ OpenInv

-----------------------------------------------------------------------------
LEMMA LargerFact ==
    ASSUME NEW a \in Int, NEW b \in Int
    PROVE  Larger(a, b) = IF a > b THEN a ELSE b
<1> DEFINE m == IF a > b THEN a ELSE b
<1>1. m \in {a, b} /\ \A y \in {a, b} : m >= y
  OBVIOUS
<1>2. \A x \in {a, b} : (\A y \in {a, b} : x >= y) => x = m
  OBVIOUS
<1> HIDE DEF m
<1>3. Max({a, b}) = m
  BY <1>1, <1>2 DEF Max
<1> QED BY <1>3 DEF Larger, m

LEMMA SmallerFact ==
    ASSUME NEW a \in Int, NEW b \in Int
    PROVE  Smaller(a, b) = IF a < b THEN a ELSE b
<1> DEFINE m == IF a < b THEN a ELSE b
<1>1. m \in {a, b} /\ \A y \in {a, b} : y >= m
  OBVIOUS
<1>2. \A x \in {a, b} : (\A y \in {a, b} : y >= x) => x = m
  OBVIOUS
<1> HIDE DEF m
<1>3. Min({a, b}) = m
  BY <1>1, <1>2 DEF Min
<1> QED BY <1>3 DEF Smaller, m

(* clamp moves a coordinate into the view, and leaves one that is there.   *)
LEMMA ClampFact ==
    ASSUME NEW c \in Int, NEW low \in Int, NEW high \in Int, low <= high
    PROVE  /\ clamp(c, low, high) \in low .. high
           /\ c \in low .. high => clamp(c, low, high) = c
<1> DEFINE a == Smaller(c, high)
           m == Larger(low, a)
<1>1. a = IF c < high THEN c ELSE high
  BY SmallerFact
<1> HIDE DEF a
<1>2. a \in Int
  BY <1>1
<1>3. m = IF low > a THEN low ELSE a
  BY <1>2, LargerFact
<1> HIDE DEF m
<1>4. m \in low .. high /\ (c \in low .. high => m = c)
  BY <1>1, <1>2, <1>3
<1> QED BY <1>4 DEF clamp, m, a

LEMMA InViewFact ==
    ASSUME NEW c \in Int
    PROVE  InView(c) \in View /\ (c \in View => InView(c) = c)
<1>1. MIN_COORD \in Int /\ MAX_COORD \in Int /\ MIN_COORD <= MAX_COORD
  BY DEF MIN_COORD, MAX_COORD
<1> QED BY <1>1, ClampFact DEF InView, View

LEMMA ViewFact ==
    /\ View \subseteq Int
    /\ NoCoords \notin View
    /\ NoCoords \in Place /\ View \subseteq Place /\ Int \subseteq Place
BY SessionAssumption DEF View, Place

(* The variables the invariant speaks of.                                  *)
coreVars == <<coords, url, replaceState, connected, currentCoords,
              requestTimer, socket, uplink, downlink, server>>

LEMMA CoreUnchanged == ASSUME SInv, UNCHANGED coreVars PROVE SInv'
BY DEF SInv, coreVars, SessionTypes, LinkInv, AcceptedInv, OpenInv,
       InitialPending, InitialInDownlink, InitialIsOfPosition, LastWord, Told

(* Whatever the debouncer does with new coordinates, either it knew them   *)
(* or it sees to it that they become the last word.                        *)
LEMMA UpdateTells ==
    ASSUME SInv, NEW p \in View, UpdateCoords(p), connected', socket' = "open",
           server' = server
    PROVE  \/ p = currentCoords /\ UNCHANGED <<currentCoords, requestTimer, uplink>>
           \/ currentCoords' = p /\ Told'
<1>1. CASE p \in {NoCoords, currentCoords}
  BY <1>1, ViewFact DEF UpdateCoords, debouncerVars
<1>2. CASE p \notin {NoCoords, currentCoords}
  <2>1. currentCoords' = p
    BY <1>2 DEF UpdateCoords
  <2>2. InView(p) = p
    BY ViewFact, InViewFact
  <2>3. LastWord' = p
    <3>1. CASE requestTimer' # NoCoords
      BY <2>1, <3>1 DEF LastWord
    <3>2. CASE requestTimer' = NoCoords
      <4>1. uplink' = Append(uplink, p)
        BY <1>2, <3>2, ViewFact DEF UpdateCoords, Sent
      <4>2. uplink \in Seq(View)
        BY DEF SInv, SessionTypes
      <4>3. uplink' # <<>> /\ uplink'[Len(uplink')] = p
        BY <4>1, <4>2
      <4> QED BY <3>2, <4>3 DEF LastWord
    <3> QED BY <3>1, <3>2
  <2> QED BY <2>1, <2>2, <2>3 DEF Told
<1> QED BY <1>1, <1>2

(* The same step keeps the debouncer's variables typed, whatever the       *)
(* state of the connection, and says nothing unless it is open.            *)
LEMMA UpdateTypes ==
    ASSUME SInv, NEW p \in View \cup {NoCoords}, UpdateCoords(p)
    PROVE  /\ currentCoords' \in View \cup {NoCoords}
           /\ requestTimer' \in View \cup {NoCoords}
           /\ requestTimer' # NoCoords => currentCoords' \in View
           /\ uplink' \in Seq(View)
           /\ socket' # "open" => uplink' = uplink
<1>1. /\ currentCoords \in View \cup {NoCoords}
      /\ requestTimer \in View \cup {NoCoords}
      /\ requestTimer # NoCoords => currentCoords \in View
      /\ uplink \in Seq(View)
  BY DEF SInv, SessionTypes
<1>2. CASE p \in {NoCoords, currentCoords} \/ ~connected'
  BY <1>1, <1>2 DEF UpdateCoords, debouncerVars
<1>3. CASE ~(p \in {NoCoords, currentCoords} \/ ~connected')
  <2>1. p \in View /\ currentCoords' = p
    BY <1>3 DEF UpdateCoords
  <2>2. \/ requestTimer # NoCoords /\ UNCHANGED <<requestTimer, uplink>>
        \/ requestTimer = NoCoords /\ Sent(p) /\ UNCHANGED requestTimer
        \/ requestTimer = NoCoords /\ requestTimer' = p /\ UNCHANGED uplink
    BY <1>3 DEF UpdateCoords
  <2>3. Sent(p) => uplink' \in Seq(View) /\ (socket' # "open" => uplink' = uplink)
    BY <1>1, <2>1 DEF Sent
  <2> QED BY <1>1, <2>1, <2>2, <2>3
<1> QED BY <1>2, <1>3

(* A move of the view, by the user.                                        *)
LEMMA ViewMoves ==
    ASSUME SInv, NEW c \in Int, coords' = InView(c), UpdateCoords(InView(c)),
           url' \in Place, replaceState' \in Place,
           UNCHANGED <<connected, socket, downlink, server>>
    PROVE  SInv'
<1>1. InView(c) \in View
  BY InViewFact
<1>2. SessionTypes'
  BY <1>1, UpdateTypes DEF SInv, SessionTypes
<1>3. LinkInv'
  BY <1>1, UpdateTypes DEF SInv, LinkInv
<1>4. AcceptedInv'
  BY DEF SInv, AcceptedInv, InitialPending, InitialInDownlink, InitialIsOfPosition
<1>5. OpenInv'
  <2> SUFFICES ASSUME socket = "open"
               PROVE  /\ connected
                      /\ InitialPending =>
                            \/ Told'
                            \/ /\ requestTimer' = NoCoords
                               /\ uplink' = <<>>
                               /\ InitialIsOfPosition
                      /\ ~InitialPending => Told' /\ coords' = currentCoords'
    BY DEF OpenInv, InitialPending, InitialInDownlink, InitialIsOfPosition
  <2>1. /\ connected
        /\ InitialPending =>
              \/ Told
              \/ requestTimer = NoCoords /\ uplink = <<>> /\ InitialIsOfPosition
        /\ ~InitialPending => Told /\ coords = currentCoords
    BY DEF SInv, OpenInv
  <2>2. \/ InView(c) = currentCoords /\ UNCHANGED <<currentCoords, requestTimer, uplink>>
        \/ currentCoords' = InView(c) /\ Told'
    BY <1>1, <2>1, UpdateTells
  <2>3. UNCHANGED <<currentCoords, requestTimer, uplink>> => Told' = Told
    BY DEF Told, LastWord
  <2> QED BY <2>1, <2>2, <2>3
<1> QED BY <1>2, <1>3, <1>4, <1>5 DEF SInv

LEMMA UserInv == ASSUME SInv, UserActs PROVE SInv'
<1>1. ASSUME NEW step \in PanSteps, Pan(step) PROVE SInv'
  <2> DEFINE c == (IF coords = NoCoords THEN 0 ELSE coords) + step
  <2>1. c \in Int
    BY SessionAssumption, ViewFact DEF SInv, SessionTypes
  <2> HIDE DEF c
  <2>2. /\ coords' = InView(c) /\ replaceState' = InView(c) /\ UpdateCoords(InView(c))
        /\ url' = url /\ UNCHANGED <<connected, socket, downlink, server>>
    BY <1>1 DEF Pan, setCoords, connectionVars, c
  <2> QED BY <2>1, <2>2, ViewMoves, InViewFact, ViewFact DEF SInv, SessionTypes
<1>2. ASSUME NEW c \in Clicked, Jump(c) PROVE SInv'
  <2>1. c \in Int
    BY SessionAssumption
  <2>2. /\ coords' = InView(c) /\ replaceState' = InView(c) /\ UpdateCoords(InView(c))
        /\ url' = url /\ UNCHANGED <<connected, socket, downlink, server>>
    BY <1>2 DEF Jump, setCoords, connectionVars
  <2> QED BY <2>1, <2>2, ViewMoves, InViewFact, ViewFact DEF SInv, SessionTypes
<1>3. ASSUME NEW c \in Typed, HashChange(c) PROVE SInv'
  <2>1. c \in Int
    BY SessionAssumption
  <2>2. /\ coords' = InView(c) /\ replaceState' = replaceState /\ UpdateCoords(InView(c))
        /\ url' = c /\ UNCHANGED <<connected, socket, downlink, server>>
    BY <1>3 DEF HashChange, setCoords, connectionVars
  <2> QED BY <2>1, <2>2, ViewMoves, ViewFact DEF SInv, SessionTypes
<1>4. CASE Zoom
  BY <1>4, CoreUnchanged DEF Zoom, viewVars, connectionVars, debouncerVars, linkVars, coreVars
<1>5. ASSUME NEW size, Resize(size) PROVE SInv'
  BY <1>5, CoreUnchanged DEF Resize, viewVars, connectionVars, debouncerVars, linkVars, coreVars
<1> QED BY <1>1, <1>2, <1>3, <1>4, <1>5 DEF UserActs

(* What the parts of the invariant that speak of a snapshot on its way     *)
(* become when one more is sent.                                           *)
LEMMA AppendDownlink ==
    ASSUME SessionTypes, NEW m \in [kind : {"initialState", "snapshot"}, at : Int],
           downlink' = Append(downlink, m)
    PROVE  /\ downlink' \in Seq([kind : {"initialState", "snapshot"}, at : Int])
           /\ InitialInDownlink' <=> InitialInDownlink \/ m.kind = "initialState"
           /\ \A i \in DOMAIN downlink' :
                 downlink'[i] = m \/ \E j \in DOMAIN downlink : downlink'[i] = downlink[j]
<1>1. downlink \in Seq([kind : {"initialState", "snapshot"}, at : Int])
  BY DEF SessionTypes
<1>2. /\ downlink' \in Seq([kind : {"initialState", "snapshot"}, at : Int])
      /\ DOMAIN downlink' = 1 .. Len(downlink) + 1
      /\ DOMAIN downlink = 1 .. Len(downlink) /\ Len(downlink) \in Nat
      /\ \A i \in 1 .. Len(downlink) : downlink'[i] = downlink[i]
      /\ downlink'[Len(downlink) + 1] = m
  BY <1>1
<1>3. \A i \in DOMAIN downlink' : i \in DOMAIN downlink \/ i = Len(downlink) + 1
  BY <1>2
<1>4. Len(downlink) + 1 \in DOMAIN downlink' /\ DOMAIN downlink \subseteq DOMAIN downlink'
  BY <1>2
<1> QED BY <1>2, <1>3, <1>4 DEF InitialInDownlink

LEMMA TailDownlink ==
    ASSUME SessionTypes, downlink # <<>>, downlink' = Tail(downlink)
    PROVE  /\ downlink' \in Seq([kind : {"initialState", "snapshot"}, at : Int])
           /\ Head(downlink) \in [kind : {"initialState", "snapshot"}, at : Int]
           /\ Head(downlink).kind = "snapshot" => (InitialInDownlink' <=> InitialInDownlink)
           /\ 1 \in DOMAIN downlink /\ downlink[1] = Head(downlink)
           /\ \A i \in DOMAIN downlink' :
                 \E j \in DOMAIN downlink : downlink'[i] = downlink[j]
<1>1. downlink \in Seq([kind : {"initialState", "snapshot"}, at : Int])
  BY DEF SessionTypes
<1>2. /\ downlink' \in Seq([kind : {"initialState", "snapshot"}, at : Int])
      /\ Head(downlink) \in [kind : {"initialState", "snapshot"}, at : Int]
      /\ Len(downlink) \in Nat \ {0} /\ Head(downlink) = downlink[1]
      /\ DOMAIN downlink = 1 .. Len(downlink)
      /\ DOMAIN downlink' = 1 .. Len(downlink) - 1
      /\ \A i \in 1 .. Len(downlink) - 1 : downlink'[i] = downlink[i + 1]
  <2>0. Len(downlink) \in Nat \ {0} /\ Head(downlink) = downlink[1]
    BY <1>1
  <2>1. /\ Len(downlink') = Len(downlink) - 1
        /\ \A i \in 1 .. Len(downlink') : downlink'[i] = downlink[i + 1]
        /\ downlink' \in Seq([kind : {"initialState", "snapshot"}, at : Int])
        /\ Head(downlink) \in [kind : {"initialState", "snapshot"}, at : Int]
    BY <1>1, HeadTailProperties
  <2>2. DOMAIN downlink = 1 .. Len(downlink) /\ DOMAIN downlink' = 1 .. Len(downlink')
    BY <1>1, <2>1
  <2> QED BY <2>0, <2>1, <2>2
<1>3. \A i \in DOMAIN downlink' : i + 1 \in DOMAIN downlink /\ downlink'[i] = downlink[i + 1]
  BY <1>2
<1>4. \A j \in DOMAIN downlink : j = 1 \/ (j - 1 \in DOMAIN downlink' /\ downlink'[j - 1] = downlink[j])
  BY <1>2
<1>5. 1 \in DOMAIN downlink
  BY <1>2
<1>6. Head(downlink).kind = "snapshot" => (InitialInDownlink' <=> InitialInDownlink)
  <2>1. InitialInDownlink' => InitialInDownlink
    BY <1>3 DEF InitialInDownlink
  <2>2. ASSUME Head(downlink).kind = "snapshot", InitialInDownlink
        PROVE  InitialInDownlink'
    <3>1. PICK j \in DOMAIN downlink : downlink[j].kind = "initialState"
      BY <2>2 DEF InitialInDownlink
    <3>2. j # 1
      BY <1>2, <2>2, <3>1
    <3> QED BY <1>4, <3>1, <3>2 DEF InitialInDownlink
  <2> QED BY <2>1, <2>2
<1> QED BY <1>2, <1>3, <1>5, <1>6

(* A step of the server that leaves the position, the debouncer and the    *)
(* subscriptions alone, and keeps what is pending pending.                 *)
LEMMA ServerStep ==
    ASSUME SInv, SessionTypes',
           socket \in {"accepted", "open"},
           UNCHANGED <<coords, connected, currentCoords, requestTimer, socket, uplink>>,
           server'.position = server.position,
           InitialPending' <=> InitialPending,
           InitialIsOfPosition => InitialIsOfPosition'
    PROVE  SInv'
<1>1. Told' <=> Told
  BY DEF Told, LastWord
<1> QED BY <1>1 DEF SInv, LinkInv, AcceptedInv, OpenInv

LEMMA ServerFields ==
    ASSUME SInv
    PROVE  /\ \A w \in Senders : server.sending[w] \in
                 [phase : {"idle", "wanted", "send"}, at : Place]
           /\ server.position \in Place /\ server.lastSnapshot \in Place
           /\ "initial" \in Senders /\ "subscribe" \in Senders /\ "periodic" \in Senders
           /\ NotSending \in [phase : {"idle", "wanted", "send"}, at : Place]
           /\ Wanted \in [phase : {"idle", "wanted", "send"}, at : Place]
           /\ \A c \in Place : ToSend(c) \in [phase : {"idle", "wanted", "send"}, at : Place]
           /\ NotSending.phase = "idle" /\ Wanted.phase = "wanted"
           /\ \A c : ToSend(c).phase = "send" /\ ToSend(c).at = c
BY DEF SInv, SessionTypes, Senders, NotSending, Wanted, ToSend, Place

LEMMA HandleSubscribeInv == ASSUME SInv, HandleSubscribe PROVE SInv'
<1> DEFINE p == Head(uplink)
<1>1. /\ socket \in {"accepted", "open"} /\ uplink # <<>> /\ uplink' = Tail(uplink)
      /\ UNCHANGED <<coords, url, replaceState, connected, currentCoords, requestTimer,
                     socket, downlink>>
  BY DEF HandleSubscribe, viewVars, connectionVars, debouncerVars
<1>2. socket = "open"
  BY <1>1 DEF SInv, LinkInv
<1>3. PICK f \in {server.sending, [server.sending EXCEPT !["subscribe"] = Wanted]} :
         server' = [server EXCEPT !.position = p, !.sending = f]
  <2> DEFINE g == IF /\ shouldSendSnapshot(server.lastSnapshot, p)
                     /\ server.sending["subscribe"] = NotSending
                  THEN Wanted ELSE server.sending["subscribe"]
             f == [server.sending EXCEPT !["subscribe"] = g]
  <2>1. server' = [server EXCEPT !.position = p, !.sending = f]
    BY DEF HandleSubscribe, UpdatePositionAndMaybeSnapshot, SInv, SessionTypes
  <2>2. f = server.sending \/ f = [server.sending EXCEPT !["subscribe"] = Wanted]
    BY DEF SInv, SessionTypes
  <2> HIDE DEF f, g
  <2> QED BY <2>1, <2>2
<1>4. /\ uplink \in Seq(View) /\ p \in View /\ uplink' \in Seq(View)
      /\ uplink' # <<>> => uplink'[Len(uplink')] = uplink[Len(uplink)]
      /\ uplink' = <<>> => uplink[Len(uplink)] = p
  <2>1. uplink \in Seq(View)
    BY DEF SInv, SessionTypes
  <2>2. p \in View /\ uplink' \in Seq(View)
    BY <1>1, <2>1
  <2>3. /\ Len(uplink) \in Nat \ {0} /\ Len(uplink') = Len(uplink) - 1
        /\ \A i \in 1 .. Len(uplink') : uplink'[i] = uplink[i + 1]
        /\ p = uplink[1]
    BY <1>1, <2>1, HeadTailProperties
  <2>4. uplink' # <<>> => uplink'[Len(uplink')] = uplink[Len(uplink)]
    <3>1. uplink' # <<>> => Len(uplink') \in 1 .. Len(uplink')
      BY <2>2
    <3> QED BY <2>3, <3>1
  <2>5. uplink' = <<>> => uplink[Len(uplink)] = p
    <3>1. uplink' = <<>> => Len(uplink') = 0
      OBVIOUS
    <3>2. uplink' = <<>> => Len(uplink) = 1
      BY <2>3, <3>1
    <3> QED BY <2>3, <3>2
  <2> QED BY <2>1, <2>2, <2>4, <2>5
<1>5. /\ server'.position = p /\ server'.lastSnapshot = server.lastSnapshot
      /\ server'.sending = f
      /\ f["initial"] = server.sending["initial"]
  BY <1>3, ServerFields DEF SInv, SessionTypes
<1>6. /\ f \in [Senders -> [phase : {"idle", "wanted", "send"}, at : Place]]
      /\ \A w \in Senders : f[w] = server.sending[w] \/ f[w] = Wanted
  BY <1>3, ServerFields DEF SInv, SessionTypes
<1>7. server' \in [position : Place, lastSnapshot : Place,
                   sending : [Senders -> [phase : {"idle", "wanted", "send"}, at : Place]]]
  BY <1>3, <1>4, <1>6, ViewFact DEF SInv, SessionTypes
<1>8. \A w \in Senders : server'.sending[w].phase = "send" => server'.sending[w].at \in Int
  BY <1>5, <1>6, ServerFields DEF SInv, SessionTypes
<1>9. SessionTypes'
  BY <1>1, <1>4, <1>5, <1>7, <1>8, ViewFact DEF SInv, SessionTypes
<1>10. InitialPending' <=> InitialPending
  BY <1>1, <1>5 DEF InitialPending, InitialInDownlink
<1>11. Told => Told'
  BY <1>1, <1>4, <1>5 DEF Told, LastWord
<1>12. Told
  BY <1>1, <1>2 DEF SInv, OpenInv
<1>13. connected' /\ (~InitialPending' => coords' = currentCoords')
  BY <1>1, <1>2, <1>10 DEF SInv, OpenInv
<1>14. OpenInv'
  BY <1>11, <1>12, <1>13 DEF OpenInv
<1>15. LinkInv' /\ AcceptedInv'
  BY <1>1, <1>2 DEF LinkInv, AcceptedInv
<1> QED BY <1>9, <1>14, <1>15 DEF SInv

LEMMA ReadPositionInv ==
    ASSUME SInv, NEW w \in Senders,
           ReadPosition(w) \/ (w = "periodic" /\ PeriodicTick)
    PROVE  SInv'
<1> DEFINE f == [server.sending EXCEPT ![w] = ToSend(server.position)]
<1>1. /\ socket \in {"accepted", "open"}
      /\ server.sending[w] = Wanted \/ w = "periodic"
      /\ server' = [server EXCEPT !.sending = f]
      /\ UNCHANGED <<coords, url, replaceState, connected, currentCoords, requestTimer,
                     socket, uplink, downlink>>
  BY DEF ReadPosition, PeriodicTick, viewVars, connectionVars, debouncerVars
<1>2. server.position \in Int /\ server.position \in Place
  BY <1>1, ViewFact DEF SInv, SessionTypes
<1>3. /\ f \in [Senders -> [phase : {"idle", "wanted", "send"}, at : Place]]
      /\ f[w] = ToSend(server.position)
      /\ \A v \in Senders \ {w} : f[v] = server.sending[v]
  BY <1>2, ServerFields DEF SInv, SessionTypes
<1> HIDE DEF f
<1>4. /\ server'.position = server.position /\ server'.sending = f
      /\ server' \in [position : Place, lastSnapshot : Place,
                      sending : [Senders -> [phase : {"idle", "wanted", "send"}, at : Place]]]
  BY <1>1, <1>3 DEF SInv, SessionTypes
<1>5. ASSUME NEW v \in Senders, f[v].phase = "send" PROVE f[v].at \in Int
  <2>1. CASE v = w
    BY <1>2, <1>3, <2>1, ServerFields
  <2>2. CASE v # w
    BY <1>3, <1>5, <2>2 DEF SInv, SessionTypes
  <2> QED BY <2>1, <2>2
<1>6. SessionTypes'
  BY <1>1, <1>4, <1>5 DEF SInv, SessionTypes
<1>7. f["initial"] = server.sending["initial"]
      \/ (server.sending["initial"] = Wanted /\ f["initial"] = ToSend(server.position))
  BY <1>1, <1>3, ServerFields
<1>8. InitialPending' <=> InitialPending
  BY <1>1, <1>4, <1>7, ServerFields DEF InitialPending, InitialInDownlink
<1>9. InitialIsOfPosition => InitialIsOfPosition'
  BY <1>1, <1>4, <1>7, ServerFields DEF InitialIsOfPosition
<1> QED BY <1>1, <1>4, <1>6, <1>8, <1>9, ServerStep

LEMMA SendSnapshotInv == ASSUME SInv, NEW w \in Senders, SendSnapshot(w) PROVE SInv'
<1> DEFINE at == server.sending[w].at
           last == IF w = "initial" THEN server.lastSnapshot ELSE at
           goesOn == w = "subscribe" /\ shouldSendSnapshot(last, server.position)
           next == IF goesOn THEN Wanted ELSE NotSending
           f == [server.sending EXCEPT ![w] = next]
           m == [kind |-> IF w = "initial" THEN "initialState" ELSE "snapshot", at |-> at]
<1>1. /\ socket \in {"accepted", "open"}
      /\ server.sending[w].phase = "send"
      /\ downlink' = Append(downlink, m)
      /\ server' = [server EXCEPT !.lastSnapshot = last, !.sending = f]
      /\ UNCHANGED <<coords, url, replaceState, connected, currentCoords, requestTimer,
                     socket, uplink>>
  BY DEF SendSnapshot, viewVars, connectionVars, debouncerVars
<1>2. at \in Int /\ last \in Place
  BY <1>1, ViewFact, ServerFields DEF SInv, SessionTypes
<1>3. next \in {Wanted, NotSending} /\ (w = "initial" => next = NotSending)
  OBVIOUS
<1> HIDE DEF next, last
<1>4. /\ f \in [Senders -> [phase : {"idle", "wanted", "send"}, at : Place]]
      /\ f[w] = next
      /\ \A v \in Senders \ {w} : f[v] = server.sending[v]
  BY <1>3, ServerFields DEF SInv, SessionTypes
<1> HIDE DEF f
<1>5. /\ server'.position = server.position /\ server'.sending = f
      /\ server' \in [position : Place, lastSnapshot : Place,
                      sending : [Senders -> [phase : {"idle", "wanted", "send"}, at : Place]]]
  BY <1>1, <1>2, <1>4 DEF SInv, SessionTypes
<1>6. \A v \in Senders : f[v].phase = "send" => f[v].at \in Int
  BY <1>3, <1>4, ServerFields DEF SInv, SessionTypes
<1>7. m \in [kind : {"initialState", "snapshot"}, at : Int] /\ m.at = at
      /\ (m.kind = "initialState" <=> w = "initial")
  BY <1>2
<1> HIDE DEF m
<1>8. /\ downlink' \in Seq([kind : {"initialState", "snapshot"}, at : Int])
      /\ InitialInDownlink' <=> InitialInDownlink \/ w = "initial"
      /\ \A i \in DOMAIN downlink' :
            downlink'[i] = m \/ \E j \in DOMAIN downlink : downlink'[i] = downlink[j]
  BY <1>1, <1>7, AppendDownlink DEF SInv
<1>9. SessionTypes'
  BY <1>1, <1>5, <1>6, <1>8 DEF SInv, SessionTypes
<1>10. InitialPending' <=> InitialPending
  <2>1. CASE w = "initial"
    BY <1>1, <1>8, <2>1, ServerFields DEF InitialPending
  <2>2. CASE w # "initial"
    BY <1>4, <1>5, <1>8, <2>2, ServerFields DEF InitialPending
  <2> QED BY <2>1, <2>2
<1>11. InitialIsOfPosition => InitialIsOfPosition'
  <2> SUFFICES ASSUME InitialIsOfPosition PROVE InitialIsOfPosition'
    OBVIOUS
  <2>1. f["initial"].phase = "send" => f["initial"].at = server.position
    BY <1>3, <1>4, ServerFields DEF InitialIsOfPosition
  <2>2. w = "initial" => at = server.position
    BY <1>1 DEF InitialIsOfPosition
  <2>3. \A i \in DOMAIN downlink' :
           downlink'[i].kind = "initialState" => downlink'[i].at = server.position
    BY <1>7, <1>8, <2>2 DEF InitialIsOfPosition
  <2> QED BY <1>5, <2>1, <2>3 DEF InitialIsOfPosition
<1> QED BY <1>1, <1>5, <1>9, <1>10, <1>11, ServerStep

LEMMA ServerInv == ASSUME SInv, ServerActs PROVE SInv'
<1>1. PeriodicTick => SInv'
  BY ReadPositionInv DEF Senders
<1> QED BY <1>1, HandleSubscribeInv, ReadPositionInv, SendSnapshotInv DEF ServerActs

(* The place a connection asks for. *)
LEMMA ArgumentsFact ==
    ASSUME url \in Place
    PROVE  /\ computeInitialArguments \in Place
           /\ url # NoCoords => computeInitialArguments \in Int
<1>1. CASE url = NoCoords
  BY <1>1 DEF computeInitialArguments, Place
<1>2. CASE url # NoCoords
  <2>1. url \in Int
    BY <1>2 DEF Place
  <2>2. 0 \in Int /\ BOARD_SIZE - 1 \in Int /\ 0 <= BOARD_SIZE - 1
    BY DEF BOARD_SIZE
  <2>3. clamp(url, 0, BOARD_SIZE - 1) \in 0 .. BOARD_SIZE - 1
    BY <2>1, <2>2, ClampFact
  <2>4. clamp(url, 0, BOARD_SIZE - 1) \in Int
    BY <2>2, <2>3
  <2> QED BY <1>2, <2>4 DEF computeInitialArguments, Place
<1> QED BY <1>1, <1>2

-----------------------------------------------------------------------------
(* A server that nobody talks to yet. *)
LEMMA IdleServers ==
    ASSUME NEW c \in Place, NEW w \in Senders
    PROVE  /\ [NoServer EXCEPT !.position = c] \in
                 [position : Place, lastSnapshot : Place,
                  sending : [Senders -> [phase : {"idle", "wanted", "send"}, at : Place]]]
           /\ [NoServer EXCEPT !.position = c].sending[w].phase # "send"
BY DEF NoServer, NotSending, Place

LEMMA NoServerFact ==
    ASSUME NEW w \in Senders
    PROVE  /\ NoServer \in
                 [position : Place, lastSnapshot : Place,
                  sending : [Senders -> [phase : {"idle", "wanted", "send"}, at : Place]]]
           /\ NoServer.sending[w].phase # "send"
BY DEF NoServer, NotSending, Place

LEMMA ServingFact ==
    ASSUME NEW c \in Int
    PROVE  /\ Serving(c) \in
                 [position : Place, lastSnapshot : Place,
                  sending : [Senders -> [phase : {"idle", "wanted", "send"}, at : Place]]]
           /\ \A w \in Senders : Serving(c).sending[w].phase # "send"
           /\ Serving(c).position = c
           /\ Serving(c).sending["initial"] # NotSending
BY DEF Serving, NotSending, Wanted, Place, Senders

(* With no connection nothing is on its way, and the claims about open and *)
(* accepted connections hold for want of one.                              *)
LEMMA Disconnected ==
    ASSUME SInv, socket' \in {"none", "closed", "connecting"},
           uplink' = <<>>, downlink' = <<>>,
           UNCHANGED <<coords, url, replaceState, currentCoords, requestTimer>>,
           \/ server' = NoServer \/ server' = server
           \/ server' = [NoServer EXCEPT !.position = computeInitialArguments]
    PROVE  SInv'
<1>1. /\ server' \in [position : Place, lastSnapshot : Place,
                      sending : [Senders -> [phase : {"idle", "wanted", "send"}, at : Place]]]
      /\ \A w \in Senders :
            server'.sending[w].phase = "send" => server'.sending[w].at \in Int
  <2>1. CASE server' = server
    BY <2>1 DEF SInv, SessionTypes
  <2>2. CASE server' = NoServer
    BY <2>2, NoServerFact DEF Senders
  <2>3. CASE server' = [NoServer EXCEPT !.position = computeInitialArguments]
    <3>1. computeInitialArguments \in Place
      BY ArgumentsFact DEF SInv, SessionTypes
    <3> QED BY <2>3, <3>1, IdleServers DEF Senders
  <2> QED BY <2>1, <2>2, <2>3
<1>2. uplink' \in Seq(View)
      /\ downlink' \in Seq([kind : {"initialState", "snapshot"}, at : Int])
  OBVIOUS
<1>3. SessionTypes'
  BY <1>1, <1>2 DEF SInv, SessionTypes
<1> QED BY <1>3 DEF SInv, LinkInv, AcceptedInv, OpenInv

LEMMA AcceptInv == ASSUME SInv, Accept PROVE SInv'
<1>1. /\ socket = "connecting" /\ socket' = "accepted"
      /\ UNCHANGED <<coords, url, replaceState, connected, currentCoords, requestTimer,
                     uplink, downlink>>
  BY DEF Accept, viewVars, connectionVars, debouncerVars
<1>2. PICK c \in GetMaybeRequestedCoords(server.position) : server' = Serving(c)
  BY DEF Accept
<1>3. c \in Int
  <2>1. c \in 0 .. BOARD_SIZE - 1 \/ c \in DefaultPlaces
    BY <1>2 DEF GetMaybeRequestedCoords
  <2>2. BOARD_SIZE \in Int
    BY DEF BOARD_SIZE
  <2>3. \A d \in DefaultPlaces : d \in Int
    BY SessionAssumption
  <2>4. \A d \in 0 .. BOARD_SIZE - 1 : d \in Int
    BY <2>2
  <2> QED BY <2>1, <2>3, <2>4
<1>4. downlink = <<>>
  BY <1>1 DEF SInv, LinkInv
<1>5. SessionTypes'
  BY <1>1, <1>2, <1>3, ServingFact DEF SInv, SessionTypes
<1>6. InitialPending' /\ InitialIsOfPosition'
  BY <1>1, <1>2, <1>3, <1>4, ServingFact DEF InitialPending, InitialIsOfPosition, Senders
<1>7. LinkInv'
  BY <1>1 DEF SInv, LinkInv
<1> QED BY <1>1, <1>5, <1>6, <1>7 DEF SInv, AcceptedInv, OpenInv

(* The debouncer may have kept a timer and coordinates from an earlier     *)
(* connection: the timer will say those coordinates.                       *)
LEMMA OnOpenInv == ASSUME SInv, OnOpen PROVE SInv'
<1>1. /\ socket = "accepted" /\ socket' = "open" /\ connected' /\ UpdateCoords(coords)
      /\ UNCHANGED <<coords, url, replaceState, downlink, server>>
  BY DEF OnOpen, viewVars
<1>2. /\ InitialPending /\ InitialIsOfPosition /\ uplink = <<>>
      /\ coords \in View \cup {NoCoords}
  BY <1>1 DEF SInv, AcceptedInv, LinkInv, SessionTypes
<1>3. SessionTypes'
  BY <1>1, <1>2, UpdateTypes DEF SInv, SessionTypes
<1>4. InitialPending' /\ InitialIsOfPosition'
  BY <1>1, <1>2 DEF InitialPending, InitialInDownlink, InitialIsOfPosition
<1>5. Told' \/ (requestTimer' = NoCoords /\ uplink' = <<>>)
  <2>1. CASE coords \in {NoCoords, currentCoords}
    <3>1. UNCHANGED <<currentCoords, requestTimer, uplink>>
      BY <1>1, <2>1 DEF UpdateCoords, debouncerVars
    <3>2. CASE requestTimer = NoCoords
      BY <1>2, <3>1, <3>2
    <3>3. CASE requestTimer # NoCoords
      <4>1. currentCoords \in View
        BY <3>3 DEF SInv, SessionTypes
      <4>2. InView(currentCoords) = currentCoords
        BY <4>1, ViewFact, InViewFact
      <4> QED BY <3>1, <3>3, <4>2 DEF Told, LastWord
    <3> QED BY <3>2, <3>3
  <2>2. CASE coords \notin {NoCoords, currentCoords}
    BY <1>1, <1>2, <2>2, UpdateTells
  <2> QED BY <2>1, <2>2
<1>6. OpenInv'
  BY <1>1, <1>4, <1>5 DEF OpenInv
<1> QED BY <1>1, <1>3, <1>6 DEF SInv, LinkInv, AcceptedInv

LEMMA OnCloseInv == ASSUME SInv, OnClose PROVE SInv'
<1>1. socket = "closed" /\ uplink = <<>> /\ downlink = <<>>
      /\ UNCHANGED <<coords, url, replaceState, currentCoords, requestTimer>>
  BY DEF OnClose, viewVars, debouncerVars, SInv, LinkInv
<1> QED BY <1>1, Disconnected DEF OnClose, ConnectUnless, ConnectingOnceClosed

LEMMA ReconnectInv == ASSUME SInv, ReconnectTimerFires PROVE SInv'
<1>1. socket = "none" /\ uplink = <<>> /\ downlink = <<>>
      /\ UNCHANGED <<coords, url, replaceState, currentCoords, requestTimer>>
  BY DEF ReconnectTimerFires, viewVars, debouncerVars, SInv, LinkInv
<1> QED BY <1>1, Disconnected DEF ReconnectTimerFires, ConnectUnless

LEMMA BreakInv == ASSUME SInv, Break PROVE SInv'
BY Disconnected DEF Break, viewVars, debouncerVars

-----------------------------------------------------------------------------
LEMMA RequestTimerInv == ASSUME SInv, RequestTimerFires PROVE SInv'
<1>1. /\ requestTimer # NoCoords /\ requestTimer' = NoCoords
      /\ Sent(currentCoords)
      /\ UNCHANGED <<coords, url, replaceState, connected, currentCoords, socket,
                     downlink, server>>
  BY DEF RequestTimerFires, CoordsOfTimer, viewVars, connectionVars
<1>2. currentCoords \in View /\ uplink \in Seq(View)
  BY <1>1 DEF SInv, SessionTypes
<1>3. /\ uplink' \in Seq(View)
      /\ socket # "open" => uplink' = uplink
      /\ socket = "open" => uplink' # <<>> /\ uplink'[Len(uplink')] = currentCoords
  BY <1>1, <1>2 DEF Sent
<1>4. SessionTypes'
  BY <1>1, <1>3 DEF SInv, SessionTypes
<1>5. socket = "open" => Told'
  <2>1. InView(currentCoords) = currentCoords
    BY <1>2, ViewFact, InViewFact
  <2> QED BY <1>1, <1>3, <2>1 DEF Told, LastWord
<1>6. InitialPending' <=> InitialPending
  BY <1>1 DEF InitialPending, InitialInDownlink
<1>7. OpenInv'
  BY <1>1, <1>5, <1>6 DEF SInv, OpenInv
<1>8. LinkInv' /\ AcceptedInv'
  BY <1>1, <1>3 DEF SInv, LinkInv, AcceptedInv, InitialPending, InitialInDownlink,
                    InitialIsOfPosition
<1> QED BY <1>4, <1>7, <1>8 DEF SInv

(* The initial state puts right what the debouncer did not know.           *)
LEMMA ReceiveInitialInv == ASSUME SInv, ReceiveInitialState PROVE SInv'
<1> DEFINE at == Head(downlink).at
           p == InView(at)
<1>1. /\ socket = "open" /\ downlink # <<>> /\ Head(downlink).kind = "initialState"
      /\ downlink' = Tail(downlink)
      /\ coords' = p /\ replaceState' = p /\ UpdateCoords(p)
      /\ UNCHANGED <<url, connected, socket, server>>
  BY DEF ReceiveInitialState, setCoords, connectionVars
<1>2. /\ downlink' \in Seq([kind : {"initialState", "snapshot"}, at : Int])
      /\ Head(downlink) \in [kind : {"initialState", "snapshot"}, at : Int]
      /\ 1 \in DOMAIN downlink /\ downlink[1] = Head(downlink)
  BY <1>1, TailDownlink DEF SInv
<1>3. at \in Int /\ p \in View
  BY <1>2, InViewFact
<1>4. InitialPending
  BY <1>1, <1>2 DEF InitialPending, InitialInDownlink
<1>5. connected
      /\ \/ Told
         \/ requestTimer = NoCoords /\ uplink = <<>> /\ at = server.position
  BY <1>1, <1>2, <1>4 DEF SInv, OpenInv, InitialIsOfPosition
<1> HIDE DEF p, at
<1>6. coords' = currentCoords' /\ Told'
  <2>1. CASE p = currentCoords /\ UNCHANGED <<currentCoords, requestTimer, uplink>>
    <3>1. CASE Told
      BY <1>1, <2>1, <3>1 DEF Told, LastWord
    <3>2. CASE requestTimer = NoCoords /\ uplink = <<>> /\ at = server.position
      BY <1>1, <2>1, <3>2 DEF Told, LastWord, p
    <3> QED BY <1>1, <1>5, <2>1, <3>1, <3>2
  <2>2. CASE currentCoords' = p /\ Told'
    BY <1>1, <2>2
  <2> QED BY <1>1, <1>3, <1>5, <2>1, <2>2, UpdateTells
<1>7. SessionTypes'
  BY <1>1, <1>2, <1>3, UpdateTypes, ViewFact DEF SInv, SessionTypes
<1>8. OpenInv' /\ LinkInv' /\ AcceptedInv'
  BY <1>1, <1>5, <1>6 DEF OpenInv, LinkInv, AcceptedInv
<1> QED BY <1>7, <1>8 DEF SInv

LEMMA ReceiveSnapshotInv == ASSUME SInv, ReceiveSnapshot PROVE SInv'
<1>1. /\ socket = "open" /\ downlink # <<>> /\ Head(downlink).kind = "snapshot"
      /\ downlink' = Tail(downlink)
      /\ UNCHANGED <<coords, url, replaceState, connected, currentCoords, requestTimer,
                     socket, uplink, server>>
  BY DEF ReceiveSnapshot, viewVars, connectionVars, debouncerVars
<1>2. /\ downlink' \in Seq([kind : {"initialState", "snapshot"}, at : Int])
      /\ InitialInDownlink' <=> InitialInDownlink
      /\ \A i \in DOMAIN downlink' : \E j \in DOMAIN downlink : downlink'[i] = downlink[j]
  BY <1>1, TailDownlink DEF SInv
<1>3. SessionTypes'
  BY <1>1, <1>2 DEF SInv, SessionTypes
<1>4. InitialPending' <=> InitialPending
  BY <1>1, <1>2 DEF InitialPending
<1>5. InitialIsOfPosition => InitialIsOfPosition'
  BY <1>1, <1>2 DEF InitialIsOfPosition
<1> QED BY <1>1, <1>3, <1>4, <1>5, ServerStep

-----------------------------------------------------------------------------
LEMMA SessionInitInv == SessionInit => SInv
<1> SUFFICES ASSUME SessionInit PROVE SInv
  OBVIOUS
<1>1. url \in Place
  BY SessionAssumption DEF SessionInit, Place
<1>2. coords \in View \cup {NoCoords}
  <2>1. coords = IF url = NoCoords THEN NoCoords ELSE InView(computeInitialArguments)
    BY DEF SessionInit
  <2> QED BY <1>1, <2>1, ArgumentsFact, InViewFact
<1>3. /\ server \in [position : Place, lastSnapshot : Place,
                     sending : [Senders -> [phase : {"idle", "wanted", "send"}, at : Place]]]
      /\ \A w \in Senders : server.sending[w].phase # "send"
  <2>1. server = [NoServer EXCEPT !.position = computeInitialArguments] /\ "initial" \in Senders
    BY DEF SessionInit, Senders
  <2> QED BY <1>1, <2>1, ArgumentsFact, IdleServers
<1>4. uplink \in Seq(View)
      /\ downlink \in Seq([kind : {"initialState", "snapshot"}, at : Int])
  BY DEF SessionInit
<1>5. SessionTypes
  BY <1>1, <1>2, <1>3, <1>4, ViewFact DEF SessionInit, SessionTypes
<1> QED BY <1>5 DEF SessionInit, SInv, LinkInv, AcceptedInv, OpenInv

LEMMA SessionNextInv == SInv /\ [SessionNext]_sessionVars => SInv'
<1> SUFFICES ASSUME SInv, [SessionNext]_sessionVars PROVE SInv'
  OBVIOUS
<1>1. CASE UNCHANGED sessionVars
  BY <1>1, CoreUnchanged DEF sessionVars, viewVars, connectionVars, debouncerVars,
                             linkVars, coreVars
<1>2. CASE ReplaceStateFires
  <2>1. UNCHANGED <<coords, connected, currentCoords, requestTimer, socket, uplink,
                    downlink, server>>
    BY <1>2 DEF ReplaceStateFires, connectionVars, debouncerVars, linkVars
  <2>2. url' \in Place /\ replaceState' \in Place
    BY <1>2, ViewFact DEF ReplaceStateFires, SInv, SessionTypes
  <2>3. SessionTypes'
    BY <2>1, <2>2 DEF SInv, SessionTypes
  <2> QED BY <2>1, <2>3 DEF SInv, LinkInv, AcceptedInv, OpenInv, InitialPending,
                 InitialInDownlink, InitialIsOfPosition, LastWord, Told
<1>3. CASE ConnectionActs
  BY <1>3, AcceptInv, OnOpenInv, OnCloseInv, ReconnectInv DEF ConnectionActs
<1>4. CASE ClientActs
  BY <1>2, <1>4, ReceiveInitialInv, ReceiveSnapshotInv, RequestTimerInv DEF ClientActs
<1> QED BY <1>1, <1>3, <1>4, UserInv, ServerInv, BreakInv DEF SessionNext

(* Once the initial state has arrived and nothing is on its way, the       *)
(* server serves the place the user looks at, whatever was lost on broken  *)
(* connections, debounced over a reconnection or typed in the meantime.    *)
THEOREM ServedWhereItLooks == SessionSpec => []SubscribedWhereItLooks
<1>1. SInv => SubscribedWhereItLooks
  <2> SUFFICES ASSUME SInv, socket = "open", uplink = <<>>, requestTimer = NoCoords,
                      ~InitialPending
               PROVE  InView(server.position) = coords
    BY DEF SubscribedWhereItLooks, InitialPending, InitialInDownlink
  <2> QED BY DEF SInv, OpenInv, Told, LastWord
<1> QED BY <1>1, SessionInitInv, SessionNextInv, PTL DEF SessionSpec

-----------------------------------------------------------------------------
(* Polling.                                                                *)

(* Induction over the naturals, for a set.                                 *)
LEMMA SetInduction ==
    ASSUME NEW T, 0 \in T, \A n \in Nat : n \in T => n + 1 \in T
    PROVE  \A n \in Nat : n \in T
<1> DEFINE U == {n \in Nat : n \notin T}
<1> SUFFICES ASSUME U # {} PROVE FALSE
  OBVIOUS
<1>1. IsWellFoundedOn(OpToRel(<, Nat), Nat)
  BY NatLessThanWellFounded
<1>2. PICK x \in U : \A y \in U : ~ (<<y, x>> \in OpToRel(<, Nat))
  BY <1>1, WFMin
<1>3. \A y \in U : ~ (y < x)
  BY <1>2 DEF OpToRel
<1>4. x \in Nat /\ x # 0 /\ x - 1 \in Nat
  OBVIOUS
<1>5. x - 1 \in T
  BY <1>3, <1>4
<1>6. (x - 1) + 1 \in T /\ (x - 1) + 1 = x
  BY <1>4, <1>5
<1> QED BY <1>6

-----------------------------------------------------------------------------
(* The sum over a sequence of events, as a recursive function on the sets  *)
(* of its indices: that there is one, and what it is at least.             *)

Ch(S) == CHOOSE x \in S : TRUE
SumStep(s, sum, S) ==
    IF S = {} THEN NoCounts ELSE Plus(Heard(s[Ch(S)].kind), sum[S \ {Ch(S)}])
SumOf(s) ==
    CHOOSE sum : sum = [S \in SUBSET DOMAIN s |-> SumStep(s, sum, S)]

LEMMA DeltaIsSum ==
    ASSUME NEW s
    PROVE  DeltaOf(s) = SumOf(s)[DOMAIN s]
BY DEF DeltaOf, SumOver, FoldSeq, FoldFunction, FoldFunctionOnSet, MapThenFoldSet,
       Ch, SumStep, SumOf

LEMMA ChFacts ==
    ASSUME NEW S, IsFiniteSet(S), S # {}
    PROVE  /\ Ch(S) \in S /\ S \ {Ch(S)} \in SUBSET S /\ IsFiniteSet(S \ {Ch(S)})
           /\ Cardinality(S \ {Ch(S)}) = Cardinality(S) - 1
           /\ Cardinality(S) \in Nat \ {0}
<1>1. Ch(S) \in S
  BY DEF Ch
<1>2. Cardinality(S \ {Ch(S)}) = Cardinality(S) - 1 /\ IsFiniteSet(S \ {Ch(S)})
  BY <1>1, FS_RemoveElement
<1>3. Cardinality(S) \in Nat /\ Cardinality(S) # 0
  BY FS_CardinalityType, FS_EmptySet
<1> QED BY <1>1, <1>2, <1>3

LEMMA SumExists ==
    ASSUME NEW s, IsFiniteSet(DOMAIN s)
    PROVE  SumOf(s) = [S \in SUBSET DOMAIN s |-> SumStep(s, SumOf(s), S)]
<1> DEFINE D == DOMAIN s
           Small(n) == {S \in SUBSET D : Cardinality(S) <= n}
           T == {n \in Nat : \E g : g = [S \in Small(n) |-> SumStep(s, g, S)]}
<1>1. \A S \in SUBSET D : IsFiniteSet(S) /\ Cardinality(S) \in Nat
                          /\ Cardinality(S) <= Cardinality(D)
  BY FS_Subset, FS_CardinalityType
<1>2. 0 \in T
  <2> DEFINE g == [S \in Small(0) |-> NoCounts]
  <2>1. ASSUME NEW S \in Small(0) PROVE S = {}
    <3>1. S \in SUBSET D /\ Cardinality(S) <= 0
      OBVIOUS
    <3> QED BY <1>1, <3>1, FS_EmptySet
  <2>2. \A S \in Small(0) : SumStep(s, g, S) = NoCounts
    BY <2>1 DEF SumStep
  <2>3. g = [S \in Small(0) |-> SumStep(s, g, S)]
    BY <2>2
  <2> QED BY <2>3
<1>3. ASSUME NEW n \in Nat, n \in T PROVE n + 1 \in T
  <2>1. PICK g : g = [S \in Small(n) |-> SumStep(s, g, S)]
    BY <1>3
  <2> DEFINE h == [S \in Small(n + 1) |-> SumStep(s, g, S)]
  <2>2. ASSUME NEW S \in Small(n + 1)
        PROVE  SumStep(s, h, S) = SumStep(s, g, S)
    <3>1. CASE S = {}
      BY <3>1 DEF SumStep
    <3>2. CASE S # {}
      <4> DEFINE R == S \ {Ch(S)}
      <4>1. S \in SUBSET D /\ Cardinality(S) <= n + 1
        OBVIOUS
      <4>2. R \in SUBSET D /\ Cardinality(R) <= n
        BY <1>1, <3>2, <4>1, ChFacts
      <4>3. R \in Small(n) /\ R \in Small(n + 1)
        BY <4>2, <1>1
      <4>4. h[R] = g[R]
        BY <2>1, <4>3
      <4> HIDE DEF h
      <4> QED BY <3>2, <4>4 DEF SumStep
    <3> QED BY <3>1, <3>2
  <2>3. h = [S \in Small(n + 1) |-> SumStep(s, h, S)]
    BY <2>2
  <2> HIDE DEF h
  <2>4. \E f : f = [S \in Small(n + 1) |-> SumStep(s, f, S)]
    BY <2>3
  <2> QED BY <2>4
<1> HIDE DEF T
<1>4. Cardinality(D) \in T
  BY <1>1, <1>2, <1>3, SetInduction
<1>5. Small(Cardinality(D)) = SUBSET D
  BY <1>1
<1>6. \E g : g = [S \in SUBSET D |-> SumStep(s, g, S)]
  BY <1>4, <1>5 DEF T
<1> QED BY <1>6 DEF SumOf

(* The events of s, at the indices of S, that count for c.                 *)
CountingIn(s, S, c) == {i \in S : Counted(s[i].kind)[c] = 1}

(* A change as it is, or as the statistics hear of it.                     *)
ToldKinds == Kinds \cup {WithoutVictim(kind) : kind \in Kinds}
Event == [seqnum : Nat, kind : ToldKinds]

(* What a change is heard to be adds no more than it does.                 *)
LEMMA ToldKindFacts ==
    ASSUME NEW kind \in ToldKinds
    PROVE  /\ kind.entries \in Nat
           /\ WithoutVictim(kind) \in ToldKinds
           /\ WithoutVictim(WithoutVictim(kind)) = WithoutVictim(kind)
           /\ \A c \in Counters :
                 Counted(WithoutVictim(kind))[c] = 1 => Counted(kind)[c] = 1
<1>1. PICK k \in Kinds : kind = k \/ kind = WithoutVictim(k)
  BY DEF ToldKinds
<1>2. kind.entries = k.entries /\ WithoutVictim(kind) = WithoutVictim(k)
  BY <1>1 DEF WithoutVictim
<1>3. ASSUME NEW c \in Counters, Counted(WithoutVictim(kind))[c] = 1
      PROVE  Counted(kind)[c] = 1
  <2>1. /\ WithoutVictim(kind).entries = kind.entries
        /\ WithoutVictim(kind).victim = "nothing"
    BY DEF WithoutVictim
  <2>2. c # "totalMoves" => Counted(WithoutVictim(kind))[c] = 0
    BY <2>1 DEF Counted, Captured
  <2>3. c = "totalMoves"
    BY <1>3, <2>2
  <2> QED BY <1>3, <2>1, <2>3 DEF Counted, Captured
<1>4. WithoutVictim(WithoutVictim(kind)) = WithoutVictim(kind)
  BY DEF WithoutVictim
<1> QED BY <1>2, <1>3, <1>4, PollingAssumption DEF ToldKinds

LEMMA KindFacts ==
    ASSUME NEW kind \in ToldKinds, NEW c \in Counters
    PROVE  /\ Heard(kind)[c] \in Nat /\ Counted(kind)[c] \in Nat
           /\ Counted(kind)[c] = 1 => Heard(kind)[c] >= 1
<1>1. Captured(kind)[c] \in {0, 1}
  BY DEF Captured
<1>2. /\ Heard(kind)[c] = IF c = "totalMoves" THEN kind.entries ELSE Captured(kind)[c]
      /\ Counted(kind)[c] = IF c = "totalMoves"
                            THEN IF kind.entries = 0 THEN 0 ELSE 1
                            ELSE Captured(kind)[c]
  BY DEF Heard, Counted, Captured
<1> QED BY <1>1, <1>2, ToldKindFacts

(* What is left to apply is counted in full: the sum is at least the       *)
(* number of events that count.                                            *)
LEMMA SumBound ==
    ASSUME NEW s \in Seq(Event), NEW c \in Counters
    PROVE  DeltaOf(s)[c] \in Nat
           /\ DeltaOf(s)[c] >= Cardinality(CountingIn(s, DOMAIN s, c))
<1> DEFINE D == DOMAIN s
           sum == SumOf(s)
           T == {n \in Nat : \A S \in SUBSET D : Cardinality(S) = n =>
                    /\ sum[S][c] \in Nat
                    /\ sum[S][c] >= Cardinality(CountingIn(s, S, c))}
<1>1. IsFiniteSet(D) /\ \A i \in D : s[i].kind \in ToldKinds
  <2>1. D = 1 .. Len(s) /\ Len(s) \in Nat /\ \A i \in D : s[i] \in Event
    BY LenProperties, ElementOfSeq
  <2> QED BY <2>1, FS_Interval DEF Event
<1>2. \A S \in SUBSET D : IsFiniteSet(S) /\ Cardinality(S) \in Nat
  BY <1>1, FS_Subset, FS_CardinalityType
<1>3. \A S \in SUBSET D : sum[S] = SumStep(s, sum, S)
  BY <1>1, SumExists
<1>4. 0 \in T
  <2> SUFFICES ASSUME NEW S \in SUBSET D, Cardinality(S) = 0
               PROVE  /\ sum[S][c] \in Nat
                      /\ sum[S][c] >= Cardinality(CountingIn(s, S, c))
    OBVIOUS
  <2>1. S = {}
    BY <1>2, FS_EmptySet
  <2>2. sum[S][c] = 0
    BY <1>3, <2>1 DEF SumStep, NoCounts
  <2>3. CountingIn(s, S, c) = {}
    BY <2>1 DEF CountingIn
  <2> QED BY <2>2, <2>3, FS_EmptySet
<1>5. ASSUME NEW n \in Nat, n \in T PROVE n + 1 \in T
  <2> SUFFICES ASSUME NEW S \in SUBSET D, Cardinality(S) = n + 1
               PROVE  /\ sum[S][c] \in Nat
                      /\ sum[S][c] >= Cardinality(CountingIn(s, S, c))
    OBVIOUS
  <2> DEFINE x == Ch(S)
             R == S \ {x}
  <2>1. S # {}
    BY <1>2, FS_EmptySet
  <2>2. x \in S /\ R \in SUBSET D /\ Cardinality(R) = n
    BY <1>2, <2>1, ChFacts
  <2>3. sum[R][c] \in Nat /\ sum[R][c] >= Cardinality(CountingIn(s, R, c))
    BY <1>5, <2>2
  <2>4. sum[S][c] = Heard(s[x].kind)[c] + sum[R][c]
    BY <1>3, <2>1 DEF SumStep, Plus
  <2>5. s[x].kind \in ToldKinds
    BY <1>1, <2>2
  <2> HIDE DEF x
  <2>6. CASE Counted(s[x].kind)[c] = 1
    <3>1. CountingIn(s, S, c) = CountingIn(s, R, c) \cup {x} /\ x \notin CountingIn(s, R, c)
      BY <2>2, <2>6 DEF CountingIn
    <3>2. IsFiniteSet(CountingIn(s, R, c)) /\ Cardinality(CountingIn(s, R, c)) \in Nat
      BY <1>2, <2>2 DEF CountingIn
    <3>3. Cardinality(CountingIn(s, S, c)) = Cardinality(CountingIn(s, R, c)) + 1
      BY <3>1, <3>2, FS_AddElement
    <3> QED BY <2>3, <2>4, <2>5, <2>6, <3>2, <3>3, KindFacts
  <2>7. CASE Counted(s[x].kind)[c] # 1
    <3>1. CountingIn(s, S, c) = CountingIn(s, R, c)
      BY <2>2, <2>7 DEF CountingIn
    <3>2. Cardinality(CountingIn(s, R, c)) \in Nat
      BY <1>2, <2>2 DEF CountingIn
    <3> QED BY <2>3, <2>4, <2>5, <3>1, <3>2, KindFacts
  <2> QED BY <2>6, <2>7
<1> HIDE DEF T
<1>6. Cardinality(D) \in T
  BY <1>1, <1>2, <1>4, <1>5, SetInduction
<1> QED BY <1>6, DeltaIsSum DEF T

-----------------------------------------------------------------------------
(* What is still to apply, the same way.                                   *)
LastOf(S) == Max(S)
KeepStep(s, n, keep, S) ==
    IF S = {} THEN <<>>
    ELSE IF Applies(s[LastOf(S)], n) THEN Append(keep[S \ {LastOf(S)}], s[LastOf(S)])
         ELSE keep[S \ {LastOf(S)}]
KeepOf(s, n) ==
    CHOOSE keep : keep = [S \in SUBSET DOMAIN s |-> KeepStep(s, n, keep, S)]

LEMMA StillIsKept ==
    ASSUME NEW s, NEW n
    PROVE  StillToApply(s, n) = KeepOf(s, n)[DOMAIN s]
BY DEF StillToApply, FoldLeft, MapThenFoldSet, LastOf, KeepStep, KeepOf

LEMMA LastFacts ==
    ASSUME NEW n \in Nat, NEW S \in SUBSET (1 .. n), S # {}
    PROVE  LastOf(S) \in S
<1> DEFINE U == {k \in Nat : \A y \in S : y <= k}
<1>1. n \in U
  OBVIOUS
<1>2. IsWellFoundedOn(OpToRel(<, Nat), Nat)
  BY NatLessThanWellFounded
<1>3. PICK m \in U : \A y \in U : ~ (<<y, m>> \in OpToRel(<, Nat))
  BY <1>1, <1>2, WFMin
<1>4. \A y \in U : ~ (y < m)
  BY <1>3 DEF OpToRel
<1>5. m \in S
  <2> SUFFICES ASSUME m \notin S PROVE FALSE
    OBVIOUS
  <2>1. m \in Nat /\ \A y \in S : y \in 1 .. n /\ y <= m /\ y # m
    OBVIOUS
  <2>2. m # 0 /\ m - 1 \in Nat
    <3>1. PICK y \in S : TRUE
      OBVIOUS
    <3>2. y \in Nat /\ y >= 1 /\ y <= m
      BY <2>1
    <3> QED BY <2>1, <3>2
  <2>3. \A y \in S : y <= m - 1
    BY <2>1
  <2> QED BY <1>4, <2>1, <2>2, <2>3
<1>6. \A y \in S : m >= y
  OBVIOUS
<1>7. \E x \in S : \A y \in S : x >= y
  BY <1>5, <1>6
<1> QED BY <1>7 DEF LastOf, Max

LEMMA SmallerSets ==
    ASSUME NEW S, IsFiniteSet(S), NEW x \in S
    PROVE  /\ S \ {x} \in SUBSET S /\ IsFiniteSet(S \ {x})
           /\ Cardinality(S \ {x}) = Cardinality(S) - 1
           /\ Cardinality(S) \in Nat \ {0}
<1>1. Cardinality(S \ {x}) = Cardinality(S) - 1 /\ IsFiniteSet(S \ {x})
  BY FS_RemoveElement
<1>2. Cardinality(S) \in Nat /\ Cardinality(S) # 0
  BY FS_CardinalityType, FS_EmptySet
<1> QED BY <1>1, <1>2

LEMMA KeepExists ==
    ASSUME NEW s \in Seq(Event), NEW k
    PROVE  KeepOf(s, k) = [S \in SUBSET DOMAIN s |-> KeepStep(s, k, KeepOf(s, k), S)]
<1> DEFINE D == DOMAIN s
           Small(n) == {S \in SUBSET D : Cardinality(S) <= n}
           T == {n \in Nat : \E g : g = [S \in Small(n) |-> KeepStep(s, k, g, S)]}
<1>0. D = 1 .. Len(s) /\ Len(s) \in Nat
  BY LenProperties
<1>1. \A S \in SUBSET D : IsFiniteSet(S) /\ Cardinality(S) \in Nat
                          /\ Cardinality(S) <= Cardinality(D)
  <2>1. IsFiniteSet(D)
    <3>1. IsFiniteSet(1 .. Len(s))
      BY <1>0, FS_Interval
    <3> QED BY <1>0, <3>1
  <2> QED BY <2>1, FS_Subset, FS_CardinalityType
<1>2. 0 \in T
  <2> DEFINE g == [S \in Small(0) |-> <<>>]
  <2>1. ASSUME NEW S \in Small(0) PROVE S = {}
    <3>1. S \in SUBSET D /\ Cardinality(S) <= 0
      OBVIOUS
    <3> QED BY <1>1, <3>1, FS_EmptySet
  <2>2. \A S \in Small(0) : KeepStep(s, k, g, S) = <<>>
    BY <2>1 DEF KeepStep
  <2>3. g = [S \in Small(0) |-> KeepStep(s, k, g, S)]
    BY <2>2
  <2> QED BY <2>3
<1>3. ASSUME NEW n \in Nat, n \in T PROVE n + 1 \in T
  <2>1. PICK g : g = [S \in Small(n) |-> KeepStep(s, k, g, S)]
    BY <1>3
  <2> DEFINE h == [S \in Small(n + 1) |-> KeepStep(s, k, g, S)]
  <2>2. ASSUME NEW S \in Small(n + 1)
        PROVE  KeepStep(s, k, h, S) = KeepStep(s, k, g, S)
    <3>1. CASE S = {}
      BY <3>1 DEF KeepStep
    <3>2. CASE S # {}
      <4> DEFINE R == S \ {LastOf(S)}
      <4>1. S \in SUBSET D /\ Cardinality(S) <= n + 1
        OBVIOUS
      <4>2. R \in SUBSET D /\ Cardinality(R) <= n
        <5>1. LastOf(S) \in S
          BY <1>0, <3>2, <4>1, LastFacts
        <5> QED BY <1>1, <4>1, <5>1, SmallerSets
      <4>3. R \in Small(n) /\ R \in Small(n + 1)
        BY <4>2, <1>1
      <4>4. h[R] = g[R]
        BY <2>1, <4>3
      <4> HIDE DEF h
      <4> QED BY <3>2, <4>4 DEF KeepStep
    <3> QED BY <3>1, <3>2
  <2>3. h = [S \in Small(n + 1) |-> KeepStep(s, k, h, S)]
    BY <2>2
  <2> HIDE DEF h
  <2>4. \E f : f = [S \in Small(n + 1) |-> KeepStep(s, k, f, S)]
    BY <2>3
  <2>5. n + 1 \in Nat
    BY <1>3
  <2> QED BY <2>4, <2>5
<1> HIDE DEF T
<1>4. Cardinality(D) \in T
  BY <1>1, <1>2, <1>3, SetInduction
<1>5. Small(Cardinality(D)) = SUBSET D
  BY <1>1
<1>6. \E g : g = [S \in SUBSET D |-> KeepStep(s, k, g, S)]
  BY <1>4, <1>5 DEF T
<1> QED BY <1>6 DEF KeepOf

(* Every event that applies is still to apply.                             *)
LEMMA StillFacts ==
    ASSUME NEW s \in Seq(Event), NEW k \in Nat
    PROVE  /\ StillToApply(s, k) \in Seq(Event)
           /\ \A i \in DOMAIN s : Applies(s[i], k) =>
                 \E j \in DOMAIN StillToApply(s, k) : StillToApply(s, k)[j] = s[i]
<1> DEFINE D == DOMAIN s
           keep == KeepOf(s, k)
           Good(S) == /\ keep[S] \in Seq(Event)
                      /\ \A i \in S : Applies(s[i], k) =>
                            \E j \in DOMAIN keep[S] : keep[S][j] = s[i]
           T == {n \in Nat : \A S \in SUBSET D : Cardinality(S) = n => Good(S)}
<1>1. D = 1 .. Len(s) /\ Len(s) \in Nat /\ \A i \in D : s[i] \in Event
  BY LenProperties, ElementOfSeq
<1>2. \A S \in SUBSET D : IsFiniteSet(S) /\ Cardinality(S) \in Nat
  <2>1. IsFiniteSet(1 .. Len(s))
    BY <1>1, FS_Interval
  <2> QED BY <1>1, <2>1, FS_Subset, FS_CardinalityType
<1>3. \A S \in SUBSET D : keep[S] = KeepStep(s, k, keep, S)
  <2>1. keep = [S \in SUBSET D |-> KeepStep(s, k, keep, S)]
    BY KeepExists
  <2> HIDE DEF keep
  <2> QED BY <2>1
<1> HIDE DEF keep
<1>4. 0 \in T
  <2> SUFFICES ASSUME NEW S \in SUBSET D, Cardinality(S) = 0 PROVE Good(S)
    OBVIOUS
  <2>1. S = {}
    BY <1>2, FS_EmptySet
  <2>2. keep[S] = <<>>
    BY <1>3, <2>1 DEF KeepStep
  <2> QED BY <2>1, <2>2
<1>5. ASSUME NEW n \in Nat, n \in T PROVE n + 1 \in T
  <2> SUFFICES ASSUME NEW S \in SUBSET D, Cardinality(S) = n + 1 PROVE Good(S)
    OBVIOUS
  <2> DEFINE x == LastOf(S)
             R == S \ {x}
  <2>1. S # {}
    BY <1>2, FS_EmptySet
  <2>2. x \in S
    BY <1>1, <2>1, LastFacts
  <2>3. R \in SUBSET D /\ Cardinality(R) = n /\ S = R \cup {x}
    BY <1>2, <2>2, SmallerSets
  <2>4. Good(R)
    BY <1>5, <2>3
  <2>5. keep[S] = IF Applies(s[x], k) THEN Append(keep[R], s[x]) ELSE keep[R]
    BY <1>3, <2>1 DEF KeepStep
  <2>6. s[x] \in Event
    BY <1>1, <2>2
  <2> HIDE DEF x, R
  <2>7. CASE Applies(s[x], k)
    <3>1. /\ keep[S] \in Seq(Event) /\ Len(keep[S]) = Len(keep[R]) + 1
          /\ DOMAIN keep[R] = 1 .. Len(keep[R]) /\ Len(keep[R]) \in Nat
          /\ DOMAIN keep[S] = 1 .. Len(keep[S])
          /\ \A j \in 1 .. Len(keep[R]) : keep[S][j] = keep[R][j]
          /\ keep[S][Len(keep[R]) + 1] = s[x]
      BY <2>4, <2>5, <2>6, <2>7, AppendProperties, LenProperties
    <3>2. ASSUME NEW i \in S, Applies(s[i], k)
          PROVE  \E j \in DOMAIN keep[S] : keep[S][j] = s[i]
      <4>1. CASE i = x
        BY <3>1, <4>1
      <4>2. CASE i \in R
        <5>1. PICK j \in DOMAIN keep[R] : keep[R][j] = s[i]
          BY <2>4, <3>2, <4>2
        <5> QED BY <3>1, <5>1
      <4> QED BY <2>3, <4>1, <4>2
    <3> QED BY <3>1, <3>2
  <2>8. CASE ~Applies(s[x], k)
    BY <2>3, <2>4, <2>5, <2>8
  <2> QED BY <2>7, <2>8
<1> HIDE DEF T
<1>6. Cardinality(D) \in T
  BY <1>1, <1>2, <1>4, <1>5, SetInduction
<1>7. Good(D)
  BY <1>6 DEF T
<1> QED BY <1>7, StillIsKept DEF keep

-----------------------------------------------------------------------------
(* The inductive invariant.  Its definitions take the history of the board *)
(* as a parameter, so that the lemmas can compare one with the next.       *)

(* The changes among the first n that count for c.                         *)
Occurring(h, c, n) == {m \in 1 .. n : Counted(h[m])[c] = 1}
Covers(h, counts, n) ==
    \A c \in Counters : counts[c] >= Cardinality(Occurring(h, c, n))

(* Statistics cover the changes up to their number, and maybe more.        *)
StatsOK(h, a) ==
    /\ a.seqnum \in 0 .. Len(h)
    /\ a.counts \in [Counters -> Nat]
    /\ Covers(h, a.counts, a.seqnum)

ReadOK(h, r) ==
    /\ r.seqnum \in 0 .. Len(h)
    /\ \A i \in 1 .. Len(r.read) :
          i \in 1 .. Len(CounterOrder) =>
             r.read[i] >= Cardinality(Occurring(h, CounterOrder[i], r.seqnum))

Refresh == [seqnum : Nat, read : Seq(Nat), active : BOOLEAN]
Stats == [seqnum : Nat, counts : [Counters -> Nat],
          toApply : Seq(Event), delta : [Counters -> Nat]]

PollingTypes ==
    /\ history \in Seq(Kinds) /\ boardCounts \in [Counters -> Nat]
    /\ refresh \in Refresh /\ stats \in Stats

StatsInv ==
    /\ Covers(history, boardCounts, Len(history))
    /\ refresh.active => /\ ReadOK(history, refresh)
                         /\ currentStats.seqnum <= refresh.seqnum
    /\ StatsOK(history, currentStats)

(* The client's number is never ahead of the answer on its way, nor that   *)
(* of the server's statistics.                                             *)
AnswerInv ==
    /\ StatsOK(history, stats)
    /\ stats.seqnum <= currentStats.seqnum
    /\ statsRequest.phase = "answered" =>
          /\ StatsOK(history, statsRequest.answer)
          /\ stats.seqnum <= statsRequest.answer.seqnum
          /\ statsRequest.answer.seqnum <= currentStats.seqnum

(* What the statistics were told of and have not polled they apply.        *)
IsChange(h, e) ==
    /\ e \in Event /\ e.seqnum \in 1 .. Len(h)
    /\ e.kind \in {h[e.seqnum], WithoutVictim(h[e.seqnum])}
ToldInv ==
    /\ \A e \in told \cup unheard : IsChange(history, e)
    /\ \A e \in told : e.seqnum > stats.seqnum =>
          \E i \in DOMAIN stats.toApply : stats.toApply[i] = e
    /\ \A c \in Counters :
          stats.delta[c] >= Cardinality(CountingIn(stats.toApply, DOMAIN stats.toApply, c))

PInv == PollingTypes /\ StatsInv /\ AnswerInv /\ ToldInv

LEMMA OccurringFacts ==
    ASSUME NEW h, NEW c, NEW n \in Nat, NEW m \in 0 .. n
    PROVE  /\ IsFiniteSet(Occurring(h, c, n)) /\ Cardinality(Occurring(h, c, n)) \in Nat
           /\ Cardinality(Occurring(h, c, m)) \in Nat
           /\ Cardinality(Occurring(h, c, m)) <= Cardinality(Occurring(h, c, n))
<1>1. IsFiniteSet(1 .. n)
  BY FS_Interval
<1>2. Occurring(h, c, n) \in SUBSET (1 .. n)
      /\ Occurring(h, c, m) \in SUBSET Occurring(h, c, n)
  BY DEF Occurring
<1>3. IsFiniteSet(Occurring(h, c, n))
  BY <1>1, <1>2, FS_Subset
<1> QED BY <1>2, <1>3, FS_Subset, FS_CardinalityType

(* Statistics that cover some changes still do when there is one more.     *)
LEMMA ChangesStay ==
    ASSUME NEW h \in Seq(Kinds), NEW kind \in Kinds
    PROVE  /\ Append(h, kind) \in Seq(Kinds) /\ Len(Append(h, kind)) = Len(h) + 1
           /\ \A c, n : n \in 0 .. Len(h) =>
                 Occurring(Append(h, kind), c, n) = Occurring(h, c, n)
           /\ \A a : StatsOK(h, a) => StatsOK(Append(h, kind), a)
           /\ \A r : ReadOK(h, r) => ReadOK(Append(h, kind), r)
           /\ \A e : IsChange(h, e) => IsChange(Append(h, kind), e)
<1> DEFINE g == Append(h, kind)
<1>1. /\ g \in Seq(Kinds) /\ Len(g) = Len(h) + 1 /\ Len(h) \in Nat
      /\ \A m \in 1 .. Len(h) : g[m] = h[m]
  BY AppendProperties, LenProperties
<1> HIDE DEF g
<1>2. \A c, n : n \in 0 .. Len(h) => Occurring(g, c, n) = Occurring(h, c, n)
  BY <1>1 DEF Occurring
<1>3. ASSUME NEW a, StatsOK(h, a) PROVE StatsOK(g, a)
  BY <1>1, <1>2, <1>3 DEF StatsOK, Covers
<1>4. ASSUME NEW r, ReadOK(h, r) PROVE ReadOK(g, r)
  BY <1>1, <1>2, <1>4 DEF ReadOK
<1>5. ASSUME NEW e, IsChange(h, e) PROVE IsChange(g, e)
  BY <1>1, <1>5 DEF IsChange
<1> QED BY <1>1, <1>2, <1>3, <1>4, <1>5 DEF g

LEMMA BoardChangesInv ==
    ASSUME PInv, NEW kind \in Kinds, BoardChanges(kind)
    PROVE  PInv'
<1> DEFINE h == Append(history, kind)
<1>1. /\ history' = h /\ boardCounts' = Plus(boardCounts, Counted(kind))
      /\ unheard' = unheard \cup {[seqnum |-> Len(history) + 1, kind |-> kind]}
      /\ UNCHANGED <<refresh, currentStats, statsRequest, stats, told>>
  BY DEF BoardChanges
<1>2. PollingTypes /\ StatsInv /\ AnswerInv /\ ToldInv
  BY DEF PInv
<1>3. history \in Seq(Kinds) /\ Len(history) \in Nat /\ h[Len(history) + 1] = kind
  BY <1>2, AppendProperties, LenProperties DEF PollingTypes
<1>4. /\ h \in Seq(Kinds) /\ Len(h) = Len(history) + 1
      /\ \A c, n : n \in 0 .. Len(history) => Occurring(h, c, n) = Occurring(history, c, n)
      /\ \A a : StatsOK(history, a) => StatsOK(h, a)
      /\ \A r : ReadOK(history, r) => ReadOK(h, r)
      /\ \A e : IsChange(history, e) => IsChange(h, e)
  BY <1>3, ChangesStay
<1> HIDE DEF h
<1>5. PollingTypes'
  <2>1. \A c \in Counters : Counted(kind)[c] \in Nat
    BY KindFacts DEF ToldKinds
  <2> QED BY <1>1, <1>2, <1>4, <2>1 DEF PollingTypes, Plus
<1>6. Covers(h, boardCounts', Len(h))
  <2> SUFFICES ASSUME NEW c \in Counters
               PROVE  boardCounts'[c] >= Cardinality(Occurring(h, c, Len(h)))
    BY DEF Covers
  <2>1. /\ boardCounts'[c] = boardCounts[c] + Counted(kind)[c]
        /\ boardCounts[c] \in Nat /\ Counted(kind)[c] \in Nat
    BY <1>1, <1>2, KindFacts DEF PollingTypes, Plus, ToldKinds
  <2>2. boardCounts[c] >= Cardinality(Occurring(history, c, Len(history)))
    BY <1>2 DEF StatsInv, Covers
  <2> DEFINE old == Occurring(history, c, Len(history))
  <2>3. IsFiniteSet(old) /\ Cardinality(old) \in Nat
    BY <1>3, OccurringFacts
  <2>4. old = Occurring(h, c, Len(history))
    BY <1>3, <1>4
  <2>5. Occurring(h, c, Len(h)) =
           IF Counted(kind)[c] = 1 THEN old \cup {Len(history) + 1} ELSE old
    BY <1>3, <1>4, <2>4 DEF Occurring
  <2>6. Len(history) + 1 \notin old
    BY <1>3 DEF Occurring
  <2> HIDE DEF old
  <2>7. CASE Counted(kind)[c] = 1
    <3>1. Cardinality(Occurring(h, c, Len(h))) = Cardinality(old) + 1
      BY <2>3, <2>5, <2>6, <2>7, FS_AddElement
    <3> QED BY <2>1, <2>2, <2>3, <2>7, <3>1 DEF old
  <2>8. CASE Counted(kind)[c] # 1
    <3>1. Cardinality(Occurring(h, c, Len(h))) = Cardinality(old)
      BY <2>5, <2>8
    <3> QED BY <2>1, <2>2, <2>3, <3>1 DEF old
  <2> QED BY <2>7, <2>8
<1>7. StatsInv'
  BY <1>1, <1>2, <1>4, <1>6 DEF StatsInv
<1>8. AnswerInv'
  BY <1>1, <1>2, <1>4 DEF AnswerInv
<1>9. ToldInv'
  <2>1. ASSUME NEW e \in told' \cup unheard' PROVE IsChange(h, e)
    <3>1. CASE e \in told \cup unheard
      BY <1>2, <1>4, <3>1 DEF ToldInv
    <3>2. CASE e = [seqnum |-> Len(history) + 1, kind |-> kind]
      BY <1>3, <1>4, <3>2 DEF IsChange, Event, ToldKinds
    <3> QED BY <1>1, <3>1, <3>2
  <2> QED BY <1>1, <1>2, <2>1 DEF ToldInv
<1> QED BY <1>5, <1>7, <1>8, <1>9 DEF PInv

-----------------------------------------------------------------------------
(* The steps.                                                              *)

OrderOf(c) == CHOOSE i \in DOMAIN CounterOrder : CounterOrder[i] = c

LEMMA CounterFacts ==
    /\ Len(CounterOrder) \in Nat /\ DOMAIN CounterOrder = 1 .. Len(CounterOrder)
    /\ \A i \in 1 .. Len(CounterOrder) : CounterOrder[i] \in Counters
    /\ \A c \in Counters : OrderOf(c) \in 1 .. Len(CounterOrder) /\ CounterOrder[OrderOf(c)] = c
<1>1. Len(CounterOrder) \in Nat /\ DOMAIN CounterOrder = 1 .. Len(CounterOrder)
  BY DEF CounterOrder
<1>2. Counters = {CounterOrder[i] : i \in DOMAIN CounterOrder}
  BY DEF Counters, Range
<1>3. ASSUME NEW c \in Counters
      PROVE  OrderOf(c) \in DOMAIN CounterOrder /\ CounterOrder[OrderOf(c)] = c
  BY <1>2 DEF OrderOf
<1> QED BY <1>1, <1>2, <1>3

LEMMA InitInv == PollingInit => PInv
<1> SUFFICES ASSUME PollingInit PROVE PInv
  OBVIOUS
<1>1. /\ history = <<>> /\ boardCounts = NoCounts /\ refresh = NotRefreshing
      /\ currentStats = NoAnswer /\ statsRequest = [phase |-> "asked", answer |-> NoAnswer]
      /\ stats = [seqnum |-> 0, counts |-> NoCounts, toApply |-> <<>>, delta |-> NoCounts]
      /\ unheard = {} /\ told = {}
  BY DEF PollingInit
<1>2. NoCounts \in [Counters -> Nat] /\ \A c \in Counters : NoCounts[c] = 0
  BY DEF NoCounts
<1>3. <<>> \in Seq(Kinds) /\ <<>> \in Seq(Nat) /\ <<>> \in Seq(Event)
      /\ Len(history) = 0
  BY <1>1, EmptySeq
<1>4. PollingTypes
  BY <1>1, <1>2, <1>3 DEF PollingTypes, Refresh, Stats, NotRefreshing
<1>5. Covers(history, NoCounts, 0)
  <2>1. \A c : Occurring(history, c, 0) = {}
    BY DEF Occurring
  <2> QED BY <1>2, <2>1, FS_EmptySet DEF Covers
<1>6. /\ currentStats.seqnum = 0 /\ currentStats.counts = NoCounts
      /\ stats.seqnum = 0 /\ stats.counts = NoCounts
      /\ stats.delta = NoCounts /\ stats.toApply = <<>>
      /\ statsRequest.phase = "asked" /\ ~refresh.active
  BY <1>1 DEF NoAnswer, NotRefreshing
<1>7. StatsOK(history, currentStats) /\ StatsOK(history, stats)
  BY <1>2, <1>3, <1>5, <1>6 DEF StatsOK
<1>8. StatsInv /\ AnswerInv
  BY <1>1, <1>3, <1>5, <1>6, <1>7 DEF StatsInv, AnswerInv
<1>9. ToldInv
  <2>1. ASSUME NEW c \in Counters
        PROVE  stats.delta[c] >= Cardinality(CountingIn(stats.toApply, DOMAIN stats.toApply, c))
    <3>1. DOMAIN stats.toApply = {}
      BY <1>6
    <3>2. CountingIn(stats.toApply, DOMAIN stats.toApply, c) = {}
      BY <3>1 DEF CountingIn
    <3>3. Cardinality(CountingIn(stats.toApply, DOMAIN stats.toApply, c)) = 0
      BY <3>2, FS_EmptySet
    <3> QED BY <1>2, <1>6, <3>3
  <2> QED BY <1>1, <2>1 DEF ToldInv
<1> QED BY <1>4, <1>8, <1>9 DEF PInv

LEMMA RefreshStartsInv ==
    ASSUME PInv, RefreshStarts
    PROVE  PInv'
<1>1. /\ refresh' = [seqnum |-> Len(history), read |-> <<>>, active |-> TRUE]
      /\ UNCHANGED <<history, boardCounts, currentStats, statsRequest, stats, unheard, told>>
  BY DEF RefreshStarts, statsVars
<1>2. PollingTypes /\ StatsInv /\ AnswerInv /\ ToldInv
  BY DEF PInv
<1>3. Len(history) \in Nat /\ <<>> \in Seq(Nat) /\ Len(<<>>) = 0
  BY <1>2, LenProperties, EmptySeq DEF PollingTypes
<1>4. PollingTypes'
  BY <1>1, <1>2, <1>3 DEF PollingTypes, Refresh
<1>5. ReadOK(history, refresh')
  BY <1>1, <1>3 DEF ReadOK
<1>6. currentStats.seqnum <= refresh'.seqnum
  BY <1>1, <1>2, <1>3 DEF StatsInv, StatsOK
<1>7. StatsInv'
  BY <1>1, <1>2, <1>5, <1>6 DEF StatsInv
<1>8. AnswerInv' /\ ToldInv'
  BY <1>1, <1>2 DEF AnswerInv, ToldInv
<1> QED BY <1>4, <1>7, <1>8 DEF PInv

LEMMA RefreshReadsInv ==
    ASSUME PInv, RefreshReads
    PROVE  PInv'
<1> DEFINE next == Len(refresh.read) + 1
           c == CounterOrder[next]
           read == Append(refresh.read, boardCounts[c])
<1>1. /\ refresh.active /\ Len(refresh.read) < Len(CounterOrder)
      /\ refresh' = [refresh EXCEPT !.read = read]
      /\ UNCHANGED <<history, boardCounts, currentStats, statsRequest, stats, unheard, told>>
  BY DEF RefreshReads, statsVars
<1>2. PollingTypes /\ StatsInv /\ AnswerInv /\ ToldInv
  BY DEF PInv
<1>3. /\ refresh.seqnum \in Nat /\ refresh.read \in Seq(Nat)
      /\ refresh'.seqnum = refresh.seqnum /\ refresh'.read = read
      /\ refresh'.active = refresh.active
  BY <1>1, <1>2 DEF PollingTypes, Refresh
<1>4. next \in 1 .. Len(CounterOrder) /\ c \in Counters
  <2>1. Len(refresh.read) \in Nat
    BY <1>3, LenProperties
  <2>2. next \in 1 .. Len(CounterOrder)
    BY <1>1, <2>1, CounterFacts
  <2> QED BY <2>2, CounterFacts
<1>5. boardCounts[c] \in Nat
  BY <1>2, <1>4 DEF PollingTypes
<1>6. /\ read \in Seq(Nat) /\ Len(read) = next /\ read[next] = boardCounts[c]
      /\ \A i \in 1 .. Len(refresh.read) : read[i] = refresh.read[i]
      /\ Len(refresh.read) \in Nat
  BY <1>3, <1>5, AppendProperties, LenProperties
<1> HIDE DEF read
<1>7. PollingTypes'
  BY <1>1, <1>2, <1>6 DEF PollingTypes, Refresh
<1>8. ReadOK(history, refresh')
  <2>1. ReadOK(history, refresh)
    BY <1>1, <1>2 DEF StatsInv
  <2>2. ASSUME NEW i \in 1 .. Len(read), i \in 1 .. Len(CounterOrder)
        PROVE  read[i] >= Cardinality(Occurring(history, CounterOrder[i], refresh.seqnum))
    <3>1. CASE i = next
      <4>1. boardCounts[c] >= Cardinality(Occurring(history, c, Len(history)))
        BY <1>2, <1>4 DEF StatsInv, Covers
      <4>2. Len(history) \in Nat /\ refresh.seqnum \in 0 .. Len(history)
        BY <1>2, <2>1, LenProperties DEF PollingTypes, ReadOK
      <4>3. /\ Cardinality(Occurring(history, c, refresh.seqnum)) \in Nat
            /\ Cardinality(Occurring(history, c, Len(history))) \in Nat
            /\ Cardinality(Occurring(history, c, refresh.seqnum))
                  <= Cardinality(Occurring(history, c, Len(history)))
        BY <4>2, OccurringFacts
      <4>4. boardCounts[c] >= Cardinality(Occurring(history, c, refresh.seqnum))
        BY <1>5, <4>1, <4>3
      <4> QED BY <1>6, <3>1, <4>4
    <3>2. CASE i # next
      <4>1. i \in 1 .. Len(refresh.read)
        BY <1>6, <3>2
      <4> QED BY <1>6, <2>1, <2>2, <4>1 DEF ReadOK
    <3> QED BY <3>1, <3>2
  <2> QED BY <1>3, <2>1, <2>2 DEF ReadOK
<1>9. StatsInv'
  BY <1>1, <1>2, <1>3, <1>8 DEF StatsInv
<1>10. AnswerInv' /\ ToldInv'
  BY <1>1, <1>2 DEF AnswerInv, ToldInv
<1> QED BY <1>7, <1>9, <1>10 DEF PInv

LEMMA RefreshEndsInv ==
    ASSUME PInv, RefreshEnds
    PROVE  PInv'
<1> DEFINE counts == [c \in Counters |-> refresh.read[OrderOf(c)]]
<1>1. /\ refresh.active /\ Len(refresh.read) = Len(CounterOrder)
      /\ currentStats' = [seqnum |-> refresh.seqnum, counts |-> counts,
                          winner |-> WinnerOf(counts)]
      /\ refresh' = NotRefreshing
      /\ UNCHANGED <<history, boardCounts, statsRequest, stats, unheard, told>>
  BY DEF RefreshEnds, statsVars, OrderOf
<1>2. PollingTypes /\ StatsInv /\ AnswerInv /\ ToldInv
  BY DEF PInv
<1>3. /\ refresh.seqnum \in Nat /\ refresh.read \in Seq(Nat)
      /\ ReadOK(history, refresh) /\ currentStats.seqnum <= refresh.seqnum
  BY <1>1, <1>2 DEF PollingTypes, Refresh, StatsInv
<1>4. PollingTypes'
  <2>1. <<>> \in Seq(Nat)
    BY EmptySeq
  <2> QED BY <1>1, <1>2, <2>1 DEF PollingTypes, Refresh, NotRefreshing
<1>5. ASSUME NEW c \in Counters
      PROVE  /\ counts[c] \in Nat
             /\ counts[c] >= Cardinality(Occurring(history, c, refresh.seqnum))
  <2>1. OrderOf(c) \in 1 .. Len(refresh.read) /\ OrderOf(c) \in 1 .. Len(CounterOrder)
        /\ CounterOrder[OrderOf(c)] = c
    BY <1>1, CounterFacts
  <2>2. refresh.read[OrderOf(c)] \in Nat
    BY <1>3, <2>1, ElementOfSeq
  <2>3. refresh.read[OrderOf(c)] >=
           Cardinality(Occurring(history, CounterOrder[OrderOf(c)], refresh.seqnum))
    BY <1>3, <2>1 DEF ReadOK
  <2> QED BY <2>1, <2>2, <2>3
<1> HIDE DEF counts
<1>6. counts \in [Counters -> Nat]
  BY <1>5 DEF counts
<1>7. currentStats'.seqnum = refresh.seqnum /\ currentStats'.counts = counts
  BY <1>1
<1>8. StatsOK(history, currentStats')
  BY <1>3, <1>5, <1>6, <1>7 DEF StatsOK, Covers, ReadOK
<1>9. StatsInv'
  BY <1>1, <1>2, <1>8 DEF StatsInv, NotRefreshing
<1>10. currentStats.seqnum \in Nat /\ stats.seqnum \in Nat
  BY <1>2 DEF StatsInv, StatsOK, PollingTypes, Stats
<1>11. AnswerInv'
  <2>1. ASSUME NEW n \in Int, n <= currentStats.seqnum PROVE n <= currentStats'.seqnum
    BY <1>3, <1>7, <1>10, <2>1
  <2>2. statsRequest.phase = "answered" => statsRequest.answer.seqnum \in Int
    BY <1>2 DEF AnswerInv, StatsOK
  <2> QED BY <1>1, <1>2, <1>10, <2>1, <2>2 DEF AnswerInv
<1>12. ToldInv'
  BY <1>1, <1>2 DEF ToldInv
<1> QED BY <1>4, <1>9, <1>11, <1>12 DEF PInv

(* The steps that leave the statistics alone, on both sides.               *)
LEMMA QuietInv ==
    ASSUME PInv,
           UNCHANGED <<history, boardCounts, refresh, currentStats, stats, told>>,
           unheard' \subseteq unheard,
           \/ statsRequest' = statsRequest
           \/ statsRequest'.phase # "answered"
           \/ statsRequest'.answer = currentStats
    PROVE  PInv'
<1>1. PollingTypes /\ StatsInv /\ AnswerInv /\ ToldInv
  BY DEF PInv
<1>2. PollingTypes' /\ StatsInv'
  BY <1>1 DEF PollingTypes, StatsInv
<1>3. AnswerInv'
  <2>1. /\ StatsOK(history, currentStats) /\ stats.seqnum <= currentStats.seqnum
        /\ currentStats.seqnum \in Int
    BY <1>1 DEF StatsInv, AnswerInv, StatsOK
  <2> QED BY <1>1, <2>1 DEF AnswerInv
<1>4. ToldInv'
  BY <1>1 DEF ToldInv
<1> QED BY <1>2, <1>3, <1>4 DEF PInv

(* An event heard of that applies is appended, and counted.                *)
LEMMA AppliedFacts ==
    ASSUME NEW s \in Seq(Event), NEW e \in Event
    PROVE  /\ Append(s, e) \in Seq(Event)
           /\ \A i \in DOMAIN s : i \in DOMAIN Append(s, e) /\ Append(s, e)[i] = s[i]
           /\ Len(s) + 1 \in DOMAIN Append(s, e) /\ Append(s, e)[Len(s) + 1] = e
           /\ \A c : LET before == CountingIn(s, DOMAIN s, c)
                         after == CountingIn(Append(s, e), DOMAIN Append(s, e), c)
                     IN  /\ Cardinality(before) \in Nat
                         /\ Cardinality(after) =
                              IF Counted(e.kind)[c] = 1 THEN Cardinality(before) + 1
                              ELSE Cardinality(before)
<1> DEFINE t == Append(s, e)
<1>1. /\ t \in Seq(Event) /\ Len(t) = Len(s) + 1 /\ Len(s) \in Nat
      /\ DOMAIN s = 1 .. Len(s) /\ DOMAIN t = 1 .. Len(t)
      /\ \A i \in 1 .. Len(s) : t[i] = s[i]
      /\ t[Len(s) + 1] = e
  BY AppendProperties, LenProperties
<1> HIDE DEF t
<1>2. IsFiniteSet(1 .. Len(s))
  <2>1. 1 \in Int /\ Len(s) \in Int
    BY <1>1
  <2> QED BY <2>1, FS_Interval
<1>3. ASSUME NEW c
      PROVE  LET before == CountingIn(s, DOMAIN s, c)
                 after == CountingIn(t, DOMAIN t, c)
             IN  /\ Cardinality(before) \in Nat
                 /\ Cardinality(after) =
                      IF Counted(e.kind)[c] = 1 THEN Cardinality(before) + 1
                      ELSE Cardinality(before)
  <2> DEFINE before == CountingIn(s, DOMAIN s, c)
             after == CountingIn(t, DOMAIN t, c)
  <2>1. before \in SUBSET (1 .. Len(s))
    BY <1>1 DEF CountingIn
  <2>2. IsFiniteSet(before) /\ Cardinality(before) \in Nat
    BY <1>2, <2>1, FS_Subset, FS_CardinalityType
  <2>3. after = IF Counted(e.kind)[c] = 1 THEN before \cup {Len(s) + 1} ELSE before
    BY <1>1 DEF CountingIn
  <2>4. Len(s) + 1 \notin before
    BY <1>1, <2>1
  <2> HIDE DEF before, after
  <2>5. Cardinality(before \cup {Len(s) + 1}) = Cardinality(before) + 1
    BY <2>2, <2>4, FS_AddElement
  <2>6. /\ Cardinality(before) \in Nat
        /\ Cardinality(after) =
              IF Counted(e.kind)[c] = 1 THEN Cardinality(before) + 1
              ELSE Cardinality(before)
    BY <2>2, <2>3, <2>5
  <2> QED BY <2>6 DEF before, after
<1>4. /\ t \in Seq(Event)
      /\ \A i \in DOMAIN s : i \in DOMAIN t /\ t[i] = s[i]
      /\ Len(s) + 1 \in DOMAIN t /\ t[Len(s) + 1] = e
  BY <1>1
<1> QED BY <1>3, <1>4 DEF t

LEMMA HearOfInv ==
    ASSUME PInv, NEW change \in unheard, HearOf(change)
    PROVE  PInv'
<1>0. PICK kind \in {change.kind, WithoutVictim(change.kind)} :
         /\ told' = told \cup {[seqnum |-> change.seqnum, kind |-> kind]}
         /\ addNewMovesAndCaptures([seqnum |-> change.seqnum, kind |-> kind])
  BY DEF HearOf
<1> DEFINE event == [seqnum |-> change.seqnum, kind |-> kind]
<1>1. /\ unheard' = unheard \ {change} /\ told' = told \cup {event}
      /\ addNewMovesAndCaptures(event)
      /\ UNCHANGED <<history, boardCounts, refresh, currentStats, statsRequest>>
  BY <1>0 DEF HearOf, serverVars
<1>2. PollingTypes /\ StatsInv /\ AnswerInv /\ ToldInv
  BY DEF PInv
<1>3. IsChange(history, event) /\ event \in Event
  <2>1. IsChange(history, change)
    BY <1>2 DEF ToldInv
  <2>2. change.kind \in ToldKinds /\ change.seqnum \in Nat
    BY <2>1 DEF IsChange, Event
  <2>3. history[change.seqnum] \in ToldKinds
    <3>1. history \in Seq(Kinds) /\ change.seqnum \in 1 .. Len(history)
      BY <1>2, <2>1 DEF PollingTypes, IsChange
    <3> QED BY <3>1, ElementOfSeq DEF ToldKinds
  <2>4. kind \in ToldKinds
    BY <2>2, ToldKindFacts
  <2>5. kind \in {history[change.seqnum], WithoutVictim(history[change.seqnum])}
    BY <2>1, <2>3, ToldKindFacts DEF IsChange
  <2> QED BY <2>1, <2>2, <2>4, <2>5 DEF IsChange, Event
<1> HIDE DEF event
<1>4. CASE ~ Applies(event, stats.seqnum)
  <2>1. UNCHANGED stats
    BY <1>1, <1>4 DEF addNewMovesAndCaptures
  <2>2. PollingTypes' /\ StatsInv' /\ AnswerInv'
    BY <1>1, <1>2, <2>1 DEF PollingTypes, StatsInv, AnswerInv
  <2>3. ToldInv'
    BY <1>1, <1>2, <1>3, <1>4, <2>1 DEF ToldInv, Applies
  <2> QED BY <2>2, <2>3 DEF PInv
<1>5. CASE Applies(event, stats.seqnum)
  <2> DEFINE old == stats.toApply
             new == Append(old, event)
  <2>1. stats \in Stats
    BY <1>2 DEF PollingTypes
  <2>2. stats' = [stats EXCEPT !.toApply = new, !.delta = Plus(stats.delta, Heard(event.kind))]
    BY <1>1, <1>5 DEF addNewMovesAndCaptures
  <2>3. /\ stats'.seqnum = stats.seqnum /\ stats'.counts = stats.counts
        /\ stats'.toApply = new /\ stats'.delta = Plus(stats.delta, Heard(event.kind))
        /\ old \in Seq(Event) /\ stats.delta \in [Counters -> Nat]
    BY <2>1, <2>2 DEF Stats
  <2>4. event.kind \in ToldKinds
    BY <1>3 DEF Event
  <2>5. /\ new \in Seq(Event)
        /\ \A i \in DOMAIN old : i \in DOMAIN new /\ new[i] = old[i]
        /\ Len(old) + 1 \in DOMAIN new /\ new[Len(old) + 1] = event
        /\ \A c : /\ Cardinality(CountingIn(old, DOMAIN old, c)) \in Nat
                  /\ Cardinality(CountingIn(new, DOMAIN new, c)) =
                        IF Counted(event.kind)[c] = 1
                        THEN Cardinality(CountingIn(old, DOMAIN old, c)) + 1
                        ELSE Cardinality(CountingIn(old, DOMAIN old, c))
    BY <1>3, <2>3, AppliedFacts
  <2> HIDE DEF new
  <2>6. \A c \in Counters : /\ stats'.delta[c] = stats.delta[c] + Heard(event.kind)[c]
                            /\ stats.delta[c] \in Nat /\ Heard(event.kind)[c] \in Nat
                            /\ Counted(event.kind)[c] = 1 => Heard(event.kind)[c] >= 1
    BY <2>3, <2>4, KindFacts DEF Plus
  <2>7. stats'.delta \in [Counters -> Nat]
    BY <2>3, <2>6 DEF Plus
  <2>8. PollingTypes'
    <3>1. stats' = [seqnum |-> stats.seqnum, counts |-> stats.counts,
                    toApply |-> new, delta |-> stats'.delta]
      BY <2>1, <2>2 DEF Stats
    <3>2. stats' \in Stats
      BY <2>1, <2>5, <2>7, <3>1 DEF Stats
    <3> QED BY <1>1, <1>2, <3>2 DEF PollingTypes
  <2>9. StatsInv' /\ AnswerInv'
    BY <1>1, <1>2, <2>3 DEF StatsInv, AnswerInv, StatsOK
  <2>10. ASSUME NEW c \in Counters
         PROVE  stats'.delta[c] >= Cardinality(CountingIn(new, DOMAIN new, c))
    <3>1. stats.delta[c] >= Cardinality(CountingIn(old, DOMAIN old, c))
      BY <1>2 DEF ToldInv
    <3> HIDE DEF old
    <3> QED BY <2>5, <2>6, <3>1
  <2>11. ASSUME NEW e \in told', e.seqnum > stats.seqnum
         PROVE  \E i \in DOMAIN new : new[i] = e
    <3>1. CASE e = event
      BY <2>5, <3>1
    <3>2. CASE e \in told
      <4>1. PICK i \in DOMAIN old : old[i] = e
        BY <1>2, <2>11, <3>2 DEF ToldInv
      <4> QED BY <2>5, <4>1
    <3> QED BY <1>1, <3>1, <3>2
  <2>12. ToldInv'
    BY <1>1, <1>2, <1>3, <2>3, <2>10, <2>11 DEF ToldInv
  <2> QED BY <2>8, <2>9, <2>12 DEF PInv
<1> QED BY <1>4, <1>5

LEMMA DeltaFacts ==
    ASSUME NEW s \in Seq(Event)
    PROVE  /\ DeltaOf(s) \in [Counters -> Nat]
           /\ \A c \in Counters :
                 DeltaOf(s)[c] >= Cardinality(CountingIn(s, DOMAIN s, c))
<1>1. IsFiniteSet(DOMAIN s)
  <2>1. DOMAIN s = 1 .. Len(s) /\ Len(s) \in Nat
    BY LenProperties
  <2> QED BY <2>1, FS_Interval
<1>2. SumOf(s)[DOMAIN s] = SumStep(s, SumOf(s), DOMAIN s)
  BY <1>1, SumExists
<1>3. DeltaOf(s) = SumStep(s, SumOf(s), DOMAIN s)
  BY <1>2, DeltaIsSum
<1>4. DeltaOf(s) = [c \in Counters |-> DeltaOf(s)[c]]
  BY <1>3 DEF SumStep, Plus, NoCounts
<1>5. \A c \in Counters : /\ DeltaOf(s)[c] \in Nat
                          /\ DeltaOf(s)[c] >= Cardinality(CountingIn(s, DOMAIN s, c))
  BY SumBound
<1> QED BY <1>4, <1>5

LEMMA StatsPollEndsInv ==
    ASSUME PInv, StatsPollEnds
    PROVE  PInv'
<1> DEFINE answer == statsRequest.answer
           still == StillToApply(stats.toApply, answer.seqnum)
<1>1. /\ statsRequest.phase = "answered" /\ statsRequest' = PollTimer
      /\ stats' = [seqnum |-> answer.seqnum, counts |-> answer.counts,
                   toApply |-> still, delta |-> DeltaOf(still)]
      /\ UNCHANGED <<history, boardCounts, refresh, currentStats, unheard, told>>
  BY DEF StatsPollEnds, setGlobalStats, serverVars
<1>2. PollingTypes /\ StatsInv /\ AnswerInv /\ ToldInv
  BY DEF PInv
<1>3. /\ StatsOK(history, answer) /\ stats.seqnum <= answer.seqnum
      /\ answer.seqnum <= currentStats.seqnum
  BY <1>1, <1>2 DEF AnswerInv
<1>4. /\ answer.seqnum \in Nat /\ answer.counts \in [Counters -> Nat]
      /\ stats.toApply \in Seq(Event) /\ stats.seqnum \in Nat
  BY <1>2, <1>3, LenProperties DEF StatsOK, PollingTypes, Stats
<1>5. /\ still \in Seq(Event)
      /\ \A i \in DOMAIN stats.toApply : Applies(stats.toApply[i], answer.seqnum) =>
            \E j \in DOMAIN still : still[j] = stats.toApply[i]
  BY <1>4, StillFacts
<1> HIDE DEF still, answer
<1>6. /\ DeltaOf(still) \in [Counters -> Nat]
      /\ \A c \in Counters :
            DeltaOf(still)[c] >= Cardinality(CountingIn(still, DOMAIN still, c))
  BY <1>5, DeltaFacts
<1>7. /\ stats'.seqnum = answer.seqnum /\ stats'.counts = answer.counts
      /\ stats'.toApply = still /\ stats'.delta = DeltaOf(still)
  BY <1>1
<1>8. PollingTypes'
  <2>1. stats' \in Stats
    BY <1>1, <1>4, <1>5, <1>6 DEF Stats
  <2> QED BY <1>1, <1>2, <2>1 DEF PollingTypes
<1>9. StatsInv'
  BY <1>1, <1>2 DEF StatsInv
<1>10. AnswerInv'
  <2>1. statsRequest'.phase # "answered"
    BY <1>1 DEF PollTimer
  <2>2. StatsOK(history, stats')
    BY <1>3, <1>7 DEF StatsOK
  <2> QED BY <1>1, <1>3, <1>7, <2>1, <2>2 DEF AnswerInv
<1>11. ASSUME NEW e \in told, e.seqnum > answer.seqnum
       PROVE  \E j \in DOMAIN still : still[j] = e
  <2>1. e.seqnum \in Nat
    BY <1>2 DEF ToldInv, IsChange, Event
  <2>2. e.seqnum > stats.seqnum
    BY <1>3, <1>4, <1>11, <2>1
  <2>3. PICK i \in DOMAIN stats.toApply : stats.toApply[i] = e
    BY <1>2, <2>2 DEF ToldInv
  <2>4. Applies(stats.toApply[i], answer.seqnum)
    BY <1>11, <2>3 DEF Applies
  <2> QED BY <1>5, <2>3, <2>4
<1>12. ToldInv'
  BY <1>1, <1>2, <1>6, <1>7, <1>11 DEF ToldInv
<1> QED BY <1>8, <1>9, <1>10, <1>12 DEF PInv

LEMMA NextInv ==
    ASSUME PInv, [StatsNext \/ CapturesNext]_pollingVars
    PROVE  PInv'
<1>1. ASSUME NEW kind \in Kinds, BoardChanges(kind) PROVE PInv'
  BY <1>1, BoardChangesInv
<1>2. CASE ServerRefreshes
  BY <1>2, RefreshStartsInv, RefreshReadsInv, RefreshEndsInv DEF ServerRefreshes
<1>3. ASSUME NEW event \in unheard, HearOf(event) PROVE PInv'
  BY <1>3, HearOfInv
<1>4. ASSUME NEW event \in unheard, PassOver(event) PROVE PInv'
  <2>1. unheard' \subseteq unheard
    BY <1>4 DEF PassOver
  <2>2. UNCHANGED <<history, boardCounts, refresh, currentStats, stats, told, statsRequest>>
    BY <1>4 DEF PassOver, serverVars
  <2> QED BY <2>1, <2>2, QuietInv
<1>5. CASE StatsPollStarts
  <2>1. statsRequest'.phase # "answered"
    BY <1>5 DEF StatsPollStarts
  <2>2. UNCHANGED <<history, boardCounts, refresh, currentStats, stats, told, unheard>>
    BY <1>5 DEF StatsPollStarts, serverVars
  <2> QED BY <2>1, <2>2, QuietInv
<1>6. CASE ServeGlobalStats
  <2>1. statsRequest'.answer = currentStats
    BY <1>6 DEF ServeGlobalStats
  <2>2. UNCHANGED <<history, boardCounts, refresh, currentStats, stats, told, unheard>>
    BY <1>6 DEF ServeGlobalStats, serverVars
  <2> QED BY <2>1, <2>2, QuietInv
<1>7. CASE StatsPollEnds
  BY <1>7, StatsPollEndsInv
<1>8. CASE StatsPollFails
  <2>1. statsRequest'.phase # "answered"
    BY <1>8 DEF StatsPollFails, PollTimer
  <2>2. UNCHANGED <<history, boardCounts, refresh, currentStats, stats, told, unheard>>
    BY <1>8 DEF StatsPollFails, serverVars
  <2> QED BY <2>1, <2>2, QuietInv
<1>9. CASE CapturesNext \/ UNCHANGED pollingVars
  <2>1. UNCHANGED <<serverVars, statsVars>>
    BY <1>9 DEF CapturesNext, CapturesPoll, setColorAndRunPollLoop, TimerFires,
                CapturesPollEnds, CapturesPollFails, pollingVars
  <2>2. UNCHANGED <<history, boardCounts, refresh, currentStats, stats, told, unheard,
                    statsRequest>>
    BY <2>1 DEF serverVars, statsVars
  <2> QED BY <2>2, QuietInv
<1> QED
  BY <1>1, <1>2, <1>3, <1>4, <1>5, <1>6, <1>7, <1>8, <1>9 DEF StatsNext, StatsPoll

(* The changes that the latest poll has and those that the client heard of *)
(* since are disjoint; its counters cover the former, and each of the      *)
(* latter has its place among what is still to apply.                      *)
LEMMA InvCovers == PInv => NothingKnownIsForgotten
<1> SUFFICES ASSUME PInv, NEW c \in Counters
             PROVE  Displayed[c] >= Cardinality({n \in DOMAIN history :
                       \/ n <= stats.seqnum /\ Counted(history[n])[c] = 1
                       \/ \E e \in told : e.seqnum = n /\ Counted(e.kind)[c] = 1})
  BY DEF NothingKnownIsForgotten
<1> DEFINE last == stats.seqnum
           applied == stats.toApply
           heard(n) == \E e \in told : e.seqnum = n /\ Counted(e.kind)[c] = 1
           known == {n \in DOMAIN history :
                       (n <= last /\ Counted(history[n])[c] = 1) \/ heard(n)}
           polled == Occurring(history, c, last)
           later == {n \in known : n > last}
           counting == CountingIn(applied, DOMAIN applied, c)
<1>1. PollingTypes /\ StatsInv /\ AnswerInv /\ ToldInv
  BY DEF PInv
<1>2. /\ history \in Seq(Kinds) /\ Len(history) \in Nat /\ DOMAIN history = 1 .. Len(history)
      /\ stats \in Stats /\ last \in 0 .. Len(history) /\ last \in Nat
      /\ applied \in Seq(Event) /\ DOMAIN applied = 1 .. Len(applied) /\ Len(applied) \in Nat
  BY <1>1, LenProperties DEF PollingTypes, Stats, AnswerInv, StatsOK
<1>3. known = polled \cup later /\ polled \cap later = {}
  <2>1. ASSUME NEW n \in DOMAIN history, heard(n) PROVE Counted(history[n])[c] = 1
    <3>1. PICK e \in told : e.seqnum = n /\ Counted(e.kind)[c] = 1
      BY <2>1
    <3>2. e.kind \in {history[n], WithoutVictim(history[n])}
      BY <1>1, <3>1 DEF ToldInv, IsChange
    <3>3. history[n] \in ToldKinds
      BY <1>2, ElementOfSeq DEF ToldKinds
    <3> QED BY <3>1, <3>2, <3>3, ToldKindFacts
  <2> QED BY <1>2, <2>1 DEF Occurring
<1>4. IsFiniteSet(1 .. Len(history)) /\ IsFiniteSet(1 .. Len(applied))
  <2>1. 1 \in Int /\ Len(history) \in Int /\ Len(applied) \in Int
    BY <1>2
  <2> HIDE DEF applied
  <2> QED BY <2>1, FS_Interval
<1>5. IsFiniteSet(polled) /\ IsFiniteSet(later) /\ IsFiniteSet(counting)
  <2>1. /\ polled \in SUBSET (1 .. Len(history)) /\ later \in SUBSET (1 .. Len(history))
        /\ counting \in SUBSET (1 .. Len(applied))
    BY <1>2 DEF Occurring, CountingIn
  <2> QED BY <1>4, <2>1, FS_Subset
<1>6. ASSUME NEW n \in later
      PROVE  \E i \in counting : applied[i].seqnum = n
  <2>1. n > last /\ n \in Nat /\ heard(n)
    BY <1>2
  <2>2. PICK e \in told : e.seqnum = n /\ Counted(e.kind)[c] = 1
    BY <2>1
  <2>3. PICK i \in DOMAIN applied : applied[i] = e
    BY <1>1, <2>1, <2>2 DEF ToldInv
  <2> QED BY <2>2, <2>3 DEF CountingIn
<1> DEFINE place == [n \in later |-> CHOOSE i \in counting : applied[i].seqnum = n]
<1>7. \A n \in later : place[n] \in counting /\ applied[place[n]].seqnum = n
  <2> HIDE DEF later, counting, applied
  <2> QED BY <1>6
<1>8. place \in Injection(later, counting)
  <2> HIDE DEF later, counting, applied
  <2>1. place \in [later -> counting]
    BY <1>7
  <2>2. \A m, n \in later : place[m] = place[n] => m = n
    BY <1>7
  <2> QED BY <2>1, <2>2 DEF Injection, IsInjective
<1> HIDE DEF place, later, counting, polled, known
<1>10. Cardinality(later) <= Cardinality(counting)
  BY <1>5, <1>8, FS_Injection
<1>11. Cardinality(known) = Cardinality(polled) + Cardinality(later)
  <2>1. Cardinality(polled \cap later) = 0
    BY <1>3, FS_EmptySet
  <2>2. Cardinality(known) = Cardinality(polled) + Cardinality(later)
                             - Cardinality(polled \cap later)
    BY <1>3, <1>5, FS_Union
  <2>3. Cardinality(polled) \in Nat /\ Cardinality(later) \in Nat
    BY <1>5, FS_CardinalityType
  <2> QED BY <2>1, <2>2, <2>3
<1>12. /\ Cardinality(polled) \in Nat /\ Cardinality(later) \in Nat
       /\ Cardinality(counting) \in Nat
  BY <1>5, FS_CardinalityType
<1>13. stats.counts[c] >= Cardinality(polled) /\ stats.delta[c] >= Cardinality(counting)
  BY <1>1 DEF AnswerInv, StatsOK, Covers, ToldInv, polled, counting
<1>14. stats.counts[c] \in Nat /\ stats.delta[c] \in Nat
  BY <1>2 DEF Stats
<1>15. Displayed[c] = stats.counts[c] + stats.delta[c]
  BY DEF Displayed, Plus
<1>16. Displayed[c] >= Cardinality(known)
  BY <1>10, <1>11, <1>12, <1>13, <1>14, <1>15
<1> QED BY <1>16 DEF known

(* The page never shows fewer moves or captures than its latest poll and   *)
(* what the statistics were told of since add up to, in whatever order     *)
(* they arrive.  They are told of every move the client hears of, and of   *)
(* those captures whose piece it still holds (pieceHandler.js:1147, 1190-  *)
(* 1202; statsHandler.js:151-229).                                         *)
THEOREM NothingIsForgotten == PollingSpec => []NothingKnownIsForgotten
<1>1. PollingInit => PInv
  BY InitInv
<1>2. PInv /\ [StatsNext \/ CapturesNext]_pollingVars => PInv'
  BY NextInv
<1> QED BY <1>1, <1>2, InvCovers, PTL DEF PollingSpec
=============================================================================
