----------------------------- MODULE ClientView -----------------------------
(***************************************************************************)
(* One web client and the server, joined by a websocket: what the client   *)
(* shows against what stands on the board.  The client applies a move when *)
(* it is clicked and learns three ways what became of it, in no fixed      *)
(* order: the answer to the request, which the writer of the board sends   *)
(* at once; the broadcast of the move, which a goroutine per move puts     *)
(* into a buffer that is sent from time to time; and the snapshots, taken  *)
(* under the board's read lock and sent later.  Other players move, the    *)
(* administrator captures in bulk, and the connection breaks.              *)
(*                                                                         *)
(* The window of the client is the whole board here, and a rule of chess   *)
(* is a member of Steps: ClientRules and Board are about the real ones.    *)
(***************************************************************************)
EXTENDS PieceHandler

CONSTANTS
    Home,           \* [piece -> square]: where the pieces start
    Steps,          \* the moves of the rules; see OkStep
    BulkVictims,    \* the sets of pieces the administrator may capture
    MaxSeqNum,      \* bound: no change of the board from this seqnum on
    MaxTurns        \* bound: moves the client makes and times the connection
                    \* breaks, together

VARIABLES
    history,    \* the boards so far, [id -> square]; the last one is current
    requests,   \* ClientMessages on their way to the board's writer
    pending,    \* broadcasts whose goroutine has not run yet
    buffer,     \* moveBuffer and captureBuffer of the server's Client
    snapshot,   \* a snapshot that is taken and not yet sent, in a set
    link,       \* ServerMessages on their way to the client
    handler,    \* the PieceHandler
    moveToken,  \* PieceHandler.moveToken
    offer,      \* the selected move, in a set
    visible,    \* PieceDisplay's visiblePiecesAndIdsRef: [id -> square]
    fading,     \* the ids in PieceDisplay's capturedPiecesByIdRef
    breaks      \* times the connection broke

serverVars == <<history, requests, pending, buffer, snapshot>>
displayVars == <<offer, visible, fading>>
vars == <<history, requests, pending, buffer, snapshot, link, handler,
          moveToken, offer, visible, fading, breaks>>

Ids == DOMAIN Home

(* A move of the rules: a piece from a square to another, which may, must  *)
(* or must never hold an enemy, and for a castling the other piece's move. *)
OkStep(s) ==
    /\ s.id \in Ids
    /\ s.take \in {"may", "must", "never"}
    /\ \A o \in s.others : /\ o.id \in Ids \ {s.id} /\ SameColor(o.id, s.id)
                            /\ s.others = {o}

ASSUME ClientViewAssumption ==
    /\ IsFiniteSet(Ids) /\ Home \in [Ids -> Range(Home)]
    /\ \A id, other \in Ids : Home[id] = Home[other] => id = other
    /\ \A s \in Steps : OkStep(s)
    /\ \A ids \in BulkVictims : ids \subseteq Ids
    /\ MaxSeqNum \in Nat /\ MaxTurns \in Nat

seqNum == Len(history)
board == history[seqNum]
Up == handler.connected
MayTurn == moveToken - 1 + Cardinality(offer) + breaks < MaxTurns
NoUpdates == [moves |-> <<>>, captures |-> <<>>]

Init ==
    /\ history = <<Home>>
    /\ requests = <<>>
    /\ pending = {}
    /\ buffer = NoUpdates
    /\ snapshot = {[seqnum |-> 1, squares |-> Home, newConnection |-> TRUE]}
    /\ link = <<>>
    /\ handler = [NoState EXCEPT !.connected = TRUE]
    /\ moveToken = 1
    /\ offer = {}
    /\ visible = <<>>
    /\ fading = {}
    /\ breaks = 0

----------------------------------------------------------------------------
(* The server *)

Standing(squares, s) == {id \in DOMAIN squares : squares[id] = s}

(* The victims of a step among those who stand on its destination; none if *)
(* it cannot be made.                                                      *)
Fits(step, there) ==
    CASE step.take = "never" -> there = {}
      [] step.take = "must"  -> \E v \in there : ~SameColor(v, step.id)
      [] step.take = "may"   -> \A v \in there : ~SameColor(v, step.id)

CanApply(squares, step) ==
    /\ step.id \in DOMAIN squares /\ squares[step.id] = step.from
    /\ Fits(step, Standing(squares, step.to))
    /\ \A o \in step.others :
          /\ o.id \in DOMAIN squares /\ squares[o.id] = o.from
          /\ Standing(squares, o.to) \subseteq {step.id}

Landing(step) ==
    With([id \in {o.id : o \in step.others} |->
             (CHOOSE o \in step.others : o.id = id).to], step.id, step.to)

(* The board after the step, and its broadcast.                            *)
Apply(step) ==
    LET victims == Standing(board, step.to)
        seqnum == seqNum + 1
    IN  /\ history' = Append(history, Over(Landing(step), Without(board, victims)))
        /\ pending' = pending \cup
              {[seqnum |-> seqnum,
                moves |-> [id \in DOMAIN Landing(step) |->
                             [id |-> id, at |-> Landing(step)[id], seqnum |-> seqnum]],
                captures |-> {[id |-> v, seqnum |-> seqnum] : v \in victims}]}

Send(message) == link' = IF Up THEN Append(link, message) ELSE link

Answer(request, message) ==
    IF request.alive THEN Send(message) ELSE UNCHANGED link

(* processMoves takes the client's request off the channel.                *)
ServeRequest ==
    /\ requests # <<>>
    /\ requests' = Tail(requests)
    /\ LET r == Head(requests)
       IN  IF CanApply(board, r.step) /\ seqNum < MaxSeqNum
           THEN /\ Apply(r.step)
                /\ Answer(r, [type |-> "valid", token |-> r.token,
                              seqnum |-> seqNum + 1,
                              captured |-> Standing(board, r.step.to)])
           ELSE /\ Answer(r, [type |-> "invalid", token |-> r.token])
                /\ UNCHANGED <<history, pending>>
    /\ UNCHANGED <<buffer, snapshot, handler, moveToken, offer, visible, fading, breaks>>

(* A request over the client's rate is rejected before it gets to the      *)
(* channel, past those that wait there; over the rate of rejections too it *)
(* is dropped.                                                             *)
RejectRequest(i) ==
    /\ requests' = RemoveAt(requests, i)
    /\ Answer(requests[i], [type |-> "invalid", token |-> requests[i].token])
    /\ UNCHANGED <<history, pending, buffer, snapshot, handler, moveToken,
                   offer, visible, fading, breaks>>
DropRequest(i) ==
    /\ requests' = RemoveAt(requests, i)
    /\ UNCHANGED <<history, pending, buffer, snapshot, link, handler,
                   moveToken, offer, visible, fading, breaks>>

MoveOfAnother(step) ==
    /\ seqNum < MaxSeqNum
    /\ CanApply(board, step)
    /\ Apply(step)
    /\ UNCHANGED <<requests, buffer, snapshot, link, handler,
                   moveToken, offer, visible, fading, breaks>>

(* A bulk capture is broadcast by its goroutine without the buffer.        *)
BulkCapture(ids) ==
    /\ seqNum < MaxSeqNum
    /\ ids \subseteq DOMAIN board
    /\ history' = Append(history, Without(board, ids))
    /\ pending' = pending \cup
          {[seqnum |-> seqNum + 1, moves |-> <<>>,
            captures |-> {[id |-> id, seqnum |-> seqNum + 1] : id \in ids}]}
    /\ UNCHANGED <<requests, buffer, snapshot, link, handler,
                   moveToken, offer, visible, fading, breaks>>

IsBulk(b) == b.moves = <<>>

(* The goroutine of a broadcast runs.                                      *)
Broadcast(b) ==
    /\ pending' = pending \ {b}
    /\ IF IsBulk(b)
       THEN /\ Send([type |-> "bulk", seqnum |-> b.seqnum,
                     ids |-> {c.id : c \in b.captures}])
            /\ UNCHANGED buffer
       ELSE /\ buffer' = IF Up THEN [moves |-> buffer.moves \o SetToSeq({b.moves[id] : id \in DOMAIN b.moves}),
                                     captures |-> buffer.captures \o SetToSeq(b.captures)]
                               ELSE buffer
            /\ UNCHANGED link
    /\ UNCHANGED <<history, requests, snapshot, handler, moveToken, offer,
                   visible, fading, breaks>>

MaybeSendMoveUpdates ==
    /\ Up
    /\ buffer # NoUpdates
    /\ buffer' = NoUpdates
    /\ Send([type |-> "moves", moves |-> buffer.moves, captures |-> buffer.captures])
    /\ UNCHANGED <<history, requests, pending, snapshot, handler, moveToken,
                   offer, visible, fading, breaks>>

(* The periodic snapshot: copied under the read lock, sent later.          *)
NoSnapshotOutstanding ==
    snapshot = {} /\ \A i \in DOMAIN link : link[i].type # "snapshot"
TakeSnapshot ==
    /\ Up
    /\ NoSnapshotOutstanding
    /\ snapshot' = {[seqnum |-> seqNum, squares |-> board, newConnection |-> FALSE]}
    /\ UNCHANGED <<history, requests, pending, buffer, link, handler,
                   moveToken, offer, visible, fading, breaks>>
SendSnapshot ==
    /\ \E s \in snapshot : Send([type |-> "snapshot", snapshot |-> s])
    /\ snapshot' = {}
    /\ UNCHANGED <<history, requests, pending, buffer, handler, moveToken,
                   offer, visible, fading, breaks>>

----------------------------------------------------------------------------
(* The client *)

(* PieceDisplay's callback for a broadcast of the handler: everything the  *)
(* handler now shows is visible, a piece whose capture is animated fades   *)
(* until it moves or appears again, and a later capture clears those that  *)
(* have faded for long enough.  The selection of a piece that moves or is  *)
(* captured is cleared.                                                    *)
IdsOf(anims, type) == {a.id : a \in {b \in ToSet(anims) : b.type = type}}

Mut_NeverUnfade(anims) == {}
Returning(anims) == IdsOf(anims, "appearance") \cup IdsOf(anims, "move")

Display(h, anims) ==
    LET captured == IdsOf(anims, "capture") \cap DOMAIN visible
    IN  /\ visible' = View(h)
        /\ \E over \in IF captured = {} THEN {{}} ELSE SUBSET fading :
              fading' = (((fading \ over) \ Returning(anims)) \cup captured)
Deselect(anims) ==
    LET touched == (IdsOf(anims, "capture") \cap DOMAIN visible) \cup IdsOf(anims, "move")
    IN  offer' = {o \in offer : o.step.id \notin touched}

(* The handler changes and tells PieceDisplay; `always' is whether it does *)
(* so when there is nothing to animate.                                    *)
Handle(result, always) ==
    /\ handler' = result.handler
    /\ IF always \/ result.anims # <<>>
       THEN Display(result.handler, result.anims) /\ Deselect(result.anims)
       ELSE UNCHANGED displayVars

(* A piece is clicked, and a square offered for it.  The offer of a piece  *)
(* that stays selected is computed again every 800 ms (and forgotten on    *)
(* Escape): the step stands for the last time before the click on it.      *)
ShownAt(id) == visible[id]
Offers(step) ==
    /\ step.id \in White
    /\ step.id \in DOMAIN visible \ fading
    /\ ShownAt(step.id) = step.from
    /\ \A o \in step.others : /\ o.id \in Located(handler, o.from)
                              /\ Located(handler, o.to) \subseteq {step.id}

Select(step) ==
    /\ offer = {}
    /\ MayTurn
    /\ Offers(step)
    /\ \E there \in {Located(handler, step.to)} \cup {{v} : v \in Located(handler, step.to)} :
          /\ Cardinality(there) <= 1
          /\ Fits(step, there)
          /\ offer' = {[step |-> step, victims |-> {[id |-> v, at |-> step.to] : v \in there}]}
    /\ UNCHANGED <<history, requests, pending, buffer, snapshot, link, handler,
                   moveToken, visible, fading, breaks>>

(* submitMove: the request goes out if the socket is open, and only then   *)
(* is the move shown.  The token is used up either way.                    *)
submitMove ==
    \E o \in offer :
        LET s == o.step
            result == AddOptimisticMove(handler, moveToken + 1,
                        <<[id |-> s.id, from |-> s.from, to |-> s.to]>> \o SetToSeq(s.others),
                        o.victims, s.take # "never", s.take = "must")
        IN  /\ moveToken' = moveToken + 1
            /\ offer' = {}
            /\ IF Up
               THEN /\ requests' = Append(requests,
                          [step |-> s, token |-> moveToken + 1, alive |-> TRUE])
                    /\ handler' = result.handler
                    /\ IF result.anims # <<>>
                       THEN Display(result.handler, result.anims)
                       ELSE UNCHANGED <<visible, fading>>
               ELSE UNCHANGED <<requests, handler, visible, fading>>
            /\ UNCHANGED <<history, pending, buffer, snapshot, link, breaks>>

(* onmessage *)
Deliver ==
    /\ link # <<>>
    /\ link' = Tail(link)
    /\ LET m == Head(link)
       IN  CASE m.type = "valid" ->
                  Handle(confirmOptimisticMove(handler, m.token, m.seqnum, m.captured), FALSE)
             [] m.type = "invalid" ->
                  Handle(rejectOptimisticMove(handler, m.token), FALSE)
             [] m.type = "moves" ->
                  Handle(handleMoves(handler, m.moves, m.captures), TRUE)
             [] m.type = "bulk" ->
                  Handle(handleBulkCapture(handler, m.ids, m.seqnum), TRUE)
             [] m.type = "snapshot" ->
                  Handle(handleSnapshot(handler, m.snapshot), TRUE)
    /\ UNCHANGED <<serverVars, moveToken, breaks>>

(* The connection breaks: what was sent is lost, except for the requests   *)
(* the server has read by then, whose answers go to a closed Client.       *)
Disconnect ==
    /\ Up
    /\ MayTurn
    /\ breaks' = breaks + 1
    /\ \E n \in 0 .. Len(requests) :
          requests' = [i \in 1 .. n |-> [requests[i] EXCEPT !.alive = FALSE]]
    /\ link' = <<>>
    /\ buffer' = NoUpdates
    /\ snapshot' = {}
    /\ Handle(setConnected(handler, FALSE), FALSE)
    /\ UNCHANGED <<history, pending, moveToken>>

(* A new websocket opens; the server's first message is the state.         *)
Reconnect ==
    /\ ~Up
    /\ Handle(setConnected(handler, TRUE), FALSE)
    /\ snapshot' = {[seqnum |-> seqNum, squares |-> board, newConnection |-> TRUE]}
    /\ UNCHANGED <<history, requests, pending, buffer, link, moveToken, breaks>>

----------------------------------------------------------------------------
Next ==
    \/ ServeRequest
    \/ \E i \in DOMAIN requests : RejectRequest(i)
    \/ \E step \in Steps : MoveOfAnother(step)
    \/ \E ids \in BulkVictims : BulkCapture(ids)
    \/ \E b \in pending : Broadcast(b)
    \/ MaybeSendMoveUpdates
    \/ TakeSnapshot
    \/ SendSnapshot
    \/ \E step \in Steps : Select(step)
    \/ submitMove
    \/ Deliver
    \/ Disconnect
    \/ Reconnect

(* The server's goroutines run, the client's event loop runs, tickers tick *)
(* and the client reconnects; nobody is obliged to move or to disconnect.  *)
(* Each step is named by what it does to the queue it serves.              *)
RequestLeaves == requests # <<>> /\ requests' = Tail(requests)
BroadcastRuns == \E b \in pending : pending' = pending \ {b}
BufferIsSent == Up /\ buffer # NoUpdates /\ buffer' = NoUpdates
MessageArrives == link # <<>> /\ link' = Tail(link)

Fairness ==
    /\ WF_requests(RequestLeaves) /\ WF_pending(BroadcastRuns)
    /\ WF_buffer(BufferIsSent) /\ WF_link(MessageArrives)
    /\ WF_vars(TakeSnapshot) /\ WF_vars(SendSnapshot) /\ WF_vars(Reconnect)

Spec == Init /\ [][Next]_vars /\ Fairness

(* The same with a client over its rate of rejections, too.                *)
NextWithDrops == Next \/ \E i \in DOMAIN requests : DropRequest(i)
SpecWithDrops == Init /\ [][NextWithDrops]_vars /\ Fairness

----------------------------------------------------------------------------
(* Properties *)

(* Every square the client holds for a piece, with a seqnum, is where the  *)
(* piece stood when the board had that seqnum, however answers, broadcasts *)
(* and snapshots overtook each other: so two records with one seqnum agree *)
(* (the BUG? handleSnapshot logs), and newer is right.                     *)
RecordsAreHistory ==
    \A id \in DOMAIN handler.pieces :
        LET r == handler.pieces[id]
        IN  /\ r.seqnum \in DOMAIN history
            /\ id \in DOMAIN history[r.seqnum]
            /\ history[r.seqnum][id] = r.at

(* What the client knows of a piece never goes back in time on one         *)
(* connection, as far as it remembers: a piece it holds does not move to   *)
(* an older square, and a piece whose capture it remembers does not come   *)
(* back to a square from before that.  A snapshot newer than a capture has *)
(* the client forget the capture; of that SnapshotsAreNotUndone speaks.    *)
LastHeard(h, id) ==
    IF Knows(h, id) THEN h.pieces[id].seqnum
    ELSE IF id \in DOMAIN h.activeCaptures THEN h.activeCaptures[id] ELSE 0
OfNewConnection(m) == m.type = "snapshot" /\ m.snapshot.newConnection

NeverBackInTime ==
    [][\A id \in DOMAIN handler'.pieces :
          \/ handler'.pieces[id].seqnum >= LastHeard(handler, id)
          \/ OfNewConnection(Head(link))]_handler

(* Claimed by a comment: a move that is older than what is known changes   *)
(* nothing, as "we already know about this state" (pieceHandler.js:1158).  *)
(* So a piece that was gone in the newest snapshot is not held: one that   *)
(* is off the board never returns.                                         *)
SnapshotsAreNotUndone ==
    handler.snapshotSeqnum \in DOMAIN history =>
        DOMAIN handler.pieces \subseteq DOMAIN history[handler.snapshotSeqnum]

(* No message that brings a piece to a square leaves another shown there   *)
(* by an optimistic move: that one is taken back with all that depends on  *)
(* it, or has taken the arrival as far as we can tell (pieceHandler.js,    *)
(* processGroundTruthAnimations).  It is no promise about a piece that has *)
(* been where it is and is shown again, when its predicted capture is      *)
(* confirmed or a guess about it goes: that one may reappear under a later *)
(* guess.  Nor if two of our pieces are predicted on one square, as clicks *)
(* on squares offered before the last message can have them: the code does *)
(* not notice ("complain if this is already set for another piece?").      *)
Brought(id) ==
    /\ Knows(handler', id)
    /\ Knows(handler, id) => handler.pieces[id].at # handler'.pieces[id].at
UnderAGuess(h, id, other) ==
    /\ {id, other} \subseteq DOMAIN View(h) /\ id # other
    /\ View(h)[id] = View(h)[other] /\ Tracked(h.optimistic, other)
GuessesApart(h) ==
    \A a, b \in h.optimistic.byPiece :
       LET mine == getPredictedState(h.optimistic, a.id)
           other == getPredictedState(h.optimistic, b.id)
       IN  ~Captured(h, a.id) /\ ~Captured(h, b.id) /\ mine.at = other.at => a.id = b.id

MessagesLeaveNoClash ==
    [][MessageArrives /\ GuessesApart(handler)
       => \A id, other \in Ids : Brought(id) => ~UnderAGuess(handler', id, other)]_handler

(* Every optimistic move is resolved: no move stays on the screen that     *)
(* neither an answer nor the end of the connection takes back or makes     *)
(* true.                                                                   *)
Optimism == handler.optimistic.byPiece # {}
EveryMoveIsResolved == Optimism ~> ~Optimism

(* When the board comes to rest, what the client shows becomes the board   *)
(* and stays so: whatever was lost, late, guessed or rejected, the next    *)
(* snapshots repair it, in the handler and on the screen.                  *)
Shown == [id \in DOMAIN visible \ fading |-> visible[id]]
ViewConverges == <>[](Shown = board)
=============================================================================
