-------------------------------- MODULE Wire --------------------------------
(***************************************************************************)
(* What the two ends say to each other, and what is left of it on the      *)
(* wire: the message classes of protoCompiled.js, the encoding of Go's     *)
(* protobuf and of protobufjs, which disagree on what a zero field is      *)
(* worth, and how the web client reads a message that was decoded.         *)
(*                                                                         *)
(* A message is a function of the fields it holds.  Go's structs hold all  *)
(* their scalars and lists; a decoded JavaScript object only "owns" the    *)
(* fields the wire carried, the others are defaults of its prototype.      *)
(***************************************************************************)
EXTENDS Integers, Sequences, TLC

-----------------------------------------------------------------------------
(* Kinds of fields: a number and the values it is tried with, a number that *)
(* may be negative (sint32), a list, a message, and a piece: a message the  *)
(* handlers turn into a plain object before they use it.                    *)
Number(values) == [kind |-> "number", values |-> values]
Flag     == Number({0, 1})
Count    == Number({0, 1})
Id       == Number({1})
Offset   == [kind |-> "offset", values |-> {-1, 0, 1}]
Many(f)  == [kind |-> "list", of |-> f]
Nested(m) == [kind |-> "message", of |-> m]
Piece(m) == [kind |-> "piece", of |-> m]

(* The generated classes. *)
ClientPing == <<>>
ClientSubscribe == [centerX |-> Count, centerY |-> Count]
ClientMove == [pieceId |-> Id, fromX |-> Count, fromY |-> Count, toX |-> Count,
               toY |-> Count, moveType |-> Number({0, 1, 2}), moveToken |-> Count]
ClientMessage == [ping |-> Nested(ClientPing), subscribe |-> Nested(ClientSubscribe),
                  move |-> Nested(ClientMove)]

ServerValidMove == [asOfSeqnum |-> Count, moveToken |-> Count, capturedPieceId |-> Count]
ServerInvalidMove == [moveToken |-> Count]
ServerPong == <<>>
PieceCapture == [capturedPieceId |-> Id, seqnum |-> Count]
PieceDataShared ==
    [id |-> Id, type |-> Number(0..6), isWhite |-> Flag, justDoubleMoved |-> Flag,
     kingKiller |-> Flag, kingPawner |-> Flag, queenKiller |-> Flag, queenPawner |-> Flag,
     adoptedKiller |-> Flag, adopted |-> Flag, hasCapturedPieceTypeOtherThanOwn |-> Flag,
     moveCount |-> Count, captureCount |-> Count]
PieceDataForMove == [x |-> Count, y |-> Count, seqnum |-> Count, piece |-> Piece(PieceDataShared)]
PieceDataForSnapshot == [dx |-> Offset, dy |-> Offset, piece |-> Piece(PieceDataShared)]
ServerMovesAndCaptures == [moves |-> Many(Nested(PieceDataForMove)),
                           captures |-> Many(Nested(PieceCapture))]
ServerStateSnapshot == [xCoord |-> Count, yCoord |-> Count, seqnum |-> Count,
                        pieces |-> Many(Nested(PieceDataForSnapshot))]
Position == [x |-> Count, y |-> Count]
ServerInitialState == [playingWhite |-> Flag, position |-> Nested(Position),
                       snapshot |-> Nested(ServerStateSnapshot)]
ServerAdoption == [adoptedIds |-> Many(Id)]
ServerBulkCapture == [seqnum |-> Count, capturedIds |-> Many(Id)]
ServerMessage ==
    [initialState |-> Nested(ServerInitialState), snapshot |-> Nested(ServerStateSnapshot),
     movesAndCaptures |-> Nested(ServerMovesAndCaptures), validMove |-> Nested(ServerValidMove),
     invalidMove |-> Nested(ServerInvalidMove), pong |-> Nested(ServerPong),
     adoption |-> Nested(ServerAdoption), bulkCapture |-> Nested(ServerBulkCapture)]

-----------------------------------------------------------------------------
(* Encoding and decoding, field by field. *)

IsNumber(field) == field.kind \in {"number", "offset"}
Default(field) == IF IsNumber(field) THEN 0 ELSE <<>>
IsDefault(field, v) == /\ IsNumber(field) \/ field.kind = "list"
                       /\ v = Default(field)

ZigZag(n) == IF n >= 0 THEN 2 * n ELSE -2 * n - 1
UnZigZag(n) == IF n % 2 = 0 THEN n \div 2 ELSE -((n + 1) \div 2)

(* proto.Marshal: a struct field at its zero value is left out. *)
RECURSIVE Marshal(_, _)
Marshal(field, v) ==
    CASE field.kind = "number" -> v
      [] field.kind = "offset" -> ZigZag(v)
      [] field.kind = "list"   -> [i \in DOMAIN v |-> Marshal(field.of, v[i])]
      [] OTHER -> [f \in {g \in DOMAIN v : ~IsDefault(field.of[g], v[g])} |->
                      Marshal(field.of[f], v[f])]

(* X.encode of protobufjs: what the object owns is written, zeros included; *)
(* an empty list writes nothing.                                            *)
RECURSIVE Encode(_, _)
Encode(field, v) ==
    CASE field.kind = "number" -> v
      [] field.kind = "offset" -> ZigZag(v)
      [] field.kind = "list"   -> [i \in DOMAIN v |-> Encode(field.of, v[i])]
      [] OTHER -> [f \in {g \in DOMAIN v : field.of[g].kind = "list" => v[g] # <<>>} |->
                      Encode(field.of[f], v[f])]

(* proto.Unmarshal: what the wire does not carry is zero; a message it does *)
(* not carry is nil.                                                        *)
RECURSIVE Unmarshal(_, _)
Unmarshal(field, w) ==
    CASE field.kind = "number" -> w
      [] field.kind = "offset" -> UnZigZag(w)
      [] field.kind = "list"   -> [i \in DOMAIN w |-> Unmarshal(field.of, w[i])]
      [] OTHER -> [f \in DOMAIN w \cup {g \in DOMAIN field.of : field.of[g].kind \notin {"message", "piece"}} |->
                      IF f \in DOMAIN w THEN Unmarshal(field.of[f], w[f]) ELSE Default(field.of[f])]

(* X.decode of protobufjs: the object owns what the wire carries, and its  *)
(* lists, which the constructor sets.                                       *)
RECURSIVE Decode(_, _)
Decode(field, w) ==
    CASE field.kind = "number" -> w
      [] field.kind = "offset" -> UnZigZag(w)
      [] field.kind = "list"   -> [i \in DOMAIN w |-> Decode(field.of, w[i])]
      [] OTHER -> [f \in DOMAIN w \cup {g \in DOMAIN field.of : field.of[g].kind = "list"} |->
                      IF f \in DOMAIN w THEN Decode(field.of[f], w[f]) ELSE <<>>]

(* A field read as object.field: the prototype answers for what is not owned. *)
Get(class, object, f) == IF f \in DOMAIN object THEN object[f] ELSE Default(class[f])

(* PieceDataShared.toObject(.., {defaults: true}): a plain object that owns *)
(* every field.  The handlers copy pieces with {...piece}, which keeps what *)
(* is owned and nothing else.                                               *)
Mut_PlainOfItself(class, object) == object
PlainOf(class, object) == [f \in DOMAIN class |-> Get(class, object, f)]
ShallowCopy(object) == object

(* What the handlers of the web client get to see of a decoded message. *)
RECURSIVE Seen(_, _)
Seen(field, v) ==
    CASE IsNumber(field) -> v
      [] field.kind = "list"  -> [i \in DOMAIN v |-> Seen(field.of, v[i])]
      [] field.kind = "piece" -> ShallowCopy(PlainOf(field.of, v))
      [] OTHER -> [f \in DOMAIN field.of |-> Seen(field.of[f], Get(field.of, v, f))]

-----------------------------------------------------------------------------
(* What is tried: of every class the message whose fields are all at their *)
(* least, and those that differ from it in one field.                       *)
LeastOf(S) == CHOOSE n \in S : \A m \in S : n <= m

RECURSIVE Values(_), Least(_)
Least(field) ==
    CASE IsNumber(field) -> IF 0 \in field.values THEN 0 ELSE LeastOf(field.values)
      [] field.kind = "list" -> <<>>
      [] OTHER -> [f \in DOMAIN field.of |-> Least(field.of[f])]
Values(field) ==
    CASE IsNumber(field) -> field.values
      [] field.kind = "list" -> {<<>>} \cup {<<v>> : v \in Values(field.of)}
                                \cup {<<Least(field.of), v>> : v \in Values(field.of)}
      [] OTHER -> {Least(field)} \cup
                  UNION {{[Least(field) EXCEPT ![f] = v] : v \in Values(field.of[f])} : f \in DOMAIN field.of}

(* A oneof holds one of its members. *)
OneOf(class) == UNION {{f :> v : v \in Values(class[f])} : f \in DOMAIN class}

(* The bot submits moves whose moveType it never looked up *)
(* (use-start-bot.js 91: data.targetMoveType).             *)
WithoutMoveType(m) == [f \in DOMAIN m \ {"moveType"} |-> m[f]]
SaidByClient == OneOf(ClientMessage)
                \cup {"move" :> WithoutMoveType(v) : v \in Values(Nested(ClientMove))}

-----------------------------------------------------------------------------
VARIABLES
    said,        \* {} or {who spoke and the message}
    frame,       \* {} or {the websocket frame on its way}
    understood   \* {} or {the message as the other end reads it}

wireVars == <<said, frame, understood>>

WireInit == said = {} /\ frame = {} /\ understood = {}

(* The first byte of an uncompressed frame is the tag of the member the     *)
(* oneof holds, and a compressed one starts with the magic number 28 B5 2F FD. *)
FieldNumber == [initialState |-> 1, snapshot |-> 2, movesAndCaptures |-> 3, validMove |-> 4,
                invalidMove |-> 5, pong |-> 6, adoption |-> 7, bulkCapture |-> 8]
Tag(w) == 8 * FieldNumber[CHOOSE f \in DOMAIN w : TRUE] + 2
ZstdMagic == 40
isZstd(bytes) == bytes.first = ZstdMagic

(* compressAndSend compresses what is 64 bytes or longer. *)
compressAndSend(w, long) ==
    [first |-> IF long THEN 40 ELSE Tag(w), compressed |-> long, body |-> w]

(* The server has something to say: any of the messages it builds, short or long. *)
ServerSays ==
    /\ said = {}
    /\ \E m \in OneOf(ServerMessage), long \in BOOLEAN :
          /\ said' = {[by |-> "server", message |-> m]}
          /\ frame' = {compressAndSend(Marshal(Nested(ServerMessage), m), long)}
    /\ UNCHANGED understood

(* parseServerMessage: decompress throws on what is not compressed. *)
parseServerMessage(bytes) ==
    IF isZstd(bytes) = bytes.compressed THEN {Decode(Nested(ServerMessage), bytes.body)} ELSE {}

(* onmessage: the first member of the oneof that is there is handled. *)
Dispatch(data) ==
    LET f == CHOOSE f \in DOMAIN data : TRUE
    IN  f :> Seen(ServerMessage[f], data[f])

ClientHears ==
    /\ \E s \in said : s.by = "server"
    /\ frame # {}
    /\ \E bytes \in frame : understood' = {Dispatch(data) : data \in parseServerMessage(bytes)}
    /\ frame' = {}
    /\ UNCHANGED said

(* protoSendPing, protoSendSubscribe, protoSendMove. *)
ClientSays ==
    /\ said = {}
    /\ \E m \in SaidByClient :
          /\ said' = {[by |-> "client", message |-> m]}
          /\ frame' = {[first |-> 0, compressed |-> FALSE, body |-> Encode(Nested(ClientMessage), m)]}
    /\ UNCHANGED understood

(* ReadPump and handleProtoMessage. *)
ServerHears ==
    /\ \E s \in said : s.by = "client"
    /\ frame # {}
    /\ \E bytes \in frame : understood' = {Unmarshal(Nested(ClientMessage), bytes.body)}
    /\ frame' = {}
    /\ UNCHANGED said

(* The next message. *)
Silence == said # {} /\ frame = {} /\ said' = {} /\ understood' = {} /\ UNCHANGED frame

WireNext == ServerSays \/ ClientHears \/ ClientSays \/ ServerHears \/ Silence

-----------------------------------------------------------------------------
(* What a message means: its fields, a number that was not said being zero. *)
Meaning(m) == [f \in DOMAIN m |-> 
                 IF f = "move" THEN [g \in DOMAIN ClientMove |-> Get(ClientMove, m[f], g)] ELSE m[f]]

(* Every message is understood as it was meant: nothing that was sent is     *)
(* lost or taken for something else, whichever fields are zero, whatever     *)
(* the length of the message, and copies of its pieces included.  The comment *)
(* of handleSnapshot (pieceHandler.js 1006-1014) fears for exactly that.      *)
MeaningSurvives ==
    \A s \in said : frame = {} => understood = {Meaning(s.message)}
=============================================================================
