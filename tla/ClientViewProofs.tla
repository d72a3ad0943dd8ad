--------------------------- MODULE ClientViewProofs ---------------------------
(***************************************************************************)
(* What the client knows of a piece is true of some earlier moment, and    *)
(* never goes back in time.  Snapshots and broadcasts carry squares of the *)
(* board they were taken from.  An answer carries none: the client enters  *)
(* the squares of its own actions with the seqnum of the answer, so what   *)
(* it does with them in the meantime must leave every action of a token    *)
(* where the request with that token asks the piece to go.                 *)
(*                                                                         *)
(* The second half is about what the client shows: no message that brings  *)
(* a piece leaves another on its square by a guess.  Its invariant adds to *)
(* the first one what the queues of requests and answers have to do with   *)
(* the optimistic actions: each waits for an answer that is under way, and *)
(* confirmations come in the order of the moves.                           *)
(***************************************************************************)
EXTENDS ClientView, OptimisticLemmas, SequenceTheorems

-----------------------------------------------------------------------------
(* The inductive invariant.  Its definitions take the history of the board *)
(* and the handler as parameters, so that the lemmas about an operator can *)
(* compare one with the next.                                              *)

Places == Range(Home) \cup {s.to : s \in Steps}
          \cup {o.to : o \in UNION {s.others : s \in Steps}}
Boards == UNION {[S -> Places] : S \in SUBSET Ids}

Moves == [id : Ids, at : Places, seqnum : Nat]
Captures == [id : Ids, seqnum : Nat]
Snapshots == [seqnum : Nat, squares : Boards, newConnection : BOOLEAN]
Requests == [step : Steps, token : Nat, alive : BOOLEAN]
Messages ==
    [type : {"valid"}, token : Nat, seqnum : Nat, captured : SUBSET Ids]
    \cup [type : {"invalid"}, token : Nat]
    \cup [type : {"moves"}, moves : Seq(Moves), captures : Seq(Captures)]
    \cup [type : {"bulk"}, seqnum : Nat, ids : SUBSET Ids]
    \cup [type : {"snapshot"}, snapshot : Snapshots]

IsBroadcast(b) ==
    /\ DOMAIN b.moves \subseteq Ids
    /\ \A id \in DOMAIN b.moves : b.moves[id] \in Moves
    /\ b.captures \in SUBSET Captures /\ IsFiniteSet(b.captures)
    /\ b.seqnum \in Nat

(* Records with these fields.                                              *)
IsHandler(h) == h \in [pieces : {h.pieces}, optimistic : {h.optimistic},
                       activeCaptures : {h.activeCaptures},
                       snapshotSeqnum : {h.snapshotSeqnum}, connected : {h.connected}]

(* The client's optimistic actions are numbered, and have tokens that were *)
(* given out.                                                              *)
OptimismOK(o, token) ==
    /\ IsOptimism(o)
    /\ o.nextId \in Nat
    /\ \A a \in o.byPiece \cup o.byToken :
          /\ a.actionId \in Nat /\ a.actionId < o.nextId
          /\ a.token \in Nat /\ a.token <= token

HandlerOK(h, token) ==
    /\ IsHandler(h)
    /\ h.snapshotSeqnum \in Int
    /\ DOMAIN h.pieces \subseteq Ids
    /\ \A id \in DOMAIN h.pieces : h.pieces[id].seqnum \in Nat
    /\ \A id \in DOMAIN h.activeCaptures : h.activeCaptures[id] \in Nat
    /\ OptimismOK(h.optimistic, token)

(* The piece stood there when the board had that seqnum.                   *)
Stood(past, n, id, at) ==
    n \in 1 .. Len(past) /\ id \in DOMAIN past[n] /\ past[n][id] = at

MoveTrue(past, m) == Stood(past, m.seqnum, m.id, m.at)
SnapshotTrue(past, s) == s.seqnum \in 1 .. Len(past) /\ s.squares = past[s.seqnum]
PiecesTrue(past, h) ==
    \A id \in DOMAIN h.pieces : Stood(past, h.pieces[id].seqnum, id, h.pieces[id].at)

(* The moves the client shows for a token.                                 *)
MovesOf(o, token) == {a \in o.byToken : a.token = token /\ a.type = "move"}

(* What a request asks for is what the client shows for its token, unless  *)
(* it has taken that back; and once it is done, it is what happened.       *)
Asks(o, r) ==
    r.alive => \A a \in MovesOf(o, r.token) :
                  a.id \in DOMAIN Landing(r.step) /\ a.at = Landing(r.step)[a.id]
Answers(past, o, m) ==
    \A a \in MovesOf(o, m.token) : Stood(past, m.seqnum, a.id, a.at)

MessageTrue(past, o, m) ==
    /\ m.type = "valid" => Answers(past, o, m)
    /\ m.type = "moves" => \A i \in DOMAIN m.moves : MoveTrue(past, m.moves[i])
    /\ m.type = "snapshot" => SnapshotTrue(past, m.snapshot)

(* No request or answer under way has a token yet to be given out.         *)
MessageOK(past, o, token, m) ==
    /\ m \in Messages /\ MessageTrue(past, o, m)
    /\ m.type = "valid" => m.token <= token

(* The parts of the state.                                                 *)
HistoryGood(past) == past \in Seq(Boards) /\ Len(past) >= 1
RequestsGood(o, token, q) ==
    /\ q \in Seq(Requests)
    /\ \A i \in DOMAIN q : q[i].token <= token /\ Asks(o, q[i])
PendingGood(past, p) ==
    \A b \in p : IsBroadcast(b) /\ \A id \in DOMAIN b.moves : MoveTrue(past, b.moves[id])
BufferGood(past, b) ==
    /\ b \in [moves : Seq(Moves), captures : Seq(Captures)]
    /\ \A i \in DOMAIN b.moves : MoveTrue(past, b.moves[i])
SnapshotGood(past, S) == \A s \in S : s \in Snapshots /\ SnapshotTrue(past, s)
LinkGood(past, o, token, q) ==
    /\ q \in Seq(Messages)
    /\ \A i \in DOMAIN q : MessageOK(past, o, token, q[i])

ViewInv ==
    /\ HistoryGood(history)
    /\ RequestsGood(handler.optimistic, moveToken, requests)
    /\ PendingGood(history, pending) /\ BufferGood(history, buffer)
    /\ SnapshotGood(history, snapshot)
    /\ LinkGood(history, handler.optimistic, moveToken, link)
    /\ HandlerOK(handler, moveToken) /\ PiecesTrue(history, handler)
    /\ moveToken \in Nat /\ \A o \in offer : o.step \in Steps

-----------------------------------------------------------------------------
(* Numbers, sets and sequences.                                            *)

(* The greatest of the indices in S.                                       *)
Top(S) == Max(S)

LEMMA TopFacts ==
    ASSUME NEW n \in Nat, NEW S \in SUBSET (1 .. n), S # {}
    PROVE  Top(S) \in S
<1> DEFINE T == {n - y : y \in S}
<1>1. T \in SUBSET Nat /\ T # {}
  <2>1. \A y \in S : y \in 1 .. n /\ n - y \in Nat
    OBVIOUS
  <2> QED BY <2>1
<1>2. PICK x \in T : \A y \in T : x <= y
  <2> HIDE DEF T
  <2> QED BY <1>1, LeastOfNaturals
<1>3. PICK m \in S : x = n - m
  OBVIOUS
<1>4. \A y \in S : n - y \in T
  OBVIOUS
<1> HIDE DEF T
<1>5. \A y \in S : m >= y
  BY <1>2, <1>3, <1>4
<1> QED BY <1>5 DEF Top, Max

LEMMA SmallerSets ==
    ASSUME NEW S, IsFiniteSet(S), NEW x \in S
    PROVE  /\ S \ {x} \in SUBSET S /\ IsFiniteSet(S \ {x})
           /\ Cardinality(S \ {x}) = Cardinality(S) - 1
           /\ Cardinality(S) \in Nat \ {0}
<1>1. Cardinality(S \ {x}) = Cardinality(S) - 1 /\ IsFiniteSet(S \ {x})
  BY FS_RemoveElement
<1>2. Cardinality(S) \in Nat /\ Cardinality(S) # 0
  BY FS_CardinalityType, FS_EmptySet
<1> QED BY <1>1, <1>2

LEMMA IndexSets ==
    ASSUME NEW n \in Nat
    PROVE  \A S \in SUBSET (1 .. n) : IsFiniteSet(S) /\ Cardinality(S) \in Nat
                                      /\ Cardinality(S) <= Cardinality(1 .. n)
<1>1. IsFiniteSet(1 .. n)
  BY FS_Interval
<1> QED BY <1>1, FS_Subset, FS_CardinalityType

(* What holds of no index, and of some indices when it holds of all of     *)
(* them but the greatest, holds of all indices.                            *)
LEMMA IndexInduction ==
    ASSUME NEW n \in Nat, NEW G, {} \in G,
           \A S \in SUBSET (1 .. n) : S # {} /\ S \ {Top(S)} \in G => S \in G
    PROVE  1 .. n \in G
<1> DEFINE T == {k \in Nat : \A S \in SUBSET (1 .. n) : Cardinality(S) = k => S \in G}
<1>1. 0 \in T
  <2> SUFFICES ASSUME NEW S \in SUBSET (1 .. n), Cardinality(S) = 0 PROVE S \in G
    OBVIOUS
  <2>1. S = {}
    BY IndexSets, FS_EmptySet
  <2> QED BY <2>1
<1>2. ASSUME NEW k \in Nat, k \in T PROVE k + 1 \in T
  <2> SUFFICES ASSUME NEW S \in SUBSET (1 .. n), Cardinality(S) = k + 1 PROVE S \in G
    OBVIOUS
  <2>1. S # {} /\ IsFiniteSet(S)
    <3>1. IsFiniteSet(S) /\ Cardinality(S) # 0
      BY IndexSets
    <3> QED BY <3>1, FS_EmptySet
  <2>2. Top(S) \in S
    BY <2>1, TopFacts
  <2>3. S \ {Top(S)} \in SUBSET (1 .. n) /\ Cardinality(S \ {Top(S)}) = k
    <3>1. Cardinality(S \ {Top(S)}) = (k + 1) - 1
      BY <2>1, <2>2, SmallerSets
    <3>2. (k + 1) - 1 = k
      BY <1>2
    <3>3. S \ {Top(S)} \in SUBSET (1 .. n)
      OBVIOUS
    <3> QED BY <3>1, <3>2, <3>3
  <2>4. S \ {Top(S)} \in G
    BY <1>2, <2>3
  <2> QED BY <2>1, <2>4
<1> HIDE DEF T
<1>3. Cardinality(1 .. n) \in T
  <2>1. Cardinality(1 .. n) \in Nat
    BY IndexSets
  <2> QED BY <1>1, <1>2, <2>1, SetInduction
<1> QED BY <1>3 DEF T

LEMMA SetToSeqFacts ==
    ASSUME NEW S, IsFiniteSet(S)
    PROVE  /\ SetToSeq(S) \in Seq(S)
           /\ \A i \in DOMAIN SetToSeq(S) : SetToSeq(S)[i] \in S
           /\ DOMAIN SetToSeq(S) = 1 .. Cardinality(S) /\ Cardinality(S) \in Nat
           /\ \A i, j \in DOMAIN SetToSeq(S) : SetToSeq(S)[i] = SetToSeq(S)[j] => i = j
<1>1. Cardinality(S) \in Nat /\ ExistsBijection(1 .. Cardinality(S), S)
  BY FS_CardinalityType
<1>2. \E f \in [1 .. Cardinality(S) -> S] : IsInjective(f)
  BY <1>1 DEF ExistsBijection, Bijection, Injection
<1>3. SetToSeq(S) \in [1 .. Cardinality(S) -> S] /\ IsInjective(SetToSeq(S))
  BY <1>2 DEF SetToSeq
<1>4. SetToSeq(S) \in Seq(S)
  BY <1>1, <1>3, SeqDef
<1> QED BY <1>1, <1>3, <1>4 DEF IsInjective

LEMMA RemoveAtFacts ==
    ASSUME NEW R, NEW s \in Seq(R), NEW i \in DOMAIN s
    PROVE  /\ RemoveAt(s, i) \in Seq(R)
           /\ \A j \in DOMAIN RemoveAt(s, i) : \E k \in DOMAIN s : RemoveAt(s, i)[j] = s[k]
<1> DEFINE V == {s[k] : k \in DOMAIN s}
<1>1. s \in Seq(V) /\ DOMAIN s = 1 .. Len(s) /\ Len(s) \in Nat
  <2>1. s \in [1 .. Len(s) -> V] /\ Len(s) \in Nat /\ DOMAIN s = 1 .. Len(s)
    BY LenProperties
  <2> HIDE DEF V
  <2> QED BY <2>1, SeqDef
<1> HIDE DEF V
<1>2. SubSeq(s, 1, i - 1) \in Seq(V) /\ SubSeq(s, i + 1, Len(s)) \in Seq(V)
  BY <1>1, SubSeqProperties
<1>3. RemoveAt(s, i) \in Seq(V)
  BY <1>2, ConcatProperties DEF RemoveAt
<1>4. \A j \in DOMAIN RemoveAt(s, i) : RemoveAt(s, i)[j] \in V
  BY <1>3, LenProperties, ElementOfSeq
<1>5. V \subseteq R
  BY <1>1, ElementOfSeq DEF V
<1>6. RemoveAt(s, i) \in Seq(R)
  BY <1>3, <1>5, SeqMonotonic
<1> QED BY <1>4, <1>6 DEF V

LEMMA TailFacts ==
    ASSUME NEW R, NEW s \in Seq(R), s # <<>>
    PROVE  /\ Tail(s) \in Seq(R) /\ Head(s) \in R /\ 1 \in DOMAIN s /\ Head(s) = s[1]
           /\ \A j \in DOMAIN Tail(s) : \E k \in DOMAIN s : Tail(s)[j] = s[k]
<1>1. /\ Len(s) \in Nat \ {0} /\ DOMAIN s = 1 .. Len(s) /\ Head(s) = s[1]
      /\ Tail(s) \in Seq(R) /\ Len(Tail(s)) = Len(s) - 1
      /\ \A j \in 1 .. Len(Tail(s)) : Tail(s)[j] = s[j + 1]
  BY EmptySeq, LenProperties, HeadTailProperties
<1>2. DOMAIN Tail(s) = 1 .. Len(Tail(s))
  BY <1>1, LenProperties
<1>3. s[1] \in R
  BY <1>1, ElementOfSeq
<1> QED BY <1>1, <1>2, <1>3

LEMMA AppendFacts ==
    ASSUME NEW R, NEW s \in Seq(R), NEW e \in R
    PROVE  /\ Append(s, e) \in Seq(R)
           /\ \A j \in DOMAIN Append(s, e) :
                 Append(s, e)[j] = e \/ \E k \in DOMAIN s : Append(s, e)[j] = s[k]
<1>1. /\ Append(s, e) \in Seq(R) /\ Len(Append(s, e)) = Len(s) + 1 /\ Len(s) \in Nat
      /\ DOMAIN s = 1 .. Len(s) /\ DOMAIN Append(s, e) = 1 .. Len(Append(s, e))
      /\ \A i \in 1 .. Len(s) : Append(s, e)[i] = s[i]
      /\ Append(s, e)[Len(s) + 1] = e
  BY AppendProperties, LenProperties
<1> QED BY <1>1

LEMMA ConcatFacts ==
    ASSUME NEW R, NEW s \in Seq(R), NEW t \in Seq(R)
    PROVE  /\ s \o t \in Seq(R)
           /\ \A j \in DOMAIN (s \o t) : \/ \E k \in DOMAIN s : (s \o t)[j] = s[k]
                                         \/ \E k \in DOMAIN t : (s \o t)[j] = t[k]
<1>1. /\ s \o t \in Seq(R) /\ Len(s \o t) = Len(s) + Len(t)
      /\ \A i \in 1 .. Len(s) + Len(t) :
            (s \o t)[i] = IF i <= Len(s) THEN s[i] ELSE t[i - Len(s)]
  BY ConcatProperties
<1>2. /\ Len(s) \in Nat /\ Len(t) \in Nat /\ DOMAIN s = 1 .. Len(s) /\ DOMAIN t = 1 .. Len(t)
      /\ DOMAIN (s \o t) = 1 .. Len(s \o t)
  BY <1>1, LenProperties
<1>3. ASSUME NEW j \in 1 .. Len(s) + Len(t)
      PROVE  \/ \E k \in 1 .. Len(s) : (s \o t)[j] = s[k]
             \/ \E k \in 1 .. Len(t) : (s \o t)[j] = t[k]
  <2>1. CASE j <= Len(s)
    BY <1>1, <1>2, <2>1
  <2>2. CASE ~ (j <= Len(s))
    <3>1. j - Len(s) \in 1 .. Len(t)
      BY <1>2, <2>2
    <3> QED BY <1>1, <2>2, <3>1
  <2> QED BY <2>1, <2>2
<1> QED BY <1>1, <1>2, <1>3

-----------------------------------------------------------------------------
(* The three loops of the handler, as functions on the sets of indices of  *)
(* what they run over.                                                     *)

Mv == "moves"
Cp == "captures"
Rc == "reconcile"
OneMore(loop, h, acc, x) ==
    IF loop = Mv THEN ApplyMove(acc, x)
    ELSE IF loop = Cp THEN ApplyCapture(acc, x)
    ELSE Reconcile(h, Predictions(h.optimistic), acc, x)
LoopStep(loop, h, base, s, run, S) ==
    IF S = {} THEN base ELSE OneMore(loop, h, run[S \ {Top(S)}], s[Top(S)])
Runs(loop, h, base, s, len, run) ==
    /\ run = [S \in SUBSET (1 .. len) |-> run[S]]
    /\ \A S \in SUBSET (1 .. len) : run[S] = LoopStep(loop, h, base, s, run, S)

LEMMA LoopExists ==
    ASSUME NEW loop, NEW h, NEW base, NEW s, NEW len \in Nat, DOMAIN s = 1 .. len
    PROVE  \E run : Runs(loop, h, base, s, len, run)
<1> DEFINE D == 1 .. len
           Small(n) == {S \in SUBSET D : Cardinality(S) <= n}
           Upto(run, n) == run = [S \in Small(n) |-> LoopStep(loop, h, base, s, run, S)]
           T == {n \in Nat : \E run : Upto(run, n)}
<1>1. \A S \in SUBSET D : IsFiniteSet(S) /\ Cardinality(S) \in Nat
                          /\ Cardinality(S) <= Cardinality(D)
  BY IndexSets
<1>2. 0 \in T
  <2> DEFINE run == [S \in Small(0) |-> base]
  <2>1. ASSUME NEW S \in Small(0) PROVE S = {}
    <3>1. S \in SUBSET D /\ Cardinality(S) <= 0
      OBVIOUS
    <3> QED BY <1>1, <3>1, FS_EmptySet
  <2>2. \A S \in Small(0) : LoopStep(loop, h, base, s, run, S) = base
    BY <2>1 DEF LoopStep
  <2>3. Upto(run, 0)
    BY <2>2
  <2> HIDE DEF Upto
  <2> QED BY <2>3
<1>3. ASSUME NEW n \in Nat, n \in T PROVE n + 1 \in T
  <2>1. PICK run : Upto(run, n)
    BY <1>3
  <2> DEFINE next == [S \in Small(n + 1) |-> LoopStep(loop, h, base, s, run, S)]
  <2>2. ASSUME NEW S \in Small(n + 1)
        PROVE  LoopStep(loop, h, base, s, next, S) = LoopStep(loop, h, base, s, run, S)
    <3>1. CASE S = {}
      BY <3>1 DEF LoopStep
    <3>2. CASE S # {}
      <4> DEFINE R == S \ {Top(S)}
      <4>1. S \in SUBSET D /\ Cardinality(S) <= n + 1
        OBVIOUS
      <4>2. Top(S) \in S
        BY <3>2, <4>1, TopFacts
      <4>3. R \in SUBSET D /\ Cardinality(R) <= n
        <5>1. IsFiniteSet(S) /\ Cardinality(S) \in Nat
          BY <1>1, <4>1
        <5>2. R \in SUBSET D /\ Cardinality(R) = Cardinality(S) - 1
          BY <4>2, <5>1, SmallerSets
        <5>3. \A c \in Nat : c <= n + 1 => c - 1 <= n
          BY <1>3
        <5> QED BY <4>1, <5>1, <5>2, <5>3
      <4>4. R \in Small(n) /\ R \in Small(n + 1)
        BY <4>3, <1>1
      <4>5. next[R] = run[R]
        BY <2>1, <4>4
      <4> HIDE DEF next
      <4> QED BY <3>2, <4>5 DEF LoopStep
    <3> QED BY <3>1, <3>2
  <2>3. Upto(next, n + 1)
    BY <2>2
  <2> HIDE DEF next, Upto
  <2>4. n + 1 \in Nat
    BY <1>3
  <2> QED BY <2>3, <2>4
<1>4. Cardinality(D) \in T
  <2> HIDE DEF T
  <2>1. Cardinality(D) \in Nat
    BY <1>1
  <2> QED BY <1>2, <1>3, <2>1, SetInduction
<1>5. Small(Cardinality(D)) = SUBSET D
  BY <1>1
<1>6. PICK run : Upto(run, Cardinality(D))
  BY <1>4
<1>7. run = [S \in SUBSET D |-> LoopStep(loop, h, base, s, run, S)]
  BY <1>5, <1>6
<1>8. Runs(loop, h, base, s, len, run)
  BY <1>7 DEF Runs
<1> QED BY <1>8

MovesRun(base, s, len, run) ==
    /\ FoldLeft(ApplyMove, base, s) = run[1 .. len] /\ run[{}] = base
    /\ \A S \in SUBSET (1 .. len) : S # {} =>
          run[S] = ApplyMove(run[S \ {Top(S)}], s[Top(S)])

LEMMA MovesLoop ==
    ASSUME NEW base, NEW s, NEW len \in Nat, DOMAIN s = 1 .. len
    PROVE  \E run : MovesRun(base, s, len, run)
<1> DEFINE Step(run, S) == IF S = {} THEN base
                           ELSE ApplyMove(run[S \ {Top(S)}], s[Top(S)])
           final == CHOOSE run : run = [S \in SUBSET DOMAIN s |-> Step(run, S)]
<1>1. FoldLeft(ApplyMove, base, s) = final[DOMAIN s]
  BY DEF FoldLeft, MapThenFoldSet, Top
<1>2. \E run : run = [S \in SUBSET DOMAIN s |-> Step(run, S)]
  <2>1. PICK run : Runs(Mv, base, base, s, len, run)
    BY LoopExists
  <2>2. \A S : LoopStep(Mv, base, base, s, run, S) = Step(run, S)
    BY DEF LoopStep, OneMore, Mv
  <2>3. run = [S \in SUBSET (1 .. len) |-> Step(run, S)]
    BY <2>1, <2>2 DEF Runs
  <2> QED BY <2>3
<1>3. final = [S \in SUBSET DOMAIN s |-> Step(final, S)]
  BY <1>2
<1> HIDE DEF final
<1>4. MovesRun(base, s, len, final)
  BY <1>1, <1>3 DEF MovesRun
<1> QED BY <1>4

CapturesRun(base, s, len, run) ==
    /\ FoldLeft(ApplyCapture, base, s) = run[1 .. len] /\ run[{}] = base
    /\ \A S \in SUBSET (1 .. len) : S # {} =>
          run[S] = ApplyCapture(run[S \ {Top(S)}], s[Top(S)])

LEMMA CapturesLoop ==
    ASSUME NEW base, NEW s, NEW len \in Nat, DOMAIN s = 1 .. len
    PROVE  \E run : CapturesRun(base, s, len, run)
<1> DEFINE Step(run, S) == IF S = {} THEN base
                           ELSE ApplyCapture(run[S \ {Top(S)}], s[Top(S)])
           final == CHOOSE run : run = [S \in SUBSET DOMAIN s |-> Step(run, S)]
<1>1. FoldLeft(ApplyCapture, base, s) = final[DOMAIN s]
  BY DEF FoldLeft, MapThenFoldSet, Top
<1>2. \E run : run = [S \in SUBSET DOMAIN s |-> Step(run, S)]
  <2>1. PICK run : Runs(Cp, base, base, s, len, run)
    BY LoopExists
  <2>2. \A S : LoopStep(Cp, base, base, s, run, S) = Step(run, S)
    BY DEF LoopStep, OneMore, Mv, Cp
  <2>3. run = [S \in SUBSET (1 .. len) |-> Step(run, S)]
    BY <2>1, <2>2 DEF Runs
  <2> QED BY <2>3
<1>3. final = [S \in SUBSET DOMAIN s |-> Step(final, S)]
  BY <1>2
<1> HIDE DEF final
<1>4. CapturesRun(base, s, len, final)
  BY <1>1, <1>3 DEF CapturesRun
<1> QED BY <1>4

ReconcileAll(h, base, anims) ==
    FoldLeft(LAMBDA acc, a : Reconcile(h, Predictions(h.optimistic), acc, a), base, anims)

ReconcileRun(h, base, s, len, run) ==
    /\ ReconcileAll(h, base, s) = run[1 .. len] /\ run[{}] = base
    /\ \A S \in SUBSET (1 .. len) : S # {} =>
          run[S] = Reconcile(h, Predictions(h.optimistic), run[S \ {Top(S)}], s[Top(S)])

LEMMA ReconcileLoop ==
    ASSUME NEW h, NEW base, NEW s, NEW len \in Nat, DOMAIN s = 1 .. len
    PROVE  \E run : ReconcileRun(h, base, s, len, run)
<1> DEFINE initially == Predictions(h.optimistic)
           Step(run, S) == IF S = {} THEN base
                           ELSE Reconcile(h, initially, run[S \ {Top(S)}], s[Top(S)])
           final == CHOOSE run : run = [S \in SUBSET DOMAIN s |-> Step(run, S)]
<1>1. ReconcileAll(h, base, s) = final[DOMAIN s]
  BY DEF ReconcileAll, FoldLeft, MapThenFoldSet, Top
<1>2. \E run : run = [S \in SUBSET DOMAIN s |-> Step(run, S)]
  <2>1. PICK run : Runs(Rc, h, base, s, len, run)
    BY LoopExists
  <2>2. \A S : LoopStep(Rc, h, base, s, run, S) = Step(run, S)
    BY DEF LoopStep, OneMore, Mv, Cp, Rc
  <2>3. run = [S \in SUBSET (1 .. len) |-> Step(run, S)]
    BY <2>1, <2>2 DEF Runs
  <2> QED BY <2>3
<1>3. final = [S \in SUBSET DOMAIN s |-> Step(final, S)]
  BY <1>2
<1> HIDE DEF final
<1>4. ReconcileRun(h, base, s, len, final)
  BY <1>1, <1>3 DEF ReconcileRun
<1> QED BY <1>4

-----------------------------------------------------------------------------
(* The optimistic state: what the messages do to it.  They take actions    *)
(* away and may add captures, so that the moves of a token can only become *)
(* fewer.                                                                  *)

FewerMoves(o, p, token) ==
    /\ OptimismOK(p, token)
    /\ \A t : MovesOf(p, t) \subseteq MovesOf(o, t)

LEMMA FewerIsTransitive ==
    ASSUME NEW o, NEW p, NEW q, NEW token,
           FewerMoves(o, p, token), FewerMoves(p, q, token)
    PROVE  FewerMoves(o, q, token)
BY DEF FewerMoves

LEMMA RemovalFacts ==
    ASSUME NEW o, NEW token, OptimismOK(o, token), NEW A
    PROVE  FewerMoves(o, removeActions(o, A), token)
<1> DEFINE p == removeActions(o, A)
<1>1. /\ IsOptimism(p) /\ p.nextId = o.nextId
      /\ p.byPiece \subseteq o.byPiece /\ p.byToken \subseteq o.byToken
  BY DEF OptimismOK, IsOptimism, removeActions
<1> HIDE DEF p
<1>2. OptimismOK(p, token)
  BY <1>1 DEF OptimismOK
<1>3. \A t : MovesOf(p, t) \subseteq MovesOf(o, t)
  BY <1>1 DEF MovesOf
<1> QED BY <1>2, <1>3 DEF FewerMoves, p

LEMMA SimulatedCaptureFacts ==
    ASSUME NEW o, NEW token, OptimismOK(o, token), NEW captor, NEW victim,
           CanSimulateCapture(o, captor)
    PROVE  FewerMoves(o, addAfterTheFactSimulatedCapture(o, captor, victim), token)
<1> DEFINE p == addAfterTheFactSimulatedCapture(o, captor, victim)
           last == LastOf(ActionsOf(o, captor))
           new == CaptureAction(o.nextId, last.token, victim, FALSE)
<1>1. last \in o.byPiece
  <2>1. ActionsOf(o, captor) # {} /\ ActionsOf(o, captor) \subseteq o.byPiece
    BY DEF CanSimulateCapture, ActionsOf
  <2>2. last \in ActionsOf(o, captor)
    BY <2>1, LastOfIsLast DEF OptimismOK
  <2> QED BY <2>1, <2>2
<1>2. /\ new.actionId = o.nextId /\ new.token = last.token /\ new.type = "capture"
  BY DEF CaptureAction
<1> HIDE DEF new
<1>3. /\ IsOptimism(p) /\ p.nextId = o.nextId + 1
      /\ p.byPiece = o.byPiece \cup {new} /\ p.byToken = o.byToken \cup {new}
  BY DEF OptimismOK, IsOptimism, addAfterTheFactSimulatedCapture, WithActions, new
<1> HIDE DEF p, last
<1>4. OptimismOK(p, token)
  <2>1. p.nextId \in Nat /\ o.nextId \in Nat /\ o.nextId < p.nextId
    BY <1>3 DEF OptimismOK
  <2>2. ASSUME NEW a \in p.byPiece \cup p.byToken
        PROVE  /\ a.actionId \in Nat /\ a.actionId < p.nextId
               /\ a.token \in Nat /\ a.token <= token
    <3>1. CASE a = new
      BY <1>1, <1>2, <2>1, <3>1 DEF OptimismOK
    <3>2. CASE a \in o.byPiece \cup o.byToken
      <4>1. /\ a.actionId \in Nat /\ a.actionId < o.nextId
            /\ a.token \in Nat /\ a.token <= token
        BY <3>2 DEF OptimismOK
      <4> QED BY <1>3, <4>1, <2>1
    <3> QED BY <1>3, <3>1, <3>2
  <2> QED BY <1>3, <2>1, <2>2 DEF OptimismOK
<1>5. \A t : MovesOf(p, t) \subseteq MovesOf(o, t)
  BY <1>2, <1>3 DEF MovesOf
<1> QED BY <1>4, <1>5 DEF FewerMoves, p

(* The loop over the animations.                                           *)
IsAcc(acc) == acc \in [optimistic : {acc.optimistic}, predicted : {acc.predicted},
                       reverted : {acc.reverted}, anims : {acc.anims}]
AccOK(o, acc, token) ==
    /\ IsAcc(acc)
    /\ FewerMoves(o, acc.optimistic, token)

LEMMA AccStep ==
    ASSUME NEW o, NEW token, NEW acc, AccOK(o, acc, token), NEW next, IsAcc(next),
           FewerMoves(acc.optimistic, next.optimistic, token)
    PROVE  AccOK(o, next, token)
BY FewerIsTransitive DEF AccOK

LEMMA RevertPieceFacts ==
    ASSUME NEW o, NEW token, NEW acc, AccOK(o, acc, token), NEW id
    PROVE  AccOK(o, RevertPiece(acc, id), token)
<1> DEFINE next == RevertPiece(acc, id)
<1>1. /\ IsAcc(next)
      /\ next.optimistic = processRevert(acc.optimistic, {}, {id})
  BY DEF RevertPiece, AccOK, IsAcc
<1>2. FewerMoves(acc.optimistic, next.optimistic, token)
  BY <1>1, RemovalFacts DEF processRevert, AccOK, FewerMoves
<1> HIDE DEF next
<1>3. AccOK(o, next, token)
  BY <1>1, <1>2, AccStep
<1> QED BY <1>3 DEF next

LEMMA ReconcileCases ==
    ASSUME NEW h, NEW initially, NEW acc, NEW a
    PROVE  LET next == Reconcile(h, initially, acc, a)
           IN  \/ next = acc
               \/ next = RevertPiece(acc, a.id)
               \/ next = [acc EXCEPT !.anims = WithoutAnim(@, a.id)]
               \/ next = CaptureMissed(acc, a)
               \/ \E mine : next = MeetAnother(h, acc, mine, a)
BY Zenon DEF Reconcile

LEMMA CaptureMissedFacts ==
    ASSUME NEW o, NEW token, NEW acc, AccOK(o, acc, token), NEW a
    PROVE  AccOK(o, CaptureMissed(acc, a), token)
<1>1. CASE acc.predicted[a.id].captureRequired
  BY <1>1, RevertPieceFacts DEF CaptureMissed
<1>2. CASE ~ acc.predicted[a.id].captureRequired
  <2> DEFINE next == CaptureMissed(acc, a)
  <2>1. /\ IsAcc(next)
        /\ next.optimistic = revertSinglePieceId(acc.optimistic, a.id)
    BY <1>2 DEF CaptureMissed, AccOK, IsAcc
  <2>2. FewerMoves(acc.optimistic, next.optimistic, token)
    BY <2>1, RemovalFacts DEF revertSinglePieceId, AccOK, FewerMoves
  <2> HIDE DEF next
  <2>3. AccOK(o, next, token)
    BY <2>1, <2>2, AccStep
  <2> QED BY <2>3 DEF next
<1> QED BY <1>1, <1>2

LEMMA MeetAnotherFacts ==
    ASSUME NEW o, NEW token, NEW h, NEW acc, AccOK(o, acc, token), NEW mine, NEW a
    PROVE  AccOK(o, MeetAnother(h, acc, mine, a), token)
<1>1. ASSUME CanSimulateCapture(acc.optimistic, mine)
      PROVE  AccOK(o, SimulateCapture(acc, mine, a), token)
  <2> DEFINE next == SimulateCapture(acc, mine, a)
             victim == [id |-> a.id, at |-> a.at]
  <2>1. /\ IsAcc(next)
        /\ next.optimistic =
              addAfterTheFactSimulatedCapture(acc.optimistic, mine, victim)
    BY DEF SimulateCapture, AccOK, IsAcc
  <2>2. FewerMoves(acc.optimistic, next.optimistic, token)
    BY <1>1, <2>1, SimulatedCaptureFacts DEF AccOK, FewerMoves
  <2> HIDE DEF next
  <2>3. AccOK(o, next, token)
    BY <2>1, <2>2, AccStep
  <2> QED BY <2>3 DEF next
<1> QED BY <1>1, RevertPieceFacts DEF MeetAnother

LEMMA ReconcileFacts ==
    ASSUME NEW o, NEW token, NEW h, NEW initially, NEW acc, AccOK(o, acc, token), NEW a
    PROVE  AccOK(o, Reconcile(h, initially, acc, a), token)
<1> DEFINE silent == [acc EXCEPT !.anims = WithoutAnim(@, a.id)]
           next == Reconcile(h, initially, acc, a)
<1>1. AccOK(o, silent, token)
  <2>1. IsAcc(silent) /\ silent.optimistic = acc.optimistic
    BY DEF AccOK, IsAcc
  <2> HIDE DEF silent
  <2> QED BY <2>1 DEF AccOK
<1>2. \/ next = acc
      \/ next = RevertPiece(acc, a.id)
      \/ next = silent
      \/ next = CaptureMissed(acc, a)
      \/ \E mine : next = MeetAnother(h, acc, mine, a)
  BY ReconcileCases
<1>3. \A mine : AccOK(o, MeetAnother(h, acc, mine, a), token)
  BY MeetAnotherFacts
<1> HIDE DEF silent, next
<1>4. AccOK(o, next, token)
  BY <1>1, <1>2, <1>3, RevertPieceFacts, CaptureMissedFacts
<1> QED BY <1>4 DEF next

(* A message changes what is shown of the pieces, not what is known.       *)
LEMMA GroundTruthFacts ==
    ASSUME NEW h, IsHandler(h), NEW token, OptimismOK(h.optimistic, token),
           NEW s, NEW len \in Nat, DOMAIN s = 1 .. len
    PROVE  LET g == processGroundTruthAnimations(h, s).handler
           IN  /\ IsHandler(g) /\ FewerMoves(h.optimistic, g.optimistic, token)
               /\ g.pieces = h.pieces /\ g.activeCaptures = h.activeCaptures
               /\ g.snapshotSeqnum = h.snapshotSeqnum /\ g.connected = h.connected
<1> DEFINE o == h.optimistic
           start == [optimistic |-> o, predicted |-> Predictions(o),
                     reverted |-> <<>>, anims |-> s]
           end == ReconcileAll(h, start, s)
           g == processGroundTruthAnimations(h, s).handler
<1>1. g = [h EXCEPT !.optimistic = end.optimistic]
  BY DEF processGroundTruthAnimations, Result, ReconcileAll
<1>2. AccOK(o, start, token)
  BY DEF AccOK, IsAcc, FewerMoves
<1> HIDE DEF start
<1>3. PICK run : ReconcileRun(h, start, s, len, run)
  BY ReconcileLoop
<1>4. /\ end = run[1 .. len] /\ run[{}] = start
      /\ \A S \in SUBSET (1 .. len) : S # {} =>
            run[S] = Reconcile(h, Predictions(h.optimistic), run[S \ {Top(S)}], s[Top(S)])
  BY <1>3 DEF ReconcileRun
<1> DEFINE G == {S \in SUBSET (1 .. len) : AccOK(o, run[S], token)}
<1>5. {} \in G
  BY <1>2, <1>4
<1>6. ASSUME NEW S \in SUBSET (1 .. len), S # {}, S \ {Top(S)} \in G PROVE S \in G
  <2>1. AccOK(o, run[S \ {Top(S)}], token)
    BY <1>6
  <2>2. AccOK(o, Reconcile(h, Predictions(h.optimistic), run[S \ {Top(S)}], s[Top(S)]), token)
    BY <2>1, ReconcileFacts
  <2> QED BY <1>4, <1>6, <2>2
<1> HIDE DEF end
<1>7. AccOK(o, end, token)
  <2> HIDE DEF G
  <2>1. 1 .. len \in G
    BY <1>5, <1>6, IndexInduction
  <2> QED BY <1>4, <2>1 DEF G
<1>8. FewerMoves(o, end.optimistic, token)
  BY <1>7 DEF AccOK
<1>9. /\ IsHandler(g) /\ g.optimistic = end.optimistic
      /\ g.pieces = h.pieces /\ g.activeCaptures = h.activeCaptures
      /\ g.snapshotSeqnum = h.snapshotSeqnum /\ g.connected = h.connected
  BY <1>1 DEF IsHandler
<1> QED BY <1>8, <1>9

-----------------------------------------------------------------------------
(* The handler: each message leaves records that are true of history, and  *)
(* none that is older than what was known of the piece.                    *)

Onward(h, g) == \A id \in DOMAIN g.pieces : g.pieces[id].seqnum >= LastHeard(h, id)

HandlerStep(past, h, g, token) ==
    /\ HandlerOK(g, token)
    /\ PiecesTrue(past, g)
    /\ FewerMoves(h.optimistic, g.optimistic, token)

LEMMA LastHeardType ==
    ASSUME NEW h, NEW token, HandlerOK(h, token), NEW id
    PROVE  /\ LastHeard(h, id) \in Nat
           /\ id \in DOMAIN h.pieces => LastHeard(h, id) = h.pieces[id].seqnum
           /\ id \notin DOMAIN h.pieces /\ id \notin DOMAIN h.activeCaptures
              => LastHeard(h, id) = 0
           /\ id \notin DOMAIN h.pieces /\ id \in DOMAIN h.activeCaptures
              => LastHeard(h, id) = h.activeCaptures[id]
BY DEF HandlerOK, LastHeard, Knows

LEMMA SameOptimism ==
    ASSUME NEW o, NEW token, OptimismOK(o, token)
    PROVE  FewerMoves(o, o, token)
BY DEF FewerMoves

(* Some step that leaves the pieces alone.                                 *)
LEMMA PiecesAlone ==
    ASSUME NEW past, NEW h, NEW token, HandlerOK(h, token), PiecesTrue(past, h),
           NEW g, IsHandler(g), g.pieces = h.pieces, g.snapshotSeqnum \in Int,
           \A id \in DOMAIN g.activeCaptures : g.activeCaptures[id] \in Nat,
           FewerMoves(h.optimistic, g.optimistic, token)
    PROVE  HandlerStep(past, h, g, token) /\ Onward(h, g)
<1>1. HandlerStep(past, h, g, token)
  BY DEF HandlerStep, HandlerOK, PiecesTrue, FewerMoves
<1>2. ASSUME NEW id \in DOMAIN g.pieces
      PROVE  g.pieces[id].seqnum >= LastHeard(h, id)
  <2>1. LastHeard(h, id) \in Nat /\ LastHeard(h, id) = h.pieces[id].seqnum
    BY LastHeardType
  <2>2. g.pieces[id] = h.pieces[id]
    OBVIOUS
  <2> QED BY <2>1, <2>2
<1> QED BY <1>1, <1>2 DEF Onward

LEMMA RejectionFacts ==
    ASSUME NEW past, NEW h, NEW token, HandlerOK(h, token), PiecesTrue(past, h), NEW t
    PROVE  LET g == rejectOptimisticMove(h, t).handler
           IN  HandlerStep(past, h, g, token) /\ Onward(h, g) /\ g.connected = h.connected
<1> DEFINE g == rejectOptimisticMove(h, t).handler
           o == processRevert(h.optimistic, {t}, {})
<1>1. g = [h EXCEPT !.optimistic = o]
  BY DEF rejectOptimisticMove, Result
<1>2. FewerMoves(h.optimistic, o, token)
  BY RemovalFacts DEF processRevert, HandlerOK
<1> HIDE DEF o
<1>3. /\ IsHandler(g) /\ g.optimistic = o /\ g.pieces = h.pieces
      /\ g.snapshotSeqnum = h.snapshotSeqnum /\ g.activeCaptures = h.activeCaptures
      /\ g.connected = h.connected
  BY <1>1 DEF HandlerOK, IsHandler
<1> HIDE DEF g
<1>4. HandlerStep(past, h, g, token) /\ Onward(h, g)
  BY <1>2, <1>3, PiecesAlone DEF HandlerOK
<1> QED BY <1>3, <1>4 DEF g

LEMMA ConnectionFacts ==
    ASSUME NEW past, NEW h, NEW token, HandlerOK(h, token), PiecesTrue(past, h),
           NEW up
    PROVE  LET g == setConnected(h, up).handler
           IN  HandlerStep(past, h, g, token) /\ Onward(h, g)
<1> DEFINE g == setConnected(h, up).handler
           o == revertAll(h.optimistic)
<1>1. FewerMoves(h.optimistic, o, token)
  BY RemovalFacts DEF revertAll, processRevert, HandlerOK
<1> HIDE DEF o
<1>2. CASE h.connected /\ ~up
  <2>1. g = [h EXCEPT !.connected = FALSE, !.optimistic = o,
                      !.activeCaptures = <<>>, !.snapshotSeqnum = -1]
    BY <1>2 DEF setConnected, Result, o
  <2>2. /\ IsHandler(g) /\ g.optimistic = o /\ g.pieces = h.pieces
        /\ g.snapshotSeqnum = -1 /\ g.activeCaptures = <<>>
    BY <2>1 DEF HandlerOK, IsHandler
  <2> HIDE DEF g
  <2>3. g.snapshotSeqnum \in Int
    BY <2>2
  <2>4. \A id \in DOMAIN g.activeCaptures : g.activeCaptures[id] \in Nat
    BY <2>2
  <2>5. HandlerStep(past, h, g, token) /\ Onward(h, g)
    BY <1>1, <2>2, <2>3, <2>4, PiecesAlone
  <2> QED BY <2>5 DEF g
<1>3. CASE ~ (h.connected /\ ~up)
  <2>1. g = [h EXCEPT !.connected = up]
    BY <1>3 DEF setConnected, Result
  <2>2. /\ IsHandler(g) /\ g.optimistic = h.optimistic /\ g.pieces = h.pieces
        /\ g.snapshotSeqnum = h.snapshotSeqnum /\ g.activeCaptures = h.activeCaptures
    BY <2>1 DEF HandlerOK, IsHandler
  <2> HIDE DEF g
  <2>3. FewerMoves(h.optimistic, g.optimistic, token)
    BY <2>2, SameOptimism DEF HandlerOK
  <2>4. HandlerStep(past, h, g, token) /\ Onward(h, g)
    BY <2>2, <2>3, PiecesAlone DEF HandlerOK
  <2> QED BY <2>4 DEF g
<1> QED BY <1>2, <1>3

(* What an answer confirms are moves of its token.                         *)
LEMMA ConfirmedFacts ==
    ASSUME NEW h, NEW token, OptimismOK(h.optimistic, token), NEW t,
           NEW u \in ConfirmedMoves(h, t)
    PROVE  u \in MovesOf(h.optimistic, t)
<1> DEFINE o == h.optimistic
           confirmed == ActionsFor(o, t)
<1>1. PICK a \in confirmed : u = LastOf({b \in confirmed : b.id = a.id})
  BY DEF ConfirmedMoves, GroundTruthUpdates
<1>2. u.type = "move"
  BY DEF ConfirmedMoves
<1> DEFINE S == {b \in confirmed : b.id = a.id}
<1>3. S # {} /\ S \subseteq o.byToken
  BY DEF ActionsFor
<1>4. \A b \in S : b.actionId \in Nat /\ b.actionId < o.nextId
  BY <1>3 DEF OptimismOK
<1> HIDE DEF S
<1>5. LastOf(S) \in S
  BY <1>3, <1>4, LastOfIsLast DEF OptimismOK
<1>6. u \in confirmed
  BY <1>1, <1>5 DEF S
<1> QED BY <1>2, <1>6 DEF ActionsFor, MovesOf

LEMMA ConfirmationFacts ==
    ASSUME NEW past, NEW h, NEW token, HandlerOK(h, token), PiecesTrue(past, h),
           NEW t, NEW seqnum \in Nat, NEW captured,
           \A a \in MovesOf(h.optimistic, t) : Stood(past, seqnum, a.id, a.at)
    PROVE  LET g == confirmOptimisticMove(h, t, seqnum, captured).handler
           IN  HandlerStep(past, h, g, token) /\ Onward(h, g) /\ g.connected = h.connected
<1> DEFINE g == confirmOptimisticMove(h, t, seqnum, captured).handler
           taken == {u \in ConfirmedMoves(h, t) : TakesOver(h, u, seqnum)}
           o == processConfirmation(h.optimistic, t)
           truth == [id \in DOMAIN h.pieces |->
                       IF \E u \in taken : u.id = id
                       THEN [at |-> (CHOOSE u \in taken : u.id = id).at, seqnum |-> seqnum]
                       ELSE h.pieces[id]]
           unseen == {id \in captured \ ConfirmedCaptures(h, t) : Knows(h, id)}
           active == Over([id \in captured |-> seqnum], h.activeCaptures)
<1>1. g = [h EXCEPT !.optimistic = o, !.activeCaptures = active,
                    !.pieces = Without(truth, unseen)]
  BY DEF confirmOptimisticMove, Result
<1>2. FewerMoves(h.optimistic, o, token)
  BY RemovalFacts DEF processConfirmation, HandlerOK
<1>3. ASSUME NEW id \in DOMAIN h.pieces
      PROVE  /\ truth[id].seqnum \in Nat
             /\ truth[id].seqnum >= h.pieces[id].seqnum
             /\ Stood(past, truth[id].seqnum, id, truth[id].at)
  <2>1. CASE \E u \in taken : u.id = id
    <3> DEFINE u == CHOOSE u \in taken : u.id = id
    <3>1. u \in taken /\ u.id = id
      BY <2>1
    <3>2. truth[id].at = u.at /\ truth[id].seqnum = seqnum
      BY <2>1
    <3> HIDE DEF u
    <3>3. u \in MovesOf(h.optimistic, t)
      BY <3>1, ConfirmedFacts DEF HandlerOK
    <3>4. h.pieces[id].seqnum <= seqnum
      BY <3>1 DEF TakesOver
    <3>5. h.pieces[id].seqnum \in Nat
      BY DEF HandlerOK
    <3> HIDE DEF truth
    <3> QED BY <3>1, <3>2, <3>3, <3>4, <3>5
  <2>2. CASE ~ \E u \in taken : u.id = id
    <3>1. truth[id] = h.pieces[id]
      BY <2>2
    <3> HIDE DEF truth
    <3> QED BY <3>1 DEF HandlerOK, PiecesTrue
  <2> QED BY <2>1, <2>2
<1>4. DOMAIN truth = DOMAIN h.pieces
  OBVIOUS
<1>5. \A id \in DOMAIN active : active[id] \in Nat
  BY DEF Over, HandlerOK
<1> HIDE DEF truth, unseen, active, o
<1>6. /\ IsHandler(g) /\ g.optimistic = o /\ g.activeCaptures = active
      /\ g.pieces = Without(truth, unseen) /\ g.snapshotSeqnum = h.snapshotSeqnum
      /\ g.connected = h.connected
  BY <1>1 DEF HandlerOK, IsHandler
<1> HIDE DEF g
<1>7. \A id \in DOMAIN g.pieces : id \in DOMAIN h.pieces /\ g.pieces[id] = truth[id]
  BY <1>4, <1>6 DEF Without
<1>8. HandlerOK(g, token)
  BY <1>2, <1>3, <1>5, <1>6, <1>7 DEF HandlerOK, FewerMoves
<1>9. PiecesTrue(past, g)
  BY <1>3, <1>7 DEF PiecesTrue
<1>10. Onward(h, g)
  BY <1>3, <1>7, LastHeardType DEF Onward
<1> QED BY <1>2, <1>6, <1>8, <1>9, <1>10 DEF HandlerStep, g

-----------------------------------------------------------------------------
(* The messages that carry squares or captures.                            *)

IsList(s) == \E S : s \in Seq(S)

LEMMA ListFacts ==
    ASSUME NEW s, IsList(s)
    PROVE  \E len \in Nat : DOMAIN s = 1 .. len
BY LenProperties DEF IsList

LEMMA WithAnimFacts ==
    ASSUME NEW anims, IsList(anims), NEW a
    PROVE  IsList(WithAnim(anims, a))
<1>1. PICK S : anims \in Seq(S)
  BY DEF IsList
<1> DEFINE R == S \cup {a}
<1>2. anims \in Seq(R)
  BY <1>1, SeqMonotonic
<1> HIDE DEF R
<1>3. a \in R
  BY DEF R
<1>4. Append(anims, a) \in Seq(R)
  BY <1>2, <1>3, AppendFacts
<1> DEFINE other == [i \in DOMAIN anims |-> IF anims[i].id = a.id THEN a ELSE anims[i]]
<1>5. other \in Seq(R)
  <2>1. DOMAIN anims = 1 .. Len(anims) /\ Len(anims) \in Nat
    BY <1>2, LenProperties
  <2>2. \A i \in 1 .. Len(anims) : anims[i] \in R
    BY <1>2, ElementOfSeq
  <2>3. \A i \in 1 .. Len(anims) : other[i] \in R
    BY <1>3, <2>1, <2>2
  <2> QED BY <2>1, <2>3, SeqDef
<1>6. WithAnim(anims, a) = other \/ WithAnim(anims, a) = Append(anims, a)
  BY Zenon DEF WithAnim
<1> HIDE DEF other
<1> QED BY <1>4, <1>5, <1>6 DEF IsList

(* While a message is being applied to h; before the captures, no piece    *)
(* has gone and none that we heard was captured has come.                  *)
Applying(past, h, r, token) ==
    /\ HandlerOK(r.handler, token) /\ PiecesTrue(past, r.handler)
    /\ r.handler.optimistic = h.optimistic /\ r.handler.connected = h.connected
    /\ Onward(h, r.handler)
    /\ IsList(r.anims)
ApplyingMoves(past, h, r, token) ==
    /\ Applying(past, h, r, token)
    /\ DOMAIN h.pieces \subseteq DOMAIN r.handler.pieces
    /\ r.handler.activeCaptures = h.activeCaptures

LEMMA ApplyMoveFacts ==
    ASSUME NEW past, NEW h, NEW token, HandlerOK(h, token), NEW r,
           ApplyingMoves(past, h, r, token), NEW m \in Moves, MoveTrue(past, m)
    PROVE  ApplyingMoves(past, h, ApplyMove(r, m), token)
<1>1. CASE ~IsNews(r.handler, m)
  BY <1>1, Zenon DEF ApplyMove
<1>2. CASE IsNews(r.handler, m)
  <2> DEFINE k == r.handler
             new == [at |-> m.at, seqnum |-> m.seqnum]
             next == ApplyMove(r, m)
             g == next.handler
  <2>1. g = [k EXCEPT !.pieces = With(@, m.id, new)]
    BY <1>2 DEF ApplyMove, Result
  <2>2. IsList(next.anims)
    <3> DEFINE anim == Anim(IF Knows(k, m.id) THEN "move" ELSE "appearance", m.id, m.at)
    <3>1. next.anims = r.anims \/ next.anims = WithAnim(r.anims, anim)
      BY <1>2 DEF ApplyMove, Result
    <3> HIDE DEF anim, next
    <3> QED BY <3>1, WithAnimFacts DEF ApplyingMoves, Applying
  <2> HIDE DEF next
  <2>3. /\ IsHandler(g) /\ g.optimistic = k.optimistic
        /\ g.activeCaptures = k.activeCaptures /\ g.pieces = With(k.pieces, m.id, new)
        /\ g.snapshotSeqnum = k.snapshotSeqnum /\ g.connected = k.connected
    BY <2>1 DEF ApplyingMoves, Applying, HandlerOK, IsHandler
  <2> HIDE DEF g
  <2>4. /\ DOMAIN g.pieces = DOMAIN k.pieces \cup {m.id} /\ g.pieces[m.id] = new
        /\ \A id \in DOMAIN k.pieces : id # m.id => g.pieces[id] = k.pieces[id]
    BY <2>3 DEF With
  <2>5. m.id \in Ids /\ m.seqnum \in Nat
    BY DEF Moves
  <2>6. HandlerOK(g, token)
    BY <2>3, <2>4, <2>5 DEF ApplyingMoves, Applying, HandlerOK
  <2>7. PiecesTrue(past, g)
    BY <2>4 DEF ApplyingMoves, Applying, PiecesTrue, MoveTrue
  <2>8. m.seqnum >= LastHeard(h, m.id)
    <3>1. LastHeard(h, m.id) \in Nat
      BY LastHeardType
    <3>2. CASE m.id \in DOMAIN k.pieces
      <4>1. m.seqnum >= k.pieces[m.id].seqnum
        BY <1>2, <3>2 DEF IsNews, Knows
      <4>2. k.pieces[m.id].seqnum >= LastHeard(h, m.id)
        BY <3>2 DEF ApplyingMoves, Applying, Onward
      <4>3. k.pieces[m.id].seqnum \in Nat
        BY <3>2 DEF ApplyingMoves, Applying, HandlerOK
      <4> QED BY <2>5, <3>1, <4>1, <4>2, <4>3
    <3>3. CASE m.id \notin DOMAIN k.pieces
      <4>1. m.id \notin DOMAIN h.pieces /\ m.id \notin DOMAIN h.activeCaptures
        BY <1>2, <3>3 DEF IsNews, ApplyingMoves
      <4>2. LastHeard(h, m.id) = 0
        BY <4>1, LastHeardType
      <4> QED BY <2>5, <4>2
    <3> QED BY <3>2, <3>3
  <2>9. Onward(h, g)
    BY <2>4, <2>8 DEF ApplyingMoves, Applying, Onward
  <2>10. ApplyingMoves(past, h, next, token)
    BY <2>2, <2>3, <2>4, <2>6, <2>7, <2>9 DEF ApplyingMoves, Applying, g
  <2> QED BY <2>10 DEF next
<1> QED BY <1>1, <1>2

LEMMA ApplyCaptureFacts ==
    ASSUME NEW past, NEW h, NEW token, NEW r, Applying(past, h, r, token),
           NEW c \in Captures
    PROVE  Applying(past, h, ApplyCapture(r, c), token)
<1> DEFINE k == r.handler
<1>1. CASE c.seqnum <= k.snapshotSeqnum \/ ~Knows(k, c.id)
  BY <1>1, Zenon DEF ApplyCapture
<1>2. CASE ~ (c.seqnum <= k.snapshotSeqnum \/ ~Knows(k, c.id))
  <2> DEFINE next == ApplyCapture(r, c)
             g == next.handler
  <2>1. /\ g = [k EXCEPT !.activeCaptures = With(@, c.id, c.seqnum),
                         !.pieces = Without(@, {c.id})]
        /\ next.anims = WithAnim(r.anims, Anim("capture", c.id, k.pieces[c.id].at))
    BY <1>2 DEF ApplyCapture, Result
  <2> HIDE DEF next
  <2>2. IsList(next.anims)
    BY <2>1, WithAnimFacts DEF Applying
  <2>3. /\ IsHandler(g) /\ g.optimistic = k.optimistic
        /\ g.activeCaptures = With(k.activeCaptures, c.id, c.seqnum)
        /\ g.pieces = Without(k.pieces, {c.id})
        /\ g.snapshotSeqnum = k.snapshotSeqnum /\ g.connected = k.connected
    BY <2>1 DEF Applying, HandlerOK, IsHandler
  <2> HIDE DEF g
  <2>4. \A id \in DOMAIN g.pieces : id \in DOMAIN k.pieces /\ g.pieces[id] = k.pieces[id]
    BY <2>3 DEF Without
  <2>5. \A id \in DOMAIN g.activeCaptures : g.activeCaptures[id] \in Nat
    BY <2>3 DEF With, Captures, Applying, HandlerOK
  <2>6. HandlerOK(g, token)
    BY <2>3, <2>4, <2>5 DEF Applying, HandlerOK
  <2>7. PiecesTrue(past, g)
    BY <2>4 DEF Applying, PiecesTrue
  <2>8. Onward(h, g)
    BY <2>4 DEF Applying, Onward
  <2>9. Applying(past, h, next, token)
    BY <2>2, <2>3, <2>6, <2>7, <2>8 DEF Applying, g
  <2> QED BY <2>9 DEF next
<1> QED BY <1>1, <1>2

LEMMA ApplyMovesFacts ==
    ASSUME NEW past, NEW h, NEW token, HandlerOK(h, token), NEW base,
           ApplyingMoves(past, h, base, token),
           NEW moves \in Seq(Moves), \A i \in DOMAIN moves : MoveTrue(past, moves[i])
    PROVE  ApplyingMoves(past, h, FoldLeft(ApplyMove, base, moves), token)
<1> DEFINE len == Len(moves)
<1>1. len \in Nat /\ DOMAIN moves = 1 .. len /\ \A i \in 1 .. len : moves[i] \in Moves
  BY LenProperties, ElementOfSeq
<1> HIDE DEF len
<1>2. PICK run : MovesRun(base, moves, len, run)
  BY <1>1, MovesLoop
<1> DEFINE G == {S \in SUBSET (1 .. len) : ApplyingMoves(past, h, run[S], token)}
<1>3. {} \in G
  BY <1>2 DEF MovesRun
<1>4. ASSUME NEW S \in SUBSET (1 .. len), S # {}, S \ {Top(S)} \in G PROVE S \in G
  <2>1. run[S] = ApplyMove(run[S \ {Top(S)}], moves[Top(S)])
    BY <1>2, <1>4 DEF MovesRun
  <2>2. Top(S) \in 1 .. len
    BY <1>1, <1>4, TopFacts
  <2>3. moves[Top(S)] \in Moves /\ MoveTrue(past, moves[Top(S)])
    BY <1>1, <2>2
  <2>4. ApplyingMoves(past, h, run[S \ {Top(S)}], token)
    BY <1>4
  <2>5. ApplyingMoves(past, h, ApplyMove(run[S \ {Top(S)}], moves[Top(S)]), token)
    BY <2>3, <2>4, ApplyMoveFacts
  <2> QED BY <2>1, <2>5
<1> HIDE DEF G
<1>5. 1 .. len \in G
  BY <1>1, <1>3, <1>4, IndexInduction
<1> QED BY <1>2, <1>5 DEF G, MovesRun

LEMMA ApplyCapturesFacts ==
    ASSUME NEW past, NEW h, NEW token, NEW base, Applying(past, h, base, token),
           NEW captures \in Seq(Captures)
    PROVE  Applying(past, h, FoldLeft(ApplyCapture, base, captures), token)
<1> DEFINE len == Len(captures)
<1>1. /\ len \in Nat /\ DOMAIN captures = 1 .. len
      /\ \A i \in 1 .. len : captures[i] \in Captures
  BY LenProperties, ElementOfSeq
<1> HIDE DEF len
<1>2. PICK run : CapturesRun(base, captures, len, run)
  BY <1>1, CapturesLoop
<1> DEFINE G == {S \in SUBSET (1 .. len) : Applying(past, h, run[S], token)}
<1>3. {} \in G
  BY <1>2 DEF CapturesRun
<1>4. ASSUME NEW S \in SUBSET (1 .. len), S # {}, S \ {Top(S)} \in G PROVE S \in G
  <2>1. run[S] = ApplyCapture(run[S \ {Top(S)}], captures[Top(S)])
    BY <1>2, <1>4 DEF CapturesRun
  <2>2. captures[Top(S)] \in Captures
    BY <1>1, <1>4, TopFacts
  <2>3. Applying(past, h, run[S \ {Top(S)}], token)
    BY <1>4
  <2>4. Applying(past, h, ApplyCapture(run[S \ {Top(S)}], captures[Top(S)]), token)
    BY <2>2, <2>3, ApplyCaptureFacts
  <2> QED BY <2>1, <2>4
<1> HIDE DEF G
<1>5. 1 .. len \in G
  BY <1>1, <1>3, <1>4, IndexInduction
<1> QED BY <1>2, <1>5 DEF G, CapturesRun

(* What every message but an answer ends with.                             *)
LEMMA AppliedFacts ==
    ASSUME NEW past, NEW h, NEW token, HandlerOK(h, token),
           NEW k, NEW anims, HandlerOK(k, token), PiecesTrue(past, k),
           k.optimistic = h.optimistic, k.connected = h.connected, IsList(anims)
    PROVE  LET g == processGroundTruthAnimations(k, anims).handler
           IN  /\ HandlerStep(past, h, g, token) /\ g.connected = h.connected
               /\ g.pieces = k.pieces
<1> DEFINE g == processGroundTruthAnimations(k, anims).handler
<1>1. PICK len \in Nat : DOMAIN anims = 1 .. len
  BY ListFacts
<1>2. /\ IsHandler(g) /\ FewerMoves(k.optimistic, g.optimistic, token)
      /\ g.pieces = k.pieces /\ g.activeCaptures = k.activeCaptures
      /\ g.snapshotSeqnum = k.snapshotSeqnum /\ g.connected = k.connected
  BY <1>1, GroundTruthFacts DEF HandlerOK
<1> HIDE DEF g
<1>3. HandlerOK(g, token)
  BY <1>2 DEF HandlerOK, FewerMoves
<1>4. PiecesTrue(past, g)
  BY <1>2 DEF PiecesTrue
<1> QED BY <1>2, <1>3, <1>4 DEF HandlerStep, g

LEMMA HandleMovesFacts ==
    ASSUME NEW past, NEW h, NEW token, HandlerOK(h, token), PiecesTrue(past, h),
           NEW moves \in Seq(Moves), \A i \in DOMAIN moves : MoveTrue(past, moves[i]),
           NEW captures \in Seq(Captures)
    PROVE  LET g == handleMoves(h, moves, captures).handler
           IN  HandlerStep(past, h, g, token) /\ Onward(h, g) /\ g.connected = h.connected
<1> DEFINE base == Result(h, <<>>)
           moved == FoldLeft(ApplyMove, base, moves)
           applied == FoldLeft(ApplyCapture, moved, captures)
           g == handleMoves(h, moves, captures).handler
<1>1. base.handler = h /\ base.anims = <<>>
  BY DEF Result
<1>2. IsList(<<>>)
  <2>1. <<>> \in Seq({})
    BY EmptySeq
  <2> QED BY <2>1 DEF IsList
<1>3. Onward(h, h)
  <2>1. ASSUME NEW id \in DOMAIN h.pieces PROVE h.pieces[id].seqnum >= LastHeard(h, id)
    <3>1. LastHeard(h, id) \in Nat /\ LastHeard(h, id) = h.pieces[id].seqnum
      BY LastHeardType
    <3> QED BY <3>1
  <2> QED BY <2>1 DEF Onward
<1> HIDE DEF base
<1>4. ApplyingMoves(past, h, base, token)
  BY <1>1, <1>2, <1>3 DEF ApplyingMoves, Applying
<1>5. ApplyingMoves(past, h, moved, token)
  BY <1>4, ApplyMovesFacts
<1> HIDE DEF moved
<1>6. Applying(past, h, applied, token)
  BY <1>5, ApplyCapturesFacts DEF ApplyingMoves
<1>7. g = processGroundTruthAnimations(applied.handler, applied.anims).handler
  BY DEF handleMoves, base, moved
<1> HIDE DEF applied
<1>8. /\ HandlerStep(past, h, g, token) /\ g.connected = h.connected
      /\ g.pieces = applied.handler.pieces
  BY <1>6, <1>7, AppliedFacts DEF Applying
<1> HIDE DEF g
<1>9. Onward(h, g)
  BY <1>6, <1>8 DEF Applying, Onward
<1> QED BY <1>8, <1>9 DEF g

LEMMA FiniteImage ==
    ASSUME NEW S, IsFiniteSet(S), NEW f, DOMAIN f = S, f = [x \in S |-> f[x]]
    PROVE  IsFiniteSet({f[x] : x \in S})
<1> DEFINE T == {f[x] : x \in S}
<1>1. f \in Surjection(S, T)
  BY DEF Surjection
<1> HIDE DEF T
<1>2. IsFiniteSet(T)
  BY <1>1, FS_Surjection
<1> QED BY <1>2 DEF T

LEMMA FiniteIds ==
    ASSUME NEW S \in SUBSET Ids
    PROVE  IsFiniteSet(S)
BY ClientViewAssumption, FS_Subset

(* The captures of a broadcast.                                            *)
LEMMA CapturesAre ==
    ASSUME NEW S \in SUBSET Ids, NEW n \in Nat
    PROVE  LET captures == {[id |-> id, seqnum |-> n] : id \in S}
           IN  captures \in SUBSET Captures /\ IsFiniteSet(captures)
<1> DEFINE f == [id \in S |-> [id |-> id, seqnum |-> n]]
           captures == {[id |-> id, seqnum |-> n] : id \in S}
<1>1. captures = {f[id] : id \in S} /\ DOMAIN f = S /\ f = [x \in S |-> f[x]]
  OBVIOUS
<1>2. captures \in SUBSET Captures
  BY DEF Captures
<1> HIDE DEF captures, f
<1>3. IsFiniteSet(captures)
  BY <1>1, FiniteImage, FiniteIds
<1> QED BY <1>2, <1>3 DEF captures

LEMMA HandleBulkCaptureFacts ==
    ASSUME NEW past, NEW h, NEW token, HandlerOK(h, token), PiecesTrue(past, h),
           NEW ids \in SUBSET Ids, NEW seqnum \in Nat
    PROVE  LET g == handleBulkCapture(h, ids, seqnum).handler
           IN  HandlerStep(past, h, g, token) /\ Onward(h, g) /\ g.connected = h.connected
<1> DEFINE captures == {[id |-> id, seqnum |-> seqnum] : id \in ids}
<1>1. captures \in SUBSET Captures /\ IsFiniteSet(captures)
  BY CapturesAre
<1> HIDE DEF captures
<1>2. SetToSeq(captures) \in Seq(Captures)
  BY <1>1, SetToSeqFacts, SeqMonotonic
<1>3. <<>> \in Seq(Moves) /\ DOMAIN <<>> = {}
  BY EmptySeq
<1>4. handleBulkCapture(h, ids, seqnum) = handleMoves(h, <<>>, SetToSeq(captures))
  BY DEF handleBulkCapture, captures
<1>5. \A i \in DOMAIN <<>> : MoveTrue(past, <<>>[i])
  BY <1>3
<1> DEFINE none == <<>>
           g == handleMoves(h, none, SetToSeq(captures)).handler
<1> HIDE DEF none
<1>6. HandlerStep(past, h, g, token) /\ Onward(h, g) /\ g.connected = h.connected
  BY <1>2, <1>3, <1>5, HandleMovesFacts DEF none
<1>7. g = handleBulkCapture(h, ids, seqnum).handler
  BY <1>4 DEF none
<1> QED BY <1>6, <1>7

AnimsOf(type, S, f) == {Anim(type, id, f[id].at) : id \in S}

LEMMA FiniteAnims ==
    ASSUME NEW type, NEW S \in SUBSET Ids, NEW f
    PROVE  IsFiniteSet(AnimsOf(type, S, f))
<1> DEFINE g == [id \in S |-> Anim(type, id, f[id].at)]
<1>1. DOMAIN g = S /\ g = [x \in S |-> g[x]]
  OBVIOUS
<1>2. AnimsOf(type, S, f) = {g[id] : id \in S}
  BY DEF AnimsOf
<1> HIDE DEF g
<1> QED BY <1>1, <1>2, FiniteImage, FiniteIds

LEMMA ConcatLists ==
    ASSUME NEW S, IsFiniteSet(S), NEW T, IsFiniteSet(T)
    PROVE  IsList(SetToSeq(S) \o SetToSeq(T))
<1> DEFINE R == S \cup T
<1>1. SetToSeq(S) \in Seq(R) /\ SetToSeq(T) \in Seq(R)
  BY SetToSeqFacts, SeqMonotonic
<1> HIDE DEF R
<1>2. SetToSeq(S) \o SetToSeq(T) \in Seq(R)
  BY <1>1, ConcatProperties
<1> QED BY <1>2 DEF IsList

LEMMA HandleSnapshotFacts ==
    ASSUME NEW past, NEW h, NEW token, HandlerOK(h, token), PiecesTrue(past, h),
           NEW s \in Snapshots, SnapshotTrue(past, s)
    PROVE  LET g == handleSnapshot(h, s).handler
           IN  /\ HandlerStep(past, h, g, token) /\ g.connected = h.connected
               /\ ~s.newConnection => Onward(h, g)
<1> DEFINE captures == CapturedSince(h, s)
           ids == DOMAIN s.squares \ DOMAIN captures
           kept == KeptFromBefore(h, s)
           truth == [id \in ids |->
                       IF id \in kept THEN h.pieces[id]
                       ELSE [at |-> s.squares[id], seqnum |-> s.seqnum]]
           arrived == ids \ DOMAIN h.pieces
           moved == {id \in ids \cap DOMAIN h.pieces : truth[id].at # h.pieces[id].at
                        /\ (s.newConnection \/ h.pieces[id].seqnum < s.seqnum)}
           gone == DOMAIN h.pieces \ (ids \cup DOMAIN h.activeCaptures)
           appearing == {Anim("appearance", id, truth[id].at) : id \in arrived}
           moving == {Anim("move", id, truth[id].at) : id \in moved}
           leaving == {Anim("capture", id, h.pieces[id].at) : id \in gone}
           anims == SetToSeq(appearing \cup moving) \o SetToSeq(leaving)
           last == IF h.snapshotSeqnum > s.seqnum THEN h.snapshotSeqnum ELSE s.seqnum
           k == [h EXCEPT !.pieces = truth, !.activeCaptures = captures,
                          !.snapshotSeqnum = last]
           g == handleSnapshot(h, s).handler
<1>1. g = processGroundTruthAnimations(k, anims).handler
  BY DEF handleSnapshot
<1>2. /\ IsHandler(k) /\ k.optimistic = h.optimistic /\ k.connected = h.connected
      /\ k.pieces = truth /\ k.activeCaptures = captures /\ k.snapshotSeqnum = last
  BY DEF HandlerOK, IsHandler
<1>3. s.seqnum \in Nat /\ s.squares \in Boards /\ s.newConnection \in BOOLEAN
  BY DEF Snapshots
<1>4. DOMAIN s.squares \subseteq Ids
  BY <1>3 DEF Boards
<1>5. last \in Int
  BY <1>3 DEF HandlerOK
<1>6. /\ \A id \in DOMAIN captures : captures[id] \in Nat
      /\ \A id \in DOMAIN h.activeCaptures \ DOMAIN captures :
            h.activeCaptures[id] <= s.seqnum
  BY <1>3 DEF CapturedSince, HandlerOK
<1>7. kept \subseteq DOMAIN h.pieces
  BY <1>3, Zenon DEF KeptFromBefore
<1>8. IsList(anims)
  <2>1. arrived \in SUBSET Ids /\ moved \in SUBSET Ids /\ gone \in SUBSET Ids
    BY <1>4 DEF HandlerOK
  <2>2. IsFiniteSet(leaving)
    <3> HIDE DEF gone
    <3>1. leaving = AnimsOf("capture", gone, h.pieces)
      BY DEF AnimsOf
    <3> HIDE DEF leaving
    <3> QED BY <2>1, <3>1, FiniteAnims
  <2>3. IsFiniteSet(appearing) /\ IsFiniteSet(moving)
    <3> HIDE DEF arrived, moved, truth
    <3>1. /\ appearing = AnimsOf("appearance", arrived, truth)
          /\ moving = AnimsOf("move", moved, truth)
      BY DEF AnimsOf
    <3> HIDE DEF appearing, moving
    <3> QED BY <2>1, <3>1, FiniteAnims
  <2> HIDE DEF leaving, appearing, moving
  <2>4. IsFiniteSet(appearing \cup moving)
    BY <2>3, FS_Union
  <2> QED BY <2>2, <2>4, ConcatLists
<1> HIDE DEF anims, captures, kept, last
<1>9. ASSUME NEW id \in ids
      PROVE  /\ truth[id].seqnum \in Nat
             /\ Stood(past, truth[id].seqnum, id, truth[id].at)
             /\ ~s.newConnection => truth[id].seqnum >= LastHeard(h, id)
  <2>1. LastHeard(h, id) \in Nat
    BY LastHeardType
  <2>2. CASE id \in kept
    <3>1. truth[id] = h.pieces[id]
      BY <2>2
    <3>2. id \in DOMAIN h.pieces /\ LastHeard(h, id) = h.pieces[id].seqnum
      BY <1>7, <2>2, LastHeardType
    <3> HIDE DEF truth
    <3> QED BY <2>1, <3>1, <3>2 DEF HandlerOK, PiecesTrue
  <2>3. CASE id \notin kept
    <3>1. truth[id].at = s.squares[id] /\ truth[id].seqnum = s.seqnum
      BY <2>3
    <3> HIDE DEF truth
    <3>2. Stood(past, truth[id].seqnum, id, truth[id].at)
      BY <3>1 DEF SnapshotTrue, Stood
    <3>3. ASSUME ~s.newConnection PROVE s.seqnum >= LastHeard(h, id)
      <4>1. CASE id \in DOMAIN h.pieces
        <5>1. ~ (h.pieces[id].seqnum > s.seqnum)
          BY <2>3, <3>3, <4>1 DEF KeptFromBefore, kept
        <5> QED BY <1>3, <2>1, <4>1, <5>1, LastHeardType
      <4>2. CASE id \notin DOMAIN h.pieces /\ id \in DOMAIN h.activeCaptures
        BY <1>6, <4>2, LastHeardType
      <4>3. CASE id \notin DOMAIN h.pieces /\ id \notin DOMAIN h.activeCaptures
        BY <1>3, <4>3, LastHeardType
      <4> QED BY <4>1, <4>2, <4>3
    <3> QED BY <1>3, <3>1, <3>2, <3>3
  <2> QED BY <2>2, <2>3
<1>10. DOMAIN truth = ids /\ ids \subseteq Ids
  BY <1>4
<1> HIDE DEF truth, ids, k
<1>11. HandlerOK(k, token) /\ PiecesTrue(past, k)
  BY <1>2, <1>5, <1>6, <1>9, <1>10 DEF HandlerOK, PiecesTrue
<1>12. /\ HandlerStep(past, h, g, token) /\ g.connected = h.connected
       /\ g.pieces = truth
  BY <1>1, <1>2, <1>8, <1>11, AppliedFacts
<1> HIDE DEF g
<1>13. ~s.newConnection => Onward(h, g)
  BY <1>9, <1>10, <1>12 DEF Onward
<1> QED BY <1>12, <1>13 DEF g

-----------------------------------------------------------------------------
(* The server: the board grows by one entry for a change, and everything   *)
(* that was true of its past stays so.                                     *)

Grows(past, next) ==
    /\ \A n, id, at : Stood(past, n, id, at) => Stood(next, n, id, at)
    /\ \A s : SnapshotTrue(past, s) => SnapshotTrue(next, s)

LEMMA AppendGrows ==
    ASSUME NEW past, HistoryGood(past), NEW b \in Boards
    PROVE  LET next == Append(past, b)
           IN  /\ HistoryGood(next) /\ Grows(past, next)
               /\ Len(next) = Len(past) + 1 /\ next[Len(past) + 1] = b
<1> DEFINE next == Append(past, b)
<1>1. /\ Len(past) \in Nat /\ next \in Seq(Boards) /\ Len(next) = Len(past) + 1
      /\ \A i \in 1 .. Len(past) : next[i] = past[i]
      /\ next[Len(past) + 1] = b
  BY AppendProperties, LenProperties DEF HistoryGood
<1> HIDE DEF next
<1>2. HistoryGood(next)
  BY <1>1 DEF HistoryGood
<1>3. Grows(past, next)
  BY <1>1 DEF Grows, Stood, SnapshotTrue
<1> QED BY <1>1, <1>2, <1>3 DEF next

LEMMA GrowthKeeps ==
    ASSUME NEW past, NEW next, Grows(past, next)
    PROVE  /\ \A p : PendingGood(past, p) => PendingGood(next, p)
           /\ \A b : BufferGood(past, b) => BufferGood(next, b)
           /\ \A S : SnapshotGood(past, S) => SnapshotGood(next, S)
           /\ \A h : PiecesTrue(past, h) => PiecesTrue(next, h)
           /\ \A o, token, q : LinkGood(past, o, token, q) => LinkGood(next, o, token, q)
<1>1. \A m : MoveTrue(past, m) => MoveTrue(next, m)
  BY DEF Grows, MoveTrue
<1>2. \A o, m : MessageTrue(past, o, m) => MessageTrue(next, o, m)
  BY <1>1 DEF Grows, MessageTrue, Answers
<1>3. \A p : PendingGood(past, p) => PendingGood(next, p)
  BY <1>1 DEF PendingGood
<1>4. \A b : BufferGood(past, b) => BufferGood(next, b)
  BY <1>1 DEF BufferGood
<1>5. \A S : SnapshotGood(past, S) => SnapshotGood(next, S)
  BY DEF Grows, SnapshotGood
<1>6. \A h : PiecesTrue(past, h) => PiecesTrue(next, h)
  BY DEF Grows, PiecesTrue
<1>7. \A o, token, q : LinkGood(past, o, token, q) => LinkGood(next, o, token, q)
  BY <1>2 DEF LinkGood, MessageOK
<1> QED BY <1>3, <1>4, <1>5, <1>6, <1>7

(* A step of the rules puts its pieces where it says.                      *)
LEMMA LandingFacts ==
    ASSUME NEW step \in Steps
    PROVE  /\ DOMAIN Landing(step) \subseteq Ids
           /\ \A id \in DOMAIN Landing(step) : Landing(step)[id] \in Places
           /\ step.id \in DOMAIN Landing(step) /\ Landing(step)[step.id] = step.to
           /\ \A o \in step.others :
                 o.id \in DOMAIN Landing(step) /\ Landing(step)[o.id] = o.to
<1> DEFINE other == [id \in {o.id : o \in step.others} |->
                       (CHOOSE o \in step.others : o.id = id).to]
<1>1. OkStep(step)
  BY ClientViewAssumption
<1>2. step.id \in Ids /\ step.to \in Places
  BY <1>1 DEF OkStep, Places
<1>3. \A o \in step.others : o.id \in Ids /\ o.id # step.id /\ o.to \in Places
  BY <1>1 DEF OkStep, Places
<1>4. ASSUME NEW o \in step.others
      PROVE  o.id \in DOMAIN other /\ other[o.id] = o.to
  <2>1. step.others = {o}
    BY <1>1 DEF OkStep
  <2>2. (CHOOSE p \in step.others : p.id = o.id) = o
    BY <2>1
  <2> QED BY <2>2
<1>5. ASSUME NEW id \in DOMAIN other
      PROVE  \E o \in step.others : id = o.id /\ other[id] = o.to
  <2>1. PICK o \in step.others : id = o.id
    OBVIOUS
  <2> QED BY <1>4, <2>1
<1>6. Landing(step) = With(other, step.id, step.to)
  BY DEF Landing
<1> HIDE DEF other
<1>7. /\ DOMAIN Landing(step) = DOMAIN other \cup {step.id}
      /\ Landing(step)[step.id] = step.to
      /\ \A id \in DOMAIN other : id # step.id => Landing(step)[id] = other[id]
  BY <1>6 DEF With
<1> QED BY <1>2, <1>3, <1>4, <1>5, <1>7

LEMMA SquaresAre ==
    ASSUME NEW b \in Boards
    PROVE  /\ DOMAIN b \in SUBSET Ids /\ b = [id \in DOMAIN b |-> b[id]]
           /\ \A id \in DOMAIN b : b[id] \in Places
BY DEF Boards

LEMMA AfterStep ==
    ASSUME NEW b \in Boards, NEW step \in Steps, NEW V
    PROVE  LET next == Over(Landing(step), Without(b, V))
           IN  /\ next \in Boards
               /\ \A id \in DOMAIN Landing(step) :
                     id \in DOMAIN next /\ next[id] = Landing(step)[id]
<1> DEFINE rest == Without(b, V)
           next == Over(Landing(step), rest)
<1>1. DOMAIN rest \subseteq Ids /\ \A id \in DOMAIN rest : rest[id] \in Places
  BY SquaresAre DEF Without
<1> HIDE DEF rest
<1>2. /\ DOMAIN next = DOMAIN Landing(step) \cup DOMAIN rest
      /\ next = [id \in DOMAIN next |-> next[id]]
      /\ \A id \in DOMAIN Landing(step) : next[id] = Landing(step)[id]
      /\ \A id \in DOMAIN rest \ DOMAIN Landing(step) : next[id] = rest[id]
  BY DEF Over
<1> HIDE DEF next
<1>3. DOMAIN next \in SUBSET Ids /\ \A id \in DOMAIN next : next[id] \in Places
  BY <1>1, <1>2, LandingFacts
<1>4. next \in [DOMAIN next -> Places]
  BY <1>2, <1>3
<1>5. next \in Boards
  BY <1>3, <1>4 DEF Boards
<1> QED BY <1>2, <1>5 DEF next, rest

LEMMA AfterBulk ==
    ASSUME NEW b \in Boards, NEW V
    PROVE  Without(b, V) \in Boards
<1> DEFINE next == Without(b, V)
<1>1. /\ DOMAIN next \in SUBSET Ids /\ next = [id \in DOMAIN next |-> next[id]]
      /\ \A id \in DOMAIN next : next[id] \in Places
  BY SquaresAre DEF Without
<1> HIDE DEF next
<1>2. next \in [DOMAIN next -> Places]
  BY <1>1
<1>3. next \in Boards
  BY <1>1, <1>2 DEF Boards
<1> QED BY <1>3 DEF next

LEMMA BoardIs ==
    ASSUME HistoryGood(history)
    PROVE  board \in Boards /\ seqNum \in Nat /\ seqNum >= 1
BY LenProperties, ElementOfSeq DEF HistoryGood, board, seqNum

-----------------------------------------------------------------------------
(* The queues between the two.                                             *)

LEMMA LinkAppend ==
    ASSUME NEW past, NEW o, NEW token, NEW q, LinkGood(past, o, token, q),
           NEW m, MessageOK(past, o, token, m)
    PROVE  LinkGood(past, o, token, Append(q, m))
<1>1. q \in Seq(Messages) /\ m \in Messages
  BY DEF LinkGood, MessageOK
<1>2. /\ Append(q, m) \in Seq(Messages)
      /\ \A j \in DOMAIN Append(q, m) :
            Append(q, m)[j] = m \/ \E k \in DOMAIN q : Append(q, m)[j] = q[k]
  BY <1>1, AppendFacts
<1> QED BY <1>2 DEF LinkGood

LEMMA LinkTail ==
    ASSUME NEW past, NEW o, NEW token, NEW q, LinkGood(past, o, token, q), q # <<>>
    PROVE  LinkGood(past, o, token, Tail(q)) /\ MessageOK(past, o, token, Head(q))
<1>1. q \in Seq(Messages)
  BY DEF LinkGood
<1>2. /\ Tail(q) \in Seq(Messages) /\ 1 \in DOMAIN q /\ Head(q) = q[1]
      /\ \A j \in DOMAIN Tail(q) : \E k \in DOMAIN q : Tail(q)[j] = q[k]
  BY <1>1, TailFacts
<1> QED BY <1>2 DEF LinkGood

LEMMA RequestsTail ==
    ASSUME NEW o, NEW token, NEW q, RequestsGood(o, token, q), q # <<>>
    PROVE  /\ RequestsGood(o, token, Tail(q))
           /\ Head(q) \in Requests /\ Head(q).token <= token /\ Asks(o, Head(q))
<1>1. q \in Seq(Requests)
  BY DEF RequestsGood
<1>2. /\ Tail(q) \in Seq(Requests) /\ 1 \in DOMAIN q /\ Head(q) = q[1] /\ Head(q) \in Requests
      /\ \A j \in DOMAIN Tail(q) : \E k \in DOMAIN q : Tail(q)[j] = q[k]
  BY <1>1, TailFacts
<1> QED BY <1>2 DEF RequestsGood

LEMMA RequestsRemoveAt ==
    ASSUME NEW o, NEW token, NEW q, RequestsGood(o, token, q), NEW i \in DOMAIN q
    PROVE  RequestsGood(o, token, RemoveAt(q, i)) /\ q[i] \in Requests
<1>1. q \in Seq(Requests)
  BY DEF RequestsGood
<1>2. /\ RemoveAt(q, i) \in Seq(Requests)
      /\ \A j \in DOMAIN RemoveAt(q, i) : \E k \in DOMAIN q : RemoveAt(q, i)[j] = q[k]
  BY <1>1, RemoveAtFacts
<1>3. q[i] \in Requests
  BY <1>1, ElementOfSeq, LenProperties
<1> QED BY <1>2, <1>3 DEF RequestsGood

LEMMA RequestsAppend ==
    ASSUME NEW o, NEW token, NEW q, RequestsGood(o, token, q),
           NEW r \in Requests, r.token <= token, Asks(o, r)
    PROVE  RequestsGood(o, token, Append(q, r))
<1>1. q \in Seq(Requests)
  BY DEF RequestsGood
<1>2. /\ Append(q, r) \in Seq(Requests)
      /\ \A j \in DOMAIN Append(q, r) :
            Append(q, r)[j] = r \/ \E k \in DOMAIN q : Append(q, r)[j] = q[k]
  BY <1>1, AppendFacts
<1> QED BY <1>2 DEF RequestsGood

(* The requests of a connection that broke: nobody waits for their answer. *)
LEMMA RequestsOrphaned ==
    ASSUME NEW o, NEW p, NEW token, NEW q, RequestsGood(o, token, q), NEW n \in 0 .. Len(q)
    PROVE  RequestsGood(p, token, [i \in 1 .. n |-> [q[i] EXCEPT !.alive = FALSE]])
<1> DEFINE orphans == [i \in 1 .. n |-> [q[i] EXCEPT !.alive = FALSE]]
<1>1. q \in Seq(Requests) /\ Len(q) \in Nat /\ DOMAIN q = 1 .. Len(q)
  BY LenProperties DEF RequestsGood
<1>2. ASSUME NEW i \in 1 .. n
      PROVE  /\ orphans[i] \in Requests /\ ~orphans[i].alive
             /\ orphans[i].token <= token
  <2>1. i \in DOMAIN q /\ q[i] \in Requests
    BY <1>1, ElementOfSeq
  <2>2. q[i].token <= token
    BY <2>1 DEF RequestsGood
  <2> QED BY <2>1, <2>2 DEF Requests
<1>3. DOMAIN orphans = 1 .. n /\ n \in Nat
  BY <1>1
<1>4. orphans \in Seq(Requests)
  BY <1>2, <1>3, SeqDef
<1> HIDE DEF orphans
<1>5. RequestsGood(p, token, orphans)
  BY <1>2, <1>3, <1>4 DEF RequestsGood, Asks
<1> QED BY <1>5 DEF orphans

(* The client's moves of the tokens given out so far only become fewer.    *)
Milder(o, p, token) ==
    \A t \in Nat : t <= token => MovesOf(p, t) \subseteq MovesOf(o, t)

LEMMA MilderKeeps ==
    ASSUME NEW past, NEW o, NEW p, NEW token \in Nat, Milder(o, p, token),
           NEW later \in Nat, token <= later
    PROVE  /\ \A q : RequestsGood(o, token, q) => RequestsGood(p, later, q)
           /\ \A q : LinkGood(past, o, token, q) => LinkGood(past, p, later, q)
<1>1. ASSUME NEW q, RequestsGood(o, token, q)
      PROVE  RequestsGood(p, later, q)
  <2>1. q \in Seq(Requests) /\ \A i \in DOMAIN q : q[i] \in Requests
    BY <1>1, ElementOfSeq, LenProperties DEF RequestsGood
  <2>2. ASSUME NEW i \in DOMAIN q PROVE q[i].token <= later /\ Asks(p, q[i])
    <3>1. q[i].token \in Nat /\ q[i].token <= token /\ Asks(o, q[i])
      BY <1>1, <2>1 DEF RequestsGood, Requests
    <3>2. MovesOf(p, q[i].token) \subseteq MovesOf(o, q[i].token)
      BY <3>1 DEF Milder
    <3>3. Asks(p, q[i])
      BY <3>1, <3>2 DEF Asks
    <3> QED BY <3>1, <3>3
  <2> QED BY <2>1, <2>2 DEF RequestsGood
<1>2. ASSUME NEW q, LinkGood(past, o, token, q)
      PROVE  LinkGood(past, p, later, q)
  <2>1. ASSUME NEW m, MessageOK(past, o, token, m) PROVE MessageOK(past, p, later, m)
    <3>1. CASE m.type = "valid"
      <4>1. m.token \in Nat /\ m.token <= token
        BY <2>1, <3>1 DEF MessageOK, Messages
      <4>2. MovesOf(p, m.token) \subseteq MovesOf(o, m.token)
        BY <4>1 DEF Milder
      <4>3. Answers(past, p, m)
        BY <2>1, <3>1, <4>2 DEF MessageOK, MessageTrue, Answers
      <4> QED BY <2>1, <3>1, <4>1, <4>3 DEF MessageOK, MessageTrue
    <3>2. CASE m.type # "valid"
      BY <2>1, <3>2 DEF MessageOK, MessageTrue
    <3> QED BY <3>1, <3>2
  <2> QED BY <1>2, <2>1 DEF LinkGood
<1> QED BY <1>1, <1>2

(* What the client knows is another handler, and there are as many tokens. *)
LEMMA HandlerStepKeeps ==
    ASSUME NEW past, NEW h, NEW g, NEW token \in Nat, HandlerStep(past, h, g, token)
    PROVE  /\ \A q : RequestsGood(h.optimistic, token, q) => RequestsGood(g.optimistic, token, q)
           /\ \A q : LinkGood(past, h.optimistic, token, q) => LinkGood(past, g.optimistic, token, q)
<1>1. Milder(h.optimistic, g.optimistic, token)
  BY DEF HandlerStep, FewerMoves, Milder
<1> QED BY <1>1, MilderKeeps

-----------------------------------------------------------------------------
(* The steps of the server.                                                *)

LEMMA InitView ==
    ASSUME Init
    PROVE  ViewInv
<1>1. Home \in [Ids -> Range(Home)] /\ Range(Home) \subseteq Places
  BY ClientViewAssumption DEF Places
<1>2. Home \in Boards
  BY <1>1 DEF Boards
<1>3. /\ history = <<Home>> /\ history \in Seq(Boards) /\ Len(history) = 1
      /\ history[1] = Home
  BY <1>2 DEF Init
<1>4. HistoryGood(history)
  BY <1>3 DEF HistoryGood
<1>5. \A R : <<>> \in Seq(R) /\ DOMAIN <<>> = {}
  BY EmptySeq
<1>6. /\ RequestsGood(handler.optimistic, moveToken, requests)
      /\ LinkGood(history, handler.optimistic, moveToken, link)
      /\ PendingGood(history, pending)
  BY <1>5 DEF Init, RequestsGood, LinkGood, PendingGood
<1>7. BufferGood(history, buffer)
  BY <1>5 DEF Init, BufferGood, NoUpdates
<1>8. SnapshotGood(history, snapshot)
  <2> DEFINE s == [seqnum |-> 1, squares |-> Home, newConnection |-> TRUE]
  <2>1. s \in Snapshots /\ s.seqnum = 1 /\ s.squares = Home
    BY <1>2 DEF Snapshots
  <2>2. snapshot = {s}
    BY DEF Init
  <2> HIDE DEF s
  <2>3. SnapshotTrue(history, s)
    BY <1>3, <2>1 DEF SnapshotTrue
  <2> QED BY <2>1, <2>2, <2>3 DEF SnapshotGood
<1>9. HandlerOK(handler, moveToken) /\ PiecesTrue(history, handler)
  <2>1. /\ handler = [pieces |-> <<>>, optimistic |-> NoOptimism, activeCaptures |-> <<>>,
                      snapshotSeqnum |-> -1, connected |-> TRUE]
        /\ NoOptimism = [byPiece |-> {}, byToken |-> {}, touching |-> {}, keys |-> {},
                         nextId |-> 1]
    BY DEF Init, NoState, NoOptimism
  <2>2. OptimismOK(NoOptimism, moveToken)
    BY <2>1 DEF OptimismOK, IsOptimism
  <2>3. IsHandler(handler) /\ handler.snapshotSeqnum \in Int
    BY <2>1 DEF IsHandler
  <2>4. DOMAIN handler.pieces = {} /\ DOMAIN handler.activeCaptures = {}
    BY <1>5, <2>1
  <2> QED BY <2>1, <2>2, <2>3, <2>4 DEF HandlerOK, PiecesTrue
<1> QED BY <1>4, <1>6, <1>7, <1>8, <1>9 DEF ViewInv, Init

(* The broadcast of a move tells of its landing.                           *)
LEMMA ApplyFacts ==
    ASSUME ViewInv, NEW step \in Steps, Apply(step)
    PROVE  /\ HistoryGood(history') /\ Grows(history, history')
           /\ PendingGood(history', pending')
           /\ \A id \in DOMAIN Landing(step) :
                 Stood(history', seqNum + 1, id, Landing(step)[id])
           /\ Standing(board, step.to) \in SUBSET Ids
<1> DEFINE V == Standing(board, step.to)
           next == Over(Landing(step), Without(board, V))
           n == seqNum + 1
           captures == {[id |-> v, seqnum |-> n] : v \in V}
           moves == [id \in DOMAIN Landing(step) |->
                       [id |-> id, at |-> Landing(step)[id], seqnum |-> n]]
           b == [seqnum |-> n, moves |-> moves, captures |-> captures]
<1>1. board \in Boards /\ seqNum \in Nat /\ n \in Nat
  BY BoardIs DEF ViewInv
<1>2. V \in SUBSET Ids
  BY <1>1, SquaresAre DEF Standing
<1>3. /\ next \in Boards
      /\ \A id \in DOMAIN Landing(step) : id \in DOMAIN next /\ next[id] = Landing(step)[id]
  BY <1>1, AfterStep
<1>4. history' = Append(history, next) /\ pending' = pending \cup {b}
  BY Zenon DEF Apply
<1> HIDE DEF next
<1>5. /\ HistoryGood(history') /\ Grows(history, history')
      /\ Len(history') = n /\ history'[n] = next
  BY <1>3, <1>4, AppendGrows DEF ViewInv, seqNum
<1>6. \A id \in DOMAIN Landing(step) : Stood(history', n, id, Landing(step)[id])
  BY <1>1, <1>3, <1>5 DEF Stood
<1>7. captures \in SUBSET Captures /\ IsFiniteSet(captures)
  <2> HIDE DEF V, n
  <2> QED BY <1>1, <1>2, CapturesAre
<1>8. /\ DOMAIN moves = DOMAIN Landing(step)
      /\ \A id \in DOMAIN moves : moves[id] \in Moves /\ MoveTrue(history', moves[id])
  <2> HIDE DEF n
  <2> QED BY <1>1, <1>6, LandingFacts DEF Moves, MoveTrue
<1>9. b.seqnum = n /\ b.moves = moves /\ b.captures = captures
  OBVIOUS
<1> HIDE DEF moves, captures, b
<1>10. IsBroadcast(b)
  BY <1>1, <1>7, <1>8, <1>9, LandingFacts DEF IsBroadcast
<1>11. PendingGood(history', pending)
  BY <1>5, GrowthKeeps DEF ViewInv
<1>12. PendingGood(history', pending')
  BY <1>4, <1>8, <1>9, <1>10, <1>11 DEF PendingGood
<1> QED BY <1>2, <1>5, <1>6, <1>12

(* The step leaves the client alone.                                       *)
LEMMA ServerStep ==
    ASSUME ViewInv, UNCHANGED <<handler, moveToken, offer>>,
           HistoryGood(history'), Grows(history, history'),
           PendingGood(history', pending'),
           BufferGood(history', buffer'), SnapshotGood(history', snapshot'),
           RequestsGood(handler.optimistic, moveToken, requests'),
           LinkGood(history', handler.optimistic, moveToken, link')
    PROVE  ViewInv'
<1>1. PiecesTrue(history', handler)
  BY GrowthKeeps DEF ViewInv
<1> QED BY <1>1 DEF ViewInv

LEMMA Unchanging ==
    ASSUME HistoryGood(history), history' = history
    PROVE  HistoryGood(history') /\ Grows(history, history')
BY DEF Grows

LEMMA ServeRequestKeeps ==
    ASSUME ViewInv, ServeRequest
    PROVE  ViewInv'
<1> DEFINE r == Head(requests)
           done == [type |-> "valid", token |-> r.token, seqnum |-> seqNum + 1,
                    captured |-> Standing(board, r.step.to)]
           refused == [type |-> "invalid", token |-> r.token]
           o == handler.optimistic
<1>1. /\ requests # <<>> /\ requests' = Tail(requests)
      /\ UNCHANGED <<buffer, snapshot, handler, moveToken, offer>>
  BY DEF ServeRequest
<1>2. /\ RequestsGood(o, moveToken, requests')
      /\ r \in Requests /\ r.token <= moveToken /\ Asks(o, r)
  BY <1>1, RequestsTail DEF ViewInv
<1>3. r.step \in Steps /\ r.token \in Nat
  BY <1>2 DEF Requests
<1>4. CASE CanApply(board, r.step) /\ seqNum < MaxSeqNum
  <2>1. Apply(r.step) /\ Answer(r, done)
    BY <1>4, Zenon DEF ServeRequest
  <2>2. /\ HistoryGood(history') /\ Grows(history, history')
        /\ PendingGood(history', pending')
        /\ \A id \in DOMAIN Landing(r.step) :
              Stood(history', seqNum + 1, id, Landing(r.step)[id])
        /\ Standing(board, r.step.to) \in SUBSET Ids
    BY <1>3, <2>1, ApplyFacts
  <2>3. LinkGood(history', o, moveToken, link)
    BY <2>2, GrowthKeeps DEF ViewInv
  <2>4. ASSUME r.alive PROVE MessageOK(history', o, moveToken, done)
    <3> HIDE DEF r
    <3>1. done.type = "valid" /\ done.token = r.token /\ done.seqnum = seqNum + 1
      OBVIOUS
    <3>2. seqNum + 1 \in Nat
      BY BoardIs DEF ViewInv
    <3>3. done \in Messages
      BY <1>3, <2>2, <3>2 DEF Messages
    <3> HIDE DEF done
    <3>4. Answers(history', o, done)
      BY <1>2, <2>2, <2>4, <3>1 DEF Answers, Asks
    <3> QED BY <1>2, <3>1, <3>3, <3>4 DEF MessageOK, MessageTrue
  <2>5. link' = link \/ (r.alive /\ link' = Append(link, done))
    BY <2>1, Zenon DEF Answer, Send
  <2> HIDE DEF done, r
  <2>6. LinkGood(history', o, moveToken, link')
    BY <2>3, <2>4, <2>5, LinkAppend
  <2>7. BufferGood(history', buffer') /\ SnapshotGood(history', snapshot')
    BY <1>1, <2>2, GrowthKeeps DEF ViewInv
  <2> QED BY <1>1, <1>2, <2>2, <2>6, <2>7, ServerStep
<1>5. CASE ~ (CanApply(board, r.step) /\ seqNum < MaxSeqNum)
  <2>1. Answer(r, refused) /\ UNCHANGED <<history, pending>>
    BY <1>5, Zenon DEF ServeRequest
  <2>2. MessageOK(history, o, moveToken, refused)
    <3> HIDE DEF r
    <3> QED BY <1>3 DEF MessageOK, MessageTrue, Messages
  <2>3. link' = link \/ link' = Append(link, refused)
    BY <2>1, Zenon DEF Answer, Send
  <2> HIDE DEF refused, r
  <2>4. LinkGood(history, o, moveToken, link')
    BY <2>2, <2>3, LinkAppend DEF ViewInv
  <2>5. HistoryGood(history') /\ Grows(history, history')
    BY <2>1, Unchanging DEF ViewInv
  <2>6. /\ BufferGood(history', buffer') /\ SnapshotGood(history', snapshot')
        /\ PendingGood(history', pending')
    BY <1>1, <2>1 DEF ViewInv
  <2>7. history' = history
    BY <2>1
  <2> QED BY <1>1, <1>2, <2>4, <2>5, <2>6, <2>7, ServerStep
<1> QED BY <1>4, <1>5

LEMMA RejectRequestKeeps ==
    ASSUME ViewInv, NEW i \in DOMAIN requests, RejectRequest(i)
    PROVE  ViewInv'
<1> DEFINE refused == [type |-> "invalid", token |-> requests[i].token]
           o == handler.optimistic
<1>1. /\ requests' = RemoveAt(requests, i) /\ Answer(requests[i], refused)
      /\ UNCHANGED <<history, pending, buffer, snapshot, handler, moveToken, offer>>
  BY DEF RejectRequest
<1>2. RequestsGood(o, moveToken, requests') /\ requests[i] \in Requests
  BY <1>1, RequestsRemoveAt DEF ViewInv
<1>3. MessageOK(history, o, moveToken, refused)
  BY <1>2 DEF Requests, MessageOK, MessageTrue, Messages
<1>4. link' = link \/ link' = Append(link, refused)
  BY <1>1, Zenon DEF Answer, Send
<1> HIDE DEF refused
<1>5. LinkGood(history, o, moveToken, link')
  BY <1>3, <1>4, LinkAppend DEF ViewInv
<1>6. HistoryGood(history') /\ Grows(history, history')
  BY <1>1, Unchanging DEF ViewInv
<1>7. /\ BufferGood(history', buffer') /\ SnapshotGood(history', snapshot')
      /\ PendingGood(history', pending') /\ history' = history
  BY <1>1 DEF ViewInv
<1> QED BY <1>1, <1>2, <1>5, <1>6, <1>7, ServerStep

LEMMA MoveOfAnotherKeeps ==
    ASSUME ViewInv, NEW step \in Steps, MoveOfAnother(step)
    PROVE  ViewInv'
<1>1. /\ Apply(step)
      /\ UNCHANGED <<requests, buffer, snapshot, link, handler, moveToken, offer>>
  BY DEF MoveOfAnother
<1>2. /\ HistoryGood(history') /\ Grows(history, history')
      /\ PendingGood(history', pending')
  BY <1>1, ApplyFacts
<1>3. /\ BufferGood(history', buffer') /\ SnapshotGood(history', snapshot')
      /\ LinkGood(history', handler.optimistic, moveToken, link')
  BY <1>1, <1>2, GrowthKeeps DEF ViewInv
<1>4. RequestsGood(handler.optimistic, moveToken, requests')
  BY <1>1 DEF ViewInv
<1> QED BY <1>1, <1>2, <1>3, <1>4, ServerStep

LEMMA BulkCaptureKeeps ==
    ASSUME ViewInv, NEW ids \in BulkVictims, BulkCapture(ids)
    PROVE  ViewInv'
<1> DEFINE n == seqNum + 1
           captures == {[id |-> id, seqnum |-> n] : id \in ids}
           b == [seqnum |-> n, moves |-> <<>>, captures |-> captures]
           next == Without(board, ids)
<1>1. /\ history' = Append(history, next) /\ pending' = pending \cup {b}
      /\ UNCHANGED <<requests, buffer, snapshot, link, handler, moveToken, offer>>
  BY DEF BulkCapture
<1>2. board \in Boards /\ n \in Nat
  BY BoardIs DEF ViewInv
<1>3. next \in Boards
  BY <1>2, AfterBulk
<1> HIDE DEF next
<1>4. HistoryGood(history') /\ Grows(history, history')
  BY <1>1, <1>3, AppendGrows DEF ViewInv
<1>5. ids \in SUBSET Ids
  BY ClientViewAssumption
<1>6. captures \in SUBSET Captures /\ IsFiniteSet(captures)
  <2> HIDE DEF n
  <2> QED BY <1>2, <1>5, CapturesAre
<1>7. b.seqnum = n /\ b.moves = <<>> /\ b.captures = captures /\ DOMAIN b.moves = {}
  OBVIOUS
<1> HIDE DEF captures, b
<1>8. IsBroadcast(b) /\ \A id \in DOMAIN b.moves : MoveTrue(history', b.moves[id])
  BY <1>2, <1>6, <1>7 DEF IsBroadcast
<1>9. PendingGood(history', pending')
  BY <1>1, <1>4, <1>8, GrowthKeeps DEF ViewInv, PendingGood
<1>10. /\ BufferGood(history', buffer') /\ SnapshotGood(history', snapshot')
       /\ LinkGood(history', handler.optimistic, moveToken, link')
  BY <1>1, <1>4, GrowthKeeps DEF ViewInv
<1>11. RequestsGood(handler.optimistic, moveToken, requests')
  BY <1>1 DEF ViewInv
<1> QED BY <1>1, <1>4, <1>9, <1>10, <1>11, ServerStep

(* The goroutine of a broadcast: its moves and captures are appended to    *)
(* the buffer in some order, or a bulk capture is sent.                    *)
LEMMA BufferAppend ==
    ASSUME ViewInv, NEW b \in pending
    PROVE  BufferGood(history,
               [moves |-> buffer.moves \o SetToSeq({b.moves[id] : id \in DOMAIN b.moves}),
                captures |-> buffer.captures \o SetToSeq(b.captures)])
<1> DEFINE D == DOMAIN b.moves
           T == {b.moves[id] : id \in D}
           f == [id \in D |-> b.moves[id]]
           moves == buffer.moves \o SetToSeq(T)
           captures == buffer.captures \o SetToSeq(b.captures)
<1>1. /\ D \in SUBSET Ids /\ \A id \in D : b.moves[id] \in Moves
      /\ b.captures \in SUBSET Captures /\ IsFiniteSet(b.captures)
      /\ \A id \in D : MoveTrue(history, b.moves[id])
  BY DEF ViewInv, PendingGood, IsBroadcast
<1>2. /\ buffer \in [moves : Seq(Moves), captures : Seq(Captures)]
      /\ \A i \in DOMAIN buffer.moves : MoveTrue(history, buffer.moves[i])
  BY DEF ViewInv, BufferGood
<1>3. buffer.moves \in Seq(Moves) /\ buffer.captures \in Seq(Captures)
  BY <1>2
<1>4. T = {f[id] : id \in D} /\ DOMAIN f = D /\ f = [x \in D |-> f[x]]
  OBVIOUS
<1>5. T \subseteq Moves /\ \A m \in T : MoveTrue(history, m)
  BY <1>1
<1> HIDE DEF T, f
<1>6. IsFiniteSet(T)
  <2> HIDE DEF D
  <2> QED BY <1>1, <1>4, FiniteImage, FiniteIds
<1>7. SetToSeq(T) \in Seq(Moves) /\ \A i \in DOMAIN SetToSeq(T) : SetToSeq(T)[i] \in T
  BY <1>5, <1>6, SetToSeqFacts, SeqMonotonic
<1>8. SetToSeq(b.captures) \in Seq(Captures)
  BY <1>1, SetToSeqFacts, SeqMonotonic
<1>9. captures \in Seq(Captures)
  BY <1>3, <1>8, ConcatProperties
<1>10. /\ moves \in Seq(Moves)
       /\ \A j \in DOMAIN moves : \/ \E k \in DOMAIN buffer.moves : moves[j] = buffer.moves[k]
                                  \/ \E k \in DOMAIN SetToSeq(T) : moves[j] = SetToSeq(T)[k]
  BY <1>3, <1>7, ConcatFacts
<1> HIDE DEF moves, captures
<1>11. \A j \in DOMAIN moves : MoveTrue(history, moves[j])
  BY <1>2, <1>5, <1>7, <1>10
<1> DEFINE next == [moves |-> moves, captures |-> captures]
<1>12. /\ next \in [moves : Seq(Moves), captures : Seq(Captures)]
       /\ next.moves = moves
  BY <1>9, <1>10
<1> HIDE DEF next
<1>13. BufferGood(history, next)
  BY <1>11, <1>12 DEF BufferGood
<1> QED BY <1>13 DEF next, moves, captures, T

LEMMA BroadcastKeeps ==
    ASSUME ViewInv, NEW b \in pending, Broadcast(b)
    PROVE  ViewInv'
<1> DEFINE ids == {c.id : c \in b.captures}
           message == [type |-> "bulk", seqnum |-> b.seqnum, ids |-> ids]
           more == [moves |-> buffer.moves \o SetToSeq({b.moves[id] : id \in DOMAIN b.moves}),
                    captures |-> buffer.captures \o SetToSeq(b.captures)]
           o == handler.optimistic
<1>1. /\ pending' = pending \ {b}
      /\ UNCHANGED <<history, requests, snapshot, handler, moveToken, offer>>
  BY DEF Broadcast
<1>2. HistoryGood(history') /\ Grows(history, history')
  BY <1>1, Unchanging DEF ViewInv
<1>3. PendingGood(history', pending') /\ SnapshotGood(history', snapshot')
  BY <1>1 DEF ViewInv, PendingGood
<1>4. RequestsGood(o, moveToken, requests')
  BY <1>1 DEF ViewInv
<1>5. history' = history
  BY <1>1
<1>6. CASE IsBulk(b)
  <2>1. buffer' = buffer /\ (link' = link \/ link' = Append(link, message))
    BY <1>6, Zenon DEF Broadcast, Send
  <2>2. b.seqnum \in Nat /\ b.captures \subseteq Captures
    BY DEF ViewInv, PendingGood, IsBroadcast
  <2>3. ids \in SUBSET Ids
    BY <2>2 DEF Captures
  <2> HIDE DEF ids
  <2>4. MessageOK(history, o, moveToken, message)
    BY <2>2, <2>3 DEF MessageOK, MessageTrue, Messages
  <2> HIDE DEF message
  <2>5. LinkGood(history, o, moveToken, link')
    BY <2>1, <2>4, LinkAppend DEF ViewInv
  <2>6. BufferGood(history', buffer')
    BY <1>5, <2>1 DEF ViewInv
  <2> QED BY <1>1, <1>2, <1>3, <1>4, <1>5, <2>5, <2>6, ServerStep
<1>7. CASE ~IsBulk(b)
  <2>1. link' = link /\ (buffer' = buffer \/ buffer' = more)
    BY <1>7, Zenon DEF Broadcast
  <2>2. BufferGood(history, more)
    BY BufferAppend
  <2> HIDE DEF more
  <2>3. BufferGood(history', buffer')
    BY <1>5, <2>1, <2>2 DEF ViewInv
  <2>4. LinkGood(history', o, moveToken, link')
    BY <1>5, <2>1 DEF ViewInv
  <2> QED BY <1>1, <1>2, <1>3, <1>4, <2>3, <2>4, ServerStep
<1> QED BY <1>6, <1>7

LEMMA NoUpdatesAreGood ==
    ASSUME NEW past
    PROVE  BufferGood(past, NoUpdates)
<1>1. \A R : <<>> \in Seq(R) /\ DOMAIN <<>> = {}
  BY EmptySeq
<1> QED BY <1>1 DEF BufferGood, NoUpdates

LEMMA MaybeSendMoveUpdatesKeeps ==
    ASSUME ViewInv, MaybeSendMoveUpdates
    PROVE  ViewInv'
<1> DEFINE message == [type |-> "moves", moves |-> buffer.moves,
                       captures |-> buffer.captures]
           o == handler.optimistic
<1>1. /\ buffer' = NoUpdates
      /\ (link' = link \/ link' = Append(link, message))
      /\ UNCHANGED <<history, requests, pending, snapshot, handler, moveToken, offer>>
  BY Zenon DEF MaybeSendMoveUpdates, Send
<1>2. /\ buffer \in [moves : Seq(Moves), captures : Seq(Captures)]
      /\ \A i \in DOMAIN buffer.moves : MoveTrue(history, buffer.moves[i])
  BY DEF ViewInv, BufferGood
<1>3. message \in Messages
  <2>1. buffer.moves \in Seq(Moves) /\ buffer.captures \in Seq(Captures)
    BY <1>2
  <2> QED BY <2>1 DEF Messages
<1>4. MessageTrue(history, o, message)
  BY <1>2 DEF MessageTrue
<1>5. MessageOK(history, o, moveToken, message)
  BY <1>3, <1>4 DEF MessageOK
<1> HIDE DEF message
<1>6. LinkGood(history, o, moveToken, link')
  BY <1>1, <1>5, LinkAppend DEF ViewInv
<1>7. HistoryGood(history') /\ Grows(history, history')
  BY <1>1, Unchanging DEF ViewInv
<1>8. /\ BufferGood(history', buffer') /\ SnapshotGood(history', snapshot')
      /\ PendingGood(history', pending') /\ history' = history
      /\ RequestsGood(o, moveToken, requests')
  BY <1>1, NoUpdatesAreGood DEF ViewInv
<1> QED BY <1>1, <1>6, <1>7, <1>8, ServerStep

(* A snapshot is the board of the moment it is taken.                      *)
LEMMA SnapshotIsTrue ==
    ASSUME HistoryGood(history), NEW new \in BOOLEAN
    PROVE  SnapshotGood(history,
               {[seqnum |-> seqNum, squares |-> board, newConnection |-> new]})
<1> DEFINE s == [seqnum |-> seqNum, squares |-> board, newConnection |-> new]
<1>1. board \in Boards /\ seqNum \in Nat /\ seqNum >= 1
  BY BoardIs
<1>2. s \in Snapshots /\ s.seqnum = seqNum /\ s.squares = board
  BY <1>1 DEF Snapshots
<1> HIDE DEF s
<1>3. SnapshotTrue(history, s)
  BY <1>1, <1>2 DEF SnapshotTrue, board, seqNum
<1>4. SnapshotGood(history, {s})
  BY <1>2, <1>3 DEF SnapshotGood
<1> QED BY <1>4 DEF s

LEMMA TakeSnapshotKeeps ==
    ASSUME ViewInv, TakeSnapshot
    PROVE  ViewInv'
<1> DEFINE S == {[seqnum |-> seqNum, squares |-> board, newConnection |-> FALSE]}
<1>1. /\ snapshot' = S
      /\ UNCHANGED <<history, requests, pending, buffer, link, handler, moveToken, offer>>
  BY DEF TakeSnapshot
<1>2. SnapshotGood(history, S)
  BY SnapshotIsTrue DEF ViewInv
<1> HIDE DEF S
<1>3. HistoryGood(history') /\ Grows(history, history')
  BY <1>1, Unchanging DEF ViewInv
<1>4. history' = history
  BY <1>1
<1>5. /\ BufferGood(history', buffer') /\ SnapshotGood(history', snapshot')
      /\ PendingGood(history', pending')
      /\ RequestsGood(handler.optimistic, moveToken, requests')
      /\ LinkGood(history', handler.optimistic, moveToken, link')
  BY <1>1, <1>2, <1>4 DEF ViewInv
<1> QED BY <1>1, <1>3, <1>5, ServerStep

LEMMA SendSnapshotKeeps ==
    ASSUME ViewInv, SendSnapshot
    PROVE  ViewInv'
<1> DEFINE o == handler.optimistic
<1>1. PICK s \in snapshot : Send([type |-> "snapshot", snapshot |-> s])
  BY DEF SendSnapshot
<1> DEFINE message == [type |-> "snapshot", snapshot |-> s]
<1>2. /\ snapshot' = {}
      /\ UNCHANGED <<history, requests, pending, buffer, handler, moveToken, offer>>
  BY DEF SendSnapshot
<1>3. link' = link \/ link' = Append(link, message)
  BY <1>1, Zenon DEF Send
<1>4. s \in Snapshots /\ SnapshotTrue(history, s)
  BY DEF ViewInv, SnapshotGood
<1>5. MessageOK(history, o, moveToken, message)
  BY <1>4 DEF MessageOK, MessageTrue, Messages
<1> HIDE DEF message
<1>6. LinkGood(history, o, moveToken, link')
  BY <1>3, <1>5, LinkAppend DEF ViewInv
<1>7. HistoryGood(history') /\ Grows(history, history')
  BY <1>2, Unchanging DEF ViewInv
<1>8. history' = history
  BY <1>2
<1>9. SnapshotGood(history', snapshot')
  BY <1>2 DEF SnapshotGood
<1>10. /\ BufferGood(history', buffer') /\ PendingGood(history', pending')
       /\ RequestsGood(o, moveToken, requests')
  BY <1>2, <1>8 DEF ViewInv
<1>11. LinkGood(history', o, moveToken, link')
  BY <1>6, <1>8
<1> QED BY <1>2, <1>7, <1>9, <1>10, <1>11, ServerStep

-----------------------------------------------------------------------------
(* The steps of the client.                                                *)

(* A click makes actions of a new token, each where the step puts it.      *)
MovesOfStep(s) == <<[id |-> s.id, from |-> s.from, to |-> s.to]>> \o SetToSeq(s.others)

LEMMA MovesOfStepFacts ==
    ASSUME NEW s \in Steps
    PROVE  /\ Len(MovesOfStep(s)) \in Nat
           /\ DOMAIN MovesOfStep(s) = 1 .. Len(MovesOfStep(s))
           /\ \A i \in DOMAIN MovesOfStep(s) :
                 /\ MovesOfStep(s)[i].id \in DOMAIN Landing(s)
                 /\ MovesOfStep(s)[i].to = Landing(s)[MovesOfStep(s)[i].id]
<1> DEFINE first == [id |-> s.id, from |-> s.from, to |-> s.to]
           R == {first} \cup s.others
<1>1. IsFiniteSet(s.others)
  <2>1. s.others = {} \/ \E o : s.others = {o}
    BY ClientViewAssumption DEF OkStep
  <2> QED BY <2>1, FS_EmptySet, FS_Singleton
<1>2. <<first>> \in Seq(R) /\ Len(<<first>>) = 1
  OBVIOUS
<1>3. SetToSeq(s.others) \in Seq(R)
  BY <1>1, SetToSeqFacts, SeqMonotonic
<1>4. MovesOfStep(s) = <<first>> \o SetToSeq(s.others)
  BY DEF MovesOfStep
<1>5. \A m \in R : m.id \in DOMAIN Landing(s) /\ m.to = Landing(s)[m.id]
  <2>1. first.id = s.id /\ first.to = s.to
    OBVIOUS
  <2> HIDE DEF first
  <2> QED BY <2>1, LandingFacts
<1> HIDE DEF first, R
<1>6. MovesOfStep(s) \in Seq(R)
  BY <1>2, <1>3, <1>4, ConcatProperties
<1>7. /\ Len(MovesOfStep(s)) \in Nat
      /\ DOMAIN MovesOfStep(s) = 1 .. Len(MovesOfStep(s))
      /\ \A i \in DOMAIN MovesOfStep(s) : MovesOfStep(s)[i] \in R
  BY <1>6, LenProperties, ElementOfSeq
<1> QED BY <1>5, <1>7

LEMMA AddActionsFacts ==
    ASSUME NEW o, NEW token \in Nat, OptimismOK(o, token), NEW s \in Steps,
           NEW victims, NEW may, NEW must
    PROVE  LET p == addOptimisticMove(o, token + 1, MovesOfStep(s), victims, may, must)
           IN  /\ OptimismOK(p, token + 1) /\ Milder(o, p, token)
               /\ \A a \in MovesOf(p, token + 1) :
                     a.id \in DOMAIN Landing(s) /\ a.at = Landing(s)[a.id]
<1> DEFINE moves == MovesOfStep(s)
           moved == {MoveAction(o.nextId + i - 1, token + 1, moves[i], may) : i \in DOMAIN moves}
           taken == {CaptureAction(o.nextId + Len(moves), token + 1, v, must) : v \in victims}
           made == moved \cup taken
           count == Len(moves) + IF victims = {} THEN 0 ELSE 1
           p == addOptimisticMove(o, token + 1, moves, victims, may, must)
<1>1. /\ Len(moves) \in Nat /\ DOMAIN moves = 1 .. Len(moves)
      /\ \A i \in DOMAIN moves :
            moves[i].id \in DOMAIN Landing(s) /\ moves[i].to = Landing(s)[moves[i].id]
  BY MovesOfStepFacts
<1>2. o.nextId \in Nat
  BY DEF OptimismOK
<1>3. p = [WithActions(o, made, count) EXCEPT !.touching = @ \cup TouchesOf(made)]
  BY DEF addOptimisticMove
<1> HIDE DEF moves
<1>4. ASSUME NEW a \in moved
      PROVE  /\ a.actionId \in Nat /\ a.actionId < o.nextId + count /\ a.token = token + 1
             /\ a.id \in DOMAIN Landing(s) /\ a.at = Landing(s)[a.id]
  <2>1. PICK i \in DOMAIN moves : a = MoveAction(o.nextId + i - 1, token + 1, moves[i], may)
    OBVIOUS
  <2>2. /\ a.actionId = o.nextId + i - 1 /\ a.token = token + 1
        /\ a.id = moves[i].id /\ a.at = moves[i].to
    BY <2>1 DEF MoveAction
  <2> QED BY <1>1, <1>2, <2>2
<1>5. ASSUME NEW a \in taken
      PROVE  /\ a.actionId \in Nat /\ a.actionId < o.nextId + count /\ a.token = token + 1
             /\ a.type # "move"
  <2>1. PICK v \in victims : a = CaptureAction(o.nextId + Len(moves), token + 1, v, must)
    OBVIOUS
  <2>2. a.actionId = o.nextId + Len(moves) /\ a.token = token + 1 /\ a.type = "capture"
    BY <2>1 DEF CaptureAction
  <2>3. count = Len(moves) + 1
    BY <2>1
  <2> QED BY <1>1, <1>2, <2>2, <2>3
<1>6. o.nextId + count \in Nat /\ o.nextId <= o.nextId + count
  BY <1>1, <1>2
<1> HIDE DEF moved, taken, count
<1>7. /\ IsOptimism(p) /\ p.nextId = o.nextId + count
      /\ p.byPiece = o.byPiece \cup made /\ p.byToken = o.byToken \cup made
  <2> HIDE DEF made, p
  <2> DEFINE w == WithActions(o, made, count)
  <2>1. /\ IsOptimism(w) /\ w.nextId = o.nextId + count
        /\ w.byPiece = o.byPiece \cup made /\ w.byToken = o.byToken \cup made
    BY WithActionsFacts DEF OptimismOK
  <2> HIDE DEF w
  <2>2. p = [w EXCEPT !.touching = @ \cup TouchesOf(made)]
    BY <1>3 DEF w
  <2> QED BY <2>1, <2>2 DEF IsOptimism
<1> HIDE DEF p
<1>8. \A a \in o.byPiece \cup o.byToken :
         /\ a.actionId \in Nat /\ a.actionId < o.nextId
         /\ a.token \in Nat /\ a.token <= token
  BY DEF OptimismOK
<1>9. OptimismOK(p, token + 1)
  <2>1. \A a \in made : /\ a.actionId \in Nat /\ a.actionId < p.nextId
                        /\ a.token \in Nat /\ a.token <= token + 1
    BY <1>4, <1>5, <1>7
  <2>2. \A a \in o.byPiece \cup o.byToken :
           /\ a.actionId \in Nat /\ a.actionId < p.nextId
           /\ a.token \in Nat /\ a.token <= token + 1
    BY <1>2, <1>6, <1>7, <1>8
  <2> HIDE DEF made
  <2> QED BY <1>6, <1>7, <2>1, <2>2 DEF OptimismOK
<1>10. Milder(o, p, token)
  <2>1. \A a \in made : a.token = token + 1
    BY <1>4, <1>5
  <2> HIDE DEF made
  <2> QED BY <1>7, <2>1 DEF Milder, MovesOf
<1>11. \A a \in MovesOf(p, token + 1) :
          a.id \in DOMAIN Landing(s) /\ a.at = Landing(s)[a.id]
  <2>1. ASSUME NEW a \in MovesOf(p, token + 1) PROVE a \in moved
    <3>1. a \in o.byToken \cup made /\ a.token = token + 1 /\ a.type = "move"
      BY <1>7 DEF MovesOf
    <3>2. a \notin o.byToken
      BY <1>8, <3>1
    <3>3. a \notin taken
      BY <1>5, <3>1
    <3> QED BY <3>1, <3>2, <3>3
  <2> QED BY <1>4, <2>1
<1> QED BY <1>9, <1>10, <1>11 DEF p, moves

LEMMA AddOptimisticMoveFacts ==
    ASSUME NEW past, NEW h, NEW token \in Nat, HandlerOK(h, token), PiecesTrue(past, h),
           NEW s \in Steps, NEW victims, NEW may, NEW must
    PROVE  LET g == AddOptimisticMove(h, token + 1, MovesOfStep(s), victims, may, must).handler
           IN  /\ HandlerOK(g, token + 1) /\ PiecesTrue(past, g)
               /\ g.pieces = h.pieces
               /\ Milder(h.optimistic, g.optimistic, token)
               /\ \A a \in MovesOf(g.optimistic, token + 1) :
                     a.id \in DOMAIN Landing(s) /\ a.at = Landing(s)[a.id]
<1> DEFINE g == AddOptimisticMove(h, token + 1, MovesOfStep(s), victims, may, must).handler
           standing == {v \in victims : StillThere(h, v)}
           p == addOptimisticMove(h.optimistic, token + 1, MovesOfStep(s), standing, may, must)
<1>1. OptimismOK(h.optimistic, token)
  BY DEF HandlerOK
<1>2. CASE standing # victims /\ must
  <2>1. g = h
    BY <1>2 DEF AddOptimisticMove, Result
  <2> HIDE DEF g
  <2>2. OptimismOK(h.optimistic, token + 1)
    BY <1>1 DEF OptimismOK
  <2>3. MovesOf(h.optimistic, token + 1) = {}
    BY <1>1 DEF OptimismOK, MovesOf
  <2>4. HandlerOK(g, token + 1) /\ Milder(h.optimistic, g.optimistic, token)
    BY <2>1, <2>2 DEF HandlerOK, Milder
  <2> QED BY <2>1, <2>3, <2>4 DEF g
<1>3. CASE ~ (standing # victims /\ must)
  <2>1. g = [h EXCEPT !.optimistic = p]
    BY <1>3 DEF AddOptimisticMove, Result
  <2> HIDE DEF standing
  <2>2. /\ OptimismOK(p, token + 1) /\ Milder(h.optimistic, p, token)
        /\ \A a \in MovesOf(p, token + 1) :
              a.id \in DOMAIN Landing(s) /\ a.at = Landing(s)[a.id]
    BY <1>1, AddActionsFacts
  <2> HIDE DEF p, g
  <2>3. /\ IsHandler(g) /\ g.optimistic = p /\ g.pieces = h.pieces
        /\ g.activeCaptures = h.activeCaptures /\ g.snapshotSeqnum = h.snapshotSeqnum
    BY <2>1 DEF HandlerOK, IsHandler
  <2>4. HandlerOK(g, token + 1) /\ PiecesTrue(past, g)
    BY <2>2, <2>3 DEF HandlerOK, PiecesTrue
  <2> QED BY <2>2, <2>3, <2>4 DEF g
<1> QED BY <1>2, <1>3

LEMMA HandleFacts ==
    ASSUME NEW result, NEW always, Handle(result, always)
    PROVE  handler' = result.handler /\ offer' \subseteq offer
BY DEF Handle, Deselect, displayVars

LEMMA DeliverFacts ==
    ASSUME ViewInv, Deliver
    PROVE  /\ HandlerStep(history, handler, handler', moveToken)
           /\ Onward(handler, handler') \/ OfNewConnection(Head(link))
           /\ offer' \subseteq offer
<1> DEFINE m == Head(link)
           h == handler
<1>1. /\ HandlerOK(h, moveToken) /\ PiecesTrue(history, h)
      /\ MessageOK(history, h.optimistic, moveToken, m)
  BY LinkTail DEF ViewInv, Deliver
<1>2. m \in Messages /\ MessageTrue(history, h.optimistic, m)
  BY <1>1 DEF MessageOK
<1>3. CASE m.type = "valid"
  <2>1. Handle(confirmOptimisticMove(h, m.token, m.seqnum, m.captured), FALSE)
    BY <1>3 DEF Deliver
  <2>2. m.seqnum \in Nat
    BY <1>2, <1>3 DEF Messages
  <2>3. \A a \in MovesOf(h.optimistic, m.token) : Stood(history, m.seqnum, a.id, a.at)
    BY <1>2, <1>3 DEF MessageTrue, Answers
  <2>4. /\ handler' = confirmOptimisticMove(h, m.token, m.seqnum, m.captured).handler
        /\ offer' \subseteq offer
    BY <2>1, HandleFacts
  <2> HIDE DEF m, h
  <2>5. HandlerStep(history, h, handler', moveToken) /\ Onward(h, handler')
    BY <1>1, <2>2, <2>3, <2>4, ConfirmationFacts
  <2> QED BY <2>4, <2>5 DEF h
<1>4. CASE m.type = "invalid"
  <2>1. Handle(rejectOptimisticMove(h, m.token), FALSE)
    BY <1>4 DEF Deliver
  <2>2. /\ handler' = rejectOptimisticMove(h, m.token).handler
        /\ offer' \subseteq offer
    BY <2>1, HandleFacts
  <2> HIDE DEF m, h
  <2>3. HandlerStep(history, h, handler', moveToken) /\ Onward(h, handler')
    BY <1>1, <2>2, RejectionFacts
  <2> QED BY <2>2, <2>3 DEF h
<1>5. CASE m.type = "moves"
  <2>1. Handle(handleMoves(h, m.moves, m.captures), TRUE)
    BY <1>5 DEF Deliver
  <2>2. m.moves \in Seq(Moves) /\ m.captures \in Seq(Captures)
    BY <1>2, <1>5 DEF Messages
  <2>3. \A i \in DOMAIN m.moves : MoveTrue(history, m.moves[i])
    BY <1>2, <1>5 DEF MessageTrue
  <2> HIDE DEF m, h
  <2> QED BY <1>1, <2>1, <2>2, <2>3, HandleFacts, HandleMovesFacts DEF h
<1>6. CASE m.type = "bulk"
  <2>1. Handle(handleBulkCapture(h, m.ids, m.seqnum), TRUE)
    BY <1>6 DEF Deliver
  <2>2. m.ids \in SUBSET Ids /\ m.seqnum \in Nat
    BY <1>2, <1>6 DEF Messages
  <2> HIDE DEF m, h
  <2> QED BY <1>1, <2>1, <2>2, HandleFacts, HandleBulkCaptureFacts DEF h
<1>7. CASE m.type = "snapshot"
  <2>1. Handle(handleSnapshot(h, m.snapshot), TRUE)
    BY <1>7 DEF Deliver
  <2>2. m.snapshot \in Snapshots
    BY <1>2, <1>7 DEF Messages
  <2>3. SnapshotTrue(history, m.snapshot)
    BY <1>2, <1>7 DEF MessageTrue
  <2>4. m.snapshot.newConnection => OfNewConnection(m)
    BY <1>7 DEF OfNewConnection
  <2> HIDE DEF m, h
  <2> QED BY <1>1, <2>1, <2>2, <2>3, <2>4, HandleFacts, HandleSnapshotFacts DEF h, m
<1> QED BY <1>2, <1>3, <1>4, <1>5, <1>6, <1>7 DEF Messages

(* A step that changes the handler as a message or the connection does.    *)
LEMMA ClientStep ==
    ASSUME ViewInv, HandlerStep(history, handler, handler', moveToken),
           UNCHANGED <<history, pending, moveToken>>,
           BufferGood(history, buffer'), SnapshotGood(history, snapshot'),
           RequestsGood(handler'.optimistic, moveToken, requests'),
           LinkGood(history, handler'.optimistic, moveToken, link'),
           offer' \subseteq offer
    PROVE  ViewInv'
BY DEF ViewInv, HandlerStep

LEMMA DeliverKeeps ==
    ASSUME ViewInv, Deliver
    PROVE  ViewInv'
<1>1. /\ HandlerStep(history, handler, handler', moveToken) /\ offer' \subseteq offer
      /\ link # <<>> /\ link' = Tail(link)
      /\ UNCHANGED <<history, requests, pending, buffer, snapshot, moveToken>>
  BY DeliverFacts DEF Deliver, serverVars
<1>2. LinkGood(history, handler.optimistic, moveToken, link')
  BY <1>1, LinkTail DEF ViewInv
<1>3. /\ LinkGood(history, handler'.optimistic, moveToken, link')
      /\ RequestsGood(handler'.optimistic, moveToken, requests')
  BY <1>1, <1>2, HandlerStepKeeps DEF ViewInv
<1>4. BufferGood(history, buffer') /\ SnapshotGood(history, snapshot')
  BY <1>1 DEF ViewInv
<1> QED BY <1>1, <1>3, <1>4, ClientStep

LEMMA ConnectionSteps ==
    ASSUME ViewInv, Disconnect \/ Reconnect
    PROVE  /\ HandlerStep(history, handler, handler', moveToken)
           /\ Onward(handler, handler') /\ offer' \subseteq offer
<1>1. PICK up \in BOOLEAN : Handle(setConnected(handler, up), FALSE)
  BY DEF Disconnect, Reconnect
<1>2. handler' = setConnected(handler, up).handler /\ offer' \subseteq offer
  BY <1>1, HandleFacts
<1>3. HandlerStep(history, handler, handler', moveToken) /\ Onward(handler, handler')
  BY <1>2, ConnectionFacts DEF ViewInv
<1> QED BY <1>2, <1>3

LEMMA DisconnectKeeps ==
    ASSUME ViewInv, Disconnect
    PROVE  ViewInv'
<1>1. HandlerStep(history, handler, handler', moveToken) /\ offer' \subseteq offer
  BY ConnectionSteps
<1>2. /\ link' = <<>> /\ buffer' = NoUpdates /\ snapshot' = {}
      /\ UNCHANGED <<history, pending, moveToken>>
  BY DEF Disconnect
<1>3. PICK n \in 0 .. Len(requests) :
         requests' = [i \in 1 .. n |-> [requests[i] EXCEPT !.alive = FALSE]]
  BY DEF Disconnect
<1>4. RequestsGood(handler'.optimistic, moveToken, requests')
  BY <1>3, RequestsOrphaned DEF ViewInv
<1>5. LinkGood(history, handler'.optimistic, moveToken, link')
  <2>1. <<>> \in Seq(Messages) /\ DOMAIN <<>> = {}
    BY EmptySeq
  <2> QED BY <1>2, <2>1 DEF LinkGood
<1>6. BufferGood(history, buffer') /\ SnapshotGood(history, snapshot')
  BY <1>2, NoUpdatesAreGood DEF SnapshotGood
<1> QED BY <1>1, <1>2, <1>4, <1>5, <1>6, ClientStep

LEMMA ReconnectKeeps ==
    ASSUME ViewInv, Reconnect
    PROVE  ViewInv'
<1> DEFINE S == {[seqnum |-> seqNum, squares |-> board, newConnection |-> TRUE]}
<1>1. HandlerStep(history, handler, handler', moveToken) /\ offer' \subseteq offer
  BY ConnectionSteps
<1>2. snapshot' = S /\ UNCHANGED <<history, requests, pending, buffer, link, moveToken>>
  BY DEF Reconnect
<1>3. SnapshotGood(history, S)
  BY SnapshotIsTrue DEF ViewInv
<1> HIDE DEF S
<1>4. /\ LinkGood(history, handler'.optimistic, moveToken, link')
      /\ RequestsGood(handler'.optimistic, moveToken, requests')
  BY <1>1, <1>2, HandlerStepKeeps DEF ViewInv
<1>5. BufferGood(history, buffer') /\ SnapshotGood(history, snapshot')
  BY <1>2, <1>3 DEF ViewInv
<1> QED BY <1>1, <1>2, <1>4, <1>5, ClientStep

(* What happens to the handler when a move is submitted.                   *)
LEMMA SubmitFacts ==
    ASSUME ViewInv, submitMove
    PROVE  \E s \in Steps :
              /\ HandlerOK(handler', moveToken + 1) /\ PiecesTrue(history, handler')
              /\ handler'.pieces = handler.pieces
              /\ Milder(handler.optimistic, handler'.optimistic, moveToken)
              /\ \/ requests' = requests
                 \/ /\ requests' = Append(requests,
                             [step |-> s, token |-> moveToken + 1, alive |-> TRUE])
                    /\ \A a \in MovesOf(handler'.optimistic, moveToken + 1) :
                          a.id \in DOMAIN Landing(s) /\ a.at = Landing(s)[a.id]
<1> DEFINE Made(o) ==
        AddOptimisticMove(handler, moveToken + 1, MovesOfStep(o.step), o.victims,
                          o.step.take # "never", o.step.take = "must").handler
<1>1. PICK o \in offer :
         \/ /\ requests' = Append(requests,
                      [step |-> o.step, token |-> moveToken + 1, alive |-> TRUE])
            /\ handler' = Made(o)
         \/ requests' = requests /\ handler' = handler
  BY Zenon DEF submitMove, MovesOfStep
<1>2. /\ o.step \in Steps /\ moveToken \in Nat
      /\ HandlerOK(handler, moveToken) /\ PiecesTrue(history, handler)
  BY DEF ViewInv
<1>3. CASE requests' = requests /\ handler' = handler
  <2>1. OptimismOK(handler.optimistic, moveToken + 1)
    BY <1>2 DEF HandlerOK, OptimismOK
  <2>2. HandlerOK(handler, moveToken + 1) /\ Milder(handler.optimistic, handler.optimistic, moveToken)
    BY <1>2, <2>1 DEF HandlerOK, Milder
  <2> QED BY <1>2, <1>3, <2>2
<1>4. CASE /\ requests' = Append(requests,
                    [step |-> o.step, token |-> moveToken + 1, alive |-> TRUE])
           /\ handler' = Made(o)
  <2>1. /\ HandlerOK(handler', moveToken + 1) /\ PiecesTrue(history, handler')
        /\ handler'.pieces = handler.pieces
        /\ Milder(handler.optimistic, handler'.optimistic, moveToken)
        /\ \A a \in MovesOf(handler'.optimistic, moveToken + 1) :
              a.id \in DOMAIN Landing(o.step) /\ a.at = Landing(o.step)[a.id]
    BY <1>2, <1>4, AddOptimisticMoveFacts
  <2> QED BY <1>2, <1>4, <2>1
<1> QED BY <1>1, <1>3, <1>4

LEMMA SubmitMoveKeeps ==
    ASSUME ViewInv, submitMove
    PROVE  ViewInv'
<1>1. /\ moveToken' = moveToken + 1 /\ offer' = {}
      /\ UNCHANGED <<history, pending, buffer, snapshot, link>>
  BY DEF submitMove
<1>2. PICK s \in Steps :
         /\ HandlerOK(handler', moveToken + 1) /\ PiecesTrue(history, handler')
         /\ Milder(handler.optimistic, handler'.optimistic, moveToken)
         /\ \/ requests' = requests
            \/ /\ requests' = Append(requests,
                        [step |-> s, token |-> moveToken + 1, alive |-> TRUE])
               /\ \A a \in MovesOf(handler'.optimistic, moveToken + 1) :
                     a.id \in DOMAIN Landing(s) /\ a.at = Landing(s)[a.id]
  BY SubmitFacts
<1>3. moveToken \in Nat /\ moveToken + 1 \in Nat /\ moveToken <= moveToken + 1
  BY DEF ViewInv
<1>4. /\ RequestsGood(handler'.optimistic, moveToken + 1, requests)
      /\ LinkGood(history, handler'.optimistic, moveToken + 1, link)
  BY <1>2, <1>3, MilderKeeps DEF ViewInv
<1>5. RequestsGood(handler'.optimistic, moveToken + 1, requests')
  <2> DEFINE r == [step |-> s, token |-> moveToken + 1, alive |-> TRUE]
  <2>1. CASE requests' = requests
    BY <1>4, <2>1
  <2>2. CASE /\ requests' = Append(requests, r)
             /\ \A a \in MovesOf(handler'.optimistic, moveToken + 1) :
                   a.id \in DOMAIN Landing(s) /\ a.at = Landing(s)[a.id]
    <3>1. r \in Requests /\ r.token = moveToken + 1 /\ r.step = s
      BY <1>3 DEF Requests
    <3> HIDE DEF r
    <3>2. Asks(handler'.optimistic, r)
      BY <2>2, <3>1 DEF Asks
    <3> QED BY <1>3, <1>4, <2>2, <3>1, <3>2, RequestsAppend
  <2> QED BY <1>2, <2>1, <2>2
<1> QED BY <1>1, <1>2, <1>3, <1>4, <1>5 DEF ViewInv

LEMMA SelectKeeps ==
    ASSUME ViewInv, NEW step \in Steps, Select(step)
    PROVE  ViewInv'
<1>1. UNCHANGED <<history, requests, pending, buffer, snapshot, link, handler, moveToken>>
  BY DEF Select
<1>2. \A o \in offer' : o.step \in Steps
  BY DEF Select
<1> QED BY <1>1, <1>2 DEF ViewInv

LEMMA NextKeeps ==
    ASSUME ViewInv, [Next]_vars
    PROVE  ViewInv'
<1>1. CASE ServeRequest
  BY <1>1, ServeRequestKeeps
<1>2. CASE \E i \in DOMAIN requests : RejectRequest(i)
  BY <1>2, RejectRequestKeeps
<1>3. CASE \E step \in Steps : MoveOfAnother(step)
  BY <1>3, MoveOfAnotherKeeps
<1>4. CASE \E ids \in BulkVictims : BulkCapture(ids)
  BY <1>4, BulkCaptureKeeps
<1>5. CASE \E b \in pending : Broadcast(b)
  BY <1>5, BroadcastKeeps
<1>6. CASE MaybeSendMoveUpdates
  BY <1>6, MaybeSendMoveUpdatesKeeps
<1>7. CASE TakeSnapshot
  BY <1>7, TakeSnapshotKeeps
<1>8. CASE SendSnapshot
  BY <1>8, SendSnapshotKeeps
<1>9. CASE \E step \in Steps : Select(step)
  BY <1>9, SelectKeeps
<1>10. CASE submitMove
  BY <1>10, SubmitMoveKeeps
<1>11. CASE Deliver
  BY <1>11, DeliverKeeps
<1>12. CASE Disconnect
  BY <1>12, DisconnectKeeps
<1>13. CASE Reconnect
  BY <1>13, ReconnectKeeps
<1>14. CASE UNCHANGED vars
  BY <1>14 DEF ViewInv, vars
<1> QED BY <1>1, <1>2, <1>3, <1>4, <1>5, <1>6, <1>7, <1>8, <1>9, <1>10, <1>11,
           <1>12, <1>13, <1>14 DEF Next

-----------------------------------------------------------------------------
(* Every square the client holds for a piece is where the piece stood when *)
(* the board had the seqnum it holds with it (RecordsAreHistory), in any   *)
(* order of the answers, broadcasts and snapshots: pieceHandler.js applies *)
(* each of them by comparing seqnums alone, and takes the squares of an    *)
(* answer from its own optimistic actions.                                 *)
THEOREM RecordsAreTrue == Spec => []RecordsAreHistory
<1>1. Init => ViewInv
  BY InitView
<1>2. ViewInv /\ [Next]_vars => ViewInv'
  BY NextKeeps
<1>3. ViewInv => RecordsAreHistory
  <2>1. ASSUME ViewInv, NEW id \in DOMAIN handler.pieces
        PROVE  LET r == handler.pieces[id]
               IN  /\ r.seqnum \in DOMAIN history
                   /\ id \in DOMAIN history[r.seqnum]
                   /\ history[r.seqnum][id] = r.at
    <3>1. DOMAIN history = 1 .. Len(history)
      BY <2>1, LenProperties DEF ViewInv, HistoryGood
    <3> QED BY <2>1, <3>1 DEF ViewInv, PiecesTrue, Stood
  <2> QED BY <2>1 DEF RecordsAreHistory
<1> QED BY <1>1, <1>2, <1>3, PTL DEF Spec

(* What the client knows of a piece never goes back in time on one         *)
(* connection (NeverBackInTime), as far as it remembers: no message brings *)
(* back an older square, or a piece whose later capture is remembered.     *)
THEOREM NothingOlderIsBelieved == Spec => NeverBackInTime
<1> DEFINE Forward ==
        \A id \in DOMAIN handler'.pieces :
           \/ handler'.pieces[id].seqnum >= LastHeard(handler, id)
           \/ OfNewConnection(Head(link))
<1>1. Init => ViewInv
  BY InitView
<1>2. ViewInv /\ [Next]_vars => ViewInv'
  BY NextKeeps
<1>3. ASSUME ViewInv, [Next]_vars PROVE [Forward]_handler
  <2>1. CASE Deliver
    BY <1>3, <2>1, DeliverFacts DEF Onward
  <2>2. CASE Disconnect \/ Reconnect
    BY <1>3, <2>2, ConnectionSteps DEF Onward
  <2>3. CASE submitMove
    <3>1. handler'.pieces = handler.pieces /\ HandlerOK(handler, moveToken)
      BY <1>3, <2>3, SubmitFacts DEF ViewInv
    <3>2. ASSUME NEW id \in DOMAIN handler.pieces
          PROVE  handler.pieces[id].seqnum >= LastHeard(handler, id)
      <4>1. /\ LastHeard(handler, id) \in Nat
            /\ LastHeard(handler, id) = handler.pieces[id].seqnum
        BY <3>1, LastHeardType
      <4> QED BY <4>1
    <3> QED BY <3>1, <3>2
  <2>4. CASE ~ (Deliver \/ Disconnect \/ Reconnect \/ submitMove)
    BY <1>3, <2>4 DEF Next, vars, ServeRequest, RejectRequest, MoveOfAnother, BulkCapture,
       Broadcast, MaybeSendMoveUpdates, TakeSnapshot, SendSnapshot, Select
  <2> QED BY <2>1, <2>2, <2>3, <2>4
<1>4. ViewInv /\ [Next]_vars => [Forward]_handler
  BY <1>3
<1> QED BY <1>1, <1>2, <1>4, PTL DEF Spec, NeverBackInTime

-----------------------------------------------------------------------------
(* What a message brings, and what is shown moved.  A message never shows  *)
(* a piece moved that was not, so two pieces shown moved to one square     *)
(* were before it; and a piece shown moved to the square of an arrival is  *)
(* either taken back by the loop, or has taken the arrival: then there is  *)
(* a capture of the piece that arrived under the token of the move, which  *)
(* goes only when the move does.                                           *)

(* Our moves are of white pieces, and what they capture is not white.      *)
Coloured(o) ==
    \A a \in o.byPiece : IF a.id \in White THEN a.type = "move" ELSE a.type = "capture"

(* No two pieces are shown moved to one square.                            *)
GuessesDiffer(o) == \A m, n \in Guesses(o) : m.at = n.at => m = n

LEMMA ApartMeansDifferent ==
    ASSUME NEW h, GuessesApart(h)
    PROVE  GuessesDiffer(h.optimistic)
<1> DEFINE o == h.optimistic
<1>1. ASSUME NEW m \in Guesses(o), NEW n \in Guesses(o), m.at = n.at
      PROVE  m = n
  <2>1. /\ m \in o.byPiece /\ m.type = "move" /\ m = getPredictedState(o, m.id)
        /\ n \in o.byPiece /\ n.type = "move" /\ n = getPredictedState(o, n.id)
    BY DEF Guesses
  <2>2. ~Captured(h, m.id) /\ ~Captured(h, n.id)
    BY <2>1 DEF Captured
  <2>3. getPredictedState(o, m.id).at = getPredictedState(o, n.id).at
    BY <1>1, <2>1
  <2>4. m.id = n.id
    BY <2>1, <2>2, <2>3 DEF GuessesApart
  <2> QED BY <2>1, <2>4
<1> QED BY <1>1 DEF GuessesDiffer

(* The arrival has met what is shown moved to its square.                  *)
Settled(h, o, a) ==
    \A m \in Guesses(o) :
       m.at = a.at /\ m.id # a.id /\ Knows(h, m.id)
       => \E c \in o.byPiece : c.id = a.id /\ c.token = m.token

(* A step of the loop for one arrival leaves the others settled.           *)
Spares(o, p, id) ==
    /\ ShowsLess(o, p)
    /\ \A m \in Guesses(p), c \in o.byPiece :
          c.token = m.token /\ c.id # id => c \in p.byPiece

LEMMA SparedStaySettled ==
    ASSUME NEW h, NEW o, NEW p, NEW id, Spares(o, p, id),
           NEW a, a.id # id, Settled(h, o, a)
    PROVE  Settled(h, p, a)
BY DEF Spares, ShowsLess, Settled

LEMMA RevertSpares ==
    ASSUME NEW o, Sound(o), NEW id, NEW other
    PROVE  LET p == processRevert(o, {}, {id})
           IN  Spares(o, p, other) /\ \A a \in p.byPiece : a.id # id
<1> DEFINE p == processRevert(o, {}, {id})
<1>1. /\ ShowsLess(o, p)
      /\ p.byToken \subseteq o.byToken
      /\ \A a \in p.byToken : a.token \notin {} /\ a.id \notin {id}
      /\ \A a \in o.byToken \ p.byToken, b \in p.byToken : b.token # a.token
  BY RevertShowsLess
<1> HIDE DEF p
<1>2. o.byPiece = o.byToken /\ p.byPiece = p.byToken
  BY <1>1 DEF ShowsLess, Sound
<1>3. \A m \in Guesses(p) : m \in p.byPiece
  BY DEF Guesses
<1>4. Spares(o, p, other)
  BY <1>1, <1>2, <1>3 DEF Spares
<1> QED BY <1>1, <1>2, <1>4 DEF p

LEMMA SingleRevertSpares ==
    ASSUME NEW o, Sound(o), NEW id
    PROVE  LET p == revertSinglePieceId(o, id)
           IN  Spares(o, p, id) /\ p.byPiece \subseteq o.byPiece
<1> DEFINE p == revertSinglePieceId(o, id)
<1>1. ShowsLess(o, p) /\ p.byToken = {a \in o.byToken : a.id # id}
  BY SingleRevertShowsLess
<1> HIDE DEF p
<1>2. o.byPiece = o.byToken /\ p.byPiece = p.byToken
  BY <1>1 DEF ShowsLess, Sound
<1>3. Spares(o, p, id) /\ p.byPiece \subseteq o.byPiece
  BY <1>1, <1>2 DEF Spares
<1> QED BY <1>3 DEF p

LEMMA SimulationSpares ==
    ASSUME NEW o, Sound(o), Coloured(o), NEW captor, CanSimulateCapture(o, captor),
           NEW victim, ~SameColor(victim.id, captor), NEW id
    PROVE  LET p == addAfterTheFactSimulatedCapture(o, captor, victim)
           IN  /\ Spares(o, p, id) /\ Coloured(p)
               /\ \A m \in Guesses(o) : m.id = captor =>
                     \E c \in p.byPiece : c.id = victim.id /\ c.token = m.token
<1> DEFINE p == addAfterTheFactSimulatedCapture(o, captor, victim)
           last == getPredictedState(o, captor)
<1>1. PICK c : /\ ShowsLess(o, p)
               /\ p.byToken = o.byToken \cup {c} /\ c.type = "capture"
               /\ c.id = victim.id /\ c.token = last.token
  BY SimulatedCaptureShowsLess
<1> HIDE DEF p
<1>2. o.byPiece = o.byToken /\ p.byPiece = p.byToken
  BY <1>1 DEF ShowsLess, Sound
<1>3. Spares(o, p, id)
  BY <1>1, <1>2 DEF Spares
<1>4. captor \in White
  <2>1. Tracked(o, captor) /\ last.type = "move"
    BY DEF CanSimulateCapture, Tracked, getPredictedState
  <2> HIDE DEF last
  <2>2. last \in ActionsOf(o, captor)
    BY <2>1, PredictedIsLast DEF last
  <2> QED BY <2>1, <2>2 DEF ActionsOf, Coloured
<1>5. victim.id \notin White
  BY <1>4 DEF SameColor
<1>6. Coloured(p)
  BY <1>1, <1>2, <1>5 DEF Coloured
<1>7. ASSUME NEW m \in Guesses(o), m.id = captor
      PROVE  c.id = victim.id /\ c.token = m.token
  BY <1>1, <1>7 DEF Guesses
<1> QED BY <1>1, <1>2, <1>3, <1>6, <1>7 DEF p

-----------------------------------------------------------------------------
(* The loop.                                                               *)
AccShows(o, acc) ==
    IsAcc(acc) /\ ShowsLess(o, acc.optimistic) /\ Coloured(acc.optimistic)

LEMMA StepShows ==
    ASSUME NEW o, NEW acc, AccShows(o, acc), NEW next, IsAcc(next), NEW id,
           Spares(acc.optimistic, next.optimistic, id), Coloured(next.optimistic)
    PROVE  AccShows(o, next)
BY ShowsLessIsTransitive DEF AccShows, Spares

LEMMA NothingSpares ==
    ASSUME NEW o, NEW acc, AccShows(o, acc), NEW id
    PROVE  Spares(acc.optimistic, acc.optimistic, id)
BY ShowsTheSame DEF AccShows, Spares, ShowsLess

(* What a step of the loop does, by cases.                                 *)
StepIsGood(o, acc, next, a) ==
    AccShows(o, next) /\ Spares(acc.optimistic, next.optimistic, a.id)

LEMMA RevertPieceShows ==
    ASSUME NEW o, NEW acc, AccShows(o, acc), NEW id, NEW a
    PROVE  LET next == RevertPiece(acc, id)
           IN  StepIsGood(o, acc, next, a) /\ \A b \in next.optimistic.byPiece : b.id # id
<1> DEFINE next == RevertPiece(acc, id)
<1>1. IsAcc(next) /\ next.optimistic = processRevert(acc.optimistic, {}, {id})
  BY DEF RevertPiece, AccShows, IsAcc
<1>2. Sound(acc.optimistic)
  BY DEF AccShows, ShowsLess
<1> HIDE DEF next
<1>3. /\ Spares(acc.optimistic, next.optimistic, a.id)
      /\ \A b \in next.optimistic.byPiece : b.id # id
  BY <1>1, <1>2, RevertSpares
<1>4. Coloured(next.optimistic)
  <2>1. next.optimistic.byToken \subseteq acc.optimistic.byToken
    BY <1>1, <1>2, RevertShowsLess
  <2>2. /\ next.optimistic.byPiece = next.optimistic.byToken
        /\ acc.optimistic.byPiece = acc.optimistic.byToken
    BY <1>2, <1>3 DEF Spares, ShowsLess, Sound
  <2> QED BY <2>1, <2>2 DEF AccShows, Coloured
<1>5. AccShows(o, next)
  BY <1>1, <1>3, <1>4, StepShows
<1> QED BY <1>3, <1>5 DEF StepIsGood, next

LEMMA CaptureMissedShows ==
    ASSUME NEW o, NEW acc, AccShows(o, acc), NEW a
    PROVE  StepIsGood(o, acc, CaptureMissed(acc, a), a)
<1>1. CASE acc.predicted[a.id].captureRequired
  BY <1>1, RevertPieceShows DEF CaptureMissed
<1>2. CASE ~ acc.predicted[a.id].captureRequired
  <2> DEFINE next == CaptureMissed(acc, a)
  <2>1. IsAcc(next) /\ next.optimistic = revertSinglePieceId(acc.optimistic, a.id)
    BY <1>2 DEF CaptureMissed, AccShows, IsAcc
  <2>2. Sound(acc.optimistic)
    BY DEF AccShows, ShowsLess
  <2> HIDE DEF next
  <2>3. /\ Spares(acc.optimistic, next.optimistic, a.id)
        /\ next.optimistic.byPiece \subseteq acc.optimistic.byPiece
    BY <2>1, <2>2, SingleRevertSpares
  <2>4. Coloured(next.optimistic)
    BY <2>3 DEF AccShows, Coloured
  <2>5. AccShows(o, next)
    BY <2>1, <2>3, <2>4, StepShows
  <2> QED BY <2>3, <2>5 DEF StepIsGood, next
<1> QED BY <1>1, <1>2

LEMMA SimulateCaptureShows ==
    ASSUME NEW o, NEW acc, AccShows(o, acc), NEW mine, NEW a,
           ~SameColor(a.id, mine), CanSimulateCapture(acc.optimistic, mine)
    PROVE  LET next == SimulateCapture(acc, mine, a)
           IN  /\ StepIsGood(o, acc, next, a)
               /\ \A m \in Guesses(acc.optimistic) : m.id = mine =>
                     \E c \in next.optimistic.byPiece : c.id = a.id /\ c.token = m.token
<1> DEFINE next == SimulateCapture(acc, mine, a)
           victim == [id |-> a.id, at |-> a.at]
           p == acc.optimistic
<1>1. /\ IsAcc(next)
      /\ next.optimistic = addAfterTheFactSimulatedCapture(p, mine, victim)
  BY DEF SimulateCapture, AccShows, IsAcc
<1>2. Sound(p) /\ Coloured(p)
  BY DEF AccShows, ShowsLess
<1>3. victim.id = a.id
  OBVIOUS
<1> HIDE DEF next, victim
<1>4. ~SameColor(victim.id, mine)
  BY <1>3
<1>5. /\ Spares(p, next.optimistic, a.id) /\ Coloured(next.optimistic)
      /\ \A m \in Guesses(p) : m.id = mine =>
            \E c \in next.optimistic.byPiece : c.id = victim.id /\ c.token = m.token
  BY <1>1, <1>2, <1>4, SimulationSpares
<1>6. AccShows(o, next)
  BY <1>1, <1>5, StepShows
<1> QED BY <1>3, <1>5, <1>6 DEF StepIsGood, next

LEMMA NoStepIsGood ==
    ASSUME NEW o, NEW acc, AccShows(o, acc), NEW next, NEW a, IsAcc(next),
           next.optimistic = acc.optimistic
    PROVE  StepIsGood(o, acc, next, a)
BY NothingSpares DEF StepIsGood, AccShows

LEMMA MeetAnotherShows ==
    ASSUME NEW o, NEW h, NEW acc, AccShows(o, acc), NEW mine, NEW a
    PROVE  LET next == MeetAnother(h, acc, mine, a)
           IN  /\ StepIsGood(o, acc, next, a)
               /\ Knows(h, mine) => \A m \in Guesses(next.optimistic) : m.id = mine =>
                     \E c \in next.optimistic.byPiece : c.id = a.id /\ c.token = m.token
<1> DEFINE next == MeetAnother(h, acc, mine, a)
           taking == /\ ~SameColor(a.id, mine) /\ mine \in DOMAIN acc.predicted
                     /\ acc.predicted[mine].couldBeACapture
                     /\ CanSimulateCapture(acc.optimistic, mine)
<1>1. CASE ~Knows(h, mine)
  BY <1>1, NoStepIsGood DEF MeetAnother, AccShows
<1>2. CASE Knows(h, mine) /\ taking
  <2>1. next = SimulateCapture(acc, mine, a)
    BY <1>2 DEF MeetAnother
  <2> HIDE DEF next
  <2>2. /\ StepIsGood(o, acc, next, a)
        /\ \A m \in Guesses(acc.optimistic) : m.id = mine =>
              \E c \in next.optimistic.byPiece : c.id = a.id /\ c.token = m.token
    BY <1>2, <2>1, SimulateCaptureShows
  <2>3. Guesses(next.optimistic) \subseteq Guesses(acc.optimistic)
    BY <2>2 DEF StepIsGood, Spares, ShowsLess
  <2> QED BY <2>2, <2>3 DEF next
<1>3. CASE Knows(h, mine) /\ ~taking
  <2>1. next = RevertPiece(acc, mine)
    BY <1>3 DEF MeetAnother
  <2> HIDE DEF next
  <2>2. StepIsGood(o, acc, next, a) /\ \A b \in next.optimistic.byPiece : b.id # mine
    BY <2>1, RevertPieceShows
  <2> QED BY <2>2 DEF next, Guesses
<1> QED BY <1>1, <1>2, <1>3

(* One arrival, whatever it meets.                                         *)
LEMMA ReconcileShows ==
    ASSUME NEW o, NEW h, NEW initially, NEW acc, AccShows(o, acc), NEW a
    PROVE  StepIsGood(o, acc, Reconcile(h, initially, acc, a), a)
<1> DEFINE silent == [acc EXCEPT !.anims = WithoutAnim(@, a.id)]
           next == Reconcile(h, initially, acc, a)
<1>1. IsAcc(silent) /\ silent.optimistic = acc.optimistic
  BY DEF AccShows, IsAcc
<1>2. \/ next = acc
      \/ next = RevertPiece(acc, a.id)
      \/ next = silent
      \/ next = CaptureMissed(acc, a)
      \/ \E mine : next = MeetAnother(h, acc, mine, a)
  BY ReconcileCases
<1>3. \A mine : StepIsGood(o, acc, MeetAnother(h, acc, mine, a), a)
  BY MeetAnotherShows
<1>4. StepIsGood(o, acc, RevertPiece(acc, a.id), a)
  BY RevertPieceShows
<1>5. StepIsGood(o, acc, CaptureMissed(acc, a), a)
  BY CaptureMissedShows
<1> HIDE DEF silent, next
<1>6. StepIsGood(o, acc, silent, a) /\ StepIsGood(o, acc, acc, a)
  BY <1>1, NoStepIsGood DEF AccShows
<1>7. StepIsGood(o, acc, next, a)
  BY <1>2, <1>3, <1>4, <1>5, <1>6
<1> QED BY <1>7 DEF next

(* The only piece shown moved to a square is the one found there.          *)
LEMMA ThePieceThere ==
    ASSUME NEW o, Sound(o), GuessesDiffer(o), NEW m \in Guesses(o)
    PROVE  PredictedAt(o, Predictions(o), m.at) = {m.id}
<1> DEFINE predicted == Predictions(o)
           there == PredictedThere(predicted, m.at)
<1>1. DOMAIN predicted = {a.id : a \in o.byPiece}
      /\ \A id \in DOMAIN predicted : predicted[id] = getPredictedState(o, id)
  BY DEF Predictions
<1>2. /\ m \in o.byPiece /\ m.type = "move" /\ m = getPredictedState(o, m.id)
  BY DEF Guesses
<1> HIDE DEF predicted
<1>3. m.id \in there
  BY <1>1, <1>2 DEF PredictedThere
<1>4. ASSUME NEW id \in there PROVE id = m.id
  <2>1. id \in DOMAIN predicted /\ predicted[id].type = "move" /\ predicted[id].at = m.at
    BY DEF PredictedThere
  <2>2. predicted[id] = getPredictedState(o, id) /\ Tracked(o, id)
    BY <1>1, <2>1 DEF Tracked, ActionsOf
  <2>3. predicted[id] \in Guesses(o) /\ predicted[id].id = id
    BY <2>1, <2>2, ShownByAGuess
  <2> QED BY <2>1, <2>3 DEF GuessesDiffer
<1>5. there = {m.id}
  BY <1>3, <1>4
<1>6. PredictedAt(o, predicted, m.at) =
        {id \in there : \A other \in there \ {id} : ComesBefore(o, other, id)}
  BY DEF PredictedAt
<1> HIDE DEF there
<1>7. PredictedAt(o, predicted, m.at) = {m.id}
  BY <1>5, <1>6
<1> QED BY <1>7 DEF predicted

(* An arrival settles itself.                                              *)
LEMMA ReconcileSettles ==
    ASSUME NEW h, Sound(h.optimistic), GuessesDiffer(h.optimistic), NEW acc,
           AccShows(h.optimistic, acc), NEW a, a.type # "capture"
    PROVE  Settled(h, Reconcile(h, Predictions(h.optimistic), acc, a).optimistic, a)
<1> DEFINE o == h.optimistic
           initially == Predictions(o)
           next == Reconcile(h, initially, acc, a)
           there == PredictedAt(o, initially, a.at)
<1>1. StepIsGood(o, acc, next, a)
  BY ReconcileShows
<1>2. Guesses(next.optimistic) \subseteq Guesses(o)
  BY <1>1 DEF StepIsGood, AccShows, ShowsLess
<1>3. ASSUME NEW m \in Guesses(next.optimistic), m.at = a.at, m.id # a.id, Knows(h, m.id)
      PROVE  \E c \in next.optimistic.byPiece : c.id = a.id /\ c.token = m.token
  <2>1. there = {m.id}
    BY <1>2, <1>3, ThePieceThere
  <2>2. (CHOOSE id \in there : TRUE) = m.id
    BY <2>1
  <2>3. there # {} /\ a.id \notin there
    BY <1>3, <2>1
  <2>4. next = MeetAnother(h, acc, CHOOSE id \in there : TRUE, a)
    <3> HIDE DEF there, initially
    <3> QED BY <2>3 DEF Reconcile, there
  <2> HIDE DEF there, next
  <2>5. next = MeetAnother(h, acc, m.id, a)
    BY <2>2, <2>4
  <2> QED BY <1>3, <2>5, MeetAnotherShows
<1> HIDE DEF next
<1>4. Settled(h, next.optimistic, a)
  BY <1>3 DEF Settled
<1> QED BY <1>4 DEF next

Distinct(anims) == \A i, j \in DOMAIN anims : anims[i].id = anims[j].id => i = j

LEMMA GroundTruthShows ==
    ASSUME NEW h, IsHandler(h), Sound(h.optimistic), Coloured(h.optimistic),
           NEW s, NEW len \in Nat, DOMAIN s = 1 .. len, Distinct(s)
    PROVE  LET p == processGroundTruthAnimations(h, s).handler.optimistic
           IN  /\ ShowsLess(h.optimistic, p) /\ Coloured(p)
               /\ GuessesDiffer(h.optimistic) =>
                    \A k \in DOMAIN s : s[k].type # "capture" => Settled(h, p, s[k])
<1> DEFINE o == h.optimistic
           start == [optimistic |-> o, predicted |-> Predictions(o),
                     reverted |-> <<>>, anims |-> s]
           end == ReconcileAll(h, start, s)
           g == processGroundTruthAnimations(h, s).handler
<1>1. g = [h EXCEPT !.optimistic = end.optimistic]
  BY DEF processGroundTruthAnimations, Result, ReconcileAll
<1>2. AccShows(o, start)
  BY ShowsTheSame DEF AccShows, IsAcc
<1> HIDE DEF start
<1>3. PICK run : ReconcileRun(h, start, s, len, run)
  BY ReconcileLoop
<1>4. /\ end = run[1 .. len] /\ run[{}] = start
      /\ \A S \in SUBSET (1 .. len) : S # {} =>
            run[S] = Reconcile(h, Predictions(h.optimistic), run[S \ {Top(S)}], s[Top(S)])
  BY <1>3 DEF ReconcileRun
<1> DEFINE Met(S) == GuessesDiffer(o) =>
                       \A k \in S : s[k].type # "capture" => Settled(h, run[S].optimistic, s[k])
           G == {S \in SUBSET (1 .. len) : AccShows(o, run[S]) /\ Met(S)}
<1>5. {} \in G
  BY <1>2, <1>4
<1>6. ASSUME NEW S \in SUBSET (1 .. len), S # {}, S \ {Top(S)} \in G PROVE S \in G
  <2> DEFINE acc == run[S \ {Top(S)}]
             a == s[Top(S)]
  <2>1. AccShows(o, acc) /\ Met(S \ {Top(S)}) /\ Top(S) \in S
    BY <1>6, TopFacts
  <2>2. run[S] = Reconcile(h, Predictions(h.optimistic), acc, a)
    BY <1>4, <1>6
  <2> HIDE DEF acc, a
  <2>3. StepIsGood(o, acc, run[S], a)
    BY <2>1, <2>2, ReconcileShows
  <2>4. ASSUME GuessesDiffer(o), NEW k \in S, s[k].type # "capture"
        PROVE  Settled(h, run[S].optimistic, s[k])
    <3>1. CASE k = Top(S)
      BY <2>1, <2>2, <2>4, <3>1, ReconcileSettles DEF a
    <3>2. CASE k # Top(S)
      <4>1. Settled(h, acc.optimistic, s[k])
        BY <2>1, <2>4, <3>2 DEF acc
      <4>2. s[k].id # a.id
        BY <2>1, <3>2 DEF Distinct, a
      <4> QED BY <2>3, <4>1, <4>2, SparedStaySettled DEF StepIsGood
    <3> QED BY <3>1, <3>2
  <2> QED BY <2>3, <2>4 DEF StepIsGood
<1> HIDE DEF end
<1>7. AccShows(o, end) /\ (GuessesDiffer(o) =>
        \A k \in 1 .. len : s[k].type # "capture" => Settled(h, end.optimistic, s[k]))
  <2> HIDE DEF G
  <2>1. 1 .. len \in G
    BY <1>5, <1>6, IndexInduction
  <2> QED BY <1>4, <2>1 DEF G
<1>8. g.optimistic = end.optimistic
  BY <1>1 DEF IsHandler
<1> HIDE DEF g
<1> QED BY <1>7, <1>8 DEF AccShows, g

-----------------------------------------------------------------------------
(* Every piece that a message brings to a square has an animation there,   *)
(* and no piece has two.                                                   *)

Elsewhere(h, k, id) ==
    Knows(k, id) /\ (Knows(h, id) => h.pieces[id].at # k.pieces[id].at)
Announces(anims, id, at) ==
    \E i \in DOMAIN anims :
       anims[i].id = id /\ anims[i].at = at /\ anims[i].type # "capture"
Announced(h, k, anims) ==
    \A id : Elsewhere(h, k, id) => Announces(anims, id, k.pieces[id].at)

LEMMA WithAnimDetails ==
    ASSUME NEW anims, IsList(anims), Distinct(anims), NEW a
    PROVE  LET all == WithAnim(anims, a)
           IN  /\ IsList(all) /\ Distinct(all)
               /\ \E i \in DOMAIN all : all[i] = a
               /\ \A j \in DOMAIN anims : anims[j].id # a.id =>
                     \E i \in DOMAIN all : all[i] = anims[j]
<1> DEFINE all == WithAnim(anims, a)
           changed == [i \in DOMAIN anims |-> IF anims[i].id = a.id THEN a ELSE anims[i]]
<1>1. IsList(all)
  BY WithAnimFacts
<1>2. CASE \E i \in DOMAIN anims : anims[i].id = a.id
  <2>1. all = changed
    BY <1>2 DEF WithAnim
  <2>2. /\ DOMAIN all = DOMAIN anims
        /\ \A i \in DOMAIN anims : all[i] = IF anims[i].id = a.id THEN a ELSE anims[i]
    BY <2>1
  <2> HIDE DEF all
  <2>3. \A i \in DOMAIN anims : all[i].id = anims[i].id
    BY <2>2
  <2>4. Distinct(all)
    BY <2>2, <2>3 DEF Distinct
  <2> QED BY <1>1, <1>2, <2>2, <2>4 DEF all
<1>3. CASE ~ \E i \in DOMAIN anims : anims[i].id = a.id
  <2>1. all = Append(anims, a)
    BY <1>3 DEF WithAnim
  <2>2. PICK S : anims \in Seq(S)
    BY DEF IsList
  <2> DEFINE R == S \cup {a}
  <2>3. anims \in Seq(R) /\ a \in R
    BY <2>2, SeqMonotonic
  <2> HIDE DEF all, R
  <2>4. /\ Len(all) = Len(anims) + 1 /\ Len(anims) \in Nat
        /\ DOMAIN anims = 1 .. Len(anims) /\ DOMAIN all = 1 .. Len(all)
        /\ \A i \in 1 .. Len(anims) : all[i] = anims[i]
        /\ all[Len(anims) + 1] = a
    <3>1. all \in Seq(R)
      BY <2>1, <2>3, AppendProperties
    <3> QED BY <2>1, <2>3, <3>1, AppendProperties, LenProperties
  <2>5. DOMAIN all = DOMAIN anims \cup {Len(anims) + 1}
    BY <2>4
  <2>6. Distinct(all)
    BY <1>3, <2>4, <2>5 DEF Distinct
  <2> QED BY <1>1, <2>4, <2>5, <2>6 DEF all
<1> QED BY <1>2, <1>3

LEMMA OthersAreAnnounced ==
    ASSUME NEW anims, IsList(anims), Distinct(anims), NEW a, NEW id, NEW at,
           id # a.id, Announces(anims, id, at)
    PROVE  Announces(WithAnim(anims, a), id, at)
<1>1. PICK j \in DOMAIN anims :
         anims[j].id = id /\ anims[j].at = at /\ anims[j].type # "capture"
  BY DEF Announces
<1>2. PICK i \in DOMAIN WithAnim(anims, a) : WithAnim(anims, a)[i] = anims[j]
  BY <1>1, WithAnimDetails
<1> QED BY <1>1, <1>2 DEF Announces

(* While a message is being applied to h.                                  *)
Telling(h, r) ==
    /\ IsHandler(r.handler) /\ r.handler.optimistic = h.optimistic
    /\ IsList(r.anims) /\ Distinct(r.anims)
    /\ Announced(h, r.handler, r.anims)

LEMMA ApplyMoveTells ==
    ASSUME NEW h, NEW r, Telling(h, r), NEW m
    PROVE  Telling(h, ApplyMove(r, m))
<1>1. CASE ~IsNews(r.handler, m)
  BY <1>1, Zenon DEF ApplyMove
<1>2. CASE IsNews(r.handler, m)
  <2> DEFINE k == r.handler
             new == [at |-> m.at, seqnum |-> m.seqnum]
             anim == Anim(IF Knows(k, m.id) THEN "move" ELSE "appearance", m.id, m.at)
             next == ApplyMove(r, m)
             g == next.handler
  <2>1. /\ g = [k EXCEPT !.pieces = With(@, m.id, new)]
        /\ next.anims = IF Knows(k, m.id) /\ k.pieces[m.id].at = m.at THEN r.anims
                        ELSE WithAnim(r.anims, anim)
    BY <1>2 DEF ApplyMove, Result
  <2>2. anim.id = m.id /\ anim.at = m.at /\ anim.type # "capture"
    BY DEF Anim
  <2> HIDE DEF next, anim
  <2>3. /\ IsHandler(g) /\ g.optimistic = k.optimistic
        /\ g.pieces = With(k.pieces, m.id, new)
    BY <2>1 DEF Telling, IsHandler
  <2> HIDE DEF g
  <2>4. /\ DOMAIN g.pieces = DOMAIN k.pieces \cup {m.id} /\ g.pieces[m.id].at = m.at
        /\ \A id \in DOMAIN k.pieces : id # m.id => g.pieces[id] = k.pieces[id]
    BY <2>3 DEF With
  <2>5. CASE Knows(k, m.id) /\ k.pieces[m.id].at = m.at
    <3>1. next.anims = r.anims
      BY <2>1, <2>5
    <3>2. \A id : Knows(g, id) => Knows(k, id) /\ g.pieces[id].at = k.pieces[id].at
      BY <2>4, <2>5 DEF Knows
    <3>3. Announced(h, g, r.anims)
      BY <3>2 DEF Telling, Announced, Elsewhere
    <3> QED BY <2>3, <3>1, <3>3 DEF Telling, next, g
  <2>6. CASE ~ (Knows(k, m.id) /\ k.pieces[m.id].at = m.at)
    <3>1. next.anims = WithAnim(r.anims, anim)
      BY <2>1, <2>6
    <3>2. /\ IsList(next.anims) /\ Distinct(next.anims)
          /\ \E i \in DOMAIN next.anims : next.anims[i] = anim
      BY <3>1, WithAnimDetails DEF Telling
    <3>3. Announces(next.anims, m.id, m.at)
      BY <2>2, <3>2 DEF Announces
    <3>4. ASSUME NEW id, Elsewhere(h, g, id), id # m.id
          PROVE  Announces(next.anims, id, g.pieces[id].at)
      <4>1. Knows(k, id) /\ g.pieces[id] = k.pieces[id]
        BY <2>4, <3>4 DEF Elsewhere, Knows
      <4>2. Announces(r.anims, id, g.pieces[id].at)
        BY <3>4, <4>1 DEF Elsewhere, Telling, Announced
      <4> QED BY <2>2, <3>1, <3>4, <4>2, OthersAreAnnounced DEF Telling
    <3>5. Announced(h, g, next.anims)
      BY <2>4, <3>3, <3>4 DEF Announced
    <3> QED BY <2>3, <3>2, <3>5 DEF Telling, next, g
  <2> QED BY <2>5, <2>6
<1> QED BY <1>1, <1>2

LEMMA ApplyCaptureTells ==
    ASSUME NEW h, NEW r, Telling(h, r), NEW c
    PROVE  Telling(h, ApplyCapture(r, c))
<1> DEFINE k == r.handler
<1>1. CASE c.seqnum <= k.snapshotSeqnum \/ ~Knows(k, c.id)
  BY <1>1, Zenon DEF ApplyCapture
<1>2. CASE ~ (c.seqnum <= k.snapshotSeqnum \/ ~Knows(k, c.id))
  <2> DEFINE next == ApplyCapture(r, c)
             g == next.handler
             anim == Anim("capture", c.id, k.pieces[c.id].at)
  <2>1. /\ g = [k EXCEPT !.activeCaptures = With(@, c.id, c.seqnum),
                         !.pieces = Without(@, {c.id})]
        /\ next.anims = WithAnim(r.anims, anim)
    BY <1>2 DEF ApplyCapture, Result
  <2>2. anim.id = c.id
    BY DEF Anim
  <2> HIDE DEF next, anim
  <2>3. /\ IsHandler(g) /\ g.optimistic = k.optimistic
        /\ g.pieces = Without(k.pieces, {c.id})
    BY <2>1 DEF Telling, IsHandler
  <2> HIDE DEF g
  <2>4. /\ DOMAIN g.pieces = DOMAIN k.pieces \ {c.id}
        /\ \A id \in DOMAIN g.pieces : g.pieces[id] = k.pieces[id]
    BY <2>3 DEF Without
  <2>5. IsList(next.anims) /\ Distinct(next.anims)
    BY <2>1, WithAnimDetails DEF Telling
  <2>6. ASSUME NEW id, Elsewhere(h, g, id)
        PROVE  Announces(next.anims, id, g.pieces[id].at)
    <3>1. Knows(k, id) /\ g.pieces[id] = k.pieces[id] /\ id # c.id
      BY <2>4, <2>6 DEF Elsewhere, Knows
    <3>2. Announces(r.anims, id, g.pieces[id].at)
      BY <2>6, <3>1 DEF Elsewhere, Telling, Announced
    <3> QED BY <2>1, <2>2, <3>1, <3>2, OthersAreAnnounced DEF Telling
  <2>7. Announced(h, g, next.anims)
    BY <2>6 DEF Announced
  <2> QED BY <2>3, <2>5, <2>7 DEF Telling, next, g
<1> QED BY <1>1, <1>2

LEMMA ApplyMovesTells ==
    ASSUME NEW h, NEW base, Telling(h, base), NEW moves, IsList(moves)
    PROVE  Telling(h, FoldLeft(ApplyMove, base, moves))
<1>1. PICK len \in Nat : DOMAIN moves = 1 .. len
  BY ListFacts
<1>2. PICK run : MovesRun(base, moves, len, run)
  BY <1>1, MovesLoop
<1> DEFINE G == {S \in SUBSET (1 .. len) : Telling(h, run[S])}
<1>3. {} \in G
  BY <1>2 DEF MovesRun
<1>4. ASSUME NEW S \in SUBSET (1 .. len), S # {}, S \ {Top(S)} \in G PROVE S \in G
  <2>1. run[S] = ApplyMove(run[S \ {Top(S)}], moves[Top(S)])
    BY <1>2, <1>4 DEF MovesRun
  <2>2. Telling(h, run[S \ {Top(S)}])
    BY <1>4
  <2>3. Telling(h, ApplyMove(run[S \ {Top(S)}], moves[Top(S)]))
    BY <2>2, ApplyMoveTells
  <2> QED BY <2>1, <2>3
<1> HIDE DEF G
<1>5. 1 .. len \in G
  BY <1>1, <1>3, <1>4, IndexInduction
<1> QED BY <1>2, <1>5 DEF G, MovesRun

LEMMA ApplyCapturesTells ==
    ASSUME NEW h, NEW base, Telling(h, base), NEW captures, IsList(captures)
    PROVE  Telling(h, FoldLeft(ApplyCapture, base, captures))
<1>1. PICK len \in Nat : DOMAIN captures = 1 .. len
  BY ListFacts
<1>2. PICK run : CapturesRun(base, captures, len, run)
  BY <1>1, CapturesLoop
<1> DEFINE G == {S \in SUBSET (1 .. len) : Telling(h, run[S])}
<1>3. {} \in G
  BY <1>2 DEF CapturesRun
<1>4. ASSUME NEW S \in SUBSET (1 .. len), S # {}, S \ {Top(S)} \in G PROVE S \in G
  <2>1. run[S] = ApplyCapture(run[S \ {Top(S)}], captures[Top(S)])
    BY <1>2, <1>4 DEF CapturesRun
  <2>2. Telling(h, run[S \ {Top(S)}])
    BY <1>4
  <2>3. Telling(h, ApplyCapture(run[S \ {Top(S)}], captures[Top(S)]))
    BY <2>2, ApplyCaptureTells
  <2> QED BY <2>1, <2>3
<1> HIDE DEF G
<1>5. 1 .. len \in G
  BY <1>1, <1>3, <1>4, IndexInduction
<1> QED BY <1>2, <1>5 DEF G, CapturesRun

-----------------------------------------------------------------------------
(* The messages: nothing new is shown moved, and what is still shown moved *)
(* to the square of an arrival has taken it, if it is a piece we know and  *)
(* no two were shown moved to one square before.                           *)
MessageShows(h, g) ==
    /\ ShowsLess(h.optimistic, g.optimistic) /\ Coloured(g.optimistic)
    /\ GuessesDiffer(h.optimistic) =>
          \A id : Elsewhere(h, g, id) =>
             \A m \in Guesses(g.optimistic) :
                m.at = g.pieces[id].at /\ m.id # id /\ Knows(g, m.id)
                => Tracked(g.optimistic, id)

LEMMA SamePiecesShow ==
    ASSUME NEW h, NEW g, g.pieces = h.pieces,
           ShowsLess(h.optimistic, g.optimistic), Coloured(g.optimistic)
    PROVE  MessageShows(h, g)
BY DEF MessageShows, Elsewhere, Knows

LEMMA TellingShows ==
    ASSUME NEW h, Sound(h.optimistic), Coloured(h.optimistic), NEW k, NEW anims,
           Telling(h, Result(k, anims))
    PROVE  MessageShows(h, processGroundTruthAnimations(k, anims).handler)
<1> DEFINE g == processGroundTruthAnimations(k, anims).handler
           p == g.optimistic
<1>1. /\ IsHandler(k) /\ k.optimistic = h.optimistic /\ IsList(anims) /\ Distinct(anims)
      /\ Announced(h, k, anims)
  BY DEF Telling, Result
<1>2. g.pieces = k.pieces
  <2>1. \E end : g = [k EXCEPT !.optimistic = end]
    BY DEF processGroundTruthAnimations, Result
  <2> QED BY <1>1, <2>1 DEF IsHandler
<1>3. PICK len \in Nat : DOMAIN anims = 1 .. len
  BY <1>1, ListFacts
<1>4. /\ ShowsLess(h.optimistic, p) /\ Coloured(p)
      /\ GuessesDiffer(h.optimistic) =>
           \A i \in DOMAIN anims : anims[i].type # "capture" => Settled(k, p, anims[i])
  BY <1>1, <1>3, GroundTruthShows
<1> HIDE DEF g
<1>5. ASSUME GuessesDiffer(h.optimistic), NEW id, Elsewhere(h, g, id),
             NEW m \in Guesses(p), m.at = g.pieces[id].at, m.id # id, Knows(g, m.id)
      PROVE  Tracked(p, id)
  <2>1. Elsewhere(h, k, id)
    BY <1>2, <1>5 DEF Elsewhere, Knows
  <2>2. PICK i \in DOMAIN anims : /\ anims[i].id = id /\ anims[i].at = k.pieces[id].at
                                  /\ anims[i].type # "capture"
    BY <1>1, <2>1 DEF Announced, Announces
  <2>3. Settled(k, p, anims[i])
    BY <1>4, <1>5, <2>2
  <2>4. \E c \in p.byPiece : c.id = id
    BY <1>2, <1>5, <2>2, <2>3 DEF Settled, Knows
  <2> QED BY <2>4 DEF Tracked, ActionsOf
<1>6. MessageShows(h, g)
  BY <1>4, <1>5 DEF MessageShows
<1> QED BY <1>6 DEF g

LEMMA HandleMovesShows ==
    ASSUME NEW h, IsHandler(h), Sound(h.optimistic), Coloured(h.optimistic),
           NEW moves, IsList(moves), NEW captures, IsList(captures)
    PROVE  MessageShows(h, handleMoves(h, moves, captures).handler)
<1> DEFINE base == Result(h, <<>>)
           moved == FoldLeft(ApplyMove, base, moves)
           applied == FoldLeft(ApplyCapture, moved, captures)
<1>1. base.handler = h /\ base.anims = <<>>
  BY DEF Result
<1>2. IsList(<<>>) /\ DOMAIN <<>> = {}
  <2>1. <<>> \in Seq({}) /\ DOMAIN <<>> = {}
    BY EmptySeq
  <2> QED BY <2>1 DEF IsList
<1>3. ~ \E id : Elsewhere(h, h, id)
  BY DEF Elsewhere
<1> HIDE DEF base
<1>4. Telling(h, base)
  BY <1>1, <1>2, <1>3 DEF Telling, Distinct, Announced
<1>5. Telling(h, moved)
  BY <1>4, ApplyMovesTells
<1> HIDE DEF moved
<1>6. Telling(h, applied)
  BY <1>5, ApplyCapturesTells
<1>7. handleMoves(h, moves, captures).handler =
        processGroundTruthAnimations(applied.handler, applied.anims).handler
  BY DEF handleMoves, base, moved
<1> HIDE DEF applied
<1>8. Telling(h, Result(applied.handler, applied.anims))
  BY <1>6 DEF Telling, Result
<1> QED BY <1>7, <1>8, TellingShows

LEMMA ListOfSet ==
    ASSUME NEW S, IsFiniteSet(S)
    PROVE  IsList(SetToSeq(S))
BY SetToSeqFacts DEF IsList

LEMMA HandleBulkCaptureShows ==
    ASSUME NEW h, IsHandler(h), Sound(h.optimistic), Coloured(h.optimistic),
           NEW ids \in SUBSET Ids, NEW seqnum \in Nat
    PROVE  MessageShows(h, handleBulkCapture(h, ids, seqnum).handler)
<1> DEFINE captures == {[id |-> id, seqnum |-> seqnum] : id \in ids}
           none == <<>>
<1>1. IsFiniteSet(captures)
  BY CapturesAre
<1>2. handleBulkCapture(h, ids, seqnum) = handleMoves(h, none, SetToSeq(captures))
  BY DEF handleBulkCapture
<1>3. IsList(none)
  <2>1. <<>> \in Seq({})
    BY EmptySeq
  <2> QED BY <2>1 DEF IsList
<1> HIDE DEF captures, none
<1> QED BY <1>1, <1>2, <1>3, ListOfSet, HandleMovesShows

(* The animations of a snapshot: of three sets of pieces that are apart.   *)
LEMMA DistinctSets ==
    ASSUME NEW S, IsFiniteSet(S), NEW T, IsFiniteSet(T),
           \A a, b \in S \cup T : a.id = b.id => a = b, S \cap T = {}
    PROVE  LET all == SetToSeq(S) \o SetToSeq(T)
           IN  Distinct(all) /\ \A a \in S : \E i \in DOMAIN all : all[i] = a
<1> DEFINE s == SetToSeq(S)
           t == SetToSeq(T)
           all == s \o t
<1>1. /\ s \in Seq(S) /\ \A i \in DOMAIN s : s[i] \in S
      /\ \A i, j \in DOMAIN s : s[i] = s[j] => i = j
      /\ t \in Seq(T) /\ \A i \in DOMAIN t : t[i] \in T
      /\ \A i, j \in DOMAIN t : t[i] = t[j] => i = j
  BY SetToSeqFacts
<1>2. \A a \in S : \E i \in DOMAIN s : s[i] = a
  <2>1. /\ DOMAIN s = 1 .. Cardinality(S) /\ Cardinality(S) \in Nat
    BY SetToSeqFacts
  <2>2. {s[i] : i \in DOMAIN s} = S
    <3> DEFINE R == {s[i] : i \in DOMAIN s}
    <3>1. R \in SUBSET S
      BY <1>1
    <3>2. s \in Bijection(1 .. Cardinality(S), R)
      <4>1. s \in [1 .. Cardinality(S) -> R]
        BY <1>1, <2>1, SeqDef
      <4> QED BY <1>1, <2>1, <4>1 DEF Bijection, Injection, Surjection, IsInjective
    <3>3. IsFiniteSet(1 .. Cardinality(S)) /\ Cardinality(1 .. Cardinality(S)) = Cardinality(S)
      BY <2>1, FS_Interval
    <3> HIDE DEF R
    <3>4. ExistsBijection(1 .. Cardinality(S), R)
      BY <3>2 DEF ExistsBijection
    <3>4a. Cardinality(R) = Cardinality(S)
      BY <3>3, <3>4, FS_Bijection
    <3>5. R = S
      BY <3>1, <3>4a, FS_Subset
    <3> QED BY <3>5 DEF R
  <2> QED BY <2>2
<1> HIDE DEF s, t
<1> DEFINE R == S \cup T
<1>3. s \in Seq(R) /\ t \in Seq(R)
  BY <1>1, SeqMonotonic
<1> HIDE DEF R
<1>4. /\ all \in Seq(R) /\ Len(all) = Len(s) + Len(t)
      /\ \A i \in 1 .. Len(s) + Len(t) :
            all[i] = IF i <= Len(s) THEN s[i] ELSE t[i - Len(s)]
  BY <1>3, ConcatProperties
<1>5. /\ Len(s) \in Nat /\ Len(t) \in Nat /\ DOMAIN s = 1 .. Len(s) /\ DOMAIN t = 1 .. Len(t)
      /\ DOMAIN all = 1 .. Len(s) + Len(t)
  BY <1>3, <1>4, LenProperties
<1> HIDE DEF all
<1>6. ASSUME NEW i \in DOMAIN all
      PROVE  /\ i <= Len(s) => i \in DOMAIN s /\ all[i] = s[i] /\ all[i] \in S
             /\ ~ (i <= Len(s)) => /\ i - Len(s) \in DOMAIN t /\ all[i] = t[i - Len(s)]
                                   /\ all[i] \in T
  <2>1. CASE i <= Len(s)
    <3>1. i \in DOMAIN s /\ all[i] = s[i]
      BY <1>4, <1>5, <2>1
    <3> QED BY <1>1, <2>1, <3>1
  <2>2. CASE ~ (i <= Len(s))
    <3>1. i - Len(s) \in DOMAIN t /\ all[i] = t[i - Len(s)]
      BY <1>4, <1>5, <2>2
    <3> QED BY <1>1, <2>2, <3>1
  <2> QED BY <2>1, <2>2
<1>7. ASSUME NEW i \in DOMAIN all, NEW j \in DOMAIN all, all[i].id = all[j].id
      PROVE  i = j
  <2>1. all[i] \in S \cup T /\ all[j] \in S \cup T
    BY <1>6
  <2>2. all[i] = all[j]
    BY <1>7, <2>1
  <2>3. (i <= Len(s)) = (j <= Len(s))
    BY <1>6, <2>2
  <2>4. CASE i <= Len(s)
    BY <1>1, <1>6, <2>2, <2>3, <2>4
  <2>5. CASE ~ (i <= Len(s))
    <3>1. i - Len(s) = j - Len(s)
      BY <1>1, <1>6, <2>2, <2>3, <2>5
    <3> QED BY <1>5, <3>1
  <2> QED BY <2>4, <2>5
<1>8. \A a \in S : \E i \in DOMAIN all : all[i] = a
  <2> TAKE a \in S
  <2>1. PICK i \in DOMAIN s : s[i] = a
    BY <1>2
  <2>2. i \in DOMAIN all /\ all[i] = s[i]
    BY <1>4, <1>5
  <2> QED BY <2>1, <2>2
<1> QED BY <1>7, <1>8 DEF Distinct, all, s, t

LEMMA HandleSnapshotShows ==
    ASSUME NEW past, NEW h, NEW token, HandlerOK(h, token), PiecesTrue(past, h),
           Sound(h.optimistic), Coloured(h.optimistic),
           NEW s \in Snapshots, SnapshotTrue(past, s)
    PROVE  MessageShows(h, handleSnapshot(h, s).handler)
<1> DEFINE captures == CapturedSince(h, s)
           ids == DOMAIN s.squares \ DOMAIN captures
           kept == KeptFromBefore(h, s)
           truth == [id \in ids |->
                       IF id \in kept THEN h.pieces[id]
                       ELSE [at |-> s.squares[id], seqnum |-> s.seqnum]]
           arrived == ids \ DOMAIN h.pieces
           moved == {id \in ids \cap DOMAIN h.pieces : truth[id].at # h.pieces[id].at
                        /\ (s.newConnection \/ h.pieces[id].seqnum < s.seqnum)}
           gone == DOMAIN h.pieces \ (ids \cup DOMAIN h.activeCaptures)
           appearing == {Anim("appearance", id, truth[id].at) : id \in arrived}
           moving == {Anim("move", id, truth[id].at) : id \in moved}
           leaving == {Anim("capture", id, h.pieces[id].at) : id \in gone}
           anims == SetToSeq(appearing \cup moving) \o SetToSeq(leaving)
           last == IF h.snapshotSeqnum > s.seqnum THEN h.snapshotSeqnum ELSE s.seqnum
           k == [h EXCEPT !.pieces = truth, !.activeCaptures = captures,
                          !.snapshotSeqnum = last]
<1>1. handleSnapshot(h, s).handler = processGroundTruthAnimations(k, anims).handler
  BY DEF handleSnapshot
<1>2. IsHandler(k) /\ k.optimistic = h.optimistic /\ k.pieces = truth
  BY DEF HandlerOK, IsHandler
<1>3. s.seqnum \in Nat /\ s.newConnection \in BOOLEAN /\ DOMAIN s.squares \subseteq Ids
  BY DEF Snapshots, Boards
<1>4. /\ arrived \in SUBSET Ids /\ moved \in SUBSET Ids /\ gone \in SUBSET Ids
      /\ ids \in SUBSET Ids
  BY <1>3 DEF HandlerOK
<1>5. ASSUME NEW id \in ids, id \in DOMAIN h.pieces, truth[id].at # h.pieces[id].at
      PROVE  id \in moved
  <2>1. id \notin kept /\ truth[id].at = s.squares[id]
    BY <1>5
  <2>2. /\ h.pieces[id].seqnum \in Nat
        /\ past[h.pieces[id].seqnum][id] = h.pieces[id].at
    BY <1>5 DEF HandlerOK, PiecesTrue, Stood
  <2>3. past[s.seqnum][id] = s.squares[id]
    BY DEF SnapshotTrue
  <2>4. h.pieces[id].seqnum # s.seqnum
    BY <1>5, <2>1, <2>2, <2>3
  <2>5. s.newConnection \/ ~ (h.pieces[id].seqnum > s.seqnum)
    BY <1>5, <2>1, Zenon DEF KeptFromBefore
  <2>6. s.newConnection \/ h.pieces[id].seqnum < s.seqnum
    BY <1>3, <2>2, <2>4, <2>5
  <2> QED BY <1>5, <2>6
<1>6. DOMAIN truth = ids
  OBVIOUS
<1>7. /\ arrived \cap moved = {} /\ (arrived \cup moved) \cap gone = {}
      /\ \A id \in ids : id \in arrived \/ id \in DOMAIN h.pieces
  OBVIOUS
<1> HIDE DEF k, truth, kept, captures, arrived, moved, gone
<1>8. /\ IsFiniteSet(leaving) /\ IsFiniteSet(appearing) /\ IsFiniteSet(moving)
  <2>1. leaving = AnimsOf("capture", gone, h.pieces)
    BY DEF AnimsOf
  <2>2. appearing = AnimsOf("appearance", arrived, truth)
    BY DEF AnimsOf
  <2>3. moving = AnimsOf("move", moved, truth)
    BY DEF AnimsOf
  <2> HIDE DEF leaving, appearing, moving
  <2> QED BY <1>4, <2>1, <2>2, <2>3, FiniteAnims
<1>9. /\ \A a \in appearing : /\ a.id \in arrived /\ a.at = truth[a.id].at
                              /\ a = Anim("appearance", a.id, truth[a.id].at)
      /\ \A a \in moving : /\ a.id \in moved /\ a.at = truth[a.id].at
                           /\ a = Anim("move", a.id, truth[a.id].at)
      /\ \A a \in leaving : a.id \in gone /\ a = Anim("capture", a.id, h.pieces[a.id].at)
  BY DEF Anim
<1>10. \A id \in arrived \cup moved : \E a \in appearing \cup moving :
          a.id = id /\ a.at = truth[id].at /\ a.type # "capture"
  <2>1. \A id \in arrived : \E a \in appearing :
          a.id = id /\ a.at = truth[id].at /\ a.type # "capture"
    <3> TAKE id \in arrived
    <3> WITNESS Anim("appearance", id, truth[id].at) \in appearing
    <3> QED BY DEF Anim
  <2>2. \A id \in moved : \E a \in moving :
          a.id = id /\ a.at = truth[id].at /\ a.type # "capture"
    <3> TAKE id \in moved
    <3> WITNESS Anim("move", id, truth[id].at) \in moving
    <3> QED BY DEF Anim
  <2> HIDE DEF appearing, moving
  <2> QED BY <2>1, <2>2
<1> HIDE DEF appearing, moving, leaving
<1> DEFINE S == appearing \cup moving
<1>11. IsFiniteSet(S)
  BY <1>8, FS_Union
<1>12. \A a, b \in S \cup leaving : a.id = b.id => a = b
  BY <1>7, <1>9
<1>13. S \cap leaving = {}
  BY <1>7, <1>9
<1>14. anims = SetToSeq(S) \o SetToSeq(leaving)
  OBVIOUS
<1> HIDE DEF S, anims
<1>15. Distinct(anims) /\ \A a \in S : \E i \in DOMAIN anims : anims[i] = a
  BY <1>8, <1>11, <1>12, <1>13, <1>14, DistinctSets
<1>16. IsList(anims)
  BY <1>8, <1>11, <1>14, ConcatLists
<1>17. Announced(h, k, anims)
  <2>1. ASSUME NEW id, Elsewhere(h, k, id) PROVE Announces(anims, id, k.pieces[id].at)
    <3>1. id \in ids /\ (id \in DOMAIN h.pieces => h.pieces[id].at # truth[id].at)
      BY <1>2, <1>6, <2>1 DEF Elsewhere, Knows
    <3>2. id \in arrived \cup moved
      BY <1>5, <1>7, <3>1
    <3>3. PICK a \in S : a.id = id /\ a.at = truth[id].at /\ a.type # "capture"
      BY <1>10, <3>2 DEF S
    <3> QED BY <1>2, <1>15, <3>3 DEF Announces
  <2> QED BY <2>1 DEF Announced
<1>18. Telling(h, Result(k, anims))
  BY <1>2, <1>15, <1>16, <1>17 DEF Telling, Result
<1> QED BY <1>1, <1>18, TellingShows

-----------------------------------------------------------------------------
(* The answers and the end of the connection.                              *)

LEMMA ConfirmationShows ==
    ASSUME NEW h, IsHandler(h), Sound(h.optimistic), Coloured(h.optimistic),
           TokensInOrder(h.optimistic), NEW t \in Nat,
           \A a \in h.optimistic.byToken : a.token \in Nat /\ a.token >= t,
           NEW seqnum, NEW captured
    PROVE  LET g == confirmOptimisticMove(h, t, seqnum, captured).handler
           IN  /\ MessageShows(h, g)
               /\ \A a \in g.optimistic.byToken : a.token # t
<1> DEFINE g == confirmOptimisticMove(h, t, seqnum, captured).handler
           q == h.optimistic
           taken == {u \in ConfirmedMoves(h, t) : TakesOver(h, u, seqnum)}
           o == processConfirmation(q, t)
           truth == [id \in DOMAIN h.pieces |->
                       IF \E u \in taken : u.id = id
                       THEN [at |-> (CHOOSE u \in taken : u.id = id).at, seqnum |-> seqnum]
                       ELSE h.pieces[id]]
           unseen == {id \in captured \ ConfirmedCaptures(h, t) : Knows(h, id)}
           active == Over([id \in captured |-> seqnum], h.activeCaptures)
<1>1. g = [h EXCEPT !.optimistic = o, !.activeCaptures = active,
                    !.pieces = Without(truth, unseen)]
  BY DEF confirmOptimisticMove, Result
<1>2. \A a, b \in q.byToken : a.id = b.id => a.type = b.type
  BY DEF Coloured, Sound
<1>3. ShowsLess(q, o) /\ o.byToken = {a \in q.byToken : a.token # t}
  BY <1>2, ConfirmationShowsLess
<1>4. DOMAIN truth = DOMAIN h.pieces
  OBVIOUS
<1>5. ASSUME NEW id \in DOMAIN h.pieces, truth[id].at # h.pieces[id].at
      PROVE  \E u \in taken : u.id = id /\ truth[id].at = u.at
  <2>1. \E u \in taken : u.id = id
    BY <1>5
  <2> DEFINE u == CHOOSE u \in taken : u.id = id
  <2>2. u \in taken /\ u.id = id
    BY <2>1
  <2>3. truth[id].at = u.at
    BY <2>1
  <2> QED BY <2>2, <2>3
<1> HIDE DEF truth, unseen, active, o
<1>6. g.optimistic = o /\ g.pieces = Without(truth, unseen)
  BY <1>1 DEF IsHandler
<1> HIDE DEF g
<1>7. \A id \in DOMAIN g.pieces : id \in DOMAIN h.pieces /\ g.pieces[id] = truth[id]
  BY <1>4, <1>6 DEF Without
<1>8. Coloured(o)
  BY <1>3 DEF Coloured, ShowsLess, Sound
<1>9. ASSUME GuessesDiffer(q), NEW id, Elsewhere(h, g, id),
             NEW m \in Guesses(o), m.at = g.pieces[id].at, m.id # id
      PROVE  Tracked(o, id)
  <2>1. id \in DOMAIN h.pieces /\ truth[id].at # h.pieces[id].at /\ m.at = truth[id].at
    BY <1>7, <1>9 DEF Elsewhere, Knows
  <2>2. PICK u \in taken : u.id = id /\ truth[id].at = u.at
    BY <1>5, <2>1
  <2>3. u.type = "move" /\ \E a \in ActionsFor(q, t) :
           u = LastOf({b \in ActionsFor(q, t) : b.id = a.id})
    BY <2>2 DEF ConfirmedMoves, GroundTruthUpdates
  <2>4. PICK a \in ActionsFor(q, t) : u = LastOf({b \in ActionsFor(q, t) : b.id = a.id})
    BY <2>3
  <2> DEFINE S == {b \in ActionsFor(q, t) : b.id = a.id}
  <2>5. /\ S # {} /\ q.nextId \in Nat
        /\ \A b \in S : b.actionId \in Nat /\ b.actionId < q.nextId
    BY DEF ActionsFor, Sound
  <2>6. u = LastOf(S)
    BY <2>4
  <2>7. S \subseteq {b \in q.byToken : b.id = a.id}
    BY DEF ActionsFor
  <2>8. \A b \in q.byToken : b.id = a.id /\ b.token = t => b \in S
    BY DEF ActionsFor
  <2> HIDE DEF S
  <2>9. LastOf(S) \in S
    BY <2>5, LastOfIsLast
  <2>10. a.id = id
    BY <2>2, <2>6, <2>7, <2>9
  <2>11. SUFFICES ASSUME ~Tracked(o, id) PROVE FALSE
    OBVIOUS
  <2>12. \A b \in q.byToken : b.id = id => b.token = t
    BY <1>3, <2>11 DEF Tracked, ActionsOf, ShowsLess, Sound
  <2>13. S = ActionsOf(q, id)
    BY <2>7, <2>8, <2>10, <2>12 DEF ActionsOf, Sound
  <2>14. u = getPredictedState(q, id)
    BY <2>6, <2>13 DEF getPredictedState
  <2>15. u \in Guesses(q)
    BY <2>2, <2>3, <2>6, <2>9, <2>13, <2>14 DEF Guesses, ActionsOf
  <2>16. m \in Guesses(q)
    BY <1>3, <1>9 DEF ShowsLess
  <2>17. m = u
    BY <1>9, <2>1, <2>2, <2>15, <2>16 DEF GuessesDiffer
  <2> QED BY <1>9, <2>2, <2>17
<1>10. MessageShows(h, g)
  BY <1>3, <1>6, <1>8, <1>9 DEF MessageShows
<1>11. \A a \in g.optimistic.byToken : a.token # t
  BY <1>3, <1>6
<1> QED BY <1>10, <1>11 DEF g

LEMMA RejectionShows ==
    ASSUME NEW h, IsHandler(h), Sound(h.optimistic), Coloured(h.optimistic), NEW t
    PROVE  LET g == rejectOptimisticMove(h, t).handler
           IN  /\ MessageShows(h, g)
               /\ \A a \in g.optimistic.byToken : a.token # t
<1> DEFINE g == rejectOptimisticMove(h, t).handler
           tokens == {t}
           none == {}
           o == processRevert(h.optimistic, tokens, none)
<1>1. g = [h EXCEPT !.optimistic = o]
  BY DEF rejectOptimisticMove, Result
<1> HIDE DEF tokens, none
<1>2. /\ ShowsLess(h.optimistic, o) /\ o.byToken \subseteq h.optimistic.byToken
      /\ \A a \in o.byToken : a.token \notin tokens
  BY RevertShowsLess
<1> HIDE DEF o
<1>3. g.optimistic = o /\ g.pieces = h.pieces
  BY <1>1 DEF IsHandler
<1> HIDE DEF g
<1>4. Coloured(o)
  BY <1>2 DEF Coloured, ShowsLess, Sound
<1>5. MessageShows(h, g)
  BY <1>2, <1>3, <1>4, SamePiecesShow
<1>6. \A a \in g.optimistic.byToken : a.token # t
  BY <1>2, <1>3 DEF tokens
<1> QED BY <1>5, <1>6 DEF g

LEMMA ConnectionShows ==
    ASSUME NEW h, IsHandler(h), Sound(h.optimistic), NEW up
    PROVE  LET g == setConnected(h, up).handler
           IN  /\ h.connected /\ ~up => Sound(g.optimistic) /\ g.optimistic.byToken = {}
               /\ ~h.connected => g.optimistic = h.optimistic
<1> DEFINE g == setConnected(h, up).handler
           q == h.optimistic
           o == revertAll(q)
           tokens == {a.token : a \in q.byToken}
           ids == {a.id : a \in q.byPiece}
<1>1. o = processRevert(q, tokens, ids)
  BY DEF revertAll
<1>2. \A a \in q.byToken : a.token \in tokens
  OBVIOUS
<1> HIDE DEF tokens, ids, o
<1>3. /\ ShowsLess(q, o) /\ o.byToken \subseteq q.byToken
      /\ \A a \in o.byToken : a.token \notin tokens
  BY <1>1, RevertShowsLess
<1>4. Sound(o) /\ o.byToken = {}
  BY <1>2, <1>3 DEF ShowsLess
<1>5. CASE h.connected /\ ~up
  <2>1. g = [h EXCEPT !.connected = FALSE, !.optimistic = o,
                      !.activeCaptures = <<>>, !.snapshotSeqnum = -1]
    BY <1>5 DEF setConnected, Result, o
  <2>2. g.optimistic = o
    BY <2>1 DEF IsHandler
  <2> HIDE DEF g
  <2>3. (h.connected /\ ~up => Sound(g.optimistic) /\ g.optimistic.byToken = {})
        /\ (~h.connected => g.optimistic = h.optimistic)
    BY <1>4, <1>5, <2>2
  <2> QED BY <2>3 DEF g
<1>6. CASE ~ (h.connected /\ ~up)
  <2>1. g = [h EXCEPT !.connected = up]
    BY <1>6 DEF setConnected, Result
  <2>2. g.optimistic = h.optimistic
    BY <2>1 DEF IsHandler
  <2> HIDE DEF g
  <2>3. (h.connected /\ ~up => Sound(g.optimistic) /\ g.optimistic.byToken = {})
        /\ (~h.connected => g.optimistic = h.optimistic)
    BY <1>6, <2>2
  <2> QED BY <2>3 DEF g
<1> QED BY <1>5, <1>6

-----------------------------------------------------------------------------
(* So nothing that was brought is left under a guess.                      *)
LEMMA NothingUnder ==
    ASSUME NEW h, NEW g, GuessesDiffer(h.optimistic), MessageShows(h, g),
           NEW id, Elsewhere(h, g, id), NEW other
    PROVE  ~UnderAGuess(g, id, other)
<1> DEFINE p == g.optimistic
<1>1. SUFFICES ASSUME UnderAGuess(g, id, other) PROVE FALSE
  OBVIOUS
<1>2. /\ Sound(p) /\ Guesses(p) \subseteq Guesses(h.optimistic)
  BY DEF MessageShows, ShowsLess
<1>3. /\ id \in DOMAIN View(g) /\ other \in DOMAIN View(g) /\ id # other
      /\ View(g)[id] = View(g)[other] /\ Tracked(p, other)
  BY <1>1 DEF UnderAGuess
<1>4. ASSUME NEW i \in DOMAIN View(g), Tracked(p, i)
      PROVE  /\ getPredictedState(p, i) \in Guesses(p) /\ getPredictedState(p, i).id = i
             /\ View(g)[i] = getPredictedState(p, i).at /\ i \in DOMAIN g.pieces
  <2>1. i \in DOMAIN g.pieces /\ ~Captured(g, i)
    BY <1>4 DEF View
  <2>2. View(g)[i] = getPredictedState(p, i).at
    BY <1>4, <2>1 DEF View
  <2>3. getPredictedState(p, i) \in ActionsOf(p, i)
    BY <1>2, <1>4, PredictedIsLast
  <2>4. PICK a \in p.byPiece : a = getPredictedState(p, i) /\ a.id = i
    BY <2>3 DEF ActionsOf
  <2>5. getPredictedState(p, i).type # "capture"
    BY <1>4, <2>1 DEF Captured
  <2>6. a.type = "move"
    BY <2>4, <2>5 DEF MessageShows, Coloured
  <2> QED BY <2>1, <2>2, <2>4, <2>6 DEF Guesses
<1> DEFINE m == getPredictedState(p, other)
<1>5. m \in Guesses(p) /\ m.id = other /\ m.at = View(g)[id] /\ other \in DOMAIN g.pieces
  BY <1>3, <1>4
<1> HIDE DEF m
<1>6. CASE Tracked(p, id)
  <2> DEFINE n == getPredictedState(p, id)
  <2>1. n \in Guesses(p) /\ n.id = id /\ n.at = View(g)[id]
    BY <1>3, <1>4, <1>6
  <2> HIDE DEF n
  <2>2. m = n
    BY <1>2, <1>5, <2>1 DEF GuessesDiffer
  <2> QED BY <1>3, <1>5, <2>1, <2>2
<1>7. CASE ~Tracked(p, id)
  <2>1. View(g)[id] = g.pieces[id].at
    BY <1>3, <1>7 DEF View
  <2>2. m.at = g.pieces[id].at /\ m.id # id /\ Knows(g, m.id)
    BY <1>3, <1>5, <2>1 DEF Knows
  <2> QED BY <1>5, <1>7, <2>2 DEF MessageShows
<1> QED BY <1>6, <1>7

-----------------------------------------------------------------------------
(* The requests and their answers.  The writer of the board takes the      *)
(* requests in order, so an answer that confirms one comes before every    *)
(* answer to a later one; a rejection may come before its turn.  Every     *)
(* action of the client has a token that is still to be answered.          *)
IsAnswer(m) == m.type \in {"valid", "invalid"}
InOrder(q, l) ==
    /\ \A i, j \in DOMAIN q : i < j => q[i].token < q[j].token
    /\ \A i \in DOMAIN l : l[i].type = "valid" =>
          /\ \A j \in DOMAIN q : q[j].alive => l[i].token < q[j].token
          /\ \A j \in DOMAIN l : i < j /\ IsAnswer(l[j]) => l[i].token < l[j].token
Awaited(up, q, l, t) ==
    \/ up /\ \E i \in DOMAIN q : q[i].alive /\ q[i].token = t
    \/ \E i \in DOMAIN l : IsAnswer(l[i]) /\ l[i].token = t

(* r is q without its entry i.                                             *)
Leaves(q, r, i) ==
    /\ DOMAIN r = 1 .. Len(q) - 1
    /\ \A j \in DOMAIN r : r[j] = q[IF j < i THEN j ELSE j + 1]

LEMMA TailLeaves ==
    ASSUME NEW R, NEW q \in Seq(R), q # <<>>
    PROVE  1 \in DOMAIN q /\ Head(q) = q[1] /\ Leaves(q, Tail(q), 1)
<1>1. /\ Len(q) \in Nat \ {0} /\ DOMAIN q = 1 .. Len(q) /\ Head(q) = q[1]
      /\ Tail(q) \in Seq(R) /\ Len(Tail(q)) = Len(q) - 1
      /\ \A j \in 1 .. Len(Tail(q)) : Tail(q)[j] = q[j + 1]
  BY EmptySeq, LenProperties, HeadTailProperties
<1>2. DOMAIN Tail(q) = 1 .. Len(Tail(q))
  BY <1>1, LenProperties
<1> QED BY <1>1, <1>2 DEF Leaves

LEMMA RemoveAtLeaves ==
    ASSUME NEW R, NEW q \in Seq(R), NEW i \in DOMAIN q
    PROVE  Leaves(q, RemoveAt(q, i), i)
<1> DEFINE a == SubSeq(q, 1, i - 1)
           b == SubSeq(q, i + 1, Len(q))
<1>1. Len(q) \in Nat /\ DOMAIN q = 1 .. Len(q)
  BY LenProperties
<1>2. \A k \in 1 .. Len(q) : q[k] \in R
  BY <1>1, ElementOfSeq
<1>3. a \in Seq(R) /\ Len(a) = i - 1 /\ \A j \in 1 .. i - 1 : a[j] = q[j]
  BY <1>1, <1>2, SubSeqProperties
<1>4. /\ b \in Seq(R) /\ Len(b) = Len(q) - i
      /\ \A j \in 1 .. Len(q) - i : b[j] = q[i + j]
  BY <1>1, <1>2, SubSeqProperties
<1>5. RemoveAt(q, i) = a \o b
  BY DEF RemoveAt
<1> HIDE DEF a, b
<1>6. /\ RemoveAt(q, i) \in Seq(R) /\ Len(RemoveAt(q, i)) = Len(q) - 1
      /\ \A j \in 1 .. Len(q) - 1 :
            RemoveAt(q, i)[j] = IF j <= i - 1 THEN a[j] ELSE b[j - (i - 1)]
  <2>1. /\ a \o b \in Seq(R) /\ Len(a \o b) = Len(a) + Len(b)
        /\ \A j \in 1 .. Len(a) + Len(b) :
              (a \o b)[j] = IF j <= Len(a) THEN a[j] ELSE b[j - Len(a)]
    BY <1>3, <1>4, ConcatProperties
  <2>2. Len(a) + Len(b) = Len(q) - 1
    BY <1>1, <1>3, <1>4
  <2> QED BY <1>3, <1>5, <2>1, <2>2
<1>7. DOMAIN RemoveAt(q, i) = 1 .. Len(q) - 1
  BY <1>6, LenProperties
<1>8. ASSUME NEW j \in 1 .. Len(q) - 1
      PROVE  RemoveAt(q, i)[j] = q[IF j < i THEN j ELSE j + 1]
  <2>1. CASE j < i
    BY <1>1, <1>3, <1>6, <2>1
  <2>2. CASE ~ (j < i)
    <3>1. j - (i - 1) \in 1 .. Len(q) - i /\ i + (j - (i - 1)) = j + 1
      BY <1>1, <2>2
    <3>2. RemoveAt(q, i)[j] = b[j - (i - 1)]
      BY <1>1, <1>6, <2>2
    <3>3. b[j - (i - 1)] = q[j + 1]
      BY <1>4, <3>1
    <3> QED BY <2>2, <3>2, <3>3
  <2> QED BY <2>1, <2>2
<1> QED BY <1>7, <1>8 DEF Leaves

(* Every other entry is still there, and in order.                         *)
LEMMA LeavesFacts ==
    ASSUME NEW R, NEW q \in Seq(R), NEW i \in DOMAIN q, NEW r, Leaves(q, r, i)
    PROVE  /\ \A k \in DOMAIN q : k # i => \E j \in DOMAIN r : r[j] = q[k]
           /\ \A j \in DOMAIN r : \E k \in DOMAIN q : k # i /\ r[j] = q[k]
           /\ \A j, n \in DOMAIN r : j < n =>
                 \E k, m \in DOMAIN q : k < m /\ k # i /\ m # i /\ r[j] = q[k] /\ r[n] = q[m]
<1> DEFINE At(j) == IF j < i THEN j ELSE j + 1
<1>1. Len(q) \in Nat /\ DOMAIN q = 1 .. Len(q) /\ i \in 1 .. Len(q)
  BY LenProperties
<1>2. DOMAIN r = 1 .. Len(q) - 1 /\ \A j \in DOMAIN r : r[j] = q[At(j)]
  BY DEF Leaves
<1>3. \A j \in DOMAIN r : At(j) \in DOMAIN q /\ At(j) # i
  BY <1>1, <1>2
<1>4. \A j, n \in DOMAIN r : j < n => At(j) < At(n)
  BY <1>1, <1>2
<1>5. ASSUME NEW k \in DOMAIN q, k # i
      PROVE  \E j \in DOMAIN r : At(j) = k
  <2>1. CASE k < i
    <3>1. k \in DOMAIN r /\ At(k) = k
      BY <1>1, <1>2, <2>1
    <3> QED BY <3>1
  <2>2. CASE ~ (k < i)
    <3>1. k - 1 \in DOMAIN r /\ At(k - 1) = k
      BY <1>1, <1>2, <1>5, <2>2
    <3> QED BY <3>1
  <2> QED BY <2>1, <2>2
<1> HIDE DEF At
<1> QED BY <1>2, <1>3, <1>4, <1>5

LEMMA AppendDetails ==
    ASSUME NEW R, NEW s \in Seq(R), NEW e \in R
    PROVE  LET all == Append(s, e)
           IN  /\ Len(s) \in Nat /\ DOMAIN s = 1 .. Len(s) /\ DOMAIN all = 1 .. Len(s) + 1
               /\ \A i \in DOMAIN s : all[i] = s[i] /\ i \in DOMAIN all /\ i < Len(s) + 1
               /\ all[Len(s) + 1] = e /\ Len(s) + 1 \in DOMAIN all
               /\ \A i \in DOMAIN all : i \in DOMAIN s \/ i = Len(s) + 1
<1>1. /\ Append(s, e) \in Seq(R) /\ Len(Append(s, e)) = Len(s) + 1 /\ Len(s) \in Nat
      /\ DOMAIN s = 1 .. Len(s) /\ DOMAIN Append(s, e) = 1 .. Len(Append(s, e))
      /\ \A i \in 1 .. Len(s) : Append(s, e)[i] = s[i]
      /\ Append(s, e)[Len(s) + 1] = e
  BY AppendProperties, LenProperties
<1> QED BY <1>1

(* A request goes without an answer.                                       *)
LEMMA RequestGoes ==
    ASSUME NEW R, NEW q \in Seq(R), NEW i \in DOMAIN q, NEW r, Leaves(q, r, i),
           NEW l, InOrder(q, l)
    PROVE  /\ InOrder(r, l)
           /\ \A up, t : ~ (up /\ q[i].alive) /\ Awaited(up, q, l, t)
                         => Awaited(up, r, l, t)
<1>1. /\ \A k \in DOMAIN q : k # i => \E j \in DOMAIN r : r[j] = q[k]
      /\ \A j \in DOMAIN r : \E k \in DOMAIN q : k # i /\ r[j] = q[k]
      /\ \A j, n \in DOMAIN r : j < n =>
            \E k, m \in DOMAIN q : k < m /\ k # i /\ m # i /\ r[j] = q[k] /\ r[n] = q[m]
  BY LeavesFacts
<1>2. \A j, n \in DOMAIN r : j < n => r[j].token < r[n].token
  BY <1>1 DEF InOrder
<1>3. InOrder(r, l)
  BY <1>1, <1>2 DEF InOrder
<1>4. \A up, t : ~ (up /\ q[i].alive) /\ Awaited(up, q, l, t) => Awaited(up, r, l, t)
  BY <1>1 DEF Awaited
<1> QED BY <1>3, <1>4

(* Any message is sent that keeps the order.                               *)
LEMMA MessageSent ==
    ASSUME NEW M, NEW l \in Seq(M), NEW m, NEW q, InOrder(q, l),
           IsAnswer(m) => \A i \in DOMAIN l : l[i].type = "valid" => l[i].token < m.token,
           m.type = "valid" => \A j \in DOMAIN q : q[j].alive => m.token < q[j].token
    PROVE  /\ InOrder(q, Append(l, m))
           /\ \A up, t : Awaited(up, q, l, t) => Awaited(up, q, Append(l, m), t)
           /\ \A up : IsAnswer(m) => Awaited(up, q, Append(l, m), m.token)
<1> DEFINE k == Append(l, m)
           n == Len(l) + 1
<1>1. /\ n \in Nat /\ \A i \in DOMAIN l : k[i] = l[i] /\ i \in DOMAIN k /\ i < n
      /\ k[n] = m /\ n \in DOMAIN k /\ \A i \in DOMAIN k : i \in DOMAIN l \/ i = n
      /\ \A i \in DOMAIN l : i \in Nat
  <2> DEFINE N == M \cup {m}
  <2>1. l \in Seq(N) /\ m \in N
    BY SeqMonotonic
  <2> HIDE DEF N
  <2> QED BY <2>1, AppendDetails
<1> HIDE DEF k, n
<1>2. ASSUME NEW i \in DOMAIN k, k[i].type = "valid", NEW j \in DOMAIN q, q[j].alive
      PROVE  k[i].token < q[j].token
  BY <1>1, <1>2 DEF InOrder
<1>3. ASSUME NEW i \in DOMAIN k, k[i].type = "valid", NEW j \in DOMAIN k, i < j,
             IsAnswer(k[j])
      PROVE  k[i].token < k[j].token
  <2>1. i \in DOMAIN l
    BY <1>1, <1>3
  <2>2. CASE j = n
    BY <1>1, <1>3, <2>1, <2>2
  <2>3. CASE j \in DOMAIN l
    BY <1>1, <1>3, <2>1, <2>3 DEF InOrder
  <2> QED BY <1>1, <2>2, <2>3
<1>4. InOrder(q, k)
  BY <1>2, <1>3 DEF InOrder
<1>5. \A up, t : Awaited(up, q, l, t) => Awaited(up, q, k, t)
  BY <1>1 DEF Awaited
<1>6. \A up : IsAnswer(m) => Awaited(up, q, k, m.token)
  BY <1>1 DEF Awaited
<1> QED BY <1>4, <1>5, <1>6 DEF k

(* A request is answered: in its turn, or with a rejection.                *)
LEMMA RequestAnswered ==
    ASSUME NEW R, NEW q \in Seq(R), NEW i \in DOMAIN q, NEW r, Leaves(q, r, i),
           q[i].alive, NEW M, NEW l \in Seq(M), NEW m, InOrder(q, l),
           IsAnswer(m), m.token = q[i].token, m.type = "valid" => i = 1
    PROVE  /\ InOrder(r, Append(l, m))
           /\ \A up, t : Awaited(up, q, l, t) => Awaited(up, r, Append(l, m), t)
<1>1. /\ \A k \in DOMAIN q : k # i => \E j \in DOMAIN r : r[j] = q[k]
      /\ \A j \in DOMAIN r : \E k \in DOMAIN q : k # i /\ r[j] = q[k]
  BY LeavesFacts
<1>2. InOrder(r, l)
  BY RequestGoes
<1>3. \A j \in DOMAIN l : l[j].type = "valid" => l[j].token < m.token
  BY DEF InOrder
<1>4. ASSUME m.type = "valid", NEW j \in DOMAIN r PROVE m.token < r[j].token
  <2>1. PICK k \in DOMAIN q : k # i /\ r[j] = q[k]
    BY <1>1
  <2>2. i = 1 /\ k \in Nat /\ k >= 1
    BY <1>4, LenProperties
  <2>3. i < k
    BY <2>1, <2>2
  <2> QED BY <2>1, <2>3 DEF InOrder
<1>5. /\ InOrder(r, Append(l, m))
      /\ \A up, t : Awaited(up, r, l, t) => Awaited(up, r, Append(l, m), t)
      /\ \A up : Awaited(up, r, Append(l, m), m.token)
  BY <1>2, <1>3, <1>4, MessageSent
<1>6. \A up, t : Awaited(up, q, l, t) => Awaited(up, r, l, t) \/ t = m.token
  BY <1>1 DEF Awaited
<1> QED BY <1>5, <1>6

(* A message is taken from the connection.                                 *)
LEMMA MessageTaken ==
    ASSUME NEW M, NEW l \in Seq(M), l # <<>>, NEW q, InOrder(q, l)
    PROVE  LET m == Head(l)
           IN  /\ InOrder(q, Tail(l))
               /\ \A up, t : /\ Awaited(up, q, l, t)
                             /\ ~ (IsAnswer(m) /\ m.token = t)
                             => Awaited(up, q, Tail(l), t)
               /\ \A up, t : m.type = "valid" /\ Awaited(up, q, l, t)
                             => t = m.token \/ m.token < t
<1>1. 1 \in DOMAIN l /\ Head(l) = l[1] /\ Leaves(l, Tail(l), 1)
  BY TailLeaves
<1> DEFINE r == Tail(l)
           m == Head(l)
           first == 1
<1> HIDE DEF r, m, first
<1>0. first \in DOMAIN l /\ Leaves(l, r, first)
  BY <1>1 DEF r, first
<1>2. /\ \A k \in DOMAIN l : k # first => \E j \in DOMAIN r : r[j] = l[k]
      /\ \A j \in DOMAIN r : \E k \in DOMAIN l : k # first /\ r[j] = l[k]
      /\ \A j, n \in DOMAIN r : j < n =>
            \E k, p \in DOMAIN l : k < p /\ k # first /\ p # first /\ r[j] = l[k] /\ r[n] = l[p]
  BY <1>0, LeavesFacts
<1>3. \A k \in DOMAIN l : k \in Nat /\ (k # 1 => 1 < k)
  BY LenProperties
<1>4. InOrder(q, r)
  <2>1. ASSUME NEW i \in DOMAIN r, r[i].type = "valid", NEW j \in DOMAIN r, i < j,
               IsAnswer(r[j])
        PROVE  r[i].token < r[j].token
    <3>1. PICK k, n \in DOMAIN l : k < n /\ r[i] = l[k] /\ r[j] = l[n]
      BY <1>2, <2>1
    <3> QED BY <2>1, <3>1 DEF InOrder
  <2>2. ASSUME NEW i \in DOMAIN r, r[i].type = "valid", NEW j \in DOMAIN q, q[j].alive
        PROVE  r[i].token < q[j].token
    <3>1. PICK k \in DOMAIN l : r[i] = l[k]
      BY <1>2 DEF r
    <3> QED BY <2>2, <3>1 DEF InOrder
  <2> QED BY <2>1, <2>2 DEF InOrder
<1>5. \A up, t : Awaited(up, q, l, t) /\ ~ (IsAnswer(m) /\ m.token = t) => Awaited(up, q, r, t)
  BY <1>1, <1>2 DEF Awaited, m, first
<1>6. \A up, t : m.type = "valid" /\ Awaited(up, q, l, t) => t = m.token \/ m.token < t
  BY <1>1, <1>3 DEF Awaited, InOrder, m
<1> QED BY <1>4, <1>5, <1>6 DEF r, m

(* A request is made, with a token that is new.                            *)
LEMMA RequestMade ==
    ASSUME NEW R, NEW q \in Seq(R), NEW e \in R, NEW l, InOrder(q, l), e.alive,
           \A i \in DOMAIN q : q[i].token < e.token,
           \A i \in DOMAIN l : l[i].type = "valid" => l[i].token < e.token
    PROVE  /\ InOrder(Append(q, e), l)
           /\ \A up, t : Awaited(up, q, l, t) => Awaited(up, Append(q, e), l, t)
           /\ Awaited(TRUE, Append(q, e), l, e.token)
<1> DEFINE r == Append(q, e)
           n == Len(q) + 1
<1>1. /\ n \in Nat /\ \A i \in DOMAIN q : r[i] = q[i] /\ i \in DOMAIN r /\ i < n
      /\ r[n] = e /\ n \in DOMAIN r /\ \A i \in DOMAIN r : i \in DOMAIN q \/ i = n
      /\ \A i \in DOMAIN q : i \in Nat
  BY AppendDetails
<1> HIDE DEF r, n
<1>2. ASSUME NEW i \in DOMAIN r, NEW j \in DOMAIN r, i < j
      PROVE  r[i].token < r[j].token
  <2>1. i \in DOMAIN q
    BY <1>1, <1>2
  <2>2. CASE j = n
    BY <1>1, <2>1, <2>2
  <2>3. CASE j \in DOMAIN q
    BY <1>1, <1>2, <2>1, <2>3 DEF InOrder
  <2> QED BY <1>1, <2>2, <2>3
<1>3. ASSUME NEW i \in DOMAIN l, l[i].type = "valid", NEW j \in DOMAIN r, r[j].alive
      PROVE  l[i].token < r[j].token
  BY <1>1, <1>3 DEF InOrder
<1>4. InOrder(r, l)
  BY <1>2, <1>3 DEF InOrder
<1>5. /\ \A up, t : Awaited(up, q, l, t) => Awaited(up, r, l, t)
      /\ Awaited(TRUE, r, l, e.token)
  BY <1>1 DEF Awaited
<1> QED BY <1>4, <1>5 DEF r

(* The connection breaks.                                                  *)
LEMMA ConnectionBroke ==
    ASSUME NEW q \in Seq(Requests), NEW l, InOrder(q, l), NEW n \in 0 .. Len(q)
    PROVE  InOrder([i \in 1 .. n |-> [q[i] EXCEPT !.alive = FALSE]], <<>>)
<1> DEFINE r == [i \in 1 .. n |-> [q[i] EXCEPT !.alive = FALSE]]
           none == <<>>
<1>1. Len(q) \in Nat /\ DOMAIN q = 1 .. Len(q)
  BY LenProperties
<1>2. ASSUME NEW i \in DOMAIN r PROVE i \in DOMAIN q /\ r[i].token = q[i].token
  <2>1. i \in DOMAIN q /\ q[i] \in Requests
    BY <1>1, ElementOfSeq
  <2> QED BY <2>1 DEF Requests
<1>3. DOMAIN none = {}
  BY EmptySeq
<1> HIDE DEF r, none
<1>4. InOrder(r, none)
  BY <1>2, <1>3 DEF InOrder
<1> QED BY <1>4 DEF r, none

-----------------------------------------------------------------------------
(* The inductive invariant of the guesses, with ViewInv.                   *)
OfferGood(offers) ==
    \A f \in offers : /\ f.step.id \in White /\ \A v \in f.victims : v.id \notin White
                      /\ \A v, w \in f.victims : v = w
Guessing(h, q, l) ==
    /\ Sound(h.optimistic) /\ Coloured(h.optimistic) /\ TokensInOrder(h.optimistic)
    /\ \A a \in h.optimistic.byToken : Awaited(h.connected, q, l, a.token)
GuessInv ==
    /\ ViewInv /\ InOrder(requests, link)
    /\ Guessing(handler, requests, link) /\ OfferGood(offer)

(* The queues keep their order, and what is awaited stays so.              *)
QueuesKeep ==
    /\ InOrder(requests', link')
    /\ \A up, t : Awaited(up, requests, link, t) => Awaited(up, requests', link', t)

LEMMA QueuesMove ==
    ASSUME GuessInv, ViewInv', handler' = handler, offer' \subseteq offer,
           InOrder(requests', link'),
           \A t : Awaited(Up, requests, link, t) => Awaited(Up, requests', link', t)
    PROVE  GuessInv'
BY DEF GuessInv, Guessing, OfferGood, Up

LEMMA InitGuess ==
    ASSUME Init
    PROVE  GuessInv
<1> DEFINE o == handler.optimistic
           none == <<>>
<1>1. o = NoOptimism
  BY DEF Init, NoState
<1>2. o.byPiece = {} /\ o.byToken = {} /\ o.nextId = 1 /\ IsOptimism(o)
  BY <1>1 DEF NoOptimism, IsOptimism
<1> HIDE DEF o
<1>3. Sound(o) /\ Coloured(o) /\ TokensInOrder(o)
  BY <1>2 DEF Sound, Coloured, TokensInOrder
<1>4. requests = none /\ link = none /\ offer = {} /\ DOMAIN none = {}
  BY EmptySeq DEF Init
<1> HIDE DEF none
<1>5. InOrder(requests, link)
  BY <1>4 DEF InOrder
<1> QED BY <1>2, <1>3, <1>4, <1>5, InitView DEF GuessInv, Guessing, OfferGood, o

(* A request leaves the queue, answered if the client is still there.      *)
LEMMA AnswerKeeps ==
    ASSUME GuessInv, NEW i \in DOMAIN requests, Leaves(requests, requests', i),
           NEW m, IsAnswer(m), m.token = requests[i].token, m.type = "valid" => i = 1,
           Answer(requests[i], m)
    PROVE  /\ InOrder(requests', link')
           /\ \A t : Awaited(Up, requests, link, t) => Awaited(Up, requests', link', t)
<1>1. requests \in Seq(Requests) /\ link \in Seq(Messages) /\ InOrder(requests, link)
  BY DEF GuessInv, ViewInv, RequestsGood, LinkGood
<1>2. CASE requests[i].alive /\ Up
  <2>1. link' = Append(link, m)
    BY <1>2 DEF Answer, Send
  <2> QED BY <1>1, <1>2, <2>1, RequestAnswered
<1>3. CASE ~ (requests[i].alive /\ Up)
  <2>1. link' = link
    BY <1>3 DEF Answer, Send
  <2> QED BY <1>1, <1>3, <2>1, RequestGoes
<1> QED BY <1>2, <1>3

LEMMA ServeRequestGuess ==
    ASSUME GuessInv, ServeRequest
    PROVE  GuessInv'
<1>1. ViewInv'
  BY ServeRequestKeeps DEF GuessInv
<1>2. /\ requests # <<>> /\ requests' = Tail(requests)
      /\ handler' = handler /\ offer' = offer
  BY DEF ServeRequest
<1>3. requests \in Seq(Requests)
  BY DEF GuessInv, ViewInv, RequestsGood
<1>4. 1 \in DOMAIN requests /\ Head(requests) = requests[1] /\ Leaves(requests, requests', 1)
  BY <1>2, <1>3, TailLeaves
<1>5. \E m : /\ m.type \in {"valid", "invalid"} /\ m.token = Head(requests).token
             /\ Answer(Head(requests), m)
  BY DEF ServeRequest
<1>6. PICK m : IsAnswer(m) /\ m.token = requests[1].token /\ Answer(requests[1], m)
  BY <1>4, <1>5 DEF IsAnswer
<1>7. /\ InOrder(requests', link')
      /\ \A t : Awaited(Up, requests, link, t) => Awaited(Up, requests', link', t)
  BY <1>4, <1>6, AnswerKeeps
<1> QED BY <1>1, <1>2, <1>7, QueuesMove

LEMMA RejectRequestGuess ==
    ASSUME GuessInv, NEW i \in DOMAIN requests, RejectRequest(i)
    PROVE  GuessInv'
<1> DEFINE m == [type |-> "invalid", token |-> requests[i].token]
<1>1. ViewInv'
  BY RejectRequestKeeps DEF GuessInv
<1>2. /\ requests' = RemoveAt(requests, i) /\ Answer(requests[i], m)
      /\ handler' = handler /\ offer' = offer
  BY DEF RejectRequest
<1>3. requests \in Seq(Requests)
  BY DEF GuessInv, ViewInv, RequestsGood
<1>4. Leaves(requests, requests', i)
  BY <1>2, <1>3, RemoveAtLeaves
<1>5. IsAnswer(m) /\ m.token = requests[i].token /\ m.type = "invalid"
  BY DEF IsAnswer
<1> HIDE DEF m
<1>6. /\ InOrder(requests', link')
      /\ \A t : Awaited(Up, requests, link, t) => Awaited(Up, requests', link', t)
  BY <1>2, <1>4, <1>5, AnswerKeeps
<1> QED BY <1>1, <1>2, <1>6, QueuesMove

(* A message that is no answer.                                            *)
LEMMA SendKeeps ==
    ASSUME GuessInv, ViewInv', handler' = handler, offer' = offer, requests' = requests,
           NEW m, ~IsAnswer(m), Send(m) \/ link' = link
    PROVE  GuessInv'
<1>1. requests \in Seq(Requests) /\ link \in Seq(Messages) /\ InOrder(requests, link)
  BY DEF GuessInv, ViewInv, RequestsGood, LinkGood
<1>2. link' = link \/ link' = Append(link, m)
  BY DEF Send
<1>3. m.type # "valid"
  BY DEF IsAnswer
<1>4. /\ InOrder(requests, link')
      /\ \A t : Awaited(Up, requests, link, t) => Awaited(Up, requests, link', t)
  BY <1>1, <1>2, <1>3, MessageSent
<1> QED BY <1>4, QueuesMove

LEMMA BroadcastGuess ==
    ASSUME GuessInv, NEW b \in pending, Broadcast(b)
    PROVE  GuessInv'
<1> DEFINE m == [type |-> "bulk", seqnum |-> b.seqnum, ids |-> {c.id : c \in b.captures}]
<1>1. ViewInv'
  BY BroadcastKeeps DEF GuessInv
<1>2. handler' = handler /\ offer' = offer /\ requests' = requests
  BY DEF Broadcast
<1>3. Send(m) \/ link' = link
  BY DEF Broadcast
<1>4. ~IsAnswer(m)
  BY DEF IsAnswer
<1> HIDE DEF m
<1> QED BY <1>1, <1>2, <1>3, <1>4, SendKeeps

LEMMA MaybeSendMoveUpdatesGuess ==
    ASSUME GuessInv, MaybeSendMoveUpdates
    PROVE  GuessInv'
<1> DEFINE m == [type |-> "moves", moves |-> buffer.moves, captures |-> buffer.captures]
<1>1. ViewInv'
  BY MaybeSendMoveUpdatesKeeps DEF GuessInv
<1>2. /\ handler' = handler /\ offer' = offer /\ requests' = requests /\ Send(m)
  BY DEF MaybeSendMoveUpdates
<1>3. ~IsAnswer(m)
  BY DEF IsAnswer
<1> HIDE DEF m
<1> QED BY <1>1, <1>2, <1>3, SendKeeps

LEMMA SendSnapshotGuess ==
    ASSUME GuessInv, SendSnapshot
    PROVE  GuessInv'
<1>1. ViewInv'
  BY SendSnapshotKeeps DEF GuessInv
<1>2. /\ handler' = handler /\ offer' = offer /\ requests' = requests
      /\ \E s \in snapshot : Send([type |-> "snapshot", snapshot |-> s])
  BY DEF SendSnapshot
<1>3. PICK s \in snapshot : Send([type |-> "snapshot", snapshot |-> s])
  BY <1>2
<1> DEFINE m == [type |-> "snapshot", snapshot |-> s]
<1>4. ~IsAnswer(m) /\ Send(m)
  BY <1>3 DEF IsAnswer
<1> HIDE DEF m
<1> QED BY <1>1, <1>2, <1>4, SendKeeps

(* A step that leaves the queues, the handler and the offer alone.         *)
LEMMA QuietKeeps ==
    ASSUME GuessInv, ViewInv', UNCHANGED <<requests, link, handler, offer>>
    PROVE  GuessInv'
BY DEF GuessInv

-----------------------------------------------------------------------------
(* A click: a move of a white piece, with at most one victim, of the other *)
(* colour, under a token that is new.                                      *)
LEMMA StepsAreWhite ==
    ASSUME NEW s \in Steps, s.id \in White
    PROVE  DOMAIN Landing(s) \subseteq White
<1>1. OkStep(s)
  BY ClientViewAssumption
<1>2. DOMAIN Landing(s) = {o.id : o \in s.others} \cup {s.id}
  BY DEF Landing, With
<1>3. \A o \in s.others : o.id \in White
  BY <1>1 DEF OkStep, SameColor
<1> QED BY <1>2, <1>3

LEMMA ActionsAreColoured ==
    ASSUME NEW o, Sound(o), Coloured(o), TokensInOrder(o),
           NEW token \in Nat, OptimismOK(o, token), NEW s \in Steps, s.id \in White,
           NEW victims, \A v \in victims : v.id \notin White,
           \A v, w \in victims : v = w, NEW may, NEW must
    PROVE  LET p == addOptimisticMove(o, token + 1, MovesOfStep(s), victims, may, must)
           IN  /\ Sound(p) /\ Coloured(p) /\ TokensInOrder(p)
               /\ \A a \in p.byToken : a \in o.byToken \/ a.token = token + 1
<1> DEFINE moves == MovesOfStep(s)
           moved == {MoveAction(o.nextId + i - 1, token + 1, moves[i], may) : i \in DOMAIN moves}
           taken == {CaptureAction(o.nextId + Len(moves), token + 1, v, must) : v \in victims}
           made == moved \cup taken
           count == Len(moves) + IF victims = {} THEN 0 ELSE 1
           p == addOptimisticMove(o, token + 1, moves, victims, may, must)
<1>1. /\ Len(moves) \in Nat /\ DOMAIN moves = 1 .. Len(moves)
      /\ \A i \in DOMAIN moves : moves[i].id \in White
  BY MovesOfStepFacts, StepsAreWhite
<1>2. o.nextId \in Nat
  BY DEF Sound
<1>3. p = [WithActions(o, made, count) EXCEPT !.touching = @ \cup TouchesOf(made)]
  BY DEF addOptimisticMove
<1> HIDE DEF moves
<1>4. ASSUME NEW a \in moved
      PROVE  /\ a.actionId \in Nat /\ o.nextId <= a.actionId
             /\ a.actionId < o.nextId + Len(moves) /\ a.token = token + 1
             /\ a.id \in White /\ a.type = "move"
             /\ \A b \in moved : a.actionId = b.actionId => a = b
  <2>1. PICK i \in DOMAIN moves : a = MoveAction(o.nextId + i - 1, token + 1, moves[i], may)
    OBVIOUS
  <2>2. /\ a.actionId = o.nextId + i - 1 /\ a.token = token + 1
        /\ a.id = moves[i].id /\ a.type = "move"
    BY <2>1 DEF MoveAction
  <2>3. ASSUME NEW b \in moved, a.actionId = b.actionId PROVE a = b
    <3>1. PICK j \in DOMAIN moves : b = MoveAction(o.nextId + j - 1, token + 1, moves[j], may)
      OBVIOUS
    <3>2. b.actionId = o.nextId + j - 1
      BY <3>1 DEF MoveAction
    <3>3. i = j
      BY <1>1, <1>2, <2>2, <2>3, <3>2
    <3> QED BY <2>1, <3>1, <3>3
  <2> QED BY <1>1, <1>2, <2>2, <2>3
<1>5. ASSUME NEW a \in taken
      PROVE  /\ a.actionId = o.nextId + Len(moves) /\ a.token = token + 1
             /\ a.type = "capture" /\ a.id \notin White /\ count = Len(moves) + 1
             /\ \A b \in taken : a = b
  <2>1. PICK v \in victims : a = CaptureAction(o.nextId + Len(moves), token + 1, v, must)
    OBVIOUS
  <2>2. /\ a.actionId = o.nextId + Len(moves) /\ a.token = token + 1
        /\ a.type = "capture" /\ a.id = v.id
    BY <2>1 DEF CaptureAction
  <2>3. count = Len(moves) + 1
    BY <2>1
  <2>4. \A b \in taken : a = b
    BY <2>1
  <2> QED BY <2>2, <2>3, <2>4
<1>6. count \in Nat /\ Len(moves) <= count
  BY <1>1
<1> HIDE DEF moved, taken, count
<1>7. Numbered(made, o.nextId, o.nextId + count)
  <2>1. ASSUME NEW a \in made
        PROVE  /\ a.actionId \in Nat /\ o.nextId <= a.actionId
               /\ a.actionId < o.nextId + count
    BY <1>1, <1>2, <1>4, <1>5, <1>6
  <2>2. ASSUME NEW a \in made, NEW b \in made, a.actionId = b.actionId PROVE a = b
    <3>1. a \in moved /\ b \in moved => a = b
      BY <1>4, <2>2
    <3>2. a \in taken /\ b \in taken => a = b
      BY <1>5
    <3>3. ~ (a \in moved /\ b \in taken) /\ ~ (a \in taken /\ b \in moved)
      BY <1>1, <1>2, <1>4, <1>5, <2>2
    <3> QED BY <3>1, <3>2, <3>3
  <2> HIDE DEF made
  <2> QED BY <2>1, <2>2 DEF Numbered
<1>8. /\ IsOptimism(p) /\ p.nextId = o.nextId + count
      /\ p.byPiece = o.byPiece \cup made /\ p.byToken = o.byToken \cup made
  <2> HIDE DEF made, p
  <2> DEFINE w == WithActions(o, made, count)
  <2>1. /\ IsOptimism(w) /\ w.nextId = o.nextId + count
        /\ w.byPiece = o.byPiece \cup made /\ w.byToken = o.byToken \cup made
    BY WithActionsFacts DEF Sound
  <2> HIDE DEF w
  <2>2. p = [w EXCEPT !.touching = @ \cup TouchesOf(made)]
    BY <1>3 DEF w
  <2> QED BY <2>1, <2>2 DEF IsOptimism
<1>9. \A a \in made : /\ a.token = token + 1 /\ o.nextId <= a.actionId /\ a.actionId \in Nat
                      /\ IF a.id \in White THEN a.type = "move" ELSE a.type = "capture"
  BY <1>1, <1>2, <1>4, <1>5
<1> HIDE DEF made, p
<1>10. Sound(p)
  BY <1>6, <1>7, <1>8, AdditionIsSound
<1>11. Coloured(p)
  BY <1>8, <1>9 DEF Coloured
<1>12. ASSUME NEW a \in p.byToken, NEW b \in p.byToken, a.type = "move", b.type = "move",
              a.actionId < b.actionId
       PROVE  a.token <= b.token
  <2>1. \A c \in o.byToken : /\ c.actionId \in Nat /\ c.actionId < o.nextId
                             /\ c.token \in Nat /\ c.token <= token
    BY DEF OptimismOK
  <2>2. CASE a \in o.byToken /\ b \in o.byToken
    BY <1>12, <2>2 DEF TokensInOrder
  <2>3. CASE b \in made
    BY <1>8, <1>9, <2>1, <2>3
  <2>4. CASE a \in made /\ b \in o.byToken
    BY <1>2, <1>9, <1>12, <2>1, <2>4
  <2> QED BY <1>8, <2>2, <2>3, <2>4
<1>13. TokensInOrder(p)
  BY <1>12 DEF TokensInOrder
<1>14. \A a \in p.byToken : a \in o.byToken \/ a.token = token + 1
  BY <1>8, <1>9
<1> QED BY <1>10, <1>11, <1>13, <1>14 DEF p, moves

LEMMA SubmitGuess ==
    ASSUME GuessInv, submitMove
    PROVE  GuessInv'
<1> DEFINE Made(f) ==
        AddOptimisticMove(handler, moveToken + 1, MovesOfStep(f.step), f.victims,
                          f.step.take # "never", f.step.take = "must").handler
           Asked(f) == [step |-> f.step, token |-> moveToken + 1, alive |-> TRUE]
           q == handler.optimistic
           p == handler'.optimistic
           next == moveToken + 1
<1>1. PICK f \in offer :
         \/ Up /\ requests' = Append(requests, Asked(f)) /\ handler' = Made(f)
         \/ requests' = requests /\ handler' = handler
  BY Zenon DEF submitMove, MovesOfStep
<1>2. ViewInv' /\ offer' = {} /\ link' = link
  BY SubmitMoveKeeps DEF GuessInv, submitMove
<1>3. CASE requests' = requests /\ handler' = handler
  BY <1>2, <1>3 DEF GuessInv, OfferGood
<1>4. CASE Up /\ requests' = Append(requests, Asked(f)) /\ handler' = Made(f)
  <2>1. /\ moveToken \in Nat /\ f.step \in Steps /\ IsHandler(handler)
        /\ OptimismOK(q, moveToken)
    BY DEF GuessInv, ViewInv, HandlerOK
  <2>2. /\ Sound(q) /\ Coloured(q) /\ TokensInOrder(q)
        /\ \A a \in q.byToken : Awaited(Up, requests, link, a.token)
    BY DEF GuessInv, Guessing, Up
  <2>3. /\ f.step.id \in White /\ \A v \in f.victims : v.id \notin White
        /\ \A v, w \in f.victims : v = w
    BY DEF GuessInv, OfferGood
  <2>4. /\ handler'.connected = handler.connected
        /\ Sound(p) /\ Coloured(p) /\ TokensInOrder(p)
        /\ \A a \in p.byToken : a \in q.byToken \/ a.token = next
    <3> DEFINE standing == {v \in f.victims : StillThere(handler, v)}
               may == f.step.take # "never"
               must == f.step.take = "must"
               more == addOptimisticMove(q, moveToken + 1, MovesOfStep(f.step), standing, may, must)
    <3>1. (handler' = handler) \/ (handler' = [handler EXCEPT !.optimistic = more])
      BY <1>4, Zenon DEF AddOptimisticMove, Result
    <3>2. (\A v \in standing : v.id \notin White) /\ (\A v, w \in standing : v = w)
      BY <2>3
    <3> HIDE DEF standing, may, must
    <3>3. /\ Sound(more) /\ Coloured(more) /\ TokensInOrder(more)
          /\ \A a \in more.byToken : a \in q.byToken \/ a.token = moveToken + 1
      <4> HIDE DEF q
      <4>1. /\ moveToken \in Nat /\ f.step \in Steps /\ f.step.id \in White
            /\ OptimismOK(q, moveToken) /\ Sound(q) /\ Coloured(q) /\ TokensInOrder(q)
        BY <2>1, <2>2, <2>3
      <4> QED BY ONLY <4>1, <3>2, ActionsAreColoured
    <3> HIDE DEF more
    <3>4. CASE handler' = handler
      BY <2>2, <3>4
    <3>5. CASE handler' = [handler EXCEPT !.optimistic = more]
      <4>1. p = more /\ handler'.connected = handler.connected
        BY <2>1, <3>5 DEF IsHandler
      <4> QED BY <3>3, <4>1
    <3> QED BY <3>1, <3>4, <3>5
  <2>5. /\ requests \in Seq(Requests) /\ link \in Seq(Messages) /\ InOrder(requests, link)
        /\ \A i \in DOMAIN requests : requests[i].token <= moveToken
        /\ \A i \in DOMAIN link : link[i].type = "valid" => link[i].token <= moveToken
    BY DEF GuessInv, ViewInv, RequestsGood, LinkGood, MessageOK
  <2>6. /\ \A i \in DOMAIN requests : requests[i].token < next
        /\ \A i \in DOMAIN link : link[i].type = "valid" => link[i].token < next
    <3>1. ASSUME NEW i \in DOMAIN requests PROVE requests[i].token \in Nat
      <4>1. requests[i] \in Requests
        BY <2>5, LenProperties, ElementOfSeq
      <4> QED BY <4>1 DEF Requests
    <3>2. ASSUME NEW i \in DOMAIN link, link[i].type = "valid" PROVE link[i].token \in Nat
      <4>1. link[i] \in Messages
        BY <2>5, LenProperties, ElementOfSeq
      <4> QED BY <3>2, <4>1 DEF Messages
    <3> QED BY <2>1, <2>5, <3>1, <3>2
  <2> DEFINE e == Asked(f)
  <2>7. e.alive /\ e.token = next /\ e \in Requests
    BY <2>1 DEF Requests
  <2>8. requests' = Append(requests, e)
    BY <1>4
  <2> HIDE DEF e, next
  <2>9. /\ InOrder(requests', link)
        /\ \A up, t : Awaited(up, requests, link, t) => Awaited(up, requests', link, t)
        /\ Awaited(TRUE, requests', link, e.token)
    BY <2>5, <2>6, <2>7, <2>8, RequestMade
  <2>10. \A a \in p.byToken : Awaited(handler'.connected, requests', link', a.token)
    BY <1>2, <1>4, <2>2, <2>4, <2>7, <2>9 DEF Up
  <2> QED BY <1>2, <2>4, <2>9, <2>10 DEF GuessInv, Guessing, OfferGood
<1> QED BY <1>1, <1>3, <1>4

(* A square is offered with the piece that is shown there, if any.         *)
LEMMA OneAtMost ==
    ASSUME NEW S, IsFiniteSet(S), Cardinality(S) <= 1
    PROVE  \A v, w \in S : v = w
<1>1. SUFFICES ASSUME NEW v \in S, NEW w \in S, v # w PROVE FALSE
  OBVIOUS
<1>2. /\ IsFiniteSet(S \ {v}) /\ Cardinality(S \ {v}) = Cardinality(S) - 1
  BY FS_RemoveElement
<1>3. Cardinality(S \ {v}) \in Nat /\ Cardinality(S) \in Nat
  BY <1>2, FS_CardinalityType
<1>4. Cardinality(S \ {v}) = 0
  BY <1>2, <1>3
<1>5. S \ {v} = {}
  BY <1>2, <1>4, FS_EmptySet
<1> QED BY <1>1, <1>5

LEMMA SelectGuess ==
    ASSUME GuessInv, NEW step \in Steps, Select(step)
    PROVE  GuessInv'
<1>1. ViewInv'
  BY SelectKeeps DEF GuessInv
<1>2. UNCHANGED <<requests, link, handler>>
  BY DEF Select
<1>3. PICK there \in {Located(handler, step.to)} \cup {{v} : v \in Located(handler, step.to)} :
         /\ Cardinality(there) <= 1
         /\ Fits(step, there)
         /\ offer' = {[step |-> step, victims |-> {[id |-> v, at |-> step.to] : v \in there}]}
  BY DEF Select
<1>4. there \in SUBSET Ids
  <2>1. Located(handler, step.to) \subseteq DOMAIN handler.pieces
    BY DEF Located
  <2>2. DOMAIN handler.pieces \subseteq Ids
    BY DEF GuessInv, ViewInv, HandlerOK
  <2> QED BY <2>1, <2>2
<1>5. \A v, w \in there : v = w
  BY <1>3, <1>4, FiniteIds, OneAtMost
<1>6. step.id \in White
  BY DEF Select, Offers
<1>7. step.take \in {"may", "must", "never"}
  BY ClientViewAssumption DEF OkStep
<1>8. \A v \in there : v \notin White
  <2>1. \A v \in there : ~SameColor(v, step.id)
    BY <1>3, <1>5, <1>7 DEF Fits
  <2> QED BY <1>6, <2>1 DEF SameColor
<1>9. OfferGood(offer')
  BY <1>3, <1>5, <1>6, <1>8 DEF OfferGood
<1> QED BY <1>1, <1>2, <1>9 DEF GuessInv

-----------------------------------------------------------------------------
(* The steps that change what is shown.                                    *)
LEMMA DeliverShows ==
    ASSUME GuessInv, Deliver
    PROVE  /\ MessageShows(handler, handler') /\ handler'.connected = handler.connected
           /\ IsAnswer(Head(link)) =>
                \A a \in handler'.optimistic.byToken : a.token # Head(link).token
<1> DEFINE m == Head(link)
           h == handler
           o == handler.optimistic
<1>1. /\ HandlerOK(h, moveToken) /\ PiecesTrue(history, h) /\ IsHandler(h)
      /\ MessageOK(history, o, moveToken, m)
  BY LinkTail DEF GuessInv, ViewInv, Deliver, HandlerOK
<1>2. m \in Messages /\ MessageTrue(history, o, m)
  BY <1>1 DEF MessageOK
<1>3. /\ Sound(o) /\ Coloured(o) /\ TokensInOrder(o)
      /\ \A a \in o.byToken : Awaited(Up, requests, link, a.token)
  BY DEF GuessInv, Guessing, Up
<1>4. link \in Seq(Messages) /\ link # <<>> /\ InOrder(requests, link)
  BY DEF GuessInv, ViewInv, LinkGood, Deliver
<1>5. CASE m.type = "valid"
  <2>1. Handle(confirmOptimisticMove(h, m.token, m.seqnum, m.captured), FALSE)
    BY <1>5 DEF Deliver
  <2>2. m.seqnum \in Nat /\ m.token \in Nat
    BY <1>2, <1>5 DEF Messages
  <2>3. \A a \in MovesOf(o, m.token) : Stood(history, m.seqnum, a.id, a.at)
    BY <1>2, <1>5 DEF MessageTrue, Answers
  <2>4. handler' = confirmOptimisticMove(h, m.token, m.seqnum, m.captured).handler
    BY <2>1, HandleFacts
  <2>5. \A a \in o.byToken : a.token = m.token \/ m.token < a.token
    BY <1>3, <1>4, <1>5, MessageTaken
  <2>6. \A a \in o.byToken : a.token \in Nat
    BY <1>1 DEF HandlerOK, OptimismOK
  <2>7. \A a \in o.byToken : a.token \in Nat /\ a.token >= m.token
    BY <2>2, <2>5, <2>6
  <2> HIDE DEF m, h
  <2>8. handler'.connected = h.connected
    BY <1>1, <2>2, <2>3, <2>4, ConfirmationFacts DEF h
  <2>9. MessageShows(h, handler') /\ \A a \in handler'.optimistic.byToken : a.token # m.token
    BY <1>1, <1>3, <2>2, <2>4, <2>7, ConfirmationShows DEF h
  <2> QED BY <2>8, <2>9 DEF h, m
<1>6. CASE m.type = "invalid"
  <2>1. Handle(rejectOptimisticMove(h, m.token), FALSE)
    BY <1>6 DEF Deliver
  <2>2. handler' = rejectOptimisticMove(h, m.token).handler
    BY <2>1, HandleFacts
  <2> HIDE DEF m, h
  <2>3. handler'.connected = h.connected
    BY <1>1, <2>2, RejectionFacts
  <2>4. MessageShows(h, handler') /\ \A a \in handler'.optimistic.byToken : a.token # m.token
    BY <1>1, <1>3, <2>2, RejectionShows DEF h
  <2> QED BY <2>3, <2>4 DEF h, m
<1>7. CASE m.type = "moves"
  <2>1. Handle(handleMoves(h, m.moves, m.captures), TRUE)
    BY <1>7 DEF Deliver
  <2>2. /\ m.moves \in Seq(Moves) /\ m.captures \in Seq(Captures) /\ ~IsAnswer(m)
    BY <1>2, <1>7 DEF Messages, IsAnswer
  <2>3. \A i \in DOMAIN m.moves : MoveTrue(history, m.moves[i])
    BY <1>2, <1>7 DEF MessageTrue
  <2>4. IsList(m.moves) /\ IsList(m.captures)
    BY <2>2 DEF IsList
  <2>5. handler' = handleMoves(h, m.moves, m.captures).handler
    BY <2>1, HandleFacts
  <2> HIDE DEF m, h
  <2>6. handler'.connected = h.connected
    BY <1>1, <2>2, <2>3, <2>5, HandleMovesFacts
  <2>7. MessageShows(h, handler')
    BY <1>1, <1>3, <2>4, <2>5, HandleMovesShows DEF h
  <2> QED BY <2>2, <2>6, <2>7 DEF h, m
<1>8. CASE m.type = "bulk"
  <2>1. Handle(handleBulkCapture(h, m.ids, m.seqnum), TRUE)
    BY <1>8 DEF Deliver
  <2>2. m.ids \in SUBSET Ids /\ m.seqnum \in Nat /\ ~IsAnswer(m)
    BY <1>2, <1>8 DEF Messages, IsAnswer
  <2>3. handler' = handleBulkCapture(h, m.ids, m.seqnum).handler
    BY <2>1, HandleFacts
  <2> HIDE DEF m, h
  <2>4. handler'.connected = h.connected
    BY <1>1, <2>2, <2>3, HandleBulkCaptureFacts
  <2>5. MessageShows(h, handler')
    BY <1>1, <1>3, <2>2, <2>3, HandleBulkCaptureShows DEF h
  <2> QED BY <2>2, <2>4, <2>5 DEF h, m
<1>9. CASE m.type = "snapshot"
  <2>1. Handle(handleSnapshot(h, m.snapshot), TRUE)
    BY <1>9 DEF Deliver
  <2>2. m.snapshot \in Snapshots /\ ~IsAnswer(m)
    BY <1>2, <1>9 DEF Messages, IsAnswer
  <2>3. SnapshotTrue(history, m.snapshot)
    BY <1>2, <1>9 DEF MessageTrue
  <2>4. handler' = handleSnapshot(h, m.snapshot).handler
    BY <2>1, HandleFacts
  <2> HIDE DEF m, h
  <2>5. handler'.connected = h.connected
    BY <1>1, <2>2, <2>3, <2>4, HandleSnapshotFacts
  <2>6. MessageShows(h, handler')
    BY <1>1, <1>3, <2>2, <2>3, <2>4, HandleSnapshotShows DEF h
  <2> QED BY <2>2, <2>5, <2>6 DEF h, m
<1> QED BY <1>2, <1>5, <1>6, <1>7, <1>8, <1>9 DEF Messages

LEMMA DeliverGuess ==
    ASSUME GuessInv, Deliver
    PROVE  GuessInv'
<1> DEFINE o == handler.optimistic
           p == handler'.optimistic
<1>1. ViewInv' /\ offer' \subseteq offer
  BY DeliverKeeps, DeliverFacts DEF GuessInv
<1>2. link # <<>> /\ link' = Tail(link) /\ requests' = requests
  BY DEF Deliver, serverVars
<1>3. /\ ShowsLess(o, p) /\ Coloured(p) /\ handler'.connected = handler.connected
      /\ IsAnswer(Head(link)) => \A a \in p.byToken : a.token # Head(link).token
  BY DeliverShows DEF MessageShows
<1>4. /\ link \in Seq(Messages) /\ InOrder(requests, link) /\ TokensInOrder(o)
      /\ \A a \in o.byToken : Awaited(Up, requests, link, a.token)
  BY DEF GuessInv, Guessing, ViewInv, LinkGood, Up
<1>5. /\ InOrder(requests, link')
      /\ \A up, t : /\ Awaited(up, requests, link, t)
                    /\ ~ (IsAnswer(Head(link)) /\ Head(link).token = t)
                    => Awaited(up, requests, link', t)
  BY <1>2, <1>4, MessageTaken
<1> HIDE DEF o, p
<1>6. TokensInOrder(p)
  BY <1>3, <1>4 DEF ShowsLess, TokensInOrder
<1>7. ASSUME NEW a \in p.byToken PROVE Awaited(Up, requests, link', a.token)
  <2>1. Awaited(Up, requests, link, a.token)
    BY <1>3, <1>4 DEF ShowsLess
  <2> QED BY <1>3, <1>5, <2>1
<1>8. Guessing(handler', requests', link')
  BY <1>2, <1>3, <1>6, <1>7 DEF Guessing, ShowsLess, p, Up
<1> QED BY <1>1, <1>2, <1>5, <1>8 DEF GuessInv, OfferGood

LEMMA DisconnectGuess ==
    ASSUME GuessInv, Disconnect
    PROVE  GuessInv'
<1> DEFINE p == handler'.optimistic
           none == <<>>
<1>1. ViewInv' /\ offer' \subseteq offer
  BY DisconnectKeeps, ConnectionSteps DEF GuessInv
<1>2. /\ Up /\ link' = none
      /\ handler' = setConnected(handler, FALSE).handler
  BY HandleFacts DEF Disconnect
<1>3. PICK n \in 0 .. Len(requests) :
         requests' = [i \in 1 .. n |-> [requests[i] EXCEPT !.alive = FALSE]]
  BY DEF Disconnect
<1>4. /\ requests \in Seq(Requests) /\ InOrder(requests, link)
      /\ IsHandler(handler) /\ Sound(handler.optimistic)
  BY DEF GuessInv, Guessing, ViewInv, RequestsGood, HandlerOK
<1>5. InOrder(requests', link')
  BY <1>2, <1>3, <1>4, ConnectionBroke
<1>6. Sound(p) /\ p.byToken = {}
  BY <1>2, <1>4, ConnectionShows DEF Up
<1>7. Guessing(handler', requests', link')
  BY <1>6 DEF Guessing, Coloured, TokensInOrder, Sound
<1> QED BY <1>1, <1>5, <1>7 DEF GuessInv, OfferGood

LEMMA ReconnectGuess ==
    ASSUME GuessInv, Reconnect
    PROVE  GuessInv'
<1>1. ViewInv' /\ offer' \subseteq offer
  BY ReconnectKeeps, ConnectionSteps DEF GuessInv
<1>2. /\ ~Up /\ requests' = requests /\ link' = link
      /\ handler' = setConnected(handler, TRUE).handler
  BY HandleFacts DEF Reconnect
<1>3. /\ IsHandler(handler) /\ Sound(handler.optimistic)
      /\ Guessing(handler, requests, link)
  BY DEF GuessInv, Guessing, ViewInv, HandlerOK
<1>4. handler'.optimistic = handler.optimistic
  BY <1>2, <1>3, ConnectionShows DEF Up
<1>5. \A t : Awaited(handler.connected, requests, link, t) =>
             Awaited(handler'.connected, requests, link, t)
  BY <1>2 DEF Awaited, Up
<1>6. Guessing(handler', requests', link')
  BY <1>2, <1>3, <1>4, <1>5 DEF Guessing
<1> QED BY <1>1, <1>2, <1>6 DEF GuessInv, OfferGood

LEMMA GuessKeeps ==
    ASSUME GuessInv, [Next]_vars
    PROVE  GuessInv'
<1>1. CASE ServeRequest
  BY <1>1, ServeRequestGuess
<1>2. CASE \E i \in DOMAIN requests : RejectRequest(i)
  BY <1>2, RejectRequestGuess
<1>3. CASE \/ \E step \in Steps : MoveOfAnother(step)
           \/ \E ids \in BulkVictims : BulkCapture(ids)
           \/ TakeSnapshot \/ UNCHANGED vars
  <2>1. UNCHANGED <<requests, link, handler, offer>>
    BY <1>3 DEF MoveOfAnother, BulkCapture, TakeSnapshot, vars
  <2>2. ViewInv'
    BY NextKeeps DEF GuessInv
  <2> QED BY <2>1, <2>2, QuietKeeps
<1>4. CASE \E b \in pending : Broadcast(b)
  BY <1>4, BroadcastGuess
<1>5. CASE MaybeSendMoveUpdates
  BY <1>5, MaybeSendMoveUpdatesGuess
<1>6. CASE SendSnapshot
  BY <1>6, SendSnapshotGuess
<1>7. CASE \E step \in Steps : Select(step)
  BY <1>7, SelectGuess
<1>8. CASE submitMove
  BY <1>8, SubmitGuess
<1>9. CASE Deliver
  BY <1>9, DeliverGuess
<1>10. CASE Disconnect
  BY <1>10, DisconnectGuess
<1>11. CASE Reconnect
  BY <1>11, ReconnectGuess
<1> QED BY <1>1, <1>2, <1>3, <1>4, <1>5, <1>6, <1>7, <1>8, <1>9, <1>10, <1>11 DEF Next

-----------------------------------------------------------------------------
(* No message that brings a piece to a square leaves another one shown     *)
(* there by an optimistic move, unless two were shown on one square before *)
(* (MessagesLeaveNoClash): the loop of processGroundTruthAnimations takes  *)
(* back what does not fit, or enters a capture that goes only with the     *)
(* move; and the answers, which do not go through that loop, come in an    *)
(* order in which they need not.                                           *)
THEOREM NothingBroughtIsUnderAGuess == Spec => MessagesLeaveNoClash
<1> DEFINE Clear ==
        MessageArrives /\ GuessesApart(handler)
        => \A id, other \in Ids : Brought(id) => ~UnderAGuess(handler', id, other)
<1>1. Init => GuessInv
  BY InitGuess
<1>2. GuessInv /\ [Next]_vars => GuessInv'
  BY GuessKeeps
<1>3. ASSUME GuessInv, [Next]_vars PROVE [Clear]_handler
  <2>1. CASE Deliver
    <3>1. ASSUME GuessesApart(handler), NEW id \in Ids, NEW other \in Ids, Brought(id)
          PROVE  ~UnderAGuess(handler', id, other)
      <4>1. MessageShows(handler, handler')
        BY <1>3, <2>1, DeliverShows
      <4>2. GuessesDiffer(handler.optimistic)
        BY <3>1, ApartMeansDifferent
      <4>3. Elsewhere(handler, handler', id)
        BY <3>1 DEF Brought, Elsewhere
      <4> QED BY <4>1, <4>2, <4>3, NothingUnder
    <3> QED BY <3>1
  <2>2. CASE handler'.pieces = handler.pieces
    BY <2>2 DEF Brought, Knows
  <2>3. CASE Disconnect \/ Reconnect
    <3>1. PICK up \in BOOLEAN : Handle(setConnected(handler, up), FALSE)
      BY <2>3 DEF Disconnect, Reconnect
    <3>2. handler' = setConnected(handler, up).handler
      BY <3>1, HandleFacts
    <3>3. IsHandler(handler)
      BY <1>3 DEF GuessInv, ViewInv, HandlerOK
    <3>4. handler'.pieces = handler.pieces
      BY <3>2, <3>3 DEF setConnected, Result, IsHandler
    <3> QED BY <2>2, <3>4
  <2>4. CASE submitMove
    <3>1. handler'.pieces = handler.pieces
      BY <1>3, <2>4, SubmitFacts DEF GuessInv
    <3> QED BY <2>2, <3>1
  <2>5. CASE ~ (Deliver \/ Disconnect \/ Reconnect \/ submitMove)
    BY <1>3, <2>5 DEF Next, vars, ServeRequest, RejectRequest, MoveOfAnother, BulkCapture,
       Broadcast, MaybeSendMoveUpdates, TakeSnapshot, SendSnapshot, Select
  <2> QED BY <2>1, <2>3, <2>4, <2>5
<1>4. GuessInv /\ [Next]_vars => [Clear]_handler
  BY <1>3
<1> QED BY <1>1, <1>2, <1>4, PTL DEF Spec, MessagesLeaveNoClash
=============================================================================
