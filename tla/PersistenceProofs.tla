------------------------- MODULE PersistenceProofs -------------------------
(***************************************************************************)
(* Theorems about Persistence, for every set of requests, every validity   *)
(* rule, every capacity and every bound that PersistenceAssumption allows. *)
(***************************************************************************)
EXTENDS Persistence, SequenceTheorems, TLAPS

-----------------------------------------------------------------------------
(* Sequences *)

(* A sequence that lost a suffix.                                          *)
PrefixOf(a, b) == \E n \in 0 .. Len(b) : a = SubSeq(b, 1, n)

LEMMA PrefixFacts ==
    ASSUME NEW S, NEW b \in Seq(S), NEW n \in 0 .. Len(b)
    PROVE  /\ SubSeq(b, 1, n) \in Seq(S)
           /\ Len(SubSeq(b, 1, n)) = n
           /\ \A i \in 1 .. n : SubSeq(b, 1, n)[i] = b[i]
<1>1. \A i \in 1 .. n : b[i] \in S
  BY ElementOfSeq
<1> QED BY <1>1, SubSeqProperties

LEMMA PrefixOfPrefix ==
    ASSUME NEW S, NEW b \in Seq(S), NEW n \in 0 .. Len(b), NEW m \in 0 .. n
    PROVE  SubSeq(SubSeq(b, 1, n), 1, m) = SubSeq(b, 1, m)
<1> DEFINE a == SubSeq(b, 1, n)
<1>1. a \in Seq(S) /\ Len(a) = n /\ \A i \in 1 .. n : a[i] = b[i]
  BY PrefixFacts
<1>2. m \in 0 .. Len(b)
  BY LenProperties
<1>3. /\ SubSeq(b, 1, m) \in Seq(S) /\ Len(SubSeq(b, 1, m)) = m
      /\ \A i \in 1 .. m : SubSeq(b, 1, m)[i] = b[i]
  BY <1>2, PrefixFacts
<1> HIDE DEF a
<1>4. /\ SubSeq(a, 1, m) \in Seq(S) /\ Len(SubSeq(a, 1, m)) = m
      /\ \A i \in 1 .. m : SubSeq(a, 1, m)[i] = a[i]
  BY <1>1, PrefixFacts
<1>5. SubSeq(a, 1, m) = SubSeq(b, 1, m)
  BY <1>1, <1>3, <1>4, SeqEqual
<1> QED BY <1>5 DEF a

LEMMA PrefixOfAppend ==
    ASSUME NEW S, NEW b \in Seq(S), NEW r \in S, NEW n \in 0 .. Len(b)
    PROVE  SubSeq(Append(b, r), 1, n) = SubSeq(b, 1, n)
<1> DEFINE a == Append(b, r)
<1>1. a \in Seq(S) /\ Len(a) = Len(b) + 1 /\ \A i \in 1 .. Len(b) : a[i] = b[i]
  BY AppendProperties
<1> HIDE DEF a
<1>2. /\ SubSeq(b, 1, n) \in Seq(S) /\ Len(SubSeq(b, 1, n)) = n
      /\ \A i \in 1 .. n : SubSeq(b, 1, n)[i] = b[i]
  BY PrefixFacts
<1>3. n \in 0 .. Len(a)
  BY <1>1, LenProperties
<1>4. /\ SubSeq(a, 1, n) \in Seq(S) /\ Len(SubSeq(a, 1, n)) = n
      /\ \A i \in 1 .. n : SubSeq(a, 1, n)[i] = a[i]
  BY <1>1, <1>3, PrefixFacts
<1>5. SubSeq(a, 1, n) = SubSeq(b, 1, n)
  BY <1>1, <1>2, <1>4, SeqEqual, LenProperties
<1> QED BY <1>5 DEF a

LEMMA PrefixKept ==
    ASSUME NEW S, NEW b \in Seq(S), NEW r \in S, NEW a, PrefixOf(a, b)
    PROVE  PrefixOf(a, Append(b, r))
<1>1. PICK n \in 0 .. Len(b) : a = SubSeq(b, 1, n)
  BY DEF PrefixOf
<1>2. a = SubSeq(Append(b, r), 1, n) /\ n \in 0 .. Len(Append(b, r))
  BY <1>1, PrefixOfAppend, AppendProperties, LenProperties
<1> QED BY <1>2 DEF PrefixOf

(* The first part of a concatenation is a prefix of it.                    *)
LEMMA PrefixOfConcat ==
    ASSUME NEW S, NEW s \in Seq(S), NEW t \in Seq(S)
    PROVE  PrefixOf(s, s \o t)
<1> DEFINE b == s \o t
           n == Len(s)
<1>1. /\ b \in Seq(S) /\ Len(b) = n + Len(t)
      /\ \A i \in 1 .. n : b[i] = s[i]
  BY ConcatProperties, LenProperties
<1>2. n \in 0 .. Len(b)
  BY <1>1, LenProperties
<1> HIDE DEF b
<1>3. /\ SubSeq(b, 1, n) \in Seq(S) /\ Len(SubSeq(b, 1, n)) = n
      /\ \A i \in 1 .. n : SubSeq(b, 1, n)[i] = b[i]
  BY <1>1, <1>2, PrefixFacts
<1>4. SubSeq(b, 1, n) = s
  BY <1>1, <1>3, SeqEqual
<1> QED BY <1>2, <1>4 DEF PrefixOf, b

(* Taking the head of a sequence and appending it to what precedes it      *)
(* moves the border and nothing else.                                      *)
LEMMA MoveTheBorder ==
    ASSUME NEW S, NEW s \in Seq(S), NEW t \in Seq(S), t # <<>>
    PROVE  Append(s, Head(t)) \o Tail(t) = s \o t
<1>1. Head(t) \in S /\ Tail(t) \in Seq(S)
  BY HeadTailProperties
<1>2. Head(t) = t[1] /\ Len(t) \in Nat \ {0}
  BY EmptySeq
<1>3. SubSeq(t, 1, Len(t)) = <<t[1]>> \o SubSeq(t, 1 + 1, Len(t))
  BY <1>2, SubSeqRecursiveFirst
<1>4. t = <<Head(t)>> \o Tail(t)
  BY <1>2, <1>3, SubSeqFull, TailIsSubSeq
<1>5. <<Head(t)>> \in Seq(S)
  BY <1>1
<1>6. Append(s, Head(t)) = s \o <<Head(t)>>
  BY <1>1, AppendIsConcat
<1>7. (s \o <<Head(t)>>) \o Tail(t) = s \o (<<Head(t)>> \o Tail(t))
  BY <1>1, <1>5, ConcatAssociative
<1> QED BY <1>4, <1>6, <1>7

-----------------------------------------------------------------------------
(* Boards that the game can reach *)

(* Every request on the board was accepted by what the board was then.     *)
Reachable(board) ==
    /\ board \in Seq(Requests)
    /\ \A i \in 1 .. Len(board) : Accepts(SubSeq(board, 1, i - 1), board[i])

LEMMA NewGameIsReachable == Reachable(<<>>)
BY EmptySeq DEF Reachable

LEMMA ReachableAppend ==
    ASSUME NEW b, Reachable(b), NEW r \in Requests, Accepts(b, r)
    PROVE  Reachable(Append(b, r))
<1> DEFINE a == Append(b, r)
<1>1. /\ b \in Seq(Requests) /\ Len(b) \in Nat
      /\ a \in Seq(Requests) /\ Len(a) = Len(b) + 1
      /\ \A i \in 1 .. Len(b) : a[i] = b[i]
      /\ a[Len(b) + 1] = r
  BY AppendProperties, LenProperties DEF Reachable
<1> SUFFICES ASSUME NEW i \in 1 .. Len(a) PROVE Accepts(SubSeq(a, 1, i - 1), a[i])
  BY <1>1 DEF Reachable
<1>2. i - 1 \in 0 .. Len(b)
  BY <1>1
<1>3. SubSeq(a, 1, i - 1) = SubSeq(b, 1, i - 1)
  BY <1>1, <1>2, PrefixOfAppend
<1> HIDE DEF a
<1>4. CASE i <= Len(b)
  <2>1. i \in 1 .. Len(b) /\ a[i] = b[i]
    BY <1>1, <1>4
  <2>2. Accepts(SubSeq(b, 1, i - 1), b[i])
    BY <2>1 DEF Reachable
  <2> QED BY <2>1, <2>2, <1>3
<1>5. CASE i = Len(b) + 1
  <2>1. SubSeq(b, 1, i - 1) = b /\ a[i] = r
    BY <1>1, <1>5, SubSeqFull
  <2> QED BY <2>1, <1>3
<1> QED BY <1>1, <1>4, <1>5

LEMMA ReachablePrefix ==
    ASSUME NEW b, Reachable(b), NEW a, PrefixOf(a, b)
    PROVE  Reachable(a)
<1>1. PICK n \in 0 .. Len(b) : a = SubSeq(b, 1, n)
  BY DEF PrefixOf
<1>2. /\ b \in Seq(Requests) /\ Len(b) \in Nat
      /\ a \in Seq(Requests) /\ Len(a) = n
      /\ \A i \in 1 .. n : a[i] = b[i]
  BY <1>1, PrefixFacts, LenProperties DEF Reachable
<1> SUFFICES ASSUME NEW i \in 1 .. n PROVE Accepts(SubSeq(a, 1, i - 1), a[i])
  BY <1>2 DEF Reachable
<1>3. SubSeq(a, 1, i - 1) = SubSeq(b, 1, i - 1)
  BY <1>1, <1>2, PrefixOfPrefix
<1>4. Accepts(SubSeq(b, 1, i - 1), b[i])
  BY <1>2 DEF Reachable
<1> QED BY <1>2, <1>3, <1>4

(* The next request of a reachable board is one that its prefix accepts.   *)
LEMMA ReachableAccepts ==
    ASSUME NEW s \in Seq(Requests), NEW t \in Seq(Requests), t # <<>>,
           Reachable(s \o t)
    PROVE  Accepts(s, Head(t))
<1> DEFINE b == s \o t
           n == Len(s)
<1>1. /\ b \in Seq(Requests) /\ n \in Nat /\ Len(t) \in Nat \ {0}
      /\ Len(b) = n + Len(t)
      /\ \A i \in 1 .. n : b[i] = s[i]
      /\ b[n + 1] = t[1] /\ Head(t) = t[1]
  BY ConcatProperties, LenProperties, EmptySeq
<1>2. n + 1 \in 1 .. Len(b) /\ n \in 0 .. Len(b)
  BY <1>1
<1> HIDE DEF b
<1>3. /\ SubSeq(b, 1, n) \in Seq(Requests) /\ Len(SubSeq(b, 1, n)) = n
      /\ \A i \in 1 .. n : SubSeq(b, 1, n)[i] = b[i]
  BY <1>1, <1>2, PrefixFacts
<1>4. SubSeq(b, 1, n) = s
  BY <1>1, <1>3, SeqEqual
<1>5. Accepts(SubSeq(b, 1, (n + 1) - 1), b[n + 1])
  BY <1>2 DEF Reachable, b
<1>6. (n + 1) - 1 = n
  BY <1>1
<1> QED BY <1>1, <1>4, <1>5, <1>6
-----------------------------------------------------------------------------
(* The inductive invariant *)

(* Reachability of the live board is what NeverPanics needs: the oldest    *)
(* request in the channel was accepted by exactly the board that the       *)
(* second board is by the time it gets there.                              *)
BoardsInv ==
    /\ ReplicaTrailsLive
    /\ NeverPanics
    /\ Reachable(live)
    /\ held = <<>> \/ \E r \in Requests : held = <<r>>

Savers == [id : Nat, board : Seq(Requests), ts : Nat]

FilesInv ==
    /\ savers \subseteq Savers
    /\ \A s \in savers : PrefixOf(s.board, live)
    /\ \A f \in files : Reachable(f.board)

(* What a shutdown has waited for when it gets to a phase.                 *)
ShutdownInv ==
    /\ ~mover => held = <<>>
    /\ phase \notin {"up", "jobs"} => ~mover
    /\ phase \in {"flush", "save", "closing"} => ~looper
    /\ phase \in {"save", "closing"} => queue = <<>> /\ pending = <<>>
    /\ \A s \in savers : s.id = final =>
         phase \in {"save", "closing"} /\ s.board = live
    /\ ~Running => savers = {}

IInv == TypeOK /\ BoardsInv /\ FilesInv /\ ShutdownInv

(* A channel has room for something, and an empty one holds nothing.       *)
LEMMA EmptyFits == Len(<<>>) <= QueueCapacity /\ <<>> \in Seq(Requests)
<1>1. Len(<<>>) = 0 /\ <<>> \in Seq(Requests)
  BY EmptySeq
<1>2. QueueCapacity \in Nat
  BY PersistenceAssumption
<1> HIDE DEF Requests
<1> QED BY <1>1, <1>2

LEMMA InitInv == Init => IInv
<1> SUFFICES ASSUME Init PROVE IInv
  OBVIOUS
<1> USE DEF Init
<1>1. TypeOK
  BY EmptyFits DEF TypeOK, Phases
<1>2. BoardsInv
  <2>1. <<>> = (<<>> \o <<>>) \o <<>>
    BY EmptySeq, ConcatEmptySeq
  <2> QED BY <2>1, NewGameIsReachable DEF BoardsInv, ReplicaTrailsLive, NeverPanics
<1>3. FilesInv
  BY NewGameIsReachable DEF FilesInv
<1>4. ShutdownInv
  BY DEF ShutdownInv, Running
<1> QED BY <1>1, <1>2, <1>3, <1>4 DEF IInv

LEMMA ApplyLiveInv ==
    ASSUME IInv, NEW r \in Requests, ApplyLive(r)
    PROVE  IInv'
<1> USE DEF IInv, ApplyLive, ToReplay, serverVars, btdVars, diskVars
<1>1. live' \in Seq(Requests) /\ held' \in Seq(Requests)
  BY AppendProperties DEF TypeOK
<1>2. TypeOK'
  BY <1>1 DEF TypeOK
<1>3. BoardsInv'
  <2>1. live' = (replica \o queue) \o <<r>>
    <3>1. /\ replica \o queue \in Seq(Requests)
          /\ live = (replica \o queue) \o <<>>
      BY ConcatProperties DEF TypeOK, BoardsInv, ReplicaTrailsLive
    <3>2. live = replica \o queue
      BY <3>1, ConcatEmptySeq
    <3> QED BY <3>1, <3>2, AppendIsConcat
  <2>2. Reachable(live')
    BY ReachableAppend DEF BoardsInv
  <2>3. ReplicaTrailsLive' /\ NeverPanics'
    BY <2>1 DEF BoardsInv, ReplicaTrailsLive, NeverPanics
  <2> QED BY <2>2, <2>3 DEF BoardsInv, Reachable
<1>4. FilesInv'
  <2>1. ASSUME NEW s \in savers PROVE PrefixOf(s.board, live')
    BY PrefixKept DEF FilesInv, TypeOK
  <2> QED BY <2>1 DEF FilesInv, PrefixOf, Reachable
<1>5. ShutdownInv'
  <2>1. phase \in {"up", "jobs"}
    BY DEF ShutdownInv, Running
  <2> QED BY <2>1 DEF ShutdownInv, Running
<1> QED BY <1>2, <1>3, <1>4, <1>5

LEMMA HandOverInv ==
    ASSUME IInv, HandOver
    PROVE  IInv'
<1> USE DEF IInv, HandOver, Send, serverVars, diskVars
<1>1. PICK r \in Requests : held = <<r>> /\ Head(held) = r
  BY DEF BoardsInv
<1>2. queue' \in Seq(Requests) /\ queue' = queue \o <<r>>
  BY <1>1, AppendProperties, AppendIsConcat DEF TypeOK
<1>3. TypeOK'
  <2>1. Len(queue') = Len(queue) + 1 /\ Len(queue) \in Nat /\ QueueCapacity \in Nat
    BY <1>1, AppendProperties, LenProperties, PersistenceAssumption DEF TypeOK
  <2>2. Len(queue') <= QueueCapacity
    BY <2>1
  <2> QED BY <1>2, <2>2, EmptySeq DEF TypeOK
<1>4. BoardsInv'
  <2>1. ReplicaTrailsLive'
    <3> SUFFICES ASSUME Running PROVE live = (replica \o queue') \o <<>>
      BY DEF ReplicaTrailsLive, Running
    <3>1. live = (replica \o queue) \o <<r>>
      BY <1>1 DEF BoardsInv, ReplicaTrailsLive
    <3>2. (replica \o queue) \o <<r>> = replica \o (queue \o <<r>>)
      BY <1>1, ConcatAssociative DEF TypeOK
    <3>3. replica \o queue' \in Seq(Requests)
      BY <1>2, ConcatProperties DEF TypeOK
    <3> QED BY <1>2, <3>1, <3>2, <3>3, ConcatEmptySeq
  <2> QED BY <2>1 DEF BoardsInv, NeverPanics, Reachable
<1>5. FilesInv'
  BY DEF FilesInv, PrefixOf, Reachable
<1>6. ShutdownInv'
  <2>1. phase \in {"up", "jobs"}
    BY DEF ShutdownInv, Running
  <2> QED BY <2>1 DEF ShutdownInv, Running
<1> QED BY <1>3, <1>4, <1>5, <1>6

(* Steps that touch no board, no request and no file.                      *)
LEMMA ControlInv ==
    ASSUME IInv,
           EndGame \/ StopMover \/ StopLooper \/ BeginShutdown \/ AwaitJobs \/ AwaitLooper
    PROVE  IInv'
<1> USE DEF IInv, EndGame, StopMover, StopLooper, LooperCancelled, BeginShutdown,
            AwaitJobs, JobsDone, AwaitLooper, serverVars, liveVars, btdVars, diskVars
<1>1. /\ UNCHANGED <<live, held, queue, replica, pending, panicked, savers, files>>
      /\ UNCHANGED <<run, snapshots, clock>>
  OBVIOUS
<1>2. TypeOK'
  BY <1>1 DEF TypeOK, Phases
<1>3. BoardsInv'
  <2>1. Running' /\ Running
    BY DEF Running
  <2> QED BY <1>1, <2>1 DEF BoardsInv, ReplicaTrailsLive, NeverPanics, Reachable
<1>4. FilesInv'
  BY <1>1 DEF FilesInv, PrefixOf, Reachable
<1>5. ShutdownInv'
  BY <1>1 DEF ShutdownInv, Running
<1> QED BY <1>2, <1>3, <1>4, <1>5

LEMMA LiveIsReplicaAndRest ==
    ASSUME IInv, Running
    PROVE  live = replica \o (queue \o held) /\ queue \o held \in Seq(Requests)
<1>1. replica \in Seq(Requests) /\ queue \in Seq(Requests) /\ held \in Seq(Requests)
  BY DEF IInv, TypeOK
<1>2. live = (replica \o queue) \o held
  BY DEF IInv, BoardsInv, ReplicaTrailsLive
<1>3. (replica \o queue) \o held = replica \o (queue \o held)
  BY <1>1, ConcatAssociative
<1> QED BY <1>1, <1>2, <1>3, ConcatProperties

(* The second board never refuses a request.                               *)
LEMMA ReplicaAccepts ==
    ASSUME IInv, Running, queue # <<>>
    PROVE  Accepts(replica, Head(queue))
<1> USE DEF IInv
<1>1. queue \o held \in Seq(Requests) /\ queue \o held # <<>>
  BY ConcatProperties, ConcatEqualIffEmpty DEF TypeOK
<1>2. live = replica \o (queue \o held)
  BY LiveIsReplicaAndRest
<1>3. Head(queue \o held) = Head(queue)
  <2>1. (queue \o held)[1] = queue[1]
    BY ConcatProperties, EmptySeq, LenProperties DEF TypeOK
  <2> QED BY <1>1, <2>1, EmptySeq DEF TypeOK
<1>4. Accepts(replica, Head(queue \o held))
  BY <1>1, <1>2, ReachableAccepts DEF BoardsInv, TypeOK
<1> QED BY <1>3, <1>4

LEMMA ReplayInv ==
    ASSUME IInv, Running, queue # <<>>, Replay, UNCHANGED <<liveVars, serverVars, panicked>>
    PROVE  /\ queue' \in Seq(Requests) /\ replica' \in Seq(Requests)
           /\ Len(queue') <= QueueCapacity
           /\ Head(queue) \in Requests
           /\ BoardsInv'
<1> USE DEF IInv, Replay, liveVars, serverVars
<1>1. /\ Head(queue) \in Requests
      /\ queue' \in Seq(Requests) /\ replica' \in Seq(Requests)
  BY HeadTailProperties, AppendProperties DEF TypeOK
<1>2. replica' \o queue' = replica \o queue
  BY MoveTheBorder DEF TypeOK
<1>3. ReplicaTrailsLive'
  BY <1>2 DEF BoardsInv, ReplicaTrailsLive, Running
<1>4. Len(queue') <= QueueCapacity
  <2>1. Len(queue') = Len(queue) - 1 /\ Len(queue) \in Nat /\ QueueCapacity \in Nat
    BY HeadTailProperties, LenProperties, PersistenceAssumption DEF TypeOK
  <2> QED BY <2>1 DEF TypeOK
<1> QED BY <1>1, <1>3, <1>4 DEF BoardsInv, NeverPanics, Reachable

LEMMA ReplayOneInv ==
    ASSUME IInv, ReplayOne
    PROVE  IInv'
<1> USE DEF IInv
<1>1. Accepts(replica, Head(queue))
  BY ReplicaAccepts DEF ReplayOne
<1>2. /\ Running /\ queue # <<>> /\ looper
      /\ Replay
      /\ pending' \in {<<>>, Append(pending, Head(queue))}
      /\ UNCHANGED <<looper, panicked, liveVars, serverVars, diskVars>>
  BY <1>1 DEF ReplayOne, Serialize
<1>3. /\ queue' \in Seq(Requests) /\ replica' \in Seq(Requests)
      /\ Head(queue) \in Requests /\ BoardsInv' /\ Len(queue') <= QueueCapacity
  BY <1>2, ReplayInv
<1>4. pending' \in Seq(Requests)
  <2>1. pending \in Seq(Requests)
    BY DEF TypeOK
  <2>2. Append(pending, Head(queue)) \in Seq(Requests)
    BY <2>1, <1>3, AppendProperties
  <2> QED BY <2>2, <1>2, EmptySeq
<1> USE DEF liveVars, serverVars, diskVars
<1>5. TypeOK'
  BY <1>2, <1>3, <1>4 DEF TypeOK
<1>6. FilesInv'
  BY <1>2 DEF FilesInv, PrefixOf, Reachable
<1>7. ShutdownInv'
  BY <1>2 DEF ShutdownInv, Running
<1> QED BY <1>3, <1>5, <1>6, <1>7

LEMMA DrainInv ==
    ASSUME IInv, Drain
    PROVE  IInv'
<1> USE DEF IInv, Drain
<1>1. Running
  BY DEF Running
<1>2. Accepts(replica, Head(queue))
  BY <1>1, ReplicaAccepts
<1>3. /\ queue # <<>> /\ phase = "flush"
      /\ Replay
      /\ pending' = Append(pending, Head(queue))
      /\ UNCHANGED <<looper, panicked, liveVars, serverVars, diskVars>>
  BY <1>2
<1>4. /\ queue' \in Seq(Requests) /\ replica' \in Seq(Requests)
      /\ Head(queue) \in Requests /\ BoardsInv' /\ Len(queue') <= QueueCapacity
  BY <1>1, <1>3, ReplayInv
<1>5. pending' \in Seq(Requests)
  BY <1>3, <1>4, AppendProperties DEF TypeOK
<1> USE DEF liveVars, serverVars, diskVars
<1>6. TypeOK'
  BY <1>3, <1>4, <1>5 DEF TypeOK
<1>7. FilesInv'
  BY <1>3 DEF FilesInv, PrefixOf, Reachable
<1>8. ShutdownInv'
  BY <1>3 DEF ShutdownInv, Running
<1> QED BY <1>4, <1>6, <1>7, <1>8

LEMMA TickRequestsInv ==
    ASSUME IInv, TickRequests
    PROVE  IInv'
<1> USE DEF IInv, TickRequests, Serialize, liveVars, serverVars, diskVars
<1>1. TypeOK'
  BY EmptySeq DEF TypeOK
<1>2. BoardsInv'
  BY DEF BoardsInv, ReplicaTrailsLive, NeverPanics, Reachable, Running
<1>3. FilesInv'
  BY DEF FilesInv, PrefixOf, Reachable
<1>4. ShutdownInv'
  BY DEF ShutdownInv, Running
<1> QED BY <1>1, <1>2, <1>3, <1>4

(* A snapshot of the second board is a snapshot of the live one.           *)
LEMMA SaverOfReplica ==
    ASSUME IInv, Running, NEW n \in Nat
    PROVE  Saver(n) \in Savers /\ PrefixOf(replica, live) /\ Saver(n).board = replica
<1> USE DEF IInv
<1>1. live = replica \o (queue \o held) /\ queue \o held \in Seq(Requests)
  BY LiveIsReplicaAndRest
<1>2. PrefixOf(replica, live)
  BY <1>1, PrefixOfConcat DEF TypeOK
<1> QED BY <1>2 DEF TypeOK, Saver, Savers

LEMMA TickBoardInv ==
    ASSUME IInv, TickBoard
    PROVE  IInv'
<1> USE DEF IInv, TickBoard, liveVars, serverVars, btdVars
<1>1. TypeOK'
  BY DEF TypeOK
<1>2. BoardsInv'
  BY DEF BoardsInv, ReplicaTrailsLive, NeverPanics, Reachable, Running
<1> DEFINE new == Saver(snapshots + 1)
<1>3. snapshots + 1 \in Nat /\ snapshots + 1 # final
  BY DEF TypeOK, final
<1>4. new \in Savers /\ PrefixOf(new.board, live)
  BY <1>3, SaverOfReplica
<1>5. new.id # final
  BY <1>3 DEF Saver
<1> HIDE DEF new
<1>6. savers' = savers \cup {new}
  BY DEF new
<1>7. FilesInv'
  BY <1>4, <1>6 DEF FilesInv, PrefixOf, Reachable
<1>8. ShutdownInv'
  BY <1>5, <1>6 DEF ShutdownInv, Running
<1> QED BY <1>1, <1>2, <1>7, <1>8

LEMMA SaveStartsInv ==
    ASSUME IInv, NEW s \in savers, SaveStarts(s)
    PROVE  IInv'
<1> USE DEF IInv, SaveStarts, liveVars, serverVars, btdVars
<1>1. TypeOK'
  BY DEF TypeOK
<1>2. BoardsInv'
  BY DEF BoardsInv, ReplicaTrailsLive, NeverPanics, Reachable, Running
<1> DEFINE new == [s EXCEPT !.ts = clock]
<1>3. new \in Savers /\ new.id = s.id /\ new.board = s.board
  BY DEF FilesInv, TypeOK, Savers
<1> HIDE DEF new
<1>4. savers' = (savers \ {s}) \cup {new}
  BY DEF new
<1>5. FilesInv'
  BY <1>3, <1>4 DEF FilesInv, PrefixOf, Reachable
<1>6. ShutdownInv'
  BY <1>3, <1>4 DEF ShutdownInv, Running
<1> QED BY <1>1, <1>2, <1>5, <1>6

LEMMA SaveEndsInv ==
    ASSUME IInv, NEW s \in savers, SaveEnds(s)
    PROVE  IInv'
<1> USE DEF IInv, SaveEnds, liveVars, btdVars
<1>1. phase' = phase \/ (phase' = "closing" /\ s.id = final)
  OBVIOUS
<1>2. s.id = final => phase \in {"save", "closing"}
  BY DEF ShutdownInv, Running
<1>3. TypeOK'
  BY <1>1 DEF TypeOK, Phases
<1>4. BoardsInv'
  BY <1>1, <1>2 DEF BoardsInv, ReplicaTrailsLive, NeverPanics, Reachable, Running
<1>5. FilesInv'
  <2>1. ASSUME NEW f \in files' PROVE Reachable(f.board)
    <3>1. f \in files \/ f = FileOf(s)
      OBVIOUS
    <3>2. Reachable(s.board)
      BY ReachablePrefix DEF FilesInv, BoardsInv
    <3> QED BY <3>1, <3>2 DEF FilesInv, FileOf
  <2> QED BY <2>1 DEF FilesInv, PrefixOf, Reachable
<1>6. ShutdownInv'
  BY <1>1, <1>2 DEF ShutdownInv, Running
<1> QED BY <1>3, <1>4, <1>5, <1>6

LEMMA FinalSnapshotInv ==
    ASSUME IInv, FinalSnapshot
    PROVE  IInv'
<1> USE DEF IInv, FinalSnapshot, Drained, Serialize, liveVars
<1>1. TypeOK'
  BY EmptySeq DEF TypeOK, Phases
<1>2. BoardsInv'
  BY DEF BoardsInv, ReplicaTrailsLive, NeverPanics, Reachable, Running
<1> DEFINE new == Saver(final)
<1>3. new \in Savers /\ PrefixOf(new.board, live) /\ new.board = replica
  BY SaverOfReplica DEF final, Running
<1>4. ~mover /\ ~looper /\ held = <<>> /\ queue = <<>>
  BY DEF ShutdownInv, Running
<1>5. replica = live
  <2>1. live = replica \o (queue \o held)
    BY LiveIsReplicaAndRest DEF Running
  <2>2. <<>> \o <<>> = <<>>
    BY EmptySeq, ConcatEmptySeq
  <2> QED BY <1>4, <2>1, <2>2, ConcatEmptySeq DEF TypeOK
<1> HIDE DEF new
<1>6. savers' = savers \cup {new}
  BY DEF new
<1>7. FilesInv'
  BY <1>3, <1>6 DEF FilesInv, PrefixOf, Reachable
<1>8. ShutdownInv'
  BY <1>3, <1>4, <1>5, <1>6 DEF ShutdownInv, Running
<1> QED BY <1>1, <1>2, <1>7, <1>8

(* An end of the process that is not a panic: there are no others.         *)
LEMMA ExitInv ==
    ASSUME IInv, Exit, UNCHANGED panicked
    PROVE  IInv'
<1> USE DEF IInv, Exit
<1>1. TypeOK'
  BY EmptyFits DEF TypeOK, Phases
<1>2. BoardsInv'
  BY DEF BoardsInv, ReplicaTrailsLive, NeverPanics, Reachable, Running
<1>3. FilesInv'
  BY DEF FilesInv, Reachable
<1>4. ShutdownInv'
  BY DEF ShutdownInv, Running
<1> QED BY <1>1, <1>2, <1>3, <1>4

LEMMA BootInv ==
    ASSUME IInv, Boot
    PROVE  IInv'
<1> USE DEF IInv, Boot
<1>1. Reachable(replica') /\ \A f \in files' : Reachable(f.board)
  <2>1. CASE files = {}
    BY <2>1, NewGameIsReachable
  <2>2. CASE files # {}
    BY <2>2 DEF FilesInv, Newest
  <2> QED BY <2>1, <2>2
<1>2. replica' \in Seq(Requests)
  BY <1>1 DEF Reachable
<1>3. TypeOK'
  <2>1. run + 1 \in Nat /\ clock + 1 \in Nat
    BY DEF TypeOK
  <2>2. live' \in Seq(Requests) /\ <<>> \in Seq(Requests) /\ Len(<<>>) <= QueueCapacity
    BY <1>2, EmptyFits
  <2>3. /\ run' = run + 1 /\ clock' = clock + 1 /\ phase' = "up" /\ snapshots' = 0
        /\ cancelled' = FALSE /\ mover' = TRUE /\ looper' = TRUE /\ panicked' = FALSE
        /\ held' = <<>> /\ queue' = <<>> /\ pending' = <<>>
    OBVIOUS
  <2> HIDE DEF Boot, IInv
  <2> QED BY <1>2, <2>1, <2>2, <2>3 DEF TypeOK, Phases
<1>4. BoardsInv'
  <2>1. live' = (replica' \o <<>>) \o <<>>
    BY <1>2, ConcatEmptySeq
  <2> QED BY <1>1, <2>1 DEF BoardsInv, ReplicaTrailsLive, NeverPanics, Reachable
<1>5. FilesInv'
  BY <1>1 DEF FilesInv, Reachable
<1>6. ShutdownInv'
  BY DEF ShutdownInv, Running
<1> QED BY <1>3, <1>4, <1>5, <1>6

LEMMA NextInv == IInv /\ [Next]_vars => IInv'
<1> SUFFICES ASSUME IInv, [Next]_vars PROVE IInv'
  OBVIOUS
<1>1. CASE \E r \in Requests : ApplyLive(r)
  BY <1>1, ApplyLiveInv
<1>2. CASE HandOver
  BY <1>2, HandOverInv
<1>3. CASE EndGame \/ StopMover \/ StopLooper \/ BeginShutdown \/ AwaitJobs \/ AwaitLooper
  BY <1>3, ControlInv
<1>4. CASE ReplayOne
  BY <1>4, ReplayOneInv
<1>5. CASE TickRequests
  BY <1>5, TickRequestsInv
<1>6. CASE TickBoard
  BY <1>6, TickBoardInv
<1>7. CASE \E s \in savers : SaveStarts(s)
  BY <1>7, SaveStartsInv
<1>8. CASE \E s \in savers : SaveEnds(s)
  BY <1>8, SaveEndsInv
<1>9. CASE Drain
  BY <1>9, DrainInv
<1>10. CASE FinalSnapshot
  BY <1>10, FinalSnapshotInv
<1>11. CASE ExitNormally \/ Crash
  BY <1>11, ExitInv DEF ExitNormally, Crash
<1>12. CASE Boot
  BY <1>12, BootInv
<1>13. CASE UNCHANGED vars
  <2> USE <1>13 DEF vars, serverVars, liveVars, btdVars, diskVars, IInv
  <2>1. TypeOK'
    BY DEF TypeOK
  <2>2. BoardsInv'
    BY DEF BoardsInv, ReplicaTrailsLive, NeverPanics, Reachable, Running
  <2>3. FilesInv'
    BY DEF FilesInv, PrefixOf, Reachable
  <2>4. ShutdownInv'
    BY DEF ShutdownInv, Running
  <2> QED BY <2>1, <2>2, <2>3, <2>4
<1> QED
  BY <1>1, <1>2, <1>3, <1>4, <1>5, <1>6, <1>7, <1>8, <1>9, <1>10, <1>11, <1>12,
     <1>13 DEF Next

LEMMA Invariance == Spec => []IInv
<1> QED BY InitInv, NextInv, PTL DEF Spec

-----------------------------------------------------------------------------
(* Theorems *)

(* The state of the two goroutines, the channel and the disk stays of its  *)
(* type.                                                                   *)
THEOREM TypeCorrect == Spec => []TypeOK
<1>1. IInv => TypeOK
  BY DEF IInv
<1> QED BY Invariance, <1>1, PTL

(* No accepted request is lost, repeated or overtaken on its way from      *)
(* processMoves to the second board, for a channel of any capacity.        *)
THEOREM NothingIsLostOnTheWay == Spec => []ReplicaTrailsLive
<1>1. IInv => ReplicaTrailsLive
  BY DEF IInv, BoardsInv
<1> QED BY Invariance, <1>1, PTL

(* The panics of board-to-disk-handler.go:387-401 are unreachable,         *)
(* whatever the rules of the game are.                                     *)
THEOREM ReplayIsTotal == Spec => []NeverPanics
<1>1. IInv => NeverPanics
  BY DEF IInv, BoardsInv
<1> QED BY Invariance, <1>1, PTL

(* The snapshot a graceful shutdown writes has every accepted request.     *)
THEOREM ShutdownIsComplete == Spec => []ShutdownFlushesEverything
<1>1. IInv => ShutdownFlushesEverything
  <2> SUFFICES ASSUME IInv, phase \in {"save", "closing"}
               PROVE  replica = live /\ pending = <<>>
                      /\ \A s \in savers : s.id = final => s.board = live
    BY DEF ShutdownFlushesEverything
  <2>1. ~mover /\ held = <<>> /\ queue = <<>> /\ pending = <<>>
    BY DEF IInv, ShutdownInv
  <2>2. live = replica \o (queue \o held)
    BY LiveIsReplicaAndRest DEF Running
  <2>3. <<>> \o <<>> = <<>>
    BY EmptySeq, ConcatEmptySeq
  <2>4. replica = live
    BY <2>1, <2>2, <2>3, ConcatEmptySeq DEF IInv, TypeOK
  <2> QED BY <2>1, <2>4 DEF IInv, ShutdownInv
<1> QED BY Invariance, <1>1, PTL

-----------------------------------------------------------------------------
(* The files of requests *)

(* A file of requests whatever was in it, and EveryRequestIsFiledOnce of   *)
(* files bs, a board rep that began with ld requests and requests pd that  *)
(* wait: no file ends beyond the board.                                    *)
BatchSet == {b \in [startseq : Nat \ {0}, endseq : Nat, values : Seq(Seq(Requests))] :
                b.values # <<>>}

Before(bs, ld, i) == IF i = 1 THEN ld ELSE bs[i - 1].startseq - 1
Reqs(bs, pd, i) == IF i \in DOMAIN bs THEN ReadBack(bs[i]) ELSE pd
UpTo(bs, rep, i) == IF i \in DOMAIN bs THEN bs[i].startseq - 1 ELSE Len(rep)

Part(reqs, from, to, rep) ==
    /\ from + Len(reqs) = to /\ to <= Len(rep)
    /\ \A n \in DOMAIN reqs : reqs[n] = rep[from + n]

Filed(bs, ld, pd, rep) ==
    /\ bs \in Seq(BatchSet) /\ ld \in Nat
    /\ pd \in Seq(Requests) /\ rep \in Seq(Requests)
    /\ \A i \in 1 .. Len(bs) + 1 :
          Part(Reqs(bs, pd, i), Before(bs, ld, i), UpTo(bs, rep, i), rep)

LEMMA BatchSetFact ==
    ASSUME NEW b \in BatchSet
    PROVE  b.startseq \in Nat \ {0} /\ ReadBack(b) \in Seq(Requests)
<1>1. b.startseq \in Nat \ {0} /\ b.values \in Seq(Seq(Requests)) /\ b.values # <<>>
  BY DEF BatchSet
<1>2. Head(b.values) \in Seq(Requests)
  BY <1>1, HeadTailProperties
<1> QED BY <1>1, <1>2 DEF ReadBack

LEMMA BatchFact ==
    ASSUME NEW rep \in Seq(Requests), NEW reqs \in Seq(Requests)
    PROVE  /\ Batch(rep, reqs) \in BatchSet
           /\ Batch(rep, reqs).startseq - 1 = Len(rep)
           /\ ReadBack(Batch(rep, reqs)) = reqs
<1>1. Len(rep) \in Nat /\ Len(reqs) \in Nat
  BY LenProperties
<1>2. <<reqs, reqs>> \in Seq(Seq(Requests)) /\ <<reqs, reqs>> # <<>>
      /\ Head(<<reqs, reqs>>) = reqs
  OBVIOUS
<1> DEFINE start == SeqNum(rep)
           end == start + Len(reqs)
           values == <<reqs, reqs>>
           b == [startseq |-> start, endseq |-> end, values |-> values]
<1>3. start \in Nat \ {0} /\ end \in Nat /\ start - 1 = Len(rep)
  BY <1>1 DEF SeqNum
<1>4. Batch(rep, reqs) = b
  BY DEF Batch
<1> HIDE DEF start, end, values
<1>5. values \in Seq(Seq(Requests)) /\ values # <<>> /\ Head(values) = reqs
  BY <1>2 DEF values
<1>6. b \in [startseq : Nat \ {0}, endseq : Nat, values : Seq(Seq(Requests))]
  BY <1>3, <1>5
<1>7. b.startseq = start /\ b.values = values
  OBVIOUS
<1> HIDE DEF b
<1>8. b \in BatchSet /\ ReadBack(b) = reqs
  BY <1>5, <1>6, <1>7 DEF BatchSet, ReadBack
<1> QED BY <1>3, <1>4, <1>7, <1>8

(* What the parts of files and of a board are made of.                     *)
LEMMA PartTypes ==
    ASSUME NEW bs, NEW ld, NEW pd, NEW rep, Filed(bs, ld, pd, rep),
           NEW i \in 1 .. Len(bs) + 1
    PROVE  /\ Len(bs) \in Nat /\ DOMAIN bs = 1 .. Len(bs)
           /\ Before(bs, ld, i) \in Nat /\ Reqs(bs, pd, i) \in Seq(Requests)
           /\ UpTo(bs, rep, i) \in Nat
<1>1. bs \in Seq(BatchSet) /\ ld \in Nat /\ pd \in Seq(Requests) /\ rep \in Seq(Requests)
  BY DEF Filed
<1>2. Len(bs) \in Nat /\ DOMAIN bs = 1 .. Len(bs) /\ Len(rep) \in Nat
  BY <1>1, LenProperties
<1>3. \A j \in 1 .. Len(bs) : bs[j].startseq \in Nat \ {0} /\ ReadBack(bs[j]) \in Seq(Requests)
  BY <1>1, ElementOfSeq, BatchSetFact
<1>4. i # 1 => i - 1 \in 1 .. Len(bs)
  BY <1>2
<1>5. Before(bs, ld, i) \in Nat
  BY <1>1, <1>3, <1>4 DEF Before
<1>6. Reqs(bs, pd, i) \in Seq(Requests) /\ UpTo(bs, rep, i) \in Nat
  BY <1>1, <1>2, <1>3 DEF Reqs, UpTo
<1> QED BY <1>2, <1>5, <1>6

(* A request that is replayed waits for a file.                            *)
LEMMA ReplayedWaits ==
    ASSUME NEW bs, NEW ld, NEW pd, NEW rep, Filed(bs, ld, pd, rep), NEW r \in Requests
    PROVE  Filed(bs, ld, Append(pd, r), Append(rep, r))
<1> DEFINE pd1 == Append(pd, r)
           rep1 == Append(rep, r)
<1>1. /\ bs \in Seq(BatchSet) /\ ld \in Nat
      /\ pd \in Seq(Requests) /\ rep \in Seq(Requests)
      /\ Len(bs) \in Nat /\ DOMAIN bs = 1 .. Len(bs)
  BY LenProperties DEF Filed
<1>2. /\ pd1 \in Seq(Requests) /\ Len(pd1) = Len(pd) + 1 /\ pd1[Len(pd) + 1] = r
      /\ \A n \in 1 .. Len(pd) : pd1[n] = pd[n]
  BY <1>1, AppendProperties
<1>3. /\ rep1 \in Seq(Requests) /\ Len(rep1) = Len(rep) + 1 /\ rep1[Len(rep) + 1] = r
      /\ \A n \in 1 .. Len(rep) : rep1[n] = rep[n]
  BY <1>1, AppendProperties
<1>4. Len(pd) \in Nat /\ Len(rep) \in Nat
      /\ DOMAIN pd = 1 .. Len(pd) /\ DOMAIN pd1 = 1 .. Len(pd1)
  BY <1>1, <1>2, LenProperties
<1> HIDE DEF pd1, rep1
<1>5. ASSUME NEW i \in 1 .. Len(bs) + 1
      PROVE  Part(Reqs(bs, pd1, i), Before(bs, ld, i), UpTo(bs, rep1, i), rep1)
  <2> DEFINE from == Before(bs, ld, i)
  <2>1. from \in Nat /\ Reqs(bs, pd, i) \in Seq(Requests) /\ UpTo(bs, rep, i) \in Nat
    BY PartTypes
  <2>2. Part(Reqs(bs, pd, i), from, UpTo(bs, rep, i), rep)
    BY DEF Filed
  <2> HIDE DEF from
  <2>3. CASE i \in DOMAIN bs
    <3> DEFINE reqs == Reqs(bs, pd, i)
               to == UpTo(bs, rep, i)
    <3>1. Reqs(bs, pd1, i) = reqs /\ UpTo(bs, rep1, i) = to
      BY <2>3 DEF Reqs, UpTo
    <3>2. DOMAIN reqs = 1 .. Len(reqs) /\ Len(reqs) \in Nat /\ to \in Nat
      BY <2>1, LenProperties
    <3>3. /\ from + Len(reqs) = to /\ to <= Len(rep)
          /\ \A n \in DOMAIN reqs : reqs[n] = rep[from + n]
      BY <2>2 DEF Part
    <3> HIDE DEF reqs, to
    <3>4. \A n \in DOMAIN reqs : from + n \in 1 .. Len(rep)
      BY <2>1, <3>2, <3>3, <1>4
    <3>5. Part(reqs, from, to, rep1)
      BY <1>3, <1>4, <3>2, <3>3, <3>4 DEF Part
    <3> QED BY <3>1, <3>5 DEF from
  <2>4. CASE i \notin DOMAIN bs
    <3>1. /\ Reqs(bs, pd, i) = pd /\ Reqs(bs, pd1, i) = pd1
          /\ UpTo(bs, rep, i) = Len(rep) /\ UpTo(bs, rep1, i) = Len(rep1)
      BY <2>4 DEF Reqs, UpTo
    <3>2. /\ from + Len(pd) = Len(rep)
          /\ \A n \in DOMAIN pd : pd[n] = rep[from + n]
      BY <2>2, <3>1 DEF Part
    <3>3. from + Len(pd1) = Len(rep1) /\ Len(rep1) <= Len(rep1)
      <4>1. \A k, m, n \in Nat : k + m = n => k + (m + 1) = n + 1 /\ n + 1 <= n + 1
        OBVIOUS
      <4>2. from + (Len(pd) + 1) = Len(rep) + 1 /\ Len(rep) + 1 <= Len(rep) + 1
        BY <1>4, <2>1, <3>2, <4>1
      <4> QED BY <1>2, <1>3, <4>2
    <3>4. ASSUME NEW n \in DOMAIN pd1 PROVE pd1[n] = rep1[from + n]
      <4>1. CASE n = Len(pd) + 1
        <5>1. from + n = Len(rep) + 1
          BY <1>4, <2>1, <3>2, <4>1
        <5> QED BY <1>2, <1>3, <4>1, <5>1
      <4>2. CASE n # Len(pd) + 1
        <5>1. n \in 1 .. Len(pd) /\ from + n \in 1 .. Len(rep)
          BY <1>2, <1>4, <2>1, <3>2, <4>2
        <5> QED BY <1>2, <1>3, <1>4, <3>2, <5>1
      <4> QED BY <4>1, <4>2
    <3> QED BY <3>1, <3>3, <3>4 DEF Part, from
  <2> QED BY <2>3, <2>4
<1>6. Filed(bs, ld, pd1, rep1)
  BY <1>1, <1>2, <1>3, <1>5 DEF Filed
<1> QED BY <1>6 DEF pd1, rep1

(* The requests that wait become a file.                                   *)
LEMMA CutIsFiled ==
    ASSUME NEW bs, NEW ld, NEW pd, NEW rep, Filed(bs, ld, pd, rep)
    PROVE  Filed(Append(bs, Batch(rep, pd)), ld, <<>>, rep)
<1> DEFINE b == Batch(rep, pd)
           bs1 == Append(bs, b)
<1>1. /\ bs \in Seq(BatchSet) /\ ld \in Nat
      /\ pd \in Seq(Requests) /\ rep \in Seq(Requests)
      /\ Len(bs) \in Nat /\ DOMAIN bs = 1 .. Len(bs) /\ Len(rep) \in Nat
  BY LenProperties DEF Filed
<1>2. b \in BatchSet /\ b.startseq - 1 = Len(rep) /\ ReadBack(b) = pd
  BY <1>1, BatchFact
<1> HIDE DEF b
<1>3. /\ bs1 \in Seq(BatchSet) /\ Len(bs1) = Len(bs) + 1 /\ bs1[Len(bs) + 1] = b
      /\ \A j \in 1 .. Len(bs) : bs1[j] = bs[j]
  BY <1>1, <1>2, AppendProperties
<1>4. DOMAIN bs1 = 1 .. Len(bs) + 1
  BY <1>3, LenProperties
<1> HIDE DEF bs1
<1>5. ASSUME NEW i \in 1 .. Len(bs1) + 1
      PROVE  Part(Reqs(bs1, <<>>, i), Before(bs1, ld, i), UpTo(bs1, rep, i), rep)
  <2>1. CASE i \in 1 .. Len(bs) + 1
    <3>1. Part(Reqs(bs, pd, i), Before(bs, ld, i), UpTo(bs, rep, i), rep)
      BY <2>1 DEF Filed
    <3>2. Before(bs1, ld, i) = Before(bs, ld, i)
      <4>1. i # 1 => i - 1 \in 1 .. Len(bs)
        BY <1>1, <2>1
      <4> QED BY <1>3, <4>1 DEF Before
    <3>3. CASE i = Len(bs) + 1
      <4>1. i \notin DOMAIN bs /\ i \in DOMAIN bs1 /\ bs1[i] = b
        BY <1>1, <1>3, <1>4, <3>3
      <4>2. Reqs(bs1, <<>>, i) = Reqs(bs, pd, i) /\ UpTo(bs1, rep, i) = UpTo(bs, rep, i)
        BY <1>2, <4>1 DEF Reqs, UpTo
      <4> QED BY <3>1, <3>2, <4>2
    <3>4. CASE i # Len(bs) + 1
      <4>1. i \in DOMAIN bs /\ i \in DOMAIN bs1 /\ bs1[i] = bs[i]
        BY <1>1, <1>3, <1>4, <2>1, <3>4
      <4>2. Reqs(bs1, <<>>, i) = Reqs(bs, pd, i) /\ UpTo(bs1, rep, i) = UpTo(bs, rep, i)
        BY <4>1 DEF Reqs, UpTo
      <4> QED BY <3>1, <3>2, <4>2
    <3> QED BY <3>3, <3>4
  <2>2. CASE i \notin 1 .. Len(bs) + 1
    <3>1. i = Len(bs) + 2
      BY <1>1, <1>3, <2>2
    <3>2. i # 1 /\ i \notin DOMAIN bs1 /\ bs1[i - 1] = b
      BY <1>1, <1>3, <1>4, <3>1
    <3>3. /\ Reqs(bs1, <<>>, i) = <<>> /\ Before(bs1, ld, i) = Len(rep)
          /\ UpTo(bs1, rep, i) = Len(rep)
      BY <1>2, <3>2 DEF Reqs, Before, UpTo
    <3>4. Len(<<>>) = 0 /\ DOMAIN <<>> = {}
      OBVIOUS
    <3>5. Part(<<>>, Len(rep), Len(rep), rep)
      BY <1>1, <3>4 DEF Part
    <3> QED BY <3>3, <3>5
  <2> QED BY <2>1, <2>2
<1>6. Filed(bs1, ld, <<>>, rep)
  BY <1>1, <1>3, <1>5, EmptySeq DEF Filed
<1> QED BY <1>6 DEF bs1, b

LEMMA SerializeFiles ==
    ASSUME NEW ld, NEW pd, NEW rep, Filed(batches, ld, pd, rep), Serialize(rep, pd)
    PROVE  Filed(batches', ld, pending', rep)
<1>1. pending' = <<>>
  BY DEF Serialize
<1>2. CASE pd = <<>>
  BY <1>1, <1>2 DEF Serialize
<1>3. CASE pd # <<>>
  BY <1>1, <1>3, CutIsFiled DEF Serialize
<1> QED BY <1>2, <1>3

(* A run begins with no file and nothing that waits.                       *)
LEMMA NothingIsFiledYet ==
    ASSUME NEW rep \in Seq(Requests)
    PROVE  Filed(<<>>, Len(rep), <<>>, rep)
<1>1. Len(rep) \in Nat
  BY LenProperties
<1>2. Len(<<>>) = 0 /\ DOMAIN <<>> = {} /\ <<>> \in Seq(BatchSet) /\ <<>> \in Seq(Requests)
  BY EmptySeq
<1>3. ASSUME NEW i \in 1 .. 1
      PROVE  Part(Reqs(<<>>, <<>>, i), Before(<<>>, Len(rep), i), UpTo(<<>>, rep, i), rep)
  <2>1. i = 1
    OBVIOUS
  <2>2. /\ Reqs(<<>>, <<>>, i) = <<>> /\ Before(<<>>, Len(rep), i) = Len(rep)
        /\ UpTo(<<>>, rep, i) = Len(rep)
    BY <1>2, <2>1 DEF Reqs, Before, UpTo
  <2>3. Part(<<>>, Len(rep), Len(rep), rep)
    BY <1>1, <1>2 DEF Part
  <2> QED BY <2>2, <2>3
<1>4. 1 .. Len(<<>>) + 1 = 1 .. 1
  BY <1>2
<1> QED BY <1>1, <1>2, <1>3, <1>4 DEF Filed

FiledInv == Running => Filed(batches, loaded, pending, replica)

LEMMA InitFiled == Init => FiledInv
<1>1. Init => /\ batches = <<>> /\ loaded = 0 /\ pending = <<>> /\ replica = <<>>
  BY DEF Init
<1>2. Filed(<<>>, Len(<<>>), <<>>, <<>>) /\ Len(<<>>) = 0
  BY EmptySeq, NothingIsFiledYet
<1> QED BY <1>1, <1>2 DEF FiledInv

(* Each request is replayed into a board, and waits or goes to a file.     *)
LEMMA FiledKept ==
    ASSUME IInv, IInv', FiledInv, [Next]_vars
    PROVE  FiledInv'
<1>1. CASE (Running' => Running) /\ UNCHANGED <<batches, loaded, pending, replica>>
  BY <1>1 DEF FiledInv
<1>2. CASE ~Running'
  BY <1>2 DEF FiledInv
<1>3. ASSUME queue # <<>> PROVE Head(queue) \in Requests
  BY <1>3, HeadTailProperties DEF IInv, TypeOK
<1>4. CASE ReplayOne
  <2>1. Running /\ queue # <<>> /\ Accepts(replica, Head(queue))
    BY <1>4, ReplicaAccepts DEF ReplayOne
  <2> DEFINE pd == Append(pending, Head(queue))
             rep == Append(replica, Head(queue))
  <2>2. Filed(batches, loaded, pd, rep)
    BY <1>3, <2>1, ReplayedWaits DEF FiledInv
  <2>3. /\ replica' = rep /\ loaded' = loaded
        /\ Serialize(rep, pd) \/ (pending' = pd /\ batches' = batches)
    BY <1>4, <2>1 DEF ReplayOne, Replay
  <2> HIDE DEF pd, rep
  <2>4. Filed(batches', loaded, pending', rep)
    BY <2>2, <2>3, SerializeFiles
  <2> QED BY <2>3, <2>4 DEF FiledInv
<1>5. CASE TickRequests \/ FinalSnapshot
  <2>1. Running /\ Serialize(replica, pending) /\ UNCHANGED <<replica, loaded>>
    BY <1>5 DEF TickRequests, FinalSnapshot, Drained, Running
  <2>2. Filed(batches', loaded, pending', replica)
    BY <2>1, SerializeFiles DEF FiledInv
  <2> QED BY <2>1, <2>2 DEF FiledInv
<1>6. CASE Drain
  <2>1. Running /\ queue # <<>> /\ Accepts(replica, Head(queue))
    BY <1>6, ReplicaAccepts DEF Drain, Running
  <2>2. Filed(batches, loaded, Append(pending, Head(queue)), Append(replica, Head(queue)))
    BY <1>3, <2>1, ReplayedWaits DEF FiledInv
  <2>3. /\ replica' = Append(replica, Head(queue)) /\ pending' = Append(pending, Head(queue))
        /\ UNCHANGED <<batches, loaded>>
    BY <1>6, <2>1 DEF Drain, Replay
  <2> QED BY <2>2, <2>3 DEF FiledInv
<1>7. CASE Boot
  <2>1. replica' \in Seq(Requests)
    BY DEF IInv, TypeOK
  <2>2. batches' = <<>> /\ loaded' = Len(replica') /\ pending' = <<>>
    BY <1>7 DEF Boot
  <2> QED BY <2>1, <2>2, NothingIsFiledYet DEF FiledInv
<1>8. CASE ExitNormally \/ Crash
  BY <1>2, <1>8 DEF ExitNormally, Crash, Exit, Running
<1>9. CASE \E r \in Requests : ApplyLive(r)
  BY <1>1, <1>9 DEF ApplyLive, btdVars, serverVars, Running
<1>10. CASE HandOver
  BY <1>1, <1>10 DEF HandOver, serverVars, Running
<1>11. CASE EndGame \/ StopMover \/ StopLooper \/ BeginShutdown \/ AwaitJobs \/ AwaitLooper
  BY <1>1, <1>11 DEF EndGame, StopMover, StopLooper, BeginShutdown, AwaitJobs, JobsDone,
                     AwaitLooper, btdVars, serverVars, Running
<1>12. CASE TickBoard
  BY <1>1, <1>12 DEF TickBoard, btdVars, serverVars, Running
<1>13. CASE \E s \in savers : SaveStarts(s)
  BY <1>1, <1>13 DEF SaveStarts, btdVars, serverVars, Running
<1>14. CASE \E s \in savers : SaveEnds(s)
  <2>1. PICK s \in savers : SaveEnds(s)
    BY <1>14
  <2>2. Running
    BY <2>1 DEF IInv, ShutdownInv
  <2> QED BY <1>1, <2>1, <2>2 DEF SaveEnds, btdVars
<1>15. CASE UNCHANGED vars
  BY <1>1, <1>15 DEF vars, btdVars, serverVars, Running
<1> QED
  BY <1>4, <1>5, <1>6, <1>7, <1>8, <1>9, <1>10, <1>11, <1>12, <1>13, <1>14, <1>15 DEF Next

(* Whatever the sizes, the ticks and the end of a run: the files hold each *)
(* request that was replayed once, and those that still wait come next     *)
(* (maybeSerializeCurrentRequests).                                        *)
THEOREM BatchesAreComplete == Spec => []EveryRequestIsFiledOnce
<1>1. FiledInv => EveryRequestIsFiledOnce
  <2> SUFFICES ASSUME Running, FiledInv PROVE EveryRequestIsFiledOnce
    BY DEF EveryRequestIsFiledOnce
  <2>1. \A i \in 1 .. Len(batches) + 1 :
           Part(Reqs(batches, pending, i), Before(batches, loaded, i),
                UpTo(batches, replica, i), replica)
    BY DEF FiledInv, Filed
  <2> QED BY <2>1 DEF EveryRequestIsFiledOnce, FiledBefore, Before, Reqs, UpTo, Part
<1>2. IInv /\ IInv' /\ FiledInv /\ [Next]_vars => FiledInv'
  BY FiledKept
<1> QED BY Invariance, InitFiled, <1>1, <1>2, PTL DEF Spec

-----------------------------------------------------------------------------
(* The order of the files *)

(* When saves do not overlap, at most one is under way, and its board is   *)
(* between those on disk and the second board.  The times of the files are *)
(* in the past, so the next file is the newest.  Equal times are not       *)
(* excluded by anything smaller: the boards have equal lengths then.       *)
OrderInv ==
    /\ clock # 0
    /\ \A f \in files : f.ts \in Nat /\ f.ts < clock
    /\ \A f, g \in files : f.ts <= g.ts => Len(f.board) <= Len(g.board)
    /\ Running => \A f \in files : Len(f.board) <= Len(replica)
    /\ \A s, t \in savers : s = t
    /\ \A s \in savers :
          /\ s.ts < clock /\ Len(s.board) <= Len(replica)
          /\ \A f \in files :
                Len(f.board) <= Len(s.board) /\ (s.ts # 0 => f.ts < s.ts)

(* Every length that is compared is a number.                              *)
LEMMA Lengths ==
    ASSUME IInv
    PROVE  /\ clock \in Nat /\ Len(replica) \in Nat
           /\ \A f \in files : Len(f.board) \in Nat
           /\ \A s \in savers : Len(s.board) \in Nat /\ s.ts \in Nat
<1>1. \A f \in files : f.board \in Seq(Requests)
  BY DEF IInv, FilesInv, Reachable
<1>2. replica \in Seq(Requests) /\ clock \in Nat
  BY DEF IInv, TypeOK
<1>3. \A s \in savers : s.board \in Seq(Requests) /\ s.ts \in Nat
  BY DEF IInv, FilesInv, Savers
<1> QED BY <1>1, <1>2, <1>3, LenProperties

LEMMA InitOrder == Init => OrderInv
<1> SUFFICES ASSUME Init PROVE OrderInv
  OBVIOUS
<1>1. \A f \in files : f.ts = 1 /\ f.board = <<>>
  BY DEF Init
<1>2. Len(<<>>) \in Nat
  BY EmptySeq
<1> QED BY <1>1, <1>2 DEF Init, OrderInv

(* The second board only grows while the process runs, and the files stay. *)
LEMMA OrderOfGrowth ==
    ASSUME IInv, OrderInv, IInv', UNCHANGED <<clock, files, savers>>,
           Running' => Running,
           Len(replica') >= Len(replica) \/ replica' = replica
    PROVE  OrderInv'
<1>1. Len(replica) \in Nat /\ Len(replica') \in Nat /\ Len(replica) <= Len(replica')
  <2>1. Len(replica) \in Nat
    BY Lengths
  <2>2. Len(replica') \in Nat
    BY LenProperties DEF IInv, TypeOK
  <2> QED BY <2>1, <2>2
<1> QED BY <1>1, Lengths DEF OrderInv

LEMMA OrderOfReplay ==
    ASSUME IInv, queue # <<>>, Replay
    PROVE  Len(replica') >= Len(replica)
<1>1. replica \in Seq(Requests) /\ Head(queue) \in Requests
  BY HeadTailProperties DEF IInv, TypeOK
<1> QED BY <1>1, AppendProperties, LenProperties DEF Replay

(* A process that ends leaves no save under way.                           *)
LEMMA OrderOfExit ==
    ASSUME OrderInv, Exit
    PROVE  OrderInv'
BY DEF OrderInv, Exit, Running

LEMMA OrderOfSnapshot ==
    ASSUME IInv, OrderInv, Running, savers = {}, NEW n, savers' = {Saver(n)},
           UNCHANGED <<clock, files, replica>>
    PROVE  OrderInv'
<1>1. Saver(n).board = replica /\ Saver(n).ts = 0
  BY DEF Saver
<1>2. clock > 0
  BY Lengths DEF OrderInv
<1> QED BY <1>1, <1>2, Lengths DEF OrderInv

LEMMA OrderOfSaveStarts ==
    ASSUME IInv, OrderInv, NEW s \in savers, SaveStarts(s)
    PROVE  OrderInv'
<1> DEFINE new == [s EXCEPT !.ts = clock]
<1>1. new.board = s.board /\ new.ts = clock
  BY DEF IInv, FilesInv, Savers
<1>2. savers' = {new}
  BY DEF SaveStarts, OrderInv
<1> HIDE DEF new
<1>3. UNCHANGED <<replica, files, phase>> /\ clock' = clock + 1
  BY DEF SaveStarts, btdVars, serverVars
<1> QED BY <1>1, <1>2, <1>3, Lengths DEF OrderInv, Running

LEMMA OrderOfSaveEnds ==
    ASSUME IInv, OrderInv, NEW s \in savers, SaveEnds(s)
    PROVE  OrderInv'
<1>1. UNCHANGED <<replica, clock>> /\ savers' = {} /\ s.ts # 0
  BY DEF SaveEnds, OrderInv, btdVars
<1>2. Running
  BY DEF IInv, ShutdownInv
<1>3. FileOf(s).ts = s.ts /\ FileOf(s).board = s.board
  BY DEF FileOf
<1>4. files' = files \/ files' = files \cup {FileOf(s)}
  BY DEF SaveEnds
<1>5. \A f \in files' : f \in files \/ f = FileOf(s)
  BY <1>4
<1>6. \A f \in files' : /\ f.ts \in Nat /\ f.ts < clock
                        /\ Len(f.board) <= Len(replica)
  BY <1>2, <1>3, <1>5, Lengths DEF OrderInv
<1>7. \A f, g \in files' : f.ts <= g.ts => Len(f.board) <= Len(g.board)
  BY <1>1, <1>3, <1>5, Lengths DEF OrderInv
<1> QED BY <1>1, <1>6, <1>7 DEF OrderInv

LEMMA OrderOfBoot ==
    ASSUME IInv, OrderInv, Boot
    PROVE  OrderInv'
<1>1. savers' = {} /\ clock' = clock + 1 /\ clock \in Nat
  BY Lengths DEF Boot
<1>2. Len(<<>>) = 0
  BY EmptySeq
<1>3. CASE files = {}
  <2>1. replica' = <<>> /\ \A f \in files' : f.ts = clock /\ f.board = <<>>
    BY <1>3 DEF Boot
  <2> QED BY <1>1, <1>2, <2>1 DEF OrderInv
<1>4. CASE files # {}
  <2>1. PICK f \in Newest(files) : replica' = f.board
    BY <1>4 DEF Boot
  <2>2. f \in files /\ files' = files /\ \A g \in files : g.ts <= f.ts
    BY <1>4, <2>1 DEF Boot, Newest
  <2>3. \A g \in files : Len(g.board) <= Len(replica')
    BY <2>1, <2>2 DEF OrderInv
  <2>4. \A g \in files : g.ts < clock'
    BY <1>1 DEF OrderInv
  <2> QED BY <1>1, <2>2, <2>3, <2>4 DEF OrderInv
<1> QED BY <1>3, <1>4

LEMMA NextOrder ==
    ASSUME ~SavesOverlap, IInv, OrderInv, IInv', [Next]_vars
    PROVE  OrderInv'
<1> USE DEF serverVars, liveVars, btdVars, diskVars, Running
<1>1. CASE \E r \in Requests : ApplyLive(r)
  BY <1>1, OrderOfGrowth DEF ApplyLive
<1>2. CASE HandOver \/ EndGame \/ StopMover \/ StopLooper
  BY <1>2, OrderOfGrowth DEF HandOver, EndGame, StopMover, StopLooper
<1>3. CASE BeginShutdown \/ AwaitJobs \/ AwaitLooper
  BY <1>3, OrderOfGrowth DEF BeginShutdown, AwaitJobs, JobsDone, AwaitLooper
<1>4. CASE ReplayOne \/ Drain
  <2>1. CASE Panic
    BY <2>1, OrderOfExit DEF Panic
  <2>2. CASE ~Panic
    <3>1. queue # <<>> /\ Replay /\ UNCHANGED <<phase, clock, files, savers>>
      BY <1>4, <2>2 DEF ReplayOne, Drain
    <3>2. Len(replica') >= Len(replica)
      BY <3>1, OrderOfReplay
    <3> QED BY <3>1, <3>2, OrderOfGrowth
  <2> QED BY <2>1, <2>2
<1>5. CASE TickRequests
  BY <1>5, OrderOfGrowth DEF TickRequests
<1>6. CASE TickBoard
  <2>1. savers = {} /\ savers' = {Saver(snapshots + 1)}
    BY <1>6 DEF TickBoard, MaySave
  <2> QED BY <1>6, <2>1, OrderOfSnapshot DEF TickBoard
<1>7. CASE FinalSnapshot
  <2>1. savers = {} /\ savers' = {Saver(final)}
    BY <1>7 DEF FinalSnapshot, MaySave
  <2>2. Running /\ UNCHANGED <<clock, files, replica>>
    BY <1>7 DEF FinalSnapshot, Drained
  <2> QED BY <2>1, <2>2, OrderOfSnapshot
<1>8. CASE \E s \in savers : SaveStarts(s)
  BY <1>8, OrderOfSaveStarts
<1>9. CASE \E s \in savers : SaveEnds(s)
  BY <1>9, OrderOfSaveEnds
<1>10. CASE ExitNormally \/ Crash
  BY <1>10, OrderOfExit DEF ExitNormally, Crash
<1>11. CASE Boot
  BY <1>11, OrderOfBoot
<1>12. CASE UNCHANGED vars
  BY <1>12, OrderOfGrowth DEF vars
<1> QED
  BY <1>1, <1>2, <1>3, <1>4, <1>5, <1>6, <1>7, <1>8, <1>9, <1>10, <1>11, <1>12
  DEF Next

(* If saves do not overlap, the file whose name has the latest time holds  *)
(* the longest board, so that a restart loses no more than what happened   *)
(* since the last save.  (If they may overlap, that is not so: see the run *)
(* PersistenceLateSave.)                                                   *)
THEOREM LaterFilesAreLonger ==
    ASSUME ~SavesOverlap
    PROVE  Spec => []NewestIsLongest
<1>1. IInv /\ OrderInv => NewestIsLongest
  BY DEF OrderInv, NewestIsLongest
<1>2. IInv /\ OrderInv /\ [Next]_vars => OrderInv'
  BY NextOrder, NextInv
<1> QED BY Invariance, InitOrder, <1>1, <1>2, PTL DEF Spec

-----------------------------------------------------------------------------
(* Refinement of DurableBoard *)

LEMMA InitRefines == Init => Durable!Init
BY DEF Init, Durable!Init, Running

LEMMA BoardsOfOneMore ==
    ASSUME NEW F, NEW g
    PROVE  {f.board : f \in F \cup {g}} = {f.board : f \in F} \cup {g.board}
OBVIOUS

LEMMA StepRefines == IInv /\ [Next]_vars => [Durable!Next]_Durable!vars
<1> SUFFICES ASSUME IInv, [Next]_vars PROVE [Durable!Next]_Durable!vars
  OBVIOUS
<1> USE DEF Durable!vars, Running
<1>1. CASE \E r \in Requests : ApplyLive(r)
  BY <1>1 DEF ApplyLive, serverVars, diskVars, Durable!Next, Durable!Apply
<1>2. CASE \E s \in savers : SaveEnds(s)
  <2>1. PICK s \in savers : SaveEnds(s)
    BY <1>2
  <2>2. phase # "exited" /\ phase' # "exited" /\ live' = live
    BY <2>1 DEF SaveEnds, liveVars, IInv, ShutdownInv
  <2>3. CASE files' = files
    BY <2>2, <2>3
  <2>4. CASE files' = files \cup {FileOf(s)}
    <3> DEFINE saved == {f.board : f \in files}
    <3>1. {f.board : f \in files'} = saved \cup {s.board}
      <4>1. FileOf(s).board = s.board
        BY DEF FileOf
      <4> QED BY <2>4, <4>1, BoardsOfOneMore
    <3>2. s.board \in Durable!Prefixes(live)
      BY DEF IInv, FilesInv, PrefixOf, Durable!Prefixes
    <3>3. Durable!Save
      BY <2>2, <3>1, <3>2 DEF Durable!Save
    <3> QED BY <3>3 DEF Durable!Next
  <2> QED BY <2>1, <2>3, <2>4 DEF SaveEnds
<1>3. ASSUME Running, Exit PROVE Durable!Next
  BY <1>3 DEF Exit, Durable!Next, Durable!Stop
<1>4. CASE ExitNormally \/ Crash
  BY <1>3, <1>4 DEF ExitNormally, Crash
<1>5. CASE ReplayOne
  <2>1. Accepts(replica, Head(queue))
    BY <1>5, ReplicaAccepts DEF ReplayOne
  <2> QED BY <1>5, <2>1 DEF ReplayOne, liveVars, serverVars, diskVars
<1>6. CASE Drain
  <2>1. Accepts(replica, Head(queue))
    BY <1>6, ReplicaAccepts DEF Drain
  <2> QED BY <1>6, <2>1 DEF Drain, liveVars, serverVars, diskVars
<1>7. CASE Boot
  <2> DEFINE saved == {f.board : f \in files}
  <2>1. phase = "exited" /\ phase' = "up" /\ live' = replica'
    BY <1>7 DEF Boot
  <2>2. CASE files = {}
    <3>1. saved = {} /\ live' = <<>>
      BY <1>7, <2>1, <2>2 DEF Boot
    <3>2. files' = {} \/ files' = {[ts |-> clock, board |-> <<>>]}
      BY <1>7, <2>2 DEF Boot
    <3>3. {f.board : f \in files'} \in {saved, saved \cup {live'}}
      <4> DEFINE new == [ts |-> clock, board |-> <<>>]
      <4>1. new.board = <<>>
        OBVIOUS
      <4> HIDE DEF new
      <4>2. {f.board : f \in {} \cup {new}} = {f.board : f \in {}} \cup {new.board}
        BY BoardsOfOneMore
      <4>3. files' = {} \/ files' = {} \cup {new}
        BY <3>2 DEF new
      <4> QED BY <2>2, <3>1, <4>1, <4>2, <4>3
    <3>4. Durable!Resume
      BY <2>1, <3>1, <3>3 DEF Durable!Resume
    <3> QED BY <3>4 DEF Durable!Next
  <2>3. CASE files # {}
    <3>1. saved # {} /\ live' \in saved /\ files' = files
      BY <1>7, <2>1, <2>3 DEF Boot, Newest
    <3>2. Durable!Resume
      BY <2>1, <3>1 DEF Durable!Resume
    <3> QED BY <3>2 DEF Durable!Next
  <2> QED BY <2>2, <2>3
<1>8. CASE HandOver \/ EndGame \/ StopMover \/ TickRequests \/ StopLooper
  BY <1>8 DEF HandOver, EndGame, StopMover, TickRequests, StopLooper,
              liveVars, serverVars, diskVars
<1>9. CASE TickBoard \/ \E s \in savers : SaveStarts(s)
  BY <1>9 DEF TickBoard, SaveStarts, liveVars, serverVars
<1>10. CASE BeginShutdown \/ AwaitJobs \/ AwaitLooper \/ FinalSnapshot
  BY <1>10 DEF BeginShutdown, AwaitJobs, JobsDone, AwaitLooper, FinalSnapshot, Drained,
               liveVars, diskVars
<1>11. CASE UNCHANGED vars
  BY <1>11 DEF vars, liveVars, serverVars, diskVars
<1> QED
  BY <1>1, <1>2, <1>4, <1>5, <1>6, <1>7, <1>8, <1>9, <1>10, <1>11 DEF Next

(* The server implements DurableBoard: a run resumes from a board that     *)
(* some run really had, whatever was being written when the last one       *)
(* ended, and whatever the capacity, the interleaving of saves and the     *)
(* rules are.                                                              *)
THEOREM RestartsAreDurable == Spec => KeepsDurableBoard
<1> QED BY InitRefines, StepRefines, Invariance, PTL DEF Spec, KeepsDurableBoard, Durable!Spec
=============================================================================
