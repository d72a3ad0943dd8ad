--------------------------- MODULE GameOverProofs ---------------------------
(***************************************************************************)
(* Proofs about GameOver: its types, that a side said to have won has won, *)
(* that nothing is moved after the winning move, and that answers are      *)
(* true.  The invariant has three parts.  Book-keeping: of either side the *)
(* kings that stand, those the counter has, and those on their way into it *)
(* make up all there were, whenever the statistics are read.  The end: if  *)
(* only moves capture, a side without a king has ended the game, or is     *)
(* about to.  Requests: whatever is still to be decided is in one place    *)
(* and nobody has answered it.                                             *)
(***************************************************************************)
EXTENDS GameOver, SequenceTheorems, TLAPS

-----------------------------------------------------------------------------
(* Book-keeping *)

boardCounters == <<todoKings, todoOthers, half, kings, others, capturedPieces, capturedKings>>

CountersOK ==
    /\ todoKings \in [Colors -> Nat] /\ todoOthers \in [Colors -> Nat]
    /\ half \in Colors \cup {"none"}
    /\ kings \in [Colors -> Nat] /\ others \in [Colors -> Nat]
    /\ capturedPieces \in [Colors -> 0 .. TOTAL_KINGS_PER_SIDE + TotalOthers]
    /\ capturedKings \in [Colors -> 0 .. TOTAL_KINGS_PER_SIDE]

(* Of side c everything is counted once, but for a king between its counts. *)
Balanced(c) ==
    /\ capturedKings[c] + todoKings[c] + kings[c] = TOTAL_KINGS_PER_SIDE
    /\ half = c =>
         /\ todoKings[c] > 0
         /\ capturedPieces[c] + todoKings[c] + todoOthers[c] + kings[c] + others[c]
              = TOTAL_KINGS_PER_SIDE + TotalOthers + 1
    /\ half # c =>
         capturedPieces[c] + todoKings[c] + todoOthers[c] + kings[c] + others[c]
           = TOTAL_KINGS_PER_SIDE + TotalOthers

CountersInv == CountersOK /\ \A c \in Colors : Balanced(c)

PhaseInv == mover # "counting" => todoKings = nobody /\ todoOthers = nobody /\ half = "none"

(* What changes the counts: processMoves only.                             *)
LEMMA WhoCounts ==
    ASSUME [Next]_vars
    PROVE  \/ mover = "idle" /\ \E n \in Nat : Apply(n)
           \/ \E c \in Colors : CountOther(c) \/ CountPiece(c) \/ CountKing(c)
           \/ /\ UNCHANGED boardCounters
              /\ mover = "counting" /\ mover' # "counting"
                   => todoKings = nobody /\ todoOthers = nobody
<1> USE DEF boardCounters, clientVars, channelVars, moverVars, captureVars, boardVars,
            statsVars, endVars
<1>1. CASE UNCHANGED vars
  BY <1>1 DEF vars
<1>2. CASE \E c \in Clients : Reject(c) \/ SendMove(c) \/ Enqueue(c) \/ GiveUp(c) \/ Close(c)
  BY <1>2 DEF Reject, SendMove, Enqueue, GiveUp, Close
<1>3. CASE AskBulk \/ Drain \/ CloseClients \/ StopJobs
  BY <1>3 DEF AskBulk, Drain, CloseClients, StopJobs
<1>4. CASE Stats
  BY <1>4 DEF Stats, StatsTick, ReadCounter, Judge, CancelMoves, Publish, StatsStop
<1>5. CASE TakeMove
  <2>1. 1 \in Nat
    OBVIOUS
  <2> QED BY <1>5, <2>1 DEF TakeMove
<1>6. CASE TakeBulk
  BY <1>6, GameOverAssumption DEF TakeBulk
<1>7. CASE Finish \/ EndGame \/ StopMoves \/ AnswerMove \/ StopMover
  BY <1>7 DEF Finish, EndGame, StopMoves, AnswerMove, StopMover
<1>8. CASE \E c \in Colors : CountOther(c) \/ CountPiece(c) \/ CountKing(c)
  BY <1>8
<1> QED BY <1>1, <1>2, <1>3, <1>4, <1>5, <1>6, <1>7, <1>8 DEF Next, Mover

LEMMA Numbers ==
    /\ TOTAL_KINGS_PER_SIDE \in Nat /\ TotalOthers \in Nat
    /\ TOTAL_KINGS_PER_SIDE + TotalOthers \in Nat
<1> QED BY GameOverAssumption

LEMMA CountersStart == Init => CountersInv /\ PhaseInv
<1> SUFFICES ASSUME Init PROVE CountersInv /\ PhaseInv
  OBVIOUS
<1>1. /\ kings \in [Colors -> 0 .. TOTAL_KINGS_PER_SIDE]
      /\ others \in [Colors -> 0 .. TotalOthers]
      /\ todoKings = nobody /\ todoOthers = nobody /\ half = "none"
      /\ capturedKings = [c \in Colors |-> TOTAL_KINGS_PER_SIDE - kings[c]]
      /\ capturedPieces = [c \in Colors |->
                             TOTAL_KINGS_PER_SIDE + TotalOthers - kings[c] - others[c]]
  BY DEF Init
<1>2. ASSUME NEW c \in Colors
      PROVE  /\ kings[c] \in Nat /\ others[c] \in Nat
             /\ TOTAL_KINGS_PER_SIDE - kings[c] \in 0 .. TOTAL_KINGS_PER_SIDE
             /\ TOTAL_KINGS_PER_SIDE + TotalOthers - kings[c] - others[c]
                  \in 0 .. TOTAL_KINGS_PER_SIDE + TotalOthers
             /\ Balanced(c)
  <2>1. /\ kings[c] \in Nat /\ kings[c] <= TOTAL_KINGS_PER_SIDE
        /\ others[c] \in Nat /\ others[c] <= TotalOthers
    BY <1>1, Numbers
  <2>2. /\ todoKings[c] = 0 /\ todoOthers[c] = 0 /\ half # c
        /\ capturedKings[c] = TOTAL_KINGS_PER_SIDE - kings[c]
        /\ capturedPieces[c] = TOTAL_KINGS_PER_SIDE + TotalOthers - kings[c] - others[c]
    BY <1>1 DEF nobody, Colors
  <2> QED BY <2>1, <2>2, Numbers DEF Balanced
<1>3. CountersOK
  BY <1>1, <1>2 DEF CountersOK, nobody
<1> QED BY <1>1, <1>2, <1>3 DEF CountersInv, PhaseInv

LEMMA ApplyCounts ==
    ASSUME CountersInv, PhaseInv, mover = "idle", NEW n \in Nat, Apply(n)
    PROVE  CountersInv' /\ PhaseInv'
<1>1. PICK ks \in [Colors -> 0 .. n], os \in [Colors -> 0 .. n] :
         /\ \A c \in Colors : ks[c] <= kings[c] /\ os[c] <= others[c]
         /\ kings' = [c \in Colors |-> kings[c] - ks[c]]
         /\ others' = [c \in Colors |-> others[c] - os[c]]
         /\ todoKings' = ks /\ todoOthers' = os
  BY DEF Apply, CanCapture
<1>2. mover' = "counting" /\ UNCHANGED <<half, capturedPieces, capturedKings>>
  BY DEF Apply
<1>3. ASSUME NEW c \in Colors
      PROVE  kings'[c] \in Nat /\ others'[c] \in Nat /\ Balanced(c)'
  <2>1. /\ todoKings[c] = 0 /\ todoOthers[c] = 0 /\ half # c /\ half' # c
    BY <1>2 DEF PhaseInv, nobody, Colors
  <2>2. /\ ks[c] \in Nat /\ os[c] \in Nat /\ kings[c] \in Nat /\ others[c] \in Nat
        /\ ks[c] <= kings[c] /\ os[c] <= others[c]
        /\ capturedKings[c] \in Nat /\ capturedPieces[c] \in Nat
    BY <1>1, Numbers DEF CountersInv, CountersOK
  <2>3. /\ todoKings'[c] = ks[c] /\ todoOthers'[c] = os[c]
        /\ kings'[c] = kings[c] - ks[c] /\ others'[c] = others[c] - os[c]
        /\ capturedKings'[c] = capturedKings[c] /\ capturedPieces'[c] = capturedPieces[c]
    BY <1>1, <1>2
  <2>4. /\ capturedKings[c] + todoKings[c] + kings[c] = TOTAL_KINGS_PER_SIDE
        /\ capturedPieces[c] + todoKings[c] + todoOthers[c] + kings[c] + others[c]
             = TOTAL_KINGS_PER_SIDE + TotalOthers
    BY <2>1 DEF CountersInv, Balanced
  <2>5. kings'[c] \in Nat /\ others'[c] \in Nat
    BY <2>2, <2>3
  <2>6. capturedKings'[c] + todoKings'[c] + kings'[c] = TOTAL_KINGS_PER_SIDE
    BY <2>1, <2>2, <2>3, <2>4, Numbers
  <2>7. capturedPieces'[c] + todoKings'[c] + todoOthers'[c] + kings'[c] + others'[c]
          = TOTAL_KINGS_PER_SIDE + TotalOthers
    BY <2>1, <2>2, <2>3, <2>4, Numbers
  <2> QED BY <2>1, <2>5, <2>6, <2>7 DEF Balanced
<1>4. CountersOK'
  <2>1. kings' \in [Colors -> Nat] /\ others' \in [Colors -> Nat]
    <3>1. /\ kings' = [c \in Colors |-> kings'[c]]
          /\ others' = [c \in Colors |-> others'[c]]
      BY <1>1
    <3> QED BY <1>3, <3>1
  <2>2. todoKings' \in [Colors -> Nat] /\ todoOthers' \in [Colors -> Nat]
    BY <1>1
  <2> QED BY <1>2, <2>1, <2>2 DEF CountersInv, CountersOK
<1> QED BY <1>2, <1>3, <1>4 DEF CountersInv, PhaseInv

LEMMA CountCounts ==
    ASSUME CountersInv, NEW c \in Colors, CountOther(c) \/ CountPiece(c) \/ CountKing(c)
    PROVE  CountersInv' /\ PhaseInv'
<1>1. /\ todoKings[c] \in Nat /\ todoOthers[c] \in Nat
      /\ kings[c] \in Nat /\ others[c] \in Nat
      /\ capturedKings[c] \in Nat /\ capturedPieces[c] \in Nat /\ c # "none"
  BY Numbers DEF CountersInv, CountersOK, Colors
<1>2. /\ capturedKings[c] + todoKings[c] + kings[c] = TOTAL_KINGS_PER_SIDE
      /\ half = "none" => capturedPieces[c] + todoKings[c] + todoOthers[c] + kings[c] + others[c]
                        = TOTAL_KINGS_PER_SIDE + TotalOthers
      /\ half = c => /\ todoKings[c] > 0
                     /\ capturedPieces[c] + todoKings[c] + todoOthers[c] + kings[c]
                          + others[c] = TOTAL_KINGS_PER_SIDE + TotalOthers + 1
  BY <1>1 DEF CountersInv, Balanced
<1>3. UNCHANGED <<mover, kings, others>> /\ mover' = "counting"
  BY DEF CountOther, CountPiece, CountKing
<1>4. CASE CountOther(c)
  <2>1. /\ half = "none" /\ todoOthers[c] > 0 /\ UNCHANGED <<half, todoKings, capturedKings>>
        /\ capturedPieces' = [capturedPieces EXCEPT ![c] = capturedPieces[c] + 1]
        /\ todoOthers' = [todoOthers EXCEPT ![c] = todoOthers[c] - 1]
    BY <1>4 DEF CountOther
  <2>2. capturedPieces[c] + todoKings[c] + todoOthers[c] + kings[c] + others[c]
          = TOTAL_KINGS_PER_SIDE + TotalOthers
    BY <1>2, <2>1
  <2>3. /\ capturedPieces[c] + 1 \in 0 .. TOTAL_KINGS_PER_SIDE + TotalOthers
        /\ todoOthers[c] - 1 \in Nat
    BY <1>1, <2>1, <2>2, Numbers
  <2>4. CountersOK'
    BY <1>3, <2>1, <2>3 DEF CountersInv, CountersOK
  <2>5. /\ capturedPieces'[c] = capturedPieces[c] + 1 /\ todoOthers'[c] = todoOthers[c] - 1
        /\ \A d \in Colors \ {c} :
             capturedPieces'[d] = capturedPieces[d] /\ todoOthers'[d] = todoOthers[d]
    BY <2>1 DEF CountersInv, CountersOK
  <2>6. capturedPieces'[c] + todoKings'[c] + todoOthers'[c] + kings'[c] + others'[c]
          = TOTAL_KINGS_PER_SIDE + TotalOthers
    BY <1>1, <1>3, <2>1, <2>2, <2>5, Numbers
  <2>7. Balanced(c)'
    BY <1>1, <1>2, <1>3, <2>1, <2>6 DEF Balanced
  <2>8. ASSUME NEW d \in Colors \ {c} PROVE Balanced(d)'
    BY <1>3, <2>1, <2>5 DEF CountersInv, Balanced
  <2> QED BY <1>3, <2>4, <2>7, <2>8 DEF CountersInv, PhaseInv
<1>5. CASE CountPiece(c)
  <2>1. /\ half = "none" /\ half' = c /\ todoKings[c] > 0
        /\ UNCHANGED <<todoKings, todoOthers, capturedKings>>
        /\ capturedPieces' = [capturedPieces EXCEPT ![c] = capturedPieces[c] + 1]
    BY <1>5 DEF CountPiece
  <2>2. capturedPieces[c] + todoKings[c] + todoOthers[c] + kings[c] + others[c]
          = TOTAL_KINGS_PER_SIDE + TotalOthers
    BY <1>2, <2>1
  <2>3. capturedPieces[c] + 1 \in 0 .. TOTAL_KINGS_PER_SIDE + TotalOthers
    BY <1>1, <2>1, <2>2, Numbers
  <2>4. CountersOK'
    BY <1>3, <2>1, <2>3 DEF CountersInv, CountersOK
  <2>5. /\ capturedPieces'[c] = capturedPieces[c] + 1
        /\ \A d \in Colors \ {c} : capturedPieces'[d] = capturedPieces[d]
    BY <2>1 DEF CountersInv, CountersOK
  <2>6. capturedPieces'[c] + todoKings'[c] + todoOthers'[c] + kings'[c] + others'[c]
          = TOTAL_KINGS_PER_SIDE + TotalOthers + 1
    BY <1>1, <1>3, <2>1, <2>2, <2>5, Numbers
  <2>7. Balanced(c)'
    BY <1>2, <1>3, <2>1, <2>6 DEF Balanced
  <2>8. ASSUME NEW d \in Colors \ {c} PROVE Balanced(d)'
    <3>1. half # d /\ half' # d
      BY <2>1 DEF Colors
    <3> QED BY <1>3, <2>1, <2>5, <3>1 DEF CountersInv, Balanced
  <2> QED BY <1>3, <2>4, <2>7, <2>8 DEF CountersInv, PhaseInv
<1>6. CASE CountKing(c)
  <2>1. /\ half = c /\ half' = "none" /\ UNCHANGED <<todoOthers, capturedPieces>>
        /\ capturedKings' = [capturedKings EXCEPT ![c] = capturedKings[c] + 1]
        /\ todoKings' = [todoKings EXCEPT ![c] = todoKings[c] - 1]
    BY <1>6 DEF CountKing
  <2>2. /\ todoKings[c] > 0
        /\ capturedPieces[c] + todoKings[c] + todoOthers[c] + kings[c] + others[c]
             = TOTAL_KINGS_PER_SIDE + TotalOthers + 1
    BY <1>2, <2>1
  <2>3. /\ capturedKings[c] + 1 \in 0 .. TOTAL_KINGS_PER_SIDE
        /\ todoKings[c] - 1 \in Nat
    BY <1>1, <1>2, <2>2, Numbers
  <2>4. CountersOK'
    BY <1>3, <2>1, <2>3 DEF CountersInv, CountersOK
  <2>5. /\ capturedKings'[c] = capturedKings[c] + 1 /\ todoKings'[c] = todoKings[c] - 1
        /\ \A d \in Colors \ {c} :
             capturedKings'[d] = capturedKings[d] /\ todoKings'[d] = todoKings[d]
    BY <2>1 DEF CountersInv, CountersOK
  <2>6. capturedKings'[c] + todoKings'[c] + kings'[c] = TOTAL_KINGS_PER_SIDE
    BY <1>1, <1>2, <1>3, <2>5, Numbers
  <2>7. capturedPieces'[c] + todoKings'[c] + todoOthers'[c] + kings'[c] + others'[c]
          = TOTAL_KINGS_PER_SIDE + TotalOthers
    BY <1>1, <1>3, <2>1, <2>2, <2>5, Numbers
  <2>8. Balanced(c)'
    BY <1>1, <2>1, <2>6, <2>7 DEF Balanced
  <2>9. ASSUME NEW d \in Colors \ {c} PROVE Balanced(d)'
    <3>1. half # d /\ half' # d
      BY <2>1 DEF Colors
    <3> QED BY <1>3, <2>1, <2>5, <3>1 DEF CountersInv, Balanced
  <2> QED BY <1>3, <2>4, <2>8, <2>9 DEF CountersInv, PhaseInv
<1> QED BY <1>4, <1>5, <1>6

LEMMA CountersKept ==
    ASSUME CountersInv, PhaseInv, [Next]_vars
    PROVE  CountersInv' /\ PhaseInv'
<1>1. CASE mover = "idle" /\ \E n \in Nat : Apply(n)
  BY <1>1, ApplyCounts
<1>2. CASE \E c \in Colors : CountOther(c) \/ CountPiece(c) \/ CountKing(c)
  BY <1>2, CountCounts
<1>3. CASE /\ UNCHANGED boardCounters
           /\ mover = "counting" /\ mover' # "counting"
                => todoKings = nobody /\ todoOthers = nobody
  <2>1. CountersInv'
    BY <1>3 DEF boardCounters, CountersInv, CountersOK, Balanced
  <2>2. todoKings = nobody => half = "none"
    BY DEF CountersInv, CountersOK, Balanced, nobody
  <2>3. PhaseInv'
    BY <1>3, <2>2 DEF boardCounters, PhaseInv
  <2> QED BY <2>1, <2>3
<1> QED BY <1>1, <1>2, <1>3, WhoCounts

-----------------------------------------------------------------------------
(* Types *)

(* What TypeOK says of all other variables.                                *)
RestOK ==
    /\ pump \in [Clients -> {"reading", "sending"}]
    /\ sent \in [Clients -> 0 .. MaxMoves] /\ closed \in [Clients -> BOOLEAN]
    /\ answers \subseteq [req : Requests, verdict : {"valid", "invalid"}]
    /\ queue \in Seq(Requests) /\ Len(queue) <= QueueCapacity
    /\ bulks \in 0 .. BulkCapacity /\ bulksAsked \in 0 .. MaxBulks
    /\ mover \in {"idle", "counting", "winning", "cancelling", "answering", "stopped"}
    /\ request \in Requests \cup {bulkCapture}
    /\ won \in BOOLEAN
    /\ applied \subseteq Requests
    /\ stats \in {"idle", "reading", "cancelling", "publishing", "stopped"}
    /\ seen \in Seq(Nat) /\ Len(seen) <= 4
    /\ winner \in {"none", "white", "black", "draw"}
    /\ gameOver \in BOOLEAN /\ cancelled \in BOOLEAN /\ drainer \in BOOLEAN
    /\ shutdown \in {"no", "clients", "jobs"}

(* A ReadPump that waits has sent a move, the winning move is a move, and  *)
(* what is judged is complete.                                             *)
RestInv ==
    /\ RestOK
    /\ \A c \in Clients : pump[c] = "sending" => sent[c] > 0
    /\ mover \in {"winning", "cancelling", "answering"} => request \in Requests
    /\ stats \in {"cancelling", "publishing"} => Len(seen) = 4

LEMMA TypesAgree == TypeOK <=> RestOK /\ CountersOK
<1> QED BY DEF TypeOK, RestOK, CountersOK

LEMMA RemainingIsNat ==
    ASSUME CountersInv, NEW i \in Nat, i < 4
    PROVE  Remaining[i + 1] \in Nat
<1>1. ASSUME NEW c \in Colors
      PROVE  /\ TOTAL_KINGS_PER_SIDE + TotalOthers - capturedPieces[c] \in Nat
             /\ TOTAL_KINGS_PER_SIDE - capturedKings[c] \in Nat
  BY Numbers DEF CountersInv, CountersOK
<1>2. i + 1 \in {1, 2, 3, 4}
  OBVIOUS
<1> QED BY <1>1, <1>2 DEF Remaining, Colors

LEMMA Verdicts == \A s : Verdict(s) \in {"none", "white", "black", "draw"}
<1> QED BY DEF Verdict

LEMMA LatestIsARequest ==
    ASSUME NEW c \in Clients, sent[c] \in 1 .. MaxMoves
    PROVE  Latest(c) \in Requests
<1> QED BY DEF Latest, Requests

LEMMA AnswersTyped ==
    ASSUME RestOK, NEW r \in Requests, NEW v \in {"valid", "invalid"}, Answer(r, v)
    PROVE  /\ answers' \subseteq [req : Requests, verdict : {"valid", "invalid"}]
           /\ closed' \in [Clients -> BOOLEAN]
<1>1. [req |-> r, verdict |-> v] \in [req : Requests, verdict : {"valid", "invalid"}]
  OBVIOUS
<1>2. closed \in [Clients -> BOOLEAN]
  BY DEF RestOK
<1>3. [closed EXCEPT ![r.client] = TRUE] \in [Clients -> BOOLEAN]
  BY <1>2
<1>4. answers \subseteq [req : Requests, verdict : {"valid", "invalid"}]
  BY DEF RestOK
<1> QED BY <1>1, <1>2, <1>3, <1>4 DEF Answer

QueueShrinks == queue' \in Seq(Requests) /\ Len(queue') <= QueueCapacity

LEMMA Dequeued ==
    ASSUME RestOK, queue # <<>>, queue' = Tail(queue)
    PROVE  Head(queue) \in Requests /\ QueueShrinks
<1>1. /\ Head(queue) \in Requests /\ queue' \in Seq(Requests)
      /\ Len(queue') = Len(queue) - 1 /\ Len(queue) \in Nat
  BY HeadTailProperties, LenProperties DEF RestOK
<1>2. Len(queue') <= QueueCapacity
  BY <1>1, GameOverAssumption DEF RestOK
<1> QED BY <1>1, <1>2 DEF QueueShrinks

LEMMA RestStart == Init => RestInv
<1> SUFFICES ASSUME Init PROVE RestInv
  OBVIOUS
<1>1. winner \in {"none", "white", "black", "draw"}
  <2>1. winner = Verdict(Remaining)
    BY DEF Init
  <2> QED BY <2>1, Verdicts
<1>2. /\ queue \in Seq(Requests) /\ Len(queue) <= QueueCapacity
      /\ seen \in Seq(Nat) /\ Len(seen) <= 4
  <2>1. queue = <<>> /\ seen = <<>>
    BY DEF Init
  <2>2. Len(queue) = 0 /\ Len(seen) = 0 /\ QueueCapacity \in Nat
    BY <2>1, EmptySeq, GameOverAssumption
  <2> QED BY <2>1, <2>2, EmptySeq
<1>3. gameOver \in BOOLEAN /\ cancelled \in BOOLEAN /\ drainer \in BOOLEAN
  BY DEF Init
<1>4. 0 \in 0 .. MaxMoves /\ 0 \in 0 .. BulkCapacity /\ 0 \in 0 .. MaxBulks
  BY GameOverAssumption
<1>5. sent \in [Clients -> 0 .. MaxMoves]
  BY <1>4 DEF Init
<1>6. /\ pump \in [Clients -> {"reading", "sending"}] /\ closed \in [Clients -> BOOLEAN]
      /\ \A c \in Clients : pump[c] = "reading"
  BY DEF Init
<1>7. /\ answers = {} /\ applied = {} /\ bulks = 0 /\ bulksAsked = 0 /\ mover = "idle"
      /\ request = bulkCapture /\ won = FALSE /\ stats = "idle" /\ shutdown = "no"
  BY DEF Init
<1>8. RestOK
  BY <1>1, <1>2, <1>3, <1>4, <1>5, <1>6, <1>7, Zenon DEF RestOK
<1> QED BY <1>6, <1>7, <1>8 DEF RestInv

LEMMA RestKept ==
    ASSUME RestInv, CountersInv, Next
    PROVE  RestInv'
<1> USE DEF clientVars, channelVars, moverVars, captureVars, boardVars, statsVars, endVars
<1>1. ASSUME NEW c \in Clients, Reject(c) PROVE RestInv'
  <2>1. /\ sent[c] \in 0 .. MaxMoves /\ sent[c] < MaxMoves
        /\ sent' = [sent EXCEPT ![c] = sent[c] + 1]
    BY <1>1 DEF Reject, RestInv, RestOK
  <2>2. sent[c] + 1 \in 1 .. MaxMoves
    BY <2>1, GameOverAssumption
  <2>3. sent' \in [Clients -> 0 .. MaxMoves] /\ sent'[c] = sent[c] + 1
    BY <2>1, <2>2, GameOverAssumption DEF RestInv, RestOK
  <2>4. Latest(c)' \in Requests
    BY <2>2, <2>3 DEF Latest, Requests
  <2>5. /\ answers' \subseteq [req : Requests, verdict : {"valid", "invalid"}]
        /\ closed' \in [Clients -> BOOLEAN]
    BY <1>1, <2>4, AnswersTyped DEF Reject, RestInv, RestOK
  <2>6. UNCHANGED pump /\ pump[c] = "reading"
    BY <1>1 DEF Reject
  <2>7. \A d \in Clients : pump'[d] = "sending" => sent'[d] > 0
    BY <2>1, <2>6 DEF RestInv, RestOK
  <2>8. UNCHANGED <<pump, channelVars, moverVars, boardVars, statsVars, endVars>>
    BY <1>1 DEF Reject
  <2> QED BY <2>3, <2>5, <2>7, <2>8 DEF RestInv, RestOK
<1>2. ASSUME NEW c \in Clients, SendMove(c) PROVE RestInv'
  <2>1. /\ sent[c] \in 0 .. MaxMoves /\ sent[c] < MaxMoves
        /\ sent' = [sent EXCEPT ![c] = sent[c] + 1]
        /\ pump' = [pump EXCEPT ![c] = "sending"]
    BY <1>2 DEF SendMove, RestInv, RestOK
  <2>2. sent[c] + 1 \in 1 .. MaxMoves
    BY <2>1, GameOverAssumption
  <2>3. /\ sent' \in [Clients -> 0 .. MaxMoves] /\ sent'[c] > 0
        /\ pump' \in [Clients -> {"reading", "sending"}]
    BY <2>1, <2>2, GameOverAssumption DEF RestInv, RestOK
  <2>4. \A d \in Clients : pump'[d] = "sending" => sent'[d] > 0
    BY <2>1, <2>3 DEF RestInv, RestOK
  <2>5. UNCHANGED <<closed, answers, channelVars, moverVars, boardVars, statsVars, endVars>>
    BY <1>2 DEF SendMove
  <2> QED BY <2>3, <2>4, <2>5 DEF RestInv, RestOK
<1>3. ASSUME NEW c \in Clients, Enqueue(c) PROVE RestInv'
  <2>1. /\ pump[c] = "sending" /\ Len(queue) < QueueCapacity
        /\ queue' = Append(queue, Latest(c))
        /\ pump' = [pump EXCEPT ![c] = "reading"]
        /\ UNCHANGED <<sent, closed, bulks, bulksAsked, answers, moverVars, boardVars,
                       statsVars, endVars>>
    BY <1>3 DEF Enqueue, HasRoom
  <2>2. sent[c] \in 1 .. MaxMoves
    BY <2>1, GameOverAssumption DEF RestInv, RestOK
  <2>3. queue' \in Seq(Requests) /\ Len(queue') = Len(queue) + 1 /\ Len(queue) \in Nat
    BY <2>1, <2>2, LatestIsARequest, AppendProperties, LenProperties DEF RestInv, RestOK
  <2>4. Len(queue') <= QueueCapacity
    BY <2>1, <2>3, GameOverAssumption
  <2>5. /\ pump' \in [Clients -> {"reading", "sending"}]
        /\ \A d \in Clients : pump'[d] = "sending" => pump[d] = "sending"
    BY <2>1 DEF RestInv, RestOK
  <2> QED BY <2>1, <2>3, <2>4, <2>5 DEF RestInv, RestOK
<1>4. ASSUME NEW c \in Clients, GiveUp(c) PROVE RestInv'
  BY <1>4 DEF GiveUp, RestInv, RestOK
<1>5. ASSUME NEW c \in Clients, Close(c) PROVE RestInv'
  BY <1>5 DEF Close, RestInv, RestOK
<1>6. CASE AskBulk
  BY <1>6, GameOverAssumption DEF AskBulk, RestInv, RestOK
<1>7. CASE TakeMove
  <2>1. /\ queue' = Tail(queue) /\ request' = Head(queue) /\ queue # <<>>
        /\ UNCHANGED <<bulks, bulksAsked, pump, sent, statsVars, endVars>>
        /\ mover' \in {"idle", "counting", "stopped"} /\ won' \in BOOLEAN
        /\ UNCHANGED <<answers, closed>> \/ Answer(Head(queue), "invalid")
        /\ UNCHANGED applied \/ applied' = applied \cup {Head(queue)}
    BY <1>7 DEF TakeMove, Apply, RestInv, RestOK
  <2>2. Head(queue) \in Requests /\ QueueShrinks
    BY <2>1, Dequeued DEF RestInv, RestOK
  <2>3. /\ answers' \subseteq [req : Requests, verdict : {"valid", "invalid"}]
        /\ closed' \in [Clients -> BOOLEAN]
    BY <2>1, <2>2, AnswersTyped DEF RestInv, RestOK
  <2> QED BY <2>1, <2>2, <2>3 DEF RestInv, RestOK, QueueShrinks
<1>8. CASE TakeBulk
  BY <1>8, GameOverAssumption DEF TakeBulk, Apply, RestInv, RestOK
<1>9. ASSUME NEW c \in Colors, CountOther(c) \/ CountPiece(c) PROVE RestInv'
  BY <1>9 DEF CountOther, CountPiece, RestInv, RestOK
<1>10. ASSUME NEW c \in Colors, CountKing(c) PROVE RestInv'
  BY <1>10 DEF CountKing, WinsGame, RestInv, RestOK
<1>11. CASE Finish
  BY <1>11 DEF Finish, RestInv, RestOK
<1>12. CASE EndGame \/ StopMoves
  <2>1. CASE EndGame
    BY <2>1 DEF EndGame, RestInv, RestOK
  <2>2. CASE StopMoves
    BY <2>2 DEF StopMoves, RestInv, RestOK
  <2> QED BY <1>12, <2>1, <2>2
<1>13. CASE AnswerMove
  BY <1>13, AnswersTyped DEF AnswerMove, RestInv, RestOK
<1>14. CASE StopMover
  BY <1>14 DEF StopMover, RestInv, RestOK
<1>15. CASE StatsTick
  BY <1>15, EmptySeq DEF StatsTick, RestInv, RestOK
<1>16. CASE ReadCounter
  <2>1. /\ stats = "reading" /\ Len(seen) < 4 /\ UNCHANGED <<stats, winner>>
        /\ seen' = Append(seen, Remaining[Len(seen) + 1])
        /\ UNCHANGED <<clientVars, answers, channelVars, moverVars, boardVars, endVars>>
    BY <1>16 DEF ReadCounter
  <2>2. Len(seen) \in Nat
    BY LenProperties DEF RestInv, RestOK
  <2>3. Remaining[Len(seen) + 1] \in Nat
    BY <2>1, <2>2, RemainingIsNat
  <2>4. seen' \in Seq(Nat) /\ Len(seen') = Len(seen) + 1
    BY <2>1, <2>3, AppendProperties DEF RestInv, RestOK
  <2>5. Len(seen') <= 4
    BY <2>1, <2>2, <2>4
  <2> QED BY <2>1, <2>4, <2>5 DEF RestInv, RestOK
<1>17. CASE Judge
  BY <1>17 DEF Judge, RestInv, RestOK
<1>18. CASE CancelMoves
  BY <1>18 DEF CancelMoves, Drains, RestInv, RestOK
<1>19. CASE Publish \/ StatsStop
  BY <1>19, Verdicts DEF Publish, StatsStop, RestInv, RestOK
<1>20. CASE Drain
  <2>1. /\ queue # <<>> /\ Answer(Head(queue), "invalid") /\ queue' = Tail(queue)
        /\ UNCHANGED <<bulks, bulksAsked, pump, sent, moverVars, boardVars, statsVars,
                       endVars>>
    BY <1>20 DEF Drain
  <2>2. Head(queue) \in Requests /\ QueueShrinks
    BY <2>1, Dequeued DEF RestInv
  <2>3. /\ answers' \subseteq [req : Requests, verdict : {"valid", "invalid"}]
        /\ closed' \in [Clients -> BOOLEAN]
    BY <2>1, <2>2, AnswersTyped DEF RestInv
  <2> QED BY <2>1, <2>2, <2>3 DEF RestInv, RestOK, QueueShrinks
<1>21. CASE CloseClients \/ StopJobs
  <2>1. CASE CloseClients
    BY <2>1 DEF CloseClients, RestInv, RestOK
  <2>2. CASE StopJobs
    BY <2>2 DEF StopJobs, RestInv, RestOK
  <2> QED BY <1>21, <2>1, <2>2
<1> QED
  BY <1>1, <1>2, <1>3, <1>4, <1>5, <1>6, <1>7, <1>8, <1>9, <1>10, <1>11, <1>12, <1>13,
     <1>14, <1>15, <1>16, <1>17, <1>18, <1>19, <1>20, <1>21 DEF Next, Mover, Stats

IInv == RestInv /\ CountersInv /\ PhaseInv

LEMMA Kept == ASSUME IInv, [Next]_vars PROVE IInv'
<1>1. CountersInv' /\ PhaseInv'
  BY CountersKept DEF IInv
<1>2. CASE Next
  BY <1>1, <1>2, RestKept DEF IInv
<1>3. CASE UNCHANGED vars
  <2>1. UNCHANGED <<pump, sent, closed, answers, queue, bulks, bulksAsked, mover, request,
                    won, applied, stats, seen, winner, gameOver, cancelled, drainer,
                    shutdown>>
    BY <1>3 DEF vars, clientVars, channelVars, moverVars, boardVars, statsVars, endVars
  <2>2. RestInv'
    BY <2>1 DEF IInv, RestInv, RestOK
  <2> QED BY <1>1, <2>2 DEF IInv
<1> QED BY <1>2, <1>3

LEMMA Invariant == Spec => []IInv
<1>1. Init => IInv
  BY CountersStart, RestStart DEF IInv
<1> QED BY <1>1, Kept, PTL DEF Spec

(* Every variable keeps its type: the channels keep to their capacities,   *)
(* and the captures that the board counts never exceed what there was      *)
(* (server.go:111-114, board.go:687-711).                                  *)
THEOREM TypeCorrect == Spec => []TypeOK
<1>1. IInv => TypeOK
  BY TypesAgree DEF IInv, RestInv, CountersInv
<1> QED BY <1>1, Invariant, PTL

-----------------------------------------------------------------------------
(* Winners *)

(* A counter that was read as zero is about kings that are all gone.       *)
SeenInv ==
    /\ Len(seen) >= 3 /\ seen[3] = 0 => kings["white"] = 0
    /\ Len(seen) >= 4 /\ seen[4] = 0 => kings["black"] = 0

(* Kings do not come back.                                                 *)
LEMMA KingsStayCaptured ==
    ASSUME IInv, [Next]_vars, NEW c \in Colors, kings[c] = 0
    PROVE  kings'[c] = 0
<1>1. CASE \E n \in Nat : Apply(n)
  <2>1. PICK n \in Nat : Apply(n)
    BY <1>1
  <2>2. PICK ks \in [Colors -> 0 .. n] :
           ks[c] <= kings[c] /\ kings' = [d \in Colors |-> kings[d] - ks[d]]
    BY <2>1 DEF Apply, CanCapture
  <2>3. ks[c] \in 0 .. n
    BY <2>2
  <2>4. ks[c] = 0
    BY <2>2, <2>3
  <2>5. kings'[c] = kings[c] - ks[c]
    BY <2>2
  <2> QED BY <2>4, <2>5
<1>2. CASE \E d \in Colors : CountOther(d) \/ CountPiece(d) \/ CountKing(d)
  BY <1>2 DEF CountOther, CountPiece, CountKing
<1>3. CASE UNCHANGED boardCounters
  BY <1>3 DEF boardCounters
<1> QED BY <1>1, <1>2, <1>3, WhoCounts

LEMMA NothingLeft ==
    ASSUME CountersInv, NEW c \in Colors, TOTAL_KINGS_PER_SIDE - capturedKings[c] = 0
    PROVE  kings[c] = 0
<1>1. /\ capturedKings[c] \in Nat /\ todoKings[c] \in Nat /\ kings[c] \in Nat
      /\ capturedKings[c] + todoKings[c] + kings[c] = TOTAL_KINGS_PER_SIDE
  BY Numbers DEF CountersInv, CountersOK, Balanced
<1> QED BY <1>1, Numbers

LEMMA WhoReads ==
    ASSUME [Next]_vars
    PROVE  UNCHANGED seen \/ StatsTick \/ ReadCounter
<1> USE DEF clientVars, channelVars, moverVars, captureVars, boardVars, statsVars, endVars
<1>1. CASE UNCHANGED vars
  BY <1>1 DEF vars
<1>2. CASE \E c \in Clients : Reject(c) \/ SendMove(c) \/ Enqueue(c) \/ GiveUp(c) \/ Close(c)
  BY <1>2 DEF Reject, SendMove, Enqueue, GiveUp, Close
<1>3. CASE AskBulk \/ Drain \/ CloseClients \/ StopJobs
  BY <1>3 DEF AskBulk, Drain, CloseClients, StopJobs
<1>4. CASE Judge \/ CancelMoves \/ Publish \/ StatsStop
  BY <1>4 DEF Judge, CancelMoves, Publish, StatsStop
<1>5. CASE TakeMove \/ TakeBulk \/ Finish \/ EndGame \/ StopMoves \/ AnswerMove \/ StopMover
  BY <1>5 DEF TakeMove, TakeBulk, Finish, EndGame, StopMoves, AnswerMove, StopMover
<1>6. CASE \E c \in Colors : CountOther(c) \/ CountPiece(c) \/ CountKing(c)
  BY <1>6 DEF CountOther, CountPiece, CountKing
<1> QED BY <1>1, <1>2, <1>3, <1>4, <1>5, <1>6 DEF Next, Mover, Stats

LEMMA SeenKept ==
    ASSUME IInv, SeenInv, [Next]_vars
    PROVE  SeenInv'
<1>1. /\ kings["white"] = 0 => kings'["white"] = 0
      /\ kings["black"] = 0 => kings'["black"] = 0
  BY KingsStayCaptured DEF Colors
<1>2. CASE UNCHANGED seen
  BY <1>1, <1>2 DEF SeenInv
<1>3. CASE StatsTick
  <2>1. Len(seen') = 0
    BY <1>3, EmptySeq DEF StatsTick
  <2> QED BY <2>1 DEF SeenInv
<1>4. CASE ReadCounter
  <2>1. /\ Len(seen) < 4 /\ seen' = Append(seen, Remaining[Len(seen) + 1])
        /\ UNCHANGED kings
    BY <1>4 DEF ReadCounter, boardVars
  <2>2. seen \in Seq(Nat) /\ Len(seen) \in Nat
    BY LenProperties DEF IInv, RestInv, RestOK
  <2>3. Remaining[Len(seen) + 1] \in Nat
    BY <2>1, <2>2, RemainingIsNat DEF IInv
  <2>4. /\ Len(seen') = Len(seen) + 1
        /\ \A i \in 1 .. Len(seen) : seen'[i] = seen[i]
        /\ seen'[Len(seen) + 1] = Remaining[Len(seen) + 1]
    BY <2>1, <2>2, <2>3, AppendProperties
  <2>5. /\ Remaining[3] = 0 => kings["white"] = 0
        /\ Remaining[4] = 0 => kings["black"] = 0
    BY NothingLeft DEF Remaining, Colors, IInv
  <2>6. Len(seen') >= 3 /\ seen'[3] = 0 => kings["white"] = 0
    <3>1. CASE Len(seen) = 2
      BY <2>4, <2>5, <3>1
    <3>2. CASE Len(seen) >= 3
      BY <2>2, <2>4, <3>2 DEF SeenInv
    <3>3. Len(seen) = 2 \/ Len(seen) >= 3 \/ ~(Len(seen) + 1 >= 3)
      <4>1. \A n \in Nat : n = 2 \/ n >= 3 \/ ~(n + 1 >= 3)
        OBVIOUS
      <4> QED BY <2>2, <4>1
    <3> QED BY <2>4, <3>1, <3>2, <3>3
  <2>7. Len(seen') >= 4 /\ seen'[4] = 0 => kings["black"] = 0
    <3>1. CASE Len(seen) = 3
      BY <2>4, <2>5, <3>1
    <3>2. Len(seen) = 3 \/ ~(Len(seen) + 1 >= 4)
      <4>1. \A n \in Nat : n < 4 => n = 3 \/ ~(n + 1 >= 4)
        OBVIOUS
      <4> QED BY <2>1, <2>2, <4>1
    <3> QED BY <2>4, <3>1, <3>2
  <2> QED BY <2>1, <2>6, <2>7 DEF SeenInv
<1> QED BY <1>2, <1>3, <1>4, WhoReads

LEMMA VerdictsAreFounded ==
    ASSUME NEW s
    PROVE  /\ Verdict(s) = "black" => s[3] = 0
           /\ Verdict(s) = "white" => s[4] = 0
           /\ Verdict(s) = "none" => s[3] # 0 /\ s[4] # 0
<1> QED BY DEF Verdict

LEMMA WhoPublishes == ASSUME [Next]_vars PROVE UNCHANGED winner \/ Publish
<1> USE DEF clientVars, channelVars, moverVars, captureVars, boardVars, statsVars, endVars
<1>1. CASE UNCHANGED vars
  BY <1>1 DEF vars
<1>2. CASE \E c \in Clients : Reject(c) \/ SendMove(c) \/ Enqueue(c) \/ GiveUp(c) \/ Close(c)
  BY <1>2 DEF Reject, SendMove, Enqueue, GiveUp, Close
<1>3. CASE AskBulk \/ Drain \/ CloseClients \/ StopJobs
  BY <1>3 DEF AskBulk, Drain, CloseClients, StopJobs
<1>4. CASE StatsTick \/ ReadCounter \/ Judge \/ CancelMoves \/ StatsStop
  BY <1>4 DEF StatsTick, ReadCounter, Judge, CancelMoves, StatsStop
<1>5. CASE TakeMove \/ TakeBulk \/ Finish \/ EndGame \/ StopMoves \/ AnswerMove \/ StopMover
  BY <1>5 DEF TakeMove, TakeBulk, Finish, EndGame, StopMoves, AnswerMove, StopMover
<1>6. CASE \E c \in Colors : CountOther(c) \/ CountPiece(c) \/ CountKing(c)
  BY <1>6 DEF CountOther, CountPiece, CountKing
<1> QED BY <1>1, <1>2, <1>3, <1>4, <1>5, <1>6 DEF Next, Mover, Stats

(* A side that is said to have won has taken every king of the other: the  *)
(* counters are read one after the other while captures are counted, but a *)
(* king is counted after it is gone, and none comes back (server.go:       *)
(* 361-382).                                                               *)
THEOREM WinnersHaveWon == Spec => []WinnersWon
<1>1. Init => SeenInv /\ WinnersWon
  <2> SUFFICES ASSUME Init PROVE SeenInv /\ WinnersWon
    OBVIOUS
  <2>1. Len(seen) = 0
    BY EmptySeq DEF Init
  <2>2. winner = Verdict(Remaining)
    BY DEF Init
  <2>3. /\ Remaining[3] = 0 => kings["white"] = 0
        /\ Remaining[4] = 0 => kings["black"] = 0
    BY CountersStart, NothingLeft DEF Remaining, Colors
  <2> QED BY <2>1, <2>2, <2>3, VerdictsAreFounded DEF SeenInv, WinnersWon
<1>2. ASSUME IInv, SeenInv, WinnersWon, [Next]_vars PROVE WinnersWon'
  <2>1. /\ kings["white"] = 0 => kings'["white"] = 0
        /\ kings["black"] = 0 => kings'["black"] = 0
    BY <1>2, KingsStayCaptured DEF Colors
  <2>2. CASE UNCHANGED winner
    BY <1>2, <2>1, <2>2 DEF WinnersWon
  <2>3. CASE Publish
    <3>1. winner' = Verdict(seen) /\ Len(seen) = 4
      BY <1>2, <2>3 DEF Publish, IInv, RestInv
    <3> QED BY <1>2, <2>1, <3>1, VerdictsAreFounded DEF SeenInv, WinnersWon
  <2> QED BY <1>2, <2>2, <2>3, WhoPublishes
<1>3. IInv /\ SeenInv /\ WinnersWon /\ [Next]_vars => (SeenInv /\ WinnersWon)'
  BY <1>2, SeenKept
<1> QED BY <1>1, <1>3, Invariant, PTL DEF Spec

-----------------------------------------------------------------------------
(* The end *)

(* Somebody saw that side c has no king, or is going to before another     *)
(* move is made.                                                           *)
Ending(c) ==
    \/ cancelled
    \/ mover \in {"winning", "cancelling"}
    \/ mover = "counting" /\ (todoKings[c] = 1 \/ won)

(* As long as only moves capture, they capture one king at most, and it    *)
(* ends the game if it is the last one.                                    *)
EndInv ==
    bulksAsked = 0 =>
        /\ bulks = 0
        /\ mover = "counting" => request # bulkCapture
        /\ \A c \in Colors : todoKings[c] <= 1
        /\ todoKings["white"] = 0 \/ todoKings["black"] = 0
        /\ mover = "counting" /\ won => \A c \in Colors : todoKings[c] = 0
        /\ \A c \in Colors : kings[c] = 0 => Ending(c)

(* What all other steps leave as it is.                                    *)
Quiet ==
    /\ UNCHANGED <<bulks, bulksAsked, mover, request, todoKings, kings, won, applied>>
    /\ cancelled => cancelled'

LEMMA WhoEnds ==
    ASSUME [Next]_vars
    PROVE  \/ Quiet \/ AskBulk \/ Mover
<1> USE DEF clientVars, channelVars, moverVars, captureVars, boardVars, statsVars, endVars
<1>1. CASE UNCHANGED vars
  BY <1>1 DEF vars, Quiet
<1>2. CASE \E c \in Clients : Reject(c) \/ SendMove(c) \/ Enqueue(c) \/ GiveUp(c) \/ Close(c)
  BY <1>2 DEF Reject, SendMove, Enqueue, GiveUp, Close, Quiet
<1>3. CASE Drain \/ CloseClients \/ StopJobs
  BY <1>3 DEF Drain, CloseClients, StopJobs, Quiet
<1>4. CASE Stats
  <2>1. CASE StatsTick \/ ReadCounter \/ Judge
    BY <2>1 DEF StatsTick, ReadCounter, Judge, Quiet
  <2>2. CASE CancelMoves \/ Publish \/ StatsStop
    BY <2>2 DEF CancelMoves, Publish, StatsStop, Quiet
  <2> QED BY <1>4, <2>1, <2>2 DEF Stats
<1> QED BY <1>1, <1>2, <1>3, <1>4 DEF Next

LEMMA EndStart == Init => EndInv
<1> SUFFICES ASSUME Init PROVE EndInv
  OBVIOUS
<1>1. bulks = 0 /\ mover = "idle" /\ todoKings = nobody
  BY DEF Init
<1>2. \A c \in Colors : todoKings[c] = 0 /\ todoKings[c] <= 1
  BY <1>1 DEF nobody
<1>3. ASSUME NEW c \in Colors, kings[c] = 0 PROVE cancelled
  <2>1. kings[c] = 0 => TOTAL_KINGS_PER_SIDE - capturedKings[c] = 0
    <3>1. capturedKings[c] = TOTAL_KINGS_PER_SIDE - kings[c]
      BY DEF Init
    <3> QED BY <3>1, Numbers
  <2>2. Remaining[3] = 0 \/ Remaining[4] = 0
    BY <1>3, <2>1 DEF Remaining, Colors
  <2>3. Verdict(Remaining) # "none"
    BY <2>2, VerdictsAreFounded
  <2> QED BY <2>3 DEF Init
<1> QED BY <1>1, <1>2, <1>3 DEF EndInv, Ending, Colors

(* A move the board accepts is applied before the end.                     *)
LEMMA EndTakeMove ==
    ASSUME IInv, EndInv, TakeMove, bulksAsked = 0
    PROVE  /\ EndInv'
           /\ applied' # applied => \A c \in Colors : kings[c] # 0
<1>1. /\ mover = "idle" /\ queue # <<>> /\ request' = Head(queue)
      /\ UNCHANGED <<bulks, bulksAsked, cancelled>>
  BY DEF TakeMove, endVars
<1>2. CASE /\ UNCHANGED <<applied, todoKings, kings>> /\ mover' # "counting"
           /\ cancelled \/ UNCHANGED mover
  <2>1. \A c \in Colors : kings'[c] = 0 => Ending(c)'
    BY <1>1, <1>2 DEF EndInv, Ending
  <2> QED BY <1>1, <1>2, <2>1 DEF EndInv
<1>3. CASE ~cancelled /\ Apply(1) /\ won' = FALSE
  <2>1. PICK ks \in [Colors -> 0 .. 1] :
           /\ ks["white"] + ks["black"] <= 1
           /\ kings' = [c \in Colors |-> kings[c] - ks[c]]
           /\ todoKings' = ks
    <3>1. PICK ks \in [Colors -> 0 .. 1], os \in [Colors -> 0 .. 1] :
             /\ ks["white"] + ks["black"] + os["white"] + os["black"] <= 1
             /\ kings' = [c \in Colors |-> kings[c] - ks[c]]
             /\ todoKings' = ks
      BY <1>3 DEF Apply, CanCapture
    <3>2. /\ ks["white"] \in 0 .. 1 /\ ks["black"] \in 0 .. 1
          /\ os["white"] \in 0 .. 1 /\ os["black"] \in 0 .. 1
      BY DEF Colors
    <3>3. ks["white"] + ks["black"] <= 1
      BY <3>1, <3>2
    <3> QED BY <3>1, <3>3
  <2>2. mover' = "counting" /\ ~won'
    BY <1>3 DEF Apply
  <2>3. Head(queue) # bulkCapture
    <3>1. Head(queue) \in Requests
      BY <1>1, HeadTailProperties DEF IInv, RestInv, RestOK
    <3>2. bulkCapture \notin Requests
      BY DEF bulkCapture, Requests
    <3> QED BY <3>1, <3>2
  <2>4. \A c \in Colors : kings[c] # 0
    BY <1>1, <1>3 DEF EndInv, Ending
  <2>5. ASSUME NEW c \in Colors
        PROVE  todoKings'[c] <= 1 /\ (kings'[c] = 0 => todoKings'[c] = 1)
    <3>1. kings'[c] = kings[c] - ks[c] /\ ks[c] \in 0 .. 1 /\ todoKings'[c] = ks[c]
      BY <2>1
    <3>2. kings[c] # 0 /\ kings[c] \in Nat
      BY <2>4 DEF IInv, CountersInv, CountersOK
    <3> QED BY <3>1, <3>2
  <2>6. todoKings'["white"] = 0 \/ todoKings'["black"] = 0
    <3>1. ks["white"] \in 0 .. 1 /\ ks["black"] \in 0 .. 1
      BY DEF Colors
    <3>2. ks["white"] = 0 \/ ks["black"] = 0
      BY <2>1, <3>1
    <3> QED BY <2>1, <3>2
  <2> QED BY <1>1, <2>2, <2>3, <2>4, <2>5, <2>6 DEF EndInv, Ending
<1> QED BY <1>2, <1>3 DEF TakeMove, captureVars, boardVars

LEMMA EndCounts ==
    ASSUME IInv, EndInv, bulksAsked = 0,
           NEW d \in Colors, CountOther(d) \/ CountPiece(d) \/ CountKing(d)
    PROVE  EndInv' /\ UNCHANGED applied
<1>1. /\ mover = "counting"
      /\ UNCHANGED <<mover, request, kings, applied, bulks, bulksAsked, cancelled>>
  BY DEF CountOther, CountPiece, CountKing, channelVars, endVars
<1>2. CASE UNCHANGED <<todoKings, won>>
  BY <1>1, <1>2 DEF EndInv, Ending
<1>3. CASE CountKing(d)
  <2>1. /\ half = d /\ todoKings' = [todoKings EXCEPT ![d] = todoKings[d] - 1]
        /\ won' = WinsGame(capturedKings[d] + 1)
    BY <1>1, <1>3 DEF CountKing, EndInv
  <2>2. /\ todoKings[d] \in Nat /\ todoKings[d] > 0 /\ todoKings[d] <= 1
        /\ kings[d] \in Nat /\ capturedKings[d] \in Nat
        /\ capturedKings[d] + todoKings[d] + kings[d] = TOTAL_KINGS_PER_SIDE
    BY <2>1, Numbers DEF IInv, CountersInv, CountersOK, Balanced, EndInv
  <2>3. todoKings[d] = 1
    BY <2>2
  <2>4. capturedKings[d] + 1 + kings[d] = TOTAL_KINGS_PER_SIDE
    BY <2>2, <2>3
  <2>5. kings[d] = 0 => won'
    <3>1. kings[d] = 0 => capturedKings[d] + 1 = TOTAL_KINGS_PER_SIDE
      BY <2>2, <2>4
    <3> QED BY <2>1, <3>1 DEF WinsGame
  <2>6. \A c \in Colors : todoKings'[c] = 0
    <3>1. todoKings'[d] = 0
      BY <2>1, <2>3 DEF IInv, CountersInv, CountersOK
    <3>2. ASSUME NEW c \in Colors, c # d PROVE todoKings'[c] = 0
      <4>1. todoKings'[c] = todoKings[c]
        BY <2>1, <3>2 DEF IInv, CountersInv, CountersOK
      <4>2. todoKings[c] = 0
        BY <1>1, <2>3, <3>2 DEF EndInv, Colors
      <4> QED BY <4>1, <4>2
    <3> QED BY <3>1, <3>2
  <2>7. ASSUME NEW c \in Colors, kings'[c] = 0 PROVE Ending(c)'
    <3>1. CASE c = d
      BY <1>1, <2>5, <2>7, <3>1 DEF Ending
    <3>2. CASE c # d
      <4>1. todoKings[c] # 1 /\ ~won
        BY <1>1, <2>3, <3>2 DEF EndInv, Colors
      <4>2. Ending(c)
        BY <1>1, <2>7 DEF EndInv
      <4> QED BY <1>1, <4>1, <4>2 DEF Ending
    <3> QED BY <3>1, <3>2
  <2> QED BY <1>1, <2>6, <2>7 DEF EndInv, Colors
<1> QED BY <1>1, <1>2, <1>3 DEF CountOther, CountPiece

LEMMA EndMover ==
    ASSUME IInv, EndInv, Mover, bulksAsked = 0
    PROVE  /\ EndInv'
           /\ applied' # applied => \A c \in Colors : kings[c] # 0
<1> USE DEF clientVars, channelVars, moverVars, captureVars, boardVars, statsVars, endVars
<1>1. CASE TakeMove
  BY <1>1, EndTakeMove
<1>2. CASE TakeBulk
  BY <1>2 DEF TakeBulk, EndInv
<1>3. CASE \E c \in Colors : CountOther(c) \/ CountPiece(c) \/ CountKing(c)
  BY <1>3, EndCounts
<1>4. CASE Finish
  <2>1. \A c \in Colors : todoKings[c] = 0
    BY <1>4 DEF Finish, nobody
  <2>2. /\ mover = "counting" /\ mover' = IF won THEN "winning" ELSE "answering"
        /\ UNCHANGED <<bulks, bulksAsked, todoKings, kings, applied, cancelled>>
    BY <1>4 DEF Finish, EndInv
  <2>3. \A c \in Colors : kings'[c] = 0 => Ending(c)'
    BY <2>1, <2>2 DEF EndInv, Ending
  <2>4. mover' # "counting"
    BY <2>2
  <2> QED BY <2>1, <2>2, <2>3, <2>4 DEF EndInv
<1>5. CASE EndGame \/ StopMoves \/ AnswerMove \/ StopMover
  <2>1. /\ mover # "counting" /\ mover' # "counting"
        /\ UNCHANGED <<bulks, bulksAsked, todoKings, kings, applied>>
        /\ mover' = "cancelling" \/ cancelled' \/ mover \notin {"winning", "cancelling"}
        /\ cancelled => cancelled'
    BY <1>5 DEF EndGame, StopMoves, AnswerMove, StopMover
  <2>2. \A c \in Colors : kings'[c] = 0 => Ending(c)'
    BY <2>1 DEF EndInv, Ending
  <2> QED BY <2>1, <2>2 DEF EndInv
<1> QED BY <1>1, <1>2, <1>3, <1>4, <1>5 DEF Mover

LEMMA EndKept ==
    ASSUME IInv, EndInv, [Next]_vars
    PROVE  /\ EndInv'
           /\ bulksAsked = 0 /\ applied' # applied => \A c \in Colors : kings[c] # 0
<1>1. CASE Quiet
  <2>1. \A c \in Colors : Ending(c) => Ending(c)'
    BY <1>1 DEF Quiet, Ending
  <2> QED BY <1>1, <2>1 DEF Quiet, EndInv
<1>2. CASE AskBulk
  <2>1. bulksAsked' # 0 /\ UNCHANGED applied
    <3>1. bulksAsked' = bulksAsked + 1 /\ UNCHANGED applied
      BY <1>2 DEF AskBulk, boardVars
    <3>2. bulksAsked \in Nat
      BY GameOverAssumption DEF IInv, RestInv, RestOK
    <3> QED BY <3>1, <3>2
  <2> QED BY <2>1 DEF EndInv
<1>3. CASE Mover
  <2>1. CASE bulksAsked = 0
    BY <1>3, <2>1, EndMover
  <2>2. CASE bulksAsked # 0
    <3>1. UNCHANGED bulksAsked
      BY <1>3 DEF Mover, TakeMove, TakeBulk, CountOther, CountPiece, CountKing, Finish,
                  EndGame, StopMoves, AnswerMove, StopMover, channelVars
    <3> QED BY <2>2, <3>1 DEF EndInv
  <2> QED BY <2>1, <2>2
<1> QED BY <1>1, <1>2, <1>3, WhoEnds

(* As long as only moves capture, the board accepts no move once a side    *)
(* has no king: processMoves counts a king, recognises the last one and    *)
(* cancels itself before it takes the next move, and a server that starts  *)
(* with such a board takes none (server.go:349-391, 447-462; board.go:     *)
(* 700-711).                                                               *)
THEOREM NoMoveAfterTheLastKing == Spec => TheWinningMoveIsTheLast
<1>1. IInv /\ EndInv /\ [Next]_vars
        => [bulksAsked = 0 /\ (\E c \in Colors : kings[c] = 0) => applied' = applied]_vars
  BY EndKept
<1>2. IInv /\ EndInv /\ [Next]_vars => EndInv'
  BY EndKept
<1> QED BY <1>1, <1>2, EndStart, Invariant, PTL DEF Spec, TheWinningMoveIsTheLast

-----------------------------------------------------------------------------
(* Answers *)

Sent(r) == r.token <= sent[r.client]

(* Nobody has decided about r.                                             *)
Undecided(r) == r \notin applied /\ \A a \in answers : a.req # r

(* A move is undecided as long as it waits, and waits in one place.        *)
FreshInv ==
    /\ \A r \in applied : Sent(r)
    /\ \A a \in answers : Sent(a.req)
    /\ \A i \in 1 .. Len(queue) : Sent(queue[i]) /\ Undecided(queue[i])
    /\ \A i, j \in 1 .. Len(queue) : i # j => queue[i] # queue[j]
    /\ \A c \in Clients : pump[c] = "sending" =>
         Undecided(Latest(c)) /\ \A i \in 1 .. Len(queue) : queue[i] # Latest(c)
    /\ mover \in {"counting", "winning", "cancelling", "answering"} =>
         request = bulkCapture \/ request \in applied

AnswerInv == FreshInv /\ AnswersTellTheTruth

freshVars == <<pump, sent, answers, queue, mover, request, applied>>

LEMMA WhoAnswers ==
    ASSUME [Next]_vars
    PROVE  \/ UNCHANGED freshVars
           \/ \E c \in Clients : Reject(c) \/ SendMove(c) \/ Enqueue(c) \/ GiveUp(c)
           \/ TakeMove \/ TakeBulk \/ Finish \/ EndGame \/ StopMoves \/ AnswerMove
           \/ StopMover \/ Drain
<1> USE DEF clientVars, channelVars, moverVars, captureVars, boardVars, statsVars, endVars,
            freshVars
<1>1. CASE UNCHANGED vars
  BY <1>1 DEF vars
<1>2. CASE \E c \in Clients : Close(c)
  BY <1>2 DEF Close
<1>3. CASE AskBulk \/ CloseClients \/ StopJobs
  BY <1>3 DEF AskBulk, CloseClients, StopJobs
<1>4. CASE Stats
  BY <1>4 DEF Stats, StatsTick, ReadCounter, Judge, CancelMoves, Publish, StatsStop
<1>5. CASE \E c \in Colors : CountOther(c) \/ CountPiece(c) \/ CountKing(c)
  BY <1>5 DEF CountOther, CountPiece, CountKing
<1> QED BY <1>1, <1>2, <1>3, <1>4, <1>5 DEF Next, Mover

LEMMA BulkIsNoRequest == bulkCapture \notin Requests
<1> QED BY DEF bulkCapture, Requests

LEMMA AnswersStart == Init => AnswerInv
<1> SUFFICES ASSUME Init PROVE AnswerInv
  OBVIOUS
<1>1. answers = {} /\ applied = {} /\ mover = "idle" /\ \A c \in Clients : pump[c] = "reading"
  BY DEF Init
<1>2. Len(queue) = 0
  BY EmptySeq DEF Init
<1> QED BY <1>1, <1>2 DEF AnswerInv, FreshInv, AnswersTellTheTruth

(* Once a client sends another move, what it sent before stays sent, and   *)
(* nobody knows the new one.                                               *)
LEMMA NewToken ==
    ASSUME IInv, FreshInv, NEW c \in Clients, sent' = [sent EXCEPT ![c] = sent[c] + 1]
    PROVE  /\ \A r \in Requests : Sent(r) => Sent(r)'
           /\ ~ Sent(Latest(c)') /\ Sent(Latest(c))'
           /\ \A d \in Clients \ {c} : Latest(d)' = Latest(d)
<1>1. sent \in [Clients -> Nat]
  BY GameOverAssumption DEF IInv, RestInv, RestOK
<1>2. ASSUME NEW r \in Requests, Sent(r) PROVE Sent(r)'
  <2>1. r.client \in Clients /\ r.token \in Nat
    BY GameOverAssumption DEF Requests
  <2>2. r.token <= sent[r.client] /\ sent[r.client] \in Nat
    BY <1>1, <1>2, <2>1 DEF Sent
  <2>3. sent'[r.client] = sent[r.client] \/ sent'[r.client] = sent[r.client] + 1
    BY <1>1, <2>1
  <2>4. r.token <= sent'[r.client]
    BY <2>1, <2>2, <2>3
  <2> QED BY <2>4 DEF Sent
<1>3. Latest(c)' = [client |-> c, token |-> sent[c] + 1]
  BY <1>1 DEF Latest
<1>4. ~ Sent(Latest(c)')
  <2>1. sent[c] \in Nat
    BY <1>1
  <2>2. ~(sent[c] + 1 <= sent[c])
    BY <2>1
  <2> QED BY <1>3, <2>2 DEF Sent
<1>5. \A d \in Clients \ {c} : Latest(d)' = Latest(d)
  BY <1>1 DEF Latest
<1>6. Sent(Latest(c))'
  <2>1. sent'[c] \in Nat
    BY <1>1
  <2>2. sent'[c] <= sent'[c]
    BY <2>1
  <2> QED BY <2>2 DEF Sent, Latest
<1> QED BY <1>2, <1>4, <1>5, <1>6

(* What is left of the queue waited there before, and is not the request   *)
(* that left it.                                                           *)
LEMMA LeavesTheQueue ==
    ASSUME IInv, FreshInv, queue # <<>>, queue' = Tail(queue)
    PROVE  /\ Head(queue) \in Requests /\ Sent(Head(queue)) /\ Undecided(Head(queue))
           /\ \A c \in Clients : pump[c] = "sending" => Head(queue) # Latest(c)
           /\ \A i \in 1 .. Len(queue') :
                /\ queue'[i] # Head(queue)
                /\ Sent(queue'[i]) /\ Undecided(queue'[i])
                /\ \A c \in Clients : pump[c] = "sending" => queue'[i] # Latest(c)
           /\ \A i, j \in 1 .. Len(queue') : i # j => queue'[i] # queue'[j]
<1>1. queue \in Seq(Requests)
  BY DEF IInv, RestInv, RestOK
<1>2. /\ Head(queue) \in Requests /\ Head(queue) = queue[1]
      /\ Len(queue) \in Nat /\ Len(queue') = Len(queue) - 1
      /\ \A i \in 1 .. Len(queue') : queue'[i] = queue[i + 1]
  BY <1>1, HeadTailProperties, LenProperties
<1>3. 1 \in 1 .. Len(queue)
  <2>1. Len(queue) # 0
    BY <1>1, EmptySeq
  <2> QED BY <1>2, <2>1
<1>4. ASSUME NEW i \in 1 .. Len(queue')
      PROVE  i + 1 \in 1 .. Len(queue) /\ i + 1 # 1 /\ queue'[i] = queue[i + 1]
  BY <1>2
<1>5. ASSUME NEW i \in 1 .. Len(queue'), NEW j \in 1 .. Len(queue'), i # j
      PROVE  queue'[i] # queue'[j]
  <2>1. i + 1 # j + 1
    BY <1>5
  <2> QED BY <1>4, <2>1 DEF FreshInv
<1>6. ASSUME NEW i \in 1 .. Len(queue')
      PROVE  /\ queue'[i] # Head(queue)
             /\ Sent(queue'[i]) /\ Undecided(queue'[i])
             /\ \A c \in Clients : pump[c] = "sending" => queue'[i] # Latest(c)
  BY <1>2, <1>3, <1>4 DEF FreshInv
<1>7. /\ Sent(Head(queue)) /\ Undecided(Head(queue))
      /\ \A c \in Clients : pump[c] = "sending" => Head(queue) # Latest(c)
  BY <1>2, <1>3 DEF FreshInv
<1> QED BY <1>2, <1>5, <1>6, <1>7

LEMMA QueueIsTyped ==
    ASSUME IInv, NEW i \in 1 .. Len(queue)
    PROVE  queue[i] \in Requests
<1>1. queue \in Seq(Requests)
  BY DEF IInv, RestInv, RestOK
<1> QED BY <1>1, LenProperties

LEMMA LatestIsSent == ASSUME IInv, NEW c \in Clients PROVE Sent(Latest(c))
<1>1. sent[c] \in Nat
  BY GameOverAssumption DEF IInv, RestInv, RestOK
<1>2. sent[c] <= sent[c]
  BY <1>1
<1> QED BY <1>2 DEF Sent, Latest

LEMMA AnswersReject ==
    ASSUME IInv, AnswerInv, NEW c \in Clients, Reject(c)
    PROVE  AnswerInv'
<1>1. /\ pump[c] = "reading" /\ sent' = [sent EXCEPT ![c] = sent[c] + 1]
      /\ UNCHANGED <<pump, queue, mover, request, applied>>
      /\ \/ UNCHANGED answers
         \/ Answer(Latest(c)', "invalid")
         \/ c \in Suspects /\ Answer(Latest(c)', "valid")
  BY DEF Reject, channelVars, moverVars, boardVars
<1>2. /\ applied \subseteq Requests
      /\ answers \subseteq [req : Requests, verdict : {"valid", "invalid"}]
  BY DEF IInv, RestInv, RestOK
<1>3. /\ \A r \in Requests : Sent(r) => Sent(r)'
      /\ ~ Sent(Latest(c)') /\ Sent(Latest(c))'
      /\ \A d \in Clients \ {c} : Latest(d)' = Latest(d)
  BY <1>1, NewToken DEF AnswerInv
<1>4. PICK n : n = Latest(c)'
  OBVIOUS
<1>5. Sent(n)' /\ ~ Sent(n)
  BY <1>3, <1>4
<1>6. /\ \A a \in answers : a \in answers'
      /\ \A a, b \in answers' \ answers : a = b
      /\ \A a \in answers' \ answers :
           /\ a.req = n /\ a.verdict \in {"valid", "invalid"}
           /\ a.verdict = "valid" => c \in Suspects
  BY <1>1, <1>4 DEF Answer
<1>7. \A r \in Requests : Sent(r) /\ Undecided(r) => Undecided(r)'
  BY <1>1, <1>5, <1>6 DEF Undecided
<1>8. /\ \A r \in applied' : Sent(r)'
      /\ \A a \in answers' : Sent(a.req)'
  BY <1>1, <1>2, <1>3, <1>5, <1>6 DEF AnswerInv, FreshInv
<1>9. \A i \in 1 .. Len(queue') : (Sent(queue[i]) /\ Undecided(queue[i]))'
  BY <1>1, <1>3, <1>7, QueueIsTyped DEF AnswerInv, FreshInv
<1>10. ASSUME NEW d \in Clients, pump'[d] = "sending"
       PROVE  /\ Undecided(Latest(d))'
              /\ \A i \in 1 .. Len(queue') : queue'[i] # Latest(d)'
  <2>1. d # c /\ pump[d] = "sending" /\ Latest(d)' = Latest(d)
    BY <1>1, <1>3, <1>10
  <2>2. Sent(Latest(d)) /\ Undecided(Latest(d))
    BY <2>1, LatestIsSent DEF AnswerInv, FreshInv
  <2>3. sent[d] \in 1 .. MaxMoves
    BY <2>1, GameOverAssumption DEF IInv, RestInv, RestOK
  <2>4. Latest(d) \in Requests
    BY <2>3, LatestIsARequest
  <2> QED BY <1>1, <1>7, <2>1, <2>2, <2>4 DEF AnswerInv, FreshInv
<1>11. AnswersTellTheTruth'
  <2>1. n.client = c
    BY <1>4 DEF Latest
  <2>2. n \notin applied' /\ \A a \in answers : a.req # n
    BY <1>1, <1>5, <1>6 DEF AnswerInv, FreshInv
  <2> QED BY <1>1, <1>6, <2>1, <2>2 DEF AnswerInv, AnswersTellTheTruth
<1> QED BY <1>1, <1>8, <1>9, <1>10, <1>11 DEF AnswerInv, FreshInv

LEMMA AnswersSend ==
    ASSUME IInv, AnswerInv, NEW c \in Clients, SendMove(c)
    PROVE  AnswerInv'
<1>1. /\ pump' = [pump EXCEPT ![c] = "sending"] /\ sent' = [sent EXCEPT ![c] = sent[c] + 1]
      /\ UNCHANGED <<answers, queue, mover, request, applied>>
  BY DEF SendMove, channelVars, moverVars, boardVars
<1>2. /\ applied \subseteq Requests
      /\ answers \subseteq [req : Requests, verdict : {"valid", "invalid"}]
      /\ pump \in [Clients -> {"reading", "sending"}]
  BY DEF IInv, RestInv, RestOK
<1>3. /\ \A r \in Requests : Sent(r) => Sent(r)'
      /\ ~ Sent(Latest(c)')
      /\ \A d \in Clients \ {c} : Latest(d)' = Latest(d)
  BY <1>1, NewToken DEF AnswerInv
<1>4. /\ \A r \in applied' : Sent(r)'
      /\ \A a \in answers' : Sent(a.req)'
  BY <1>1, <1>2, <1>3 DEF AnswerInv, FreshInv
<1>5. \A i \in 1 .. Len(queue') : (Sent(queue[i]) /\ Undecided(queue[i]))'
  BY <1>1, <1>3, QueueIsTyped DEF AnswerInv, FreshInv, Undecided
<1>6. ASSUME NEW d \in Clients, pump'[d] = "sending"
      PROVE  /\ Undecided(Latest(d))'
             /\ \A i \in 1 .. Len(queue') : queue'[i] # Latest(d)'
  <2>1. CASE d = c
    BY <1>1, <1>3, <2>1 DEF AnswerInv, FreshInv, Undecided
  <2>2. CASE d # c
    <3>1. pump[d] = "sending" /\ Latest(d)' = Latest(d)
      BY <1>1, <1>2, <1>3, <1>6, <2>2
    <3> QED BY <1>1, <3>1 DEF AnswerInv, FreshInv, Undecided
  <2> QED BY <2>1, <2>2
<1>7. AnswersTellTheTruth'
  BY <1>1 DEF AnswerInv, AnswersTellTheTruth
<1> QED BY <1>1, <1>4, <1>5, <1>6, <1>7 DEF AnswerInv, FreshInv

LEMMA AnswersEnqueue ==
    ASSUME IInv, AnswerInv, NEW c \in Clients, Enqueue(c)
    PROVE  AnswerInv'
<1>1. /\ pump[c] = "sending" /\ pump' = [pump EXCEPT ![c] = "reading"]
      /\ queue' = Append(queue, Latest(c))
      /\ UNCHANGED <<sent, answers, mover, request, applied>>
  BY DEF Enqueue, moverVars, boardVars
<1>2. /\ pump \in [Clients -> {"reading", "sending"}] /\ queue \in Seq(Requests)
      /\ sent[c] \in 1 .. MaxMoves
  BY <1>1, GameOverAssumption DEF IInv, RestInv, RestOK
<1>3. Latest(c) \in Requests
  BY <1>2, LatestIsARequest
<1>4. /\ Len(queue) \in Nat /\ Len(queue') = Len(queue) + 1
      /\ \A i \in 1 .. Len(queue) : queue'[i] = queue[i]
      /\ queue'[Len(queue) + 1] = Latest(c)
  BY <1>1, <1>2, <1>3, AppendProperties, LenProperties
<1>5. \A i \in 1 .. Len(queue') : i \in 1 .. Len(queue) \/ i = Len(queue) + 1
  BY <1>4
<1>6. /\ Sent(Latest(c)) /\ Undecided(Latest(c))
      /\ \A i \in 1 .. Len(queue) : queue[i] # Latest(c)
  BY <1>1, LatestIsSent DEF AnswerInv, FreshInv
<1>7. \A r : (Sent(r) => Sent(r)') /\ (Undecided(r) => Undecided(r)')
  BY <1>1 DEF Sent, Undecided
<1>8. \A i \in 1 .. Len(queue') : (Sent(queue[i]) /\ Undecided(queue[i]))'
  BY <1>4, <1>5, <1>6, <1>7 DEF AnswerInv, FreshInv
<1>9. \A i, j \in 1 .. Len(queue') : i # j => queue'[i] # queue'[j]
  BY <1>4, <1>5, <1>6 DEF AnswerInv, FreshInv
<1>10. ASSUME NEW d \in Clients, pump'[d] = "sending"
       PROVE  /\ Undecided(Latest(d))'
              /\ \A i \in 1 .. Len(queue') : queue'[i] # Latest(d)'
  <2>1. d # c /\ pump[d] = "sending" /\ Latest(d)' = Latest(d)
    BY <1>1, <1>2, <1>10 DEF Latest
  <2>2. Latest(d) # Latest(c)
    BY <2>1 DEF Latest
  <2> QED BY <1>4, <1>5, <1>7, <2>1, <2>2 DEF AnswerInv, FreshInv
<1>11. (\A r \in applied' : Sent(r)') /\ \A a \in answers' : Sent(a.req)'
  BY <1>1, <1>7 DEF AnswerInv, FreshInv
<1>12. AnswersTellTheTruth'
  BY <1>1 DEF AnswerInv, AnswersTellTheTruth
<1> QED BY <1>1, <1>8, <1>9, <1>10, <1>11, <1>12 DEF AnswerInv, FreshInv

LEMMA AnswersTakeMove ==
    ASSUME IInv, AnswerInv, TakeMove \/ Drain
    PROVE  AnswerInv'
<1> DEFINE h == Head(queue)
<1>1. /\ queue # <<>> /\ queue' = Tail(queue) /\ UNCHANGED <<pump, sent>>
      /\ \/ UNCHANGED <<answers, applied>>
         \/ UNCHANGED applied /\ Answer(h, "invalid")
         \/ UNCHANGED answers /\ applied' = applied \cup {h}
      /\ \/ UNCHANGED <<mover, request, applied>>
         \/ mover' \in {"idle", "stopped"}
         \/ request' = h /\ applied' = applied \cup {h}
  BY DEF TakeMove, Drain, Apply, clientVars, moverVars, captureVars, boardVars, IInv, PhaseInv
<1>2. /\ Sent(h) /\ Undecided(h)
      /\ \A c \in Clients : pump[c] = "sending" => h # Latest(c)
      /\ \A i \in 1 .. Len(queue') :
           /\ queue'[i] # h /\ Sent(queue'[i]) /\ Undecided(queue'[i])
           /\ \A c \in Clients : pump[c] = "sending" => queue'[i] # Latest(c)
      /\ \A i, j \in 1 .. Len(queue') : i # j => queue'[i] # queue'[j]
  BY <1>1, LeavesTheQueue DEF AnswerInv
<1> HIDE DEF h
<1>3. \A r : Undecided(r) /\ r # h => Undecided(r)'
  BY <1>1 DEF Undecided, Answer
<1>4. \A r : Sent(r)' <=> Sent(r)
  BY <1>1 DEF Sent
<1>5. \A c \in Clients : Latest(c)' = Latest(c)
  BY <1>1 DEF Latest
<1>6. /\ \A r \in applied' : Sent(r)'
      /\ \A a \in answers' : Sent(a.req)'
  BY <1>1, <1>2, <1>4 DEF AnswerInv, FreshInv, Answer
<1>7. \A i \in 1 .. Len(queue') : (Sent(queue[i]) /\ Undecided(queue[i]))'
  BY <1>2, <1>3, <1>4
<1>8. \A c \in Clients : pump'[c] = "sending" =>
        Undecided(Latest(c))' /\ \A i \in 1 .. Len(queue') : queue'[i] # Latest(c)'
  BY <1>1, <1>2, <1>3, <1>5 DEF AnswerInv, FreshInv
<1>9. mover' \in {"counting", "winning", "cancelling", "answering"} =>
         request' = bulkCapture \/ request' \in applied'
  BY <1>1 DEF AnswerInv, FreshInv
<1>10. AnswersTellTheTruth'
  BY <1>1, <1>2 DEF AnswerInv, AnswersTellTheTruth, Answer, Undecided
<1> QED BY <1>2, <1>6, <1>7, <1>8, <1>9, <1>10 DEF AnswerInv, FreshInv

LEMMA AnswersAnswer ==
    ASSUME IInv, AnswerInv, AnswerMove
    PROVE  AnswerInv'
<1>1. /\ mover = "answering" /\ mover' = "idle" /\ Answer(request, "valid")
      /\ UNCHANGED <<pump, sent, queue, request, applied>>
  BY DEF AnswerMove, clientVars, channelVars, boardVars
<1>2. request \in applied
  BY <1>1, BulkIsNoRequest DEF AnswerInv, FreshInv, IInv, RestInv
<1>3. \A r : Undecided(r) => Undecided(r)'
  BY <1>1, <1>2 DEF Undecided, Answer
<1>4. \A r : Sent(r)' <=> Sent(r)
  BY <1>1 DEF Sent
<1>5. \A c \in Clients : Latest(c)' = Latest(c)
  BY <1>1 DEF Latest
<1>6. /\ \A r \in applied' : Sent(r)'
      /\ \A a \in answers' : Sent(a.req)'
  BY <1>1, <1>2, <1>4 DEF AnswerInv, FreshInv, Answer
<1>7. /\ \A i \in 1 .. Len(queue') : (Sent(queue[i]) /\ Undecided(queue[i]))'
      /\ \A i, j \in 1 .. Len(queue') : i # j => queue'[i] # queue'[j]
  BY <1>1, <1>3, <1>4 DEF AnswerInv, FreshInv
<1>8. \A c \in Clients : pump'[c] = "sending" =>
        Undecided(Latest(c))' /\ \A i \in 1 .. Len(queue') : queue'[i] # Latest(c)'
  BY <1>1, <1>3, <1>5 DEF AnswerInv, FreshInv
<1>9. AnswersTellTheTruth'
  <2>1. PICK new : new = [req |-> request, verdict |-> "valid"]
    OBVIOUS
  <2>2. /\ new.req = request /\ new.verdict = "valid"
        /\ \A a \in answers' : a \in answers \/ a = new
    BY <1>1, <2>1 DEF Answer
  <2>3. ASSUME NEW a \in answers, a.req = request PROVE a = new
    <3>1. a \in [req : Requests, verdict : {"valid", "invalid"}]
      BY DEF IInv, RestInv, RestOK
    <3>2. a.verdict = "valid"
      BY <1>2, <2>3, <3>1 DEF AnswerInv, AnswersTellTheTruth
    <3>3. a = [req |-> a.req, verdict |-> a.verdict]
      BY <3>1
    <3> QED BY <2>1, <2>3, <3>2, <3>3
  <2> QED BY <1>1, <1>2, <2>2, <2>3 DEF AnswerInv, AnswersTellTheTruth
<1> QED BY <1>1, <1>6, <1>7, <1>8, <1>9 DEF AnswerInv, FreshInv

(* The other steps of processMoves decide nothing, and no client sends.    *)
LEMMA AnswersRest ==
    ASSUME IInv, AnswerInv, UNCHANGED <<sent, answers, queue, applied>>,
           \A c \in Clients : pump'[c] = "sending" => pump[c] = "sending",
           \/ UNCHANGED <<mover, request>>
           \/ mover' \in {"idle", "stopped"}
           \/ request' = bulkCapture
           \/ mover \in {"counting", "winning", "cancelling"} /\ UNCHANGED request
    PROVE  AnswerInv'
<1>1. \A r : (Undecided(r)' <=> Undecided(r)) /\ (Sent(r)' <=> Sent(r))
  BY DEF Undecided, Sent
<1>2. \A c \in Clients : Latest(c)' = Latest(c)
  BY DEF Latest
<1>3. /\ \A r \in applied' : Sent(r)'
      /\ \A a \in answers' : Sent(a.req)'
      /\ \A i \in 1 .. Len(queue') : (Sent(queue[i]) /\ Undecided(queue[i]))'
      /\ \A i, j \in 1 .. Len(queue') : i # j => queue'[i] # queue'[j]
  BY <1>1 DEF AnswerInv, FreshInv
<1>4. \A c \in Clients : pump'[c] = "sending" =>
        Undecided(Latest(c))' /\ \A i \in 1 .. Len(queue') : queue'[i] # Latest(c)'
  BY <1>1, <1>2 DEF AnswerInv, FreshInv
<1>5. mover' \in {"counting", "winning", "cancelling", "answering"} =>
         request' = bulkCapture \/ request' \in applied'
  BY DEF AnswerInv, FreshInv
<1>6. AnswersTellTheTruth'
  BY DEF AnswerInv, AnswersTellTheTruth
<1> QED BY <1>3, <1>4, <1>5, <1>6 DEF AnswerInv, FreshInv

LEMMA AnswersKept ==
    ASSUME IInv, AnswerInv, [Next]_vars
    PROVE  AnswerInv'
<1> USE DEF clientVars, channelVars, moverVars, captureVars, boardVars
<1>1. CASE UNCHANGED freshVars
  BY <1>1, AnswersRest DEF freshVars
<1>2. CASE \E c \in Clients : Reject(c) \/ SendMove(c) \/ Enqueue(c)
  BY <1>2, AnswersReject, AnswersSend, AnswersEnqueue
<1>3. ASSUME NEW c \in Clients, GiveUp(c) PROVE AnswerInv'
  <2>1. /\ pump' = [pump EXCEPT ![c] = "reading"]
        /\ UNCHANGED <<sent, answers, queue, applied, mover, request>>
    BY <1>3 DEF GiveUp
  <2>2. \A d \in Clients : pump'[d] = "sending" => pump[d] = "sending"
    BY <2>1 DEF IInv, RestInv, RestOK
  <2> QED BY <2>1, <2>2, AnswersRest
<1>4. CASE TakeMove \/ Drain
  BY <1>4, AnswersTakeMove
<1>5. CASE AnswerMove
  BY <1>5, AnswersAnswer
<1>6. CASE TakeBulk
  <2>1. UNCHANGED <<pump, sent, answers, queue, applied>> /\ request' = bulkCapture
    BY <1>6 DEF TakeBulk
  <2> QED BY <2>1, AnswersRest
<1>7. CASE Finish \/ EndGame \/ StopMoves \/ StopMover
  <2>1. /\ UNCHANGED <<pump, sent, answers, queue, applied, request>>
        /\ mover' = "stopped" \/ mover \in {"counting", "winning", "cancelling"}
    BY <1>7 DEF Finish, EndGame, StopMoves, StopMover
  <2> QED BY <2>1, AnswersRest
<1> QED BY <1>1, <1>2, <1>3, <1>4, <1>5, <1>6, <1>7, WhoAnswers

(* Whoever answers, nobody is told two things of one move, a move told to  *)
(* be invalid was not applied, and one told to be valid was applied or is  *)
(* of a banned or suspected client: it is in one place only, its           *)
(* ReadPump's, the channel's or processMoves' hands, and who takes it out  *)
(* of there decides, once (server.go:387-391, 447-487; client.go:432-442,  *)
(* 457-479, 518-524).                                                      *)
THEOREM AnswersAreTrue == Spec => []AnswersTellTheTruth
<1>1. AnswerInv => AnswersTellTheTruth
  BY DEF AnswerInv
<1> QED BY <1>1, AnswersStart, AnswersKept, Invariant, PTL DEF Spec

(* The board accepts only what comes from the channel, where nothing waits *)
(* that was answered before.                                               *)
LEMMA AcceptedWasUndecided ==
    ASSUME IInv, AnswerInv, [Next]_vars, NEW r \in applied', r \notin applied
    PROVE  Undecided(r)
<1> USE DEF clientVars, channelVars, moverVars, captureVars, boardVars
<1>1. CASE UNCHANGED freshVars
  BY <1>1 DEF freshVars
<1>2. CASE TakeMove
  <2>1. queue # <<>> /\ queue' = Tail(queue) /\ applied' \subseteq applied \cup {Head(queue)}
    BY <1>2 DEF TakeMove
  <2> QED BY <2>1, LeavesTheQueue DEF AnswerInv
<1>3. CASE \E c \in Clients : Reject(c) \/ SendMove(c) \/ Enqueue(c) \/ GiveUp(c)
  BY <1>3 DEF Reject, SendMove, Enqueue, GiveUp
<1>4. CASE \/ TakeBulk \/ Finish \/ EndGame \/ StopMoves \/ AnswerMove
           \/ StopMover \/ Drain
  BY <1>4 DEF TakeBulk, Finish, EndGame, StopMoves, AnswerMove, StopMover, Drain
<1> QED BY <1>1, <1>2, <1>3, <1>4, WhoAnswers

(* A move that was answered, truly or as a pretence, is never applied      *)
(* afterwards (client.go:432-495, server.go:387-391, 446-487).             *)
THEOREM NothingAfterTheAnswer == Spec => AnswersAreFinal
<1>1. ASSUME IInv, AnswerInv, [Next]_vars
      PROVE  [\A a \in answers : a.req \in applied' => a.req \in applied]_vars
  BY <1>1, AcceptedWasUndecided DEF Undecided
<1> QED BY <1>1, AnswersStart, AnswersKept, Invariant, PTL DEF Spec, AnswersAreFinal
=============================================================================
