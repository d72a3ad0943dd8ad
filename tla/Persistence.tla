---------------------------- MODULE Persistence ----------------------------
(***************************************************************************)
(* How the board reaches the disk and comes back (board-to-disk-handler.go *)
(* and its callers in server.go).  processMoves applies each request to    *)
(* the live board and hands it to the board-to-disk handler, whose own     *)
(* goroutine replays it on a second board.  Of that second board it takes  *)
(* a snapshot now and then, which a goroutine of its own writes to a file  *)
(* named after the time the writing starts; batches of requests go to      *)
(* files too.  A restart loads the snapshot whose name has the latest time *)
(* and forgets everything else.                                            *)
(*                                                                         *)
(* A board is the sequence of requests applied to it since the first game  *)
(* began (module Board says what a request does): two boards that applied  *)
(* the same requests are equal, and whether a request is valid is a        *)
(* function of the board and the request.                                  *)
(***************************************************************************)
EXTENDS Integers, Sequences

CONSTANTS
    Moves,                  \* move requests
    AdminRequests,          \* adoption and bulk capture requests
    Accepts(_, _),          \* does a board accept a request?
    QueueCapacity,          \* of btd.requests; 16384
    MAX_MOVES_TO_SERIALIZE, \* 5000
    SavesOverlap,           \* timing: may a save start before the last one ended?
    MaxApplied,             \* bound: requests applied to one board
    MaxSnapshots,           \* bound: periodic snapshots taken by one run
    MaxRuns                 \* bound: runs of the process

VARIABLES
    phase,      \* of the process: see Phases
    run,        \* how many times it was started
    cancelled,  \* is processMovesCtx done?
    live,       \* s.board
    held,       \* accepted by the live board, not yet handed over: <<>> or <<r>>
    mover,      \* is processMoves running?
    queue,      \* btd.requests
    replica,    \* btd.board
    pending,    \* btd.requestsToSerialize
    looper,     \* is RunForever running?
    panicked,   \* did btd.apply panic?
    savers,     \* saveToFile calls under way
    snapshots,  \* periodic snapshots taken by this run
    clock,      \* time.Now(): later than every time read before
    files,      \* board-ts:T-seq:S.bin
    batches,    \* batches of requests this run gave to writeRequestsToDisk
    loaded      \* history variable: how many requests made the board this run began with

serverVars == <<phase, run, cancelled>>
liveVars == <<live, held, mover>>
btdVars == <<queue, replica, pending, looper, panicked, batches, loaded>>
diskVars == <<savers, snapshots, clock, files>>
vars == <<serverVars, liveVars, btdVars, diskVars>>

Requests == Moves \cup AdminRequests

ASSUME PersistenceAssumption ==
    /\ QueueCapacity \in Nat \ {0}
    /\ MAX_MOVES_TO_SERIALIZE \in Nat \ {0}
    /\ MaxApplied \in Nat /\ MaxSnapshots \in Nat /\ MaxRuns \in Nat
    /\ SavesOverlap \in BOOLEAN

(* up: serving.  jobs: GracefulShutdown waits for processMoves.  btd: it   *)
(* waits for RunForever.  flush: it drains the queue.  save: it saves its  *)
(* own snapshot.  closing: it closes the HTTP server.  exited: the process *)
(* is gone.                                                                *)
Phases == {"up", "jobs", "btd", "flush", "save", "closing", "exited"}

Running == phase # "exited"

(* A saveToFile call under way: the board it writes, and the time in the   *)
(* file's name, 0 while it has not read the clock.  Number 0 is the one    *)
(* GracefulShutdown waits for, the others are goroutines.                  *)
Saver(n) == [id |-> n, board |-> replica, ts |-> 0]
final == 0

Init ==
    /\ phase = "up" /\ run = 1 /\ cancelled = FALSE
    /\ live = <<>> /\ held = <<>> /\ mover = TRUE
    /\ queue = <<>> /\ replica = <<>> /\ pending = <<>>
    /\ looper = TRUE /\ panicked = FALSE /\ batches = <<>> /\ loaded = 0
    /\ savers = {} /\ snapshots = 0 /\ clock = 2
    /\ files \in {{}, {[ts |-> 1, board |-> <<>>]}}

-----------------------------------------------------------------------------
(* processMoves *)

Mut_AdminNotReplayed(r) == IF r \in Moves THEN <<r>> ELSE <<>>

(* What is handed to the board-to-disk handler for a request applied.      *)
ToReplay(r) == <<r>>

(* One round of the loop that takes a request off its channel and applies  *)
(* it; a move is not looked at once the context is done.  A request the    *)
(* board refuses changes nothing.                                          *)
ApplyLive(r) ==
    /\ Running /\ mover /\ held = <<>>
    /\ Len(live) < MaxApplied
    /\ r \in Moves => ~cancelled
    /\ Accepts(live, r)
    /\ live' = Append(live, r)
    /\ held' = ToReplay(r)
    /\ UNCHANGED <<mover, serverVars, btdVars, diskVars>>

Mut_SendIgnoresCapacity(r) == queue' = Append(queue, r)

Mut_SendDropsWhenFull(r) ==
    queue' = IF Len(queue) < QueueCapacity THEN Append(queue, r) ELSE queue

(* A send to btd.requests blocks while the channel is full.                *)
Send(r) ==
    /\ Len(queue) < QueueCapacity
    /\ queue' = Append(queue, r)

(* AddMove, AddAdoption, AddBulkCapture                                    *)
HandOver ==
    /\ Running /\ held # <<>>
    /\ Send(Head(held))
    /\ held' = <<>>
    /\ UNCHANGED <<live, mover, replica, pending, looper, panicked, batches, loaded,
                   serverVars, diskVars>>

(* The winning move, or refreshStatsOnce, ends the game.                   *)
EndGame ==
    /\ Running /\ ~cancelled
    /\ cancelled' = TRUE
    /\ UNCHANGED <<phase, run, liveVars, btdVars, diskVars>>

StopMover ==
    /\ Running /\ mover /\ cancelled /\ held = <<>>
    /\ mover' = FALSE
    /\ UNCHANGED <<live, held, serverVars, btdVars, diskVars>>

-----------------------------------------------------------------------------
(* The board-to-disk handler *)

(* What a saveToFile or writeRequestsToDisk has not finished when the      *)
(* process ends is never finished: goroutines and memory are lost.         *)
Exit ==
    /\ phase' = "exited"
    /\ mover' = FALSE /\ looper' = FALSE
    /\ held' = <<>> /\ queue' = <<>> /\ pending' = <<>>
    /\ savers' = {}
    /\ UNCHANGED <<run, cancelled, live, replica, batches, loaded, snapshots, clock, files>>

Panic == panicked' = TRUE /\ Exit

(* Every request counts up: a new game's board has sequence number 1.      *)
SeqNum(board) == Len(board) + 1

(* A file of requests, named after the number of the board they made and   *)
(* one that is as many higher; they are encoded twice.                     *)
Batch(board, reqs) ==
    [startseq |-> SeqNum(board), endseq |-> SeqNum(board) + Len(reqs),
     values |-> <<reqs, reqs>>]

(* ReadAndPrintRequestsFromFile decodes one value.                         *)
ReadBack(batch) == Head(batch.values)

(* maybeSerializeCurrentRequests: whether the file gets written or not is  *)
(* nothing the program looks at.                                           *)
Mut_RequestsAreKept(board, reqs) ==
    /\ batches' = IF reqs = <<>> THEN batches ELSE Append(batches, Batch(board, reqs))
    /\ pending' = reqs
Serialize(board, reqs) ==
    /\ batches' = IF reqs = <<>> THEN batches ELSE Append(batches, Batch(board, reqs))
    /\ pending' = <<>>

(* apply, of the oldest request in the channel.                            *)
Replay ==
    LET r == Head(queue)
    IN  /\ queue' = Tail(queue)
        /\ replica' = Append(replica, r)

ReplayOne ==
    /\ Running /\ looper /\ queue # <<>>
    /\ IF Accepts(replica, Head(queue))
       THEN LET reqs == Append(pending, Head(queue))
            IN  /\ Replay
                /\ IF Len(reqs) > MAX_MOVES_TO_SERIALIZE
                   THEN Serialize(Append(replica, Head(queue)), reqs)
                   ELSE pending' = reqs /\ batches' = batches
                /\ UNCHANGED <<looper, panicked, loaded, liveVars, serverVars, diskVars>>
       ELSE Panic

TickRequests ==
    /\ Running /\ looper /\ pending # <<>>
    /\ Serialize(replica, pending)
    /\ UNCHANGED <<queue, replica, looper, panicked, loaded, liveVars, serverVars,
                   diskVars>>

(* Unless saves may overlap, each ends before the next snapshot: it takes  *)
(* seconds, and the ticker's period is two minutes.                        *)
MaySave == SavesOverlap \/ savers = {}

TickBoard ==
    /\ Running /\ looper
    /\ snapshots < MaxSnapshots
    /\ MaySave
    /\ snapshots' = snapshots + 1
    /\ savers' = savers \cup {Saver(snapshots + 1)}
    /\ UNCHANGED <<clock, files, liveVars, btdVars, serverVars>>

(* saveToFile reads the clock ...                                          *)
SaveStarts(s) ==
    /\ s.ts = 0
    /\ savers' = (savers \ {s}) \cup {[s EXCEPT !.ts = clock]}
    /\ clock' = clock + 1
    /\ UNCHANGED <<snapshots, files, liveVars, btdVars, serverVars>>

Mut_Torn(s) == [ts |-> s.ts, board |-> SubSeq(s.board, 2, Len(s.board))]

FileOf(s) == [ts |-> s.ts, board |-> s.board]

(* ... and WriteFileAtomic makes the whole file appear under its name, or  *)
(* fails and leaves nothing a restart would look at.  The caller ignores   *)
(* the error.                                                              *)
SaveEnds(s) ==
    /\ s.ts # 0
    /\ savers' = savers \ {s}
    /\ files' \in {files, files \cup {FileOf(s)}}
    /\ phase' = IF s.id = final THEN "closing" ELSE phase
    /\ UNCHANGED <<run, cancelled, snapshots, clock, liveVars, btdVars>>

Mut_LooperStopsFirst == phase \in {"jobs", "btd"}

(* btd.ctx is done.                                                        *)
LooperCancelled == phase = "btd"

StopLooper ==
    /\ looper /\ LooperCancelled
    /\ looper' = FALSE
    /\ UNCHANGED <<queue, replica, pending, panicked, batches, loaded,
                   liveVars, serverVars, diskVars>>

-----------------------------------------------------------------------------
(* Shutting down, crashing and starting again *)

Mut_JobsNotAwaited == phase = "jobs"

JobsDone == phase = "jobs" /\ ~mover

BeginShutdown ==
    /\ phase = "up"
    /\ phase' = "jobs" /\ cancelled' = TRUE
    /\ UNCHANGED <<run, liveVars, btdVars, diskVars>>

AwaitJobs ==
    /\ JobsDone
    /\ phase' = "btd"
    /\ UNCHANGED <<run, cancelled, liveVars, btdVars, diskVars>>

AwaitLooper ==
    /\ phase = "btd" /\ ~looper
    /\ phase' = "flush"
    /\ UNCHANGED <<run, cancelled, liveVars, btdVars, diskVars>>

Drain ==
    /\ phase = "flush" /\ queue # <<>>
    /\ IF Accepts(replica, Head(queue))
       THEN /\ Replay
            /\ pending' = Append(pending, Head(queue))
            /\ UNCHANGED <<looper, panicked, batches, loaded, liveVars, serverVars,
                           diskVars>>
       ELSE Panic

Drained == phase = "flush" /\ queue = <<>>

FinalSnapshot ==
    /\ Drained /\ MaySave
    /\ phase' = "save"
    /\ Serialize(replica, pending)
    /\ savers' = savers \cup {Saver(final)}
    /\ UNCHANGED <<run, cancelled, queue, replica, looper, panicked, loaded, liveVars,
                   snapshots, clock, files>>

ExitNormally == phase = "closing" /\ Exit /\ UNCHANGED panicked

Crash == Running /\ Exit /\ UNCHANGED panicked

Mut_Oldest(fs) == {f \in fs : \A g \in fs : f.ts <= g.ts}

Newest(fs) == {f \in fs : \A g \in fs : g.ts <= f.ts}

(* NewBoardToDiskHandler and GetLiveBoard.  A new game's first snapshot is *)
(* saved before anything else happens, and may fail to be.                 *)
Boot ==
    /\ ~Running /\ run < MaxRuns
    /\ IF files = {}
       THEN /\ replica' = <<>>
            /\ files' \in {{}, {[ts |-> clock, board |-> <<>>]}}
       ELSE /\ \E f \in Newest(files) : replica' = f.board
            /\ files' = files
    /\ live' = replica' /\ loaded' = Len(replica')
    /\ phase' = "up" /\ run' = run + 1 /\ cancelled' = FALSE
    /\ mover' = TRUE /\ looper' = TRUE
    /\ held' = <<>> /\ queue' = <<>> /\ pending' = <<>> /\ batches' = <<>>
    /\ panicked' = FALSE
    /\ savers' = {} /\ snapshots' = 0 /\ clock' = clock + 1

Next ==
    \/ \E r \in Requests : ApplyLive(r)
    \/ HandOver \/ EndGame \/ StopMover
    \/ ReplayOne \/ TickRequests \/ TickBoard \/ StopLooper
    \/ \E s \in savers : SaveStarts(s)
    \/ \E s \in savers : SaveEnds(s)
    \/ BeginShutdown \/ AwaitJobs \/ AwaitLooper \/ Drain \/ FinalSnapshot
    \/ ExitNormally \/ Crash \/ Boot

Spec == Init /\ [][Next]_vars

(* Every goroutine keeps running while its process does.  StopMover needs  *)
(* strong fairness: the select of processMoves picks at random among what  *)
(* is ready, so it cannot prefer other channels to ctx.Done() for ever.    *)
(* Tickers, requests, signals and crashes need not come.                   *)
Fairness ==
    /\ WF_vars(HandOver) /\ SF_vars(StopMover)
    /\ WF_vars(ReplayOne) /\ WF_vars(StopLooper)
    /\ WF_vars(AwaitJobs) /\ WF_vars(AwaitLooper) /\ WF_vars(Drain)
    /\ WF_vars(FinalSnapshot) /\ WF_vars(ExitNormally)
    /\ WF_vars(\E s \in savers : SaveStarts(s))
    /\ WF_vars(\E s \in savers : SaveEnds(s))

LiveSpec == Spec /\ Fairness

-----------------------------------------------------------------------------
(* Properties *)

TypeOK ==
    /\ phase \in Phases /\ run \in Nat /\ cancelled \in BOOLEAN
    /\ live \in Seq(Requests) /\ held \in Seq(Requests) /\ mover \in BOOLEAN
    /\ queue \in Seq(Requests) /\ Len(queue) <= QueueCapacity
    /\ replica \in Seq(Requests) /\ pending \in Seq(Requests)
    /\ looper \in BOOLEAN /\ panicked \in BOOLEAN
    /\ snapshots \in Nat /\ clock \in Nat

(* Every request the live board accepted is on its way to the second board *)
(* exactly once and in the same order, whatever processMoves, the handler  *)
(* and a shutdown do in between (server.go:464, 562, 591): the second      *)
(* board, the channel and the request being sent make up the live board.   *)
ReplicaTrailsLive == Running => live = replica \o queue \o held

(* The second board accepts whatever the live board accepted, so the       *)
(* handler never kills the server (panicWithContext, board-to-disk-        *)
(* handler.go:387, 393, 399).                                              *)
NeverPanics == ~panicked

(* A graceful shutdown that reached its own snapshot leaves no accepted    *)
(* request out of it (board-to-disk-handler.go:575-589): processMoves and  *)
(* the handler's loop have ended and the channel is empty by then, and     *)
(* nothing is accepted afterwards.                                         *)
ShutdownFlushesEverything ==
    phase \in {"save", "closing"} =>
        /\ replica = live /\ pending = <<>>
        /\ \A s \in savers : s.id = final => s.board = live

(* The files of requests, read back in order, followed by the requests     *)
(* that still wait for a file, are the requests the second board replayed  *)
(* since the process started, each once: however the size limit, the tick  *)
(* and the shutdown cut them (board-to-disk-handler.go:537-561, 604-607).  *)
FiledBefore(i) == IF i = 1 THEN loaded ELSE batches[i - 1].startseq - 1

EveryRequestIsFiledOnce ==
    Running =>
        \A i \in 1 .. Len(batches) + 1 :
            LET filed == i \in DOMAIN batches
                reqs == IF filed THEN ReadBack(batches[i]) ELSE pending
                upTo == IF filed THEN batches[i].startseq - 1 ELSE Len(replica)
            IN  /\ FiledBefore(i) + Len(reqs) = upTo
                /\ \A n \in DOMAIN reqs : reqs[n] = replica[FiledBefore(i) + n]

(* If saves do not overlap and the clock never goes back, the order of the *)
(* files' names is that of the boards in them, across restarts: the file   *)
(* with the latest time is the longest board ever saved                    *)
(* (board-to-disk-handler.go:186, 293-297).                                *)
NewestIsLongest ==
    \A f, g \in files : g.ts < f.ts => Len(g.board) <= Len(f.board)

(* The server keeps what DurableBoard promises: it resumes from a board    *)
(* that it really had at some moment, complete and unmixed.                *)
Durable == INSTANCE DurableBoard WITH
    Requests <- Requests, board <- live,
    durable <- {f.board : f \in files}, up <- Running

KeepsDurableBoard == Durable!Spec

(* Every request the live board accepted reaches the second board unless   *)
(* the process dies: the bounded channel and the shutdown cannot strand    *)
(* it.                                                                     *)
AcceptedIsReplayed ==
    \A n \in 1 .. MaxApplied :
        Len(live) >= n ~> Len(replica) >= n \/ ~Running

(* A graceful shutdown comes to its end: it does not wait for a            *)
(* processMoves that waits for room in the channel (server.go:253-257).    *)
ShutdownEnds == phase = "jobs" ~> ~Running

(* Claimed by the comments: the snapshot of the shutdown handler makes     *)
(* replaying requests at startup unnecessary (board-to-disk-handler.go:    *)
(* 41-45, 53), so once it is on disk the next start loads it.              *)
CleanRestartResumes ==
    phase = "closing" /\ (\E f \in files : f.board = live) =>
        \A f \in Newest(files) : f.board = live
=============================================================================
