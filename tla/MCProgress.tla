----------------------------- MODULE MCProgress -----------------------------
(***************************************************************************)
(* What must happen in the end, of every component that promises it, side  *)
(* by side and on small instances.  A behaviour is one of a single         *)
(* component, which part names, with the fairness of that component; the   *)
(* components use the same variables in turn, each for its own state.      *)
(* Of two blocks or mint loops, who is the one that is watched.            *)
(***************************************************************************)
EXTENDS Integers, Sequences

VARIABLES part, who, s1, s2, s3, s4, s5, s6, s7, s8, s9, s10, s11, s12, s13, s14, s15, s16, s17

vars == <<part, who, s1, s2, s3, s4, s5, s6, s7, s8, s9, s10, s11, s12, s13, s14, s15, s16, s17>>

-----------------------------------------------------------------------------
Server == INSTANCE P2PServer WITH
  peers <- s1, inboundCount <- s2, trusted <- s3, static <- s4, dialing <- s5, hist <-
  s6, elapsed <- s7, lookup <- s8, boot <- s9, running <- s10, queued <- s11, doing <-
  s12, conns <- s13, disc <- s14, quit <- s15, loop <- s16,
  Nodes <- {"n"}, Barred <- {}, MaxPeers <- 1, DialRatio <- 2, MaxPendingPeers <- 1,
  MaxActiveDialTasks <- 1, Bootnodes <- <<>>, InitStatic <- {},
  Users <- {"addstatic", "stop", "inbound"}, MaxLookup <- 1
Sessions == INSTANCE PeerSessions WITH
  pc <- s1, peers <- s2, closed <- s3, downloader <- s4, broadcast <- s5, closes <-
  s6, disconnected <- s7, wg <- s8, drop <- s9, syncer <- s10, stop <- s11,
  Session <- {"x", "y"}, Trusted <- {"x"}, MaxPeers <- 1, EarlyDrops <- FALSE
Txs == INSTANCE TxSync WITH
  conn <- s1, txs <- s2, pending <- s3, sending <- s4, pack <- s5, done <- s6,
  Peer <- {"p", "q", "r"}, Times <- 1, Txs <- 3, PackSize <- 2
Sync == INSTANCE Synchronise WITH
  fastSync <- s1, acceptTxs <- s2, current <- s3, fast <- s4, downloading <- s5,
  routine <- s6, inserting <- s7,
  Routine <- {"r", "s"}, MaxTd <- 2
Blocks == INSTANCE Fetcher WITH
  f <- s1, chain <- s2, importing <- s3, fetchTimer <- s4, completeTimer <- s5, pc <-
  s6,
  Peer <- {"p"}, Hash <- {"h1", "h2"}, Number <- [h1 |-> 1, h2 |-> 2],
  Parent <- [h1 |-> "genesis", h2 |-> "h1"], Empty <- {"h1"}, Liar <- {},
  MaxUncleDist <- 0, MaxQueueDist <- 2, HashLimit <- 2, BlockLimit <- 1,
  MaxAnnounced <- 1, MaxDebt <- 1
Ancestor == INSTANCE FindAncestor WITH
  ceil <- s1, height <- s2, known <- s3, pc <- s4, start <- s5, end <- s6, result <-
  s7,
  MaxBlock <- 12, MaxHeaderFetch <- 4, Stride <- 2, MaxForkAncestry <- 8
Headers == INSTANCE HeaderFetch WITH
  pc <- s1, skeleton <- s2, from <- s3, base <- s4, last <- s5, queue <- s6, pend <-
  s7, miss <- s8, filled <- s9, proced <- s10, cont <- s11, out <- s12, procCh <- s13,
  received <- s14, conn <- s15, timer <- s16, stale <- s17,
  Peer <- {"p", "q"}, Master <- "p", Height <- 3, SkeletonSize <- 2
Parts == INSTANCE DownloadQueue WITH
  next <- s1, tasks <- s2, pend <- s3, doneset <- s4, cache <- s5, offset <- s6, limit
  <- s7, peers <- s8, idle <- s9, lacking <- s10, speedy <- s11, sent <- s12, failed
  <- s13,
  Kind <- {"body"}, Peer <- {"p", "q"}, LastBlock <- 3, Empty <- [body |-> {}],
  CacheItems <- 2, Capacity <- 2, StallLimit <- 1, LateAnswers <- FALSE
States == INSTANCE StateSync WITH
  sync <- s1, status <- s2, have <- s3, tasks <- s4, attempts <- s5, active <- s6,
  finished <- s7, asked <- s8, conn <- s9, again <- s10, busy <- s11, dropped <- s12,
  Peer <- {"p", "q"}, Node <- {"root", "a", "b"}, Roots <- <<"root">>,
  Below <- [root |-> {"a"}, a |-> {"b"}, b |-> {}], MaxItems <- 2, StallItems <- 1,
  MaxAsked <- 1, Reconnects <- 0, Leave <- FALSE
Pipeline == INSTANCE SyncPipeline WITH
  pc <- s1, results <- s2, read <- s3, outcome <- s4, cancelled <- s5, closed <- s6,
  sent <- s7, procCh <- s8, scheduled <- s9, got <- s10, wakeCh <- s11, finished <-
  s12, parts <- s13, imported <- s14,
  Last <- 1, Needed <- {"body"}, Queued <- 1
Work == INSTANCE Worker WITH
  running <- s1, mint <- s2, task <- s3, main <- s4, result <- s5, seal <- s6,
  quitClosed <- s7, resultCh <- s8, headCh <- s9, exit <- s10, panic <- s11,
  Seal <- {"a"}, ResultQueueSize <- 1, ChainHeadChanSize <- 1
Mining == INSTANCE Miner WITH
  canStart <- s1, shouldStart <- s2, running <- s3, coinbase <- s4, workerCoinbase <-
  s5, call <- s6, update <- s7, sync <- s8, loop <- s9, stopper <- s10, closed <- s11,
  panic <- s12,
  Caller <- {"c", "d"}, Ops <- {"start", "stop", "setCoinbase"}

-----------------------------------------------------------------------------
Off6 == s7 = 0
Off7 == s8 = 0 /\ s9 = 0 /\ s10 = 0 /\ s11 = 0
Off11 == s12 = 0
Off12 == s13 = 0
Off13 == s14 = 0
Off14 == s15 = 0 /\ s16 = 0
Off16 == s17 = 0

Init ==
  /\ \/ part = "server" /\ Server!Init /\ Off16
     \/ part = "sessions" /\ Sessions!Init /\ Off11 /\ Off12 /\ Off13 /\ Off14 /\ Off16
     \/ part = "txs" /\ Txs!Init /\ Off6 /\ Off7 /\ Off11 /\ Off12 /\ Off13 /\ Off14 /\ Off16
     \/ part = "synchronise" /\ Sync!Init /\ Off7 /\ Off11 /\ Off12 /\ Off13 /\ Off14 /\ Off16
     \/ part = "blocks" /\ Blocks!Init /\ Off6 /\ Off7 /\ Off11 /\ Off12 /\ Off13 /\ Off14 /\ Off16
     \/ part = "ancestor" /\ Ancestor!Init /\ Off7 /\ Off11 /\ Off12 /\ Off13 /\ Off14 /\ Off16
     \/ part = "headers" /\ Headers!Init
     \/ part = "parts" /\ Parts!Init /\ Off13 /\ Off14 /\ Off16
     \/ part = "states" /\ States!Init /\ Off12 /\ Off13 /\ Off14 /\ Off16
     \/ part = "pipeline" /\ Pipeline!Init /\ Off14 /\ Off16
     \/ part = "worker" /\ Work!Init /\ Off11 /\ Off12 /\ Off13 /\ Off14 /\ Off16
     \/ part = "miner" /\ Mining!Init /\ Off12 /\ Off13 /\ Off14 /\ Off16
  /\ who \in IF part \in {"blocks", "miner"} THEN {1, 2} ELSE {1}

Rest16 == UNCHANGED <<part, who, s17>>
Rest14 == Rest16 /\ UNCHANGED <<s15, s16>>
Rest13 == Rest14 /\ UNCHANGED s14
Rest12 == Rest13 /\ UNCHANGED <<s13>>
Rest11 == Rest12 /\ UNCHANGED <<s12>>
Rest7 == Rest11 /\ UNCHANGED <<s8, s9, s10, s11>>
Rest6 == Rest7 /\ UNCHANGED <<s7>>

Next ==
  \/ part = "server" /\ Server!Next /\ Rest16
  \/ part = "sessions" /\ Sessions!Next /\ Rest11
  \/ part = "txs" /\ Txs!Next /\ Rest6
  \/ part = "synchronise" /\ Sync!Next /\ Rest7
  \/ part = "blocks" /\ Blocks!Next /\ Rest6
  \/ part = "ancestor" /\ Ancestor!Next /\ Rest7
  \/ part = "headers" /\ Headers!Next /\ UNCHANGED <<part, who>>
  \/ part = "parts" /\ Parts!Next /\ Rest13
  \/ part = "states" /\ States!Next /\ Rest12
  \/ part = "pipeline" /\ Pipeline!Next /\ Rest14
  \/ part = "worker" /\ Work!Next /\ Rest11
  \/ part = "miner" /\ Mining!Next /\ Rest12

Spec == Init /\ [][Next]_vars

-----------------------------------------------------------------------------
(* The steps each component is fair to, numbered.  Step(i) of a component  *)
(* is taken if it stays possible, Chance(i) if it is possible again and    *)
(* again.                                                                  *)

(* Server: the loop's select is fair to what stays ready; the goroutines   *)
(* and the clock go on; a peer asked to disconnect ends.                   *)
Connection(c) ==
  \/ Server!PostHandshake(c) \/ Server!AddPeer(c) \/ Server!DelPeer(c)
  \/ Server!Handshake(c) \/ Server!SetupFails(c)
  \/ Server!AskedToLeave(c) /\ Server!PeerEnds(c)

ServerStep(i) ==
  \/ i = 1 /\ Connection(<<"n", "in">>)
  \/ i = 2 /\ Connection(<<"n", "out">>)
  \/ i = 3 /\ (Server!Begin \/ Server!Leave \/ Server!Return)
  \/ i = 4 /\ (Server!DialConnects("n") \/ Server!DialFails("n"))
  \/ i = 5 /\ Server!Elapse("n")
  \/ i = 6 /\ Server!TaskDone(Server!Dial("n", "dyn"))
  \/ i = 7 /\ Server!TaskDone(Server!Dial("n", "static"))
  \/ i = 8 /\ Server!TaskDone(Server!Task("lookup"))
  \/ i = 9 /\ Server!TaskDone(Server!Task("wait"))

(* Handlers: every goroutine that can go on does: one whose connection was *)
(* ended fails, handshakes time out, a broadcaster sees its closed         *)
(* channel; Stop, once called, goes on.                                    *)
Handler(s) ==
  \/ Sessions!Accept(s) \/ Sessions!Quit(s) \/ Sessions!Join(s) \/ Sessions!Admit(s)
  \/ Sessions!Handshake(s) \/ Sessions!Register(s) \/ Sessions!Enlist(s)
  \/ Sessions!AskedToLeave(s) /\ Sessions!Fail(s)
  \/ Sessions!RemoveFirst(s) \/ Sessions!RemoveThen(s) \/ Sessions!Leave(s)

SessionsStep(i) ==
  \/ i = 1 /\ Handler("x")
  \/ i = 2 /\ Handler("y")
  \/ i = 3 /\ (Sessions!DropFirst("x") \/ Sessions!DropThen("x"))
  \/ i = 4 /\ (Sessions!DropFirst("y") \/ Sessions!DropThen("y"))
  \/ i = 5 /\ Sessions!TermClosed("x") /\ Sessions!BroadcastEnds("x")
  \/ i = 6 /\ Sessions!TermClosed("y") /\ Sessions!BroadcastEnds("y")
  \/ i = 7 /\ (Sessions!CloseQuitSync \/ Sessions!ClosePeers \/ Sessions!Wait)

(* Relay of pending transactions: the loop and the sends go on; nodes      *)
(* connect and leave as they like.  A handler that waits for the loop      *)
(* waits on, so that it is taken.                                          *)
TxsStep(i) ==
  \/ i = 1 /\ Txs!Finished
  \/ i = 2 /\ Txs!Take(<<"p", 1>>)
  \/ i = 3 /\ Txs!Take(<<"q", 1>>)
  \/ i = 4 /\ Txs!Take(<<"r", 1>>)
  \/ i = 5 /\ Txs!Finish(<<"p", 1>>)
  \/ i = 6 /\ Txs!Finish(<<"q", 1>>)
  \/ i = 7 /\ Txs!Finish(<<"r", 1>>)

(* Synchronise: the ticker of syncer starts a goroutine with the best peer *)
(* again and again, goroutines go on, and not every sync of infinitely     *)
(* many fails.                                                             *)
RoutineStep(r) ==
  \/ Sync!Decide(r) \/ Sync!Check(r) \/ Sync!Start(r) \/ Sync!Mark(r)
  \/ Sync!Succeed(r) \/ Sync!FailSync(r)

SynchroniseStep(i) ==
  \/ i = 1 /\ RoutineStep("r")
  \/ i = 2 /\ RoutineStep("s")

SynchroniseChance(i) ==
  \/ i = 1 /\ Sync!Begin("r", 2)
  \/ i = 2 /\ Sync!Begin("s", 2)
  \/ i = 3 /\ (Sync!Succeed("r") \/ Sync!Succeed("s"))

(* Fetcher: the loop runs and selects fairly, timers fire and are then old *)
(* enough for all announcements, goroutines run; peers promise nothing.    *)
BlocksStep(i) ==
  \/ i = 1 /\ Blocks!TopOnce
  \/ i = 2 /\ Blocks!InsertOnce("h1")
  \/ i = 3 /\ Blocks!InsertOnce("h2")

BlocksChance(i) ==
  \/ i = 1 /\ Blocks!TopAll
  \/ i = 2 /\ Blocks!FetchAll
  \/ i = 3 /\ Blocks!CompleteTimer
  \/ i = 4 /\ (Blocks!Done("h1") \/ Blocks!Done("h2"))

(* Ancestor search: the peer answers every request.                        *)
AncestorStep(i) == i = 1 /\ (Ancestor!Sample \/ Ancestor!Search \/ Ancestor!SearchEnds)

(* Header download: the goroutines go on, the master answers, and a        *)
(* request of a peer is answered or runs out of time.                      *)
FillStep(p) ==
  \/ Headers!ReserveHeaders(p)
  \/ Headers!DeliverHeaders(p) \/ Headers!RejectHeaders(p) \/ Headers!ExpireHeaders(p)

HeadersStep(i) ==
  \/ i = 1 /\ \/ Headers!ScheduleSkeleton \/ Headers!SkeletonEnds
              \/ Headers!FullHeaders \/ Headers!NoMoreHeaders
  \/ i = 2 /\ (Headers!PeersUnavailable \/ Headers!FillEnds)
  \/ i = 3 /\ (Headers!SendHeaders \/ Headers!SendNil)
  \/ i = 4 /\ Headers!ProcessHeaders
  \/ i = 5 /\ FillStep("p")
  \/ i = 6 /\ FillStep("q")

(* Queue: the loops of the downloader go on, requests expire in the end,   *)
(* and peers answer or not.                                                *)
PartsStep(i) ==
  \/ i = 1 /\ Parts!Schedule
  \/ i = 2 /\ Parts!Results
  \/ i = 3 /\ Parts!GiveUp("body")
  \/ i = 4 /\ Parts!ReserveSome("body")
  \/ i = 5 /\ Parts!Expire("body", "p")
  \/ i = 6 /\ Parts!Expire("body", "q")

(* State download: the two loops go on, and a request is answered, dropped *)
(* or times out.                                                           *)
StatesStep(i) ==
  \/ i = 1 /\ States!Process
  \/ i = 2 /\ States!Complete
  \/ i = 3 /\ States!Assign("p")
  \/ i = 4 /\ States!Assign("q")
  \/ i = 5 /\ States!PeerDrop("p")
  \/ i = 6 /\ States!PeerDrop("q")
  \/ i = 7 /\ (States!Answer("p") \/ States!Timeout("p"))
  \/ i = 8 /\ (States!Answer("q") \/ States!Timeout("q"))

(* Sync: the goroutines run, the peers answer or run out of time, and a    *)
(* wake-up that waits in its channel is not passed over for ever.          *)
PipelineStep(i) ==
  \/ i = 1 /\ Pipeline!HeadersStep
  \/ i = 2 /\ Pipeline!ProcessStep
  \/ i = 3 /\ Pipeline!PartsStep("body")
  \/ i = 4 /\ Pipeline!PartsStep("receipt")
  \/ i = 5 /\ Pipeline!ImportStep
  \/ i = 6 /\ Pipeline!SpawnStep

(* Worker: every goroutine that can go on does.  Go's select takes a ready *)
(* case at random, so that a closed exitCh is not passed over for ever,    *)
(* and senders that wait for a channel or for the feed's lock are served   *)
(* in their order.  Nobody has to start, stop or close the worker or to    *)
(* import a block, and a sealing that waits for its slot is not counted on *)
(* to end by itself.                                                       *)
WorkerStep(i) ==
  /\ Work!Alive
  /\ \/ i = 1 /\ Work!MintStep
     \/ i = 2 /\ Work!commitSends
     \/ i = 3 /\ Work!TaskStep
     \/ i = 4 /\ Work!ResultStep
     \/ i = 5 /\ Work!MainStep
     \/ i = 6 /\ Work!ToldToStop("a") /\ Work!SealStep("a")

WorkerChance(i) ==
  /\ Work!Alive
  /\ \/ i = 1 /\ (Work!taskLoopExits \/ Work!resultLoopExits \/ Work!mainLoopExits)
     \/ i = 2 /\ Work!postHead
     \/ i = 3 /\ Work!takeHead
     \/ i = 4 /\ Work!sealSends("a")

(* Miner: the goroutines run, tickers fire, and a sync ends with success   *)
(* or failure.  Go's select picks among the ready cases at random, so that *)
(* a closed stopper is not passed over for ever.  Nobody has to call the   *)
(* RPC or start a sync.                                                    *)
LoopName == <<"c", "update", "d">>

MinerStep(i) ==
  /\ Mining!Alive
  /\ \/ i = 1 /\ Mining!UpdateStep
     \/ i = 2 /\ Mining!SyncEnds
     \/ i = 3 /\ (Mining!StopUnwanted("c") \/ Mining!StopUnwanted("d"))
     \/ i \in 4 .. 6 /\ Mining!CallStep(LoopName[i - 3])
     \/ i \in 7 .. 9 /\ Mining!LoopStep(LoopName[i - 6])

MinerChance(i) ==
  /\ Mining!Alive
  /\ \/ i = 1 /\ \E l \in {"c", "d", "update"} : Mining!TickerFires(l)
     \/ i = 2 /\ \E l \in {"c", "d", "update"} : Mining!StopperFires(l)

Step(i) ==
  \/ part = "server" /\ ServerStep(i) /\ Rest16
  \/ part = "sessions" /\ SessionsStep(i) /\ Rest11
  \/ part = "txs" /\ TxsStep(i) /\ Rest6
  \/ part = "synchronise" /\ SynchroniseStep(i) /\ Rest7
  \/ part = "blocks" /\ BlocksStep(i) /\ Rest6
  \/ part = "ancestor" /\ AncestorStep(i) /\ Rest7
  \/ part = "headers" /\ HeadersStep(i) /\ UNCHANGED <<part, who>>
  \/ part = "parts" /\ PartsStep(i) /\ Rest13
  \/ part = "states" /\ StatesStep(i) /\ Rest12
  \/ part = "pipeline" /\ PipelineStep(i) /\ Rest14
  \/ part = "worker" /\ WorkerStep(i) /\ Rest11
  \/ part = "miner" /\ MinerStep(i) /\ Rest12

Chance(i) ==
  \/ part = "synchronise" /\ SynchroniseChance(i) /\ Rest7
  \/ part = "blocks" /\ BlocksChance(i) /\ Rest6
  \/ part = "worker" /\ WorkerChance(i) /\ Rest11
  \/ part = "miner" /\ MinerChance(i) /\ Rest12

Fairness ==
  /\ \A i \in 1 .. 9 : WF_vars(Step(i))
  /\ \A i \in 1 .. 4 : SF_vars(Chance(i))

FairSpec == Spec /\ Fairness

-----------------------------------------------------------------------------
Block == <<"h1", "h2">>

(* Whatever is told to stop ends, whatever it is doing.  The server's loop *)
(* returns after its peers (Stop); the protocol manager's Stop finds no    *)
(* handler left hanging; the worker's close ends mainLoop, taskLoop,       *)
(* resultLoop and every sealing; the miner's Stop ends the mint loop, if   *)
(* no other has run (of two loops the first to end replaces the channel,   *)
(* and the other may never see the closed one).                            *)
StopsEnd ==
    \/ part = "server" /\ Server!Stopping
    \/ part = "sessions" /\ Sessions!Stopping
    \/ part = "worker" /\ Work!Closing
    \/ part = "miner" /\ Mining!StoppedLoop(LoopName[who])
   ~>
    \/ part = "server" /\ Server!Stopped
    \/ part = "sessions" /\ Sessions!Stopped
    \/ part = "worker" /\ Work!Closed
    \/ part = "miner" /\ Mining!LoopEnded(LoopName[who])

(* Whatever waits is served.  A static node is dialed until it connects;   *)
(* the broadcast goroutine of a connection that ended sees it; a new       *)
(* connection is sent all pending transactions, or ends; an announcement   *)
(* is asked for or given up; commit hands its task on, instead of leaving  *)
(* the mint loop deaf to a stop; and a sync does not forbid mining for     *)
(* ever.                                                                   *)
WaitsAreServed ==
    \/ part = "server" /\ Server!IsStatic("n")
    \/ part = "sessions" /\ Sessions!Ended("y")
    \/ part = "txs" /\ Txs!Joining(<<"p", 1>>)
    \/ part = "blocks" /\ Blocks!Waits(Block[who])
    \/ part = "worker" /\ Work!Committing
    \/ part = "miner" /\ Mining!Forbidden
   ~>
    \/ part = "server" /\ Server!OnItsWay("n")
    \/ part = "sessions" /\ ~Sessions!Broadcasting("y")
    \/ part = "txs" /\ Txs!Relayed(<<"p", 1>>)
    \/ part = "blocks" /\ Blocks!Asked(Block[who])
    \/ part = "worker" /\ Work!Committed
    \/ part = "miner" /\ Mining!Allowed

(* What is begun comes to its end.  The ancestor search ends, whatever the *)
(* two chains are; the header download, whoever fails to fill the          *)
(* skeleton; the fetch of bodies, with all of them or without peers; the   *)
(* state download, even if the peers answer nothing; and the whole sync,   *)
(* whichever goroutine fails first and whenever it is cancelled.  After    *)
(* it, a node behind the network accepts transactions.  An import is       *)
(* reported back to the fetcher and its block forgotten; a new head ends   *)
(* the sealing of the block on the old one; a miner that a sync stopped    *)
(* runs again after it, unless Stop is called.                             *)
BegunIsEnded ==
    \/ part \in {"ancestor", "headers", "parts", "states", "pipeline", "synchronise"}
    \/ part = "blocks" /\ Blocks!Imports(Block[who])
    \/ part = "worker" /\ Work!SealsOldHead("a")
    \/ part = "miner" /\ Mining!Aborted
   ~>
    \/ part = "ancestor" /\ Ancestor!Ended
    \/ part = "headers" /\ Headers!Ended
    \/ part = "parts" /\ Parts!Ended
    \/ part = "states" /\ States!Ended
    \/ part = "pipeline" /\ Pipeline!Ended
    \/ part = "synchronise" /\ Sync!Accepting
    \/ part = "blocks" /\ Blocks!Settled(Block[who])
    \/ part = "worker" /\ Work!SealGivenUp("a")
    \/ part = "miner" /\ Mining!Resumed
=============================================================================
