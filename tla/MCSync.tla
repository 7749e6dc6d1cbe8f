------------------------------- MODULE MCSync -------------------------------
(***************************************************************************)
(* Getting a chain and adding to it, side by side: the parts of the        *)
(* downloader, the worker and the ticks that make blocks.  A               *)
(* behaviour is one of a single component, which part names; the           *)
(* components use the same variables in turn, each for its own state, and  *)
(* some come in several sizes.  The ancestor search, on every pair of      *)
(* chains of up to MaxBlock blocks, has its own variables.                 *)
(***************************************************************************)
EXTENDS FindAncestor, Sequences

VARIABLES part, s1, s2, s3, s4, s5, s6, s7, s8, s9, s10, s11, s12, s13, s14, s15, s16, s17

allVars == <<vars, part, s1, s2, s3, s4, s5, s6, s7, s8, s9, s10, s11, s12, s13, s14, s15, s16, s17>>

-----------------------------------------------------------------------------
(* The header download of five batches, two to a skeleton, from three      *)
(* peers.                                                                  *)
Headers == INSTANCE HeaderFetch WITH
  pc <- s1, skeleton <- s2, from <- s3, base <- s4, last <- s5, queue <- s6, pend <- s7,
  miss <- s8, filled <- s9, proced <- s10, cont <- s11, out <- s12, procCh <- s13,
  received <- s14, conn <- s15, timer <- s16, stale <- s17,
  Peer <- {"p", "q", "r"}, Master <- "p", Height <- 5, SkeletonSize <- 2

(* The queue: bodies and receipts, one block without receipts, in a cache  *)
(* of two; and bodies only, with answers that come after their request has *)
(* expired.                                                                *)
Parts == INSTANCE DownloadQueue WITH
  next <- s1, tasks <- s2, pend <- s3, doneset <- s4, cache <- s5, offset <- s6, limit <- s7,
  peers <- s8, idle <- s9, lacking <- s10, speedy <- s11, sent <- s12, failed <- s13,
  Kind <- {"body", "receipt"}, Peer <- {"p", "q"}, LastBlock <- 3,
  Empty <- [body |-> {}, receipt |-> {2}], CacheItems <- 2, Capacity <- 2, StallLimit <- 1,
  LateAnswers <- FALSE
Late == INSTANCE DownloadQueue WITH
  next <- s1, tasks <- s2, pend <- s3, doneset <- s4, cache <- s5, offset <- s6, limit <- s7,
  peers <- s8, idle <- s9, lacking <- s10, speedy <- s11, sent <- s12, failed <- s13,
  Kind <- {"body"}, Peer <- {"p", "q"}, LastBlock <- 3, Empty <- [body |-> {}],
  CacheItems <- 2, Capacity <- 2, StallLimit <- 1, LateAnswers <- TRUE

(* The state download: of two tries that share a node, one after the       *)
(* other, a node at a time from two peers; of two from one peer that       *)
(* answers in part and comes back; and of one from two peers, of which one *)
(* comes back.                                                             *)
States == INSTANCE StateSync WITH
  sync <- s1, status <- s2, have <- s3, tasks <- s4, attempts <- s5, active <- s6,
  finished <- s7, asked <- s8, conn <- s9, again <- s10, busy <- s11, dropped <- s12,
  Peer <- {"p", "q"}, Node <- {"root", "next", "a", "b"}, Roots <- <<"root", "next">>,
  Below <- [root |-> {"a"}, next |-> {"b"}, a |-> {"b"}, b |-> {}],
  MaxItems <- 1, StallItems <- 0, MaxAsked <- 2, Reconnects <- 0, Leave <- TRUE
Single == INSTANCE StateSync WITH
  sync <- s1, status <- s2, have <- s3, tasks <- s4, attempts <- s5, active <- s6,
  finished <- s7, asked <- s8, conn <- s9, again <- s10, busy <- s11, dropped <- s12,
  Peer <- {"p"}, Node <- {"root", "next", "a", "b"}, Roots <- <<"root", "next">>,
  Below <- [root |-> {"a", "b"}, next |-> {"b"}, a |-> {}, b |-> {}],
  MaxItems <- 2, StallItems <- 1, MaxAsked <- 3, Reconnects <- 1, Leave <- TRUE
Back == INSTANCE StateSync WITH
  sync <- s1, status <- s2, have <- s3, tasks <- s4, attempts <- s5, active <- s6,
  finished <- s7, asked <- s8, conn <- s9, again <- s10, busy <- s11, dropped <- s12,
  Peer <- {"p", "q"}, Node <- {"root", "a"}, Roots <- <<"root">>,
  Below <- [root |-> {"a"}, a |-> {}], MaxItems <- 1, StallItems <- 1,
  MaxAsked <- 2, Reconnects <- 1, Leave <- TRUE

(* The goroutines of a sync of three batches, with fetchers of bodies and  *)
(* of receipts and the importer of a full sync.                            *)
Pipeline == INSTANCE SyncPipeline WITH
  pc <- s1, results <- s2, read <- s3, outcome <- s4, cancelled <- s5, closed <- s6,
  sent <- s7, procCh <- s8, scheduled <- s9, got <- s10, wakeCh <- s11, finished <- s12,
  parts <- s13, imported <- s14,
  Last <- 3, Needed <- {"body", "receipt"}, Queued <- 2

(* The worker with three sealing goroutines.                               *)
Work == INSTANCE Worker WITH
  running <- s1, mint <- s2, task <- s3, main <- s4, result <- s5, seal <- s6,
  quitClosed <- s7, resultCh <- s8, headCh <- s9, exit <- s10, panic <- s11,
  Seal <- {"a", "b", "c"}, ResultQueueSize <- 2, ChainHeadChanSize <- 2

(* Three validators, one of them down, who make blocks within a second,    *)
(* with one transaction or another; and who may take longer.               *)
Ticks == INSTANCE MintTicks WITH
  clock <- s1, tick <- s2, pending <- s3, work <- s4, prev <- s5, seals <- s6, head <- s7,
  late <- s8,
  Address <- {1, 2, 3}, EpochInterval <- 6, BlockInterval <- 2, MaxValidatorSize <- 3,
  Validators <- <<1, 2, 3>>, Up <- {1, 3}, Txs <- {"x", "y"}, MaxWork <- 8, MaxClock <- 110
Slow == INSTANCE MintTicks WITH
  clock <- s1, tick <- s2, pending <- s3, work <- s4, prev <- s5, seals <- s6, head <- s7,
  late <- s8,
  Address <- {1, 2, 3}, EpochInterval <- 6, BlockInterval <- 2, MaxValidatorSize <- 3,
  Validators <- <<1, 2, 3>>, Up <- {1, 3}, Txs <- {"x"}, MaxWork <- 13, MaxClock <- 110

-----------------------------------------------------------------------------
SearchOff == ceil = 0 /\ height = 0 /\ known = 0 /\ pc = "sample" /\ start = 0 /\ end = 0 /\ result = -1

Off0 == s1 = 0 /\ s2 = 0 /\ s3 = 0 /\ s4 = 0 /\ s5 = 0
Off5 == s6 = 0 /\ s7 = 0 /\ s8 = 0
Off8 == s9 = 0 /\ s10 = 0 /\ s11 = 0
Off11 == s12 = 0
Off12 == s13 = 0
Off13 == s14 = 0
Off14 == s15 = 0 /\ s16 = 0 /\ s17 = 0

SyncInit ==
  \/ part = "ancestor" /\ Init /\ Off0 /\ Off5 /\ Off8 /\ Off11 /\ Off12 /\ Off13 /\ Off14
  \/ /\ SearchOff
     /\ \/ part = "headers" /\ Headers!Init
        \/ part = "parts" /\ Parts!Init /\ Off13 /\ Off14
        \/ part = "late" /\ Late!Init /\ Off13 /\ Off14
        \/ part = "states" /\ States!Init /\ Off12 /\ Off13 /\ Off14
        \/ part = "single" /\ Single!Init /\ Off12 /\ Off13 /\ Off14
        \/ part = "back" /\ Back!Init /\ Off12 /\ Off13 /\ Off14
        \/ part = "pipeline" /\ Pipeline!Init /\ Off14
        \/ part = "worker" /\ Work!Init /\ Off11 /\ Off12 /\ Off13 /\ Off14
        \/ part = "ticks" /\ Ticks!Init /\ Off8 /\ Off11 /\ Off12 /\ Off13 /\ Off14
        \/ part = "slow" /\ Slow!Init /\ Off8 /\ Off11 /\ Off12 /\ Off13 /\ Off14

Rest17 == UNCHANGED <<vars, part>>
Rest14 == Rest17 /\ UNCHANGED <<s15, s16, s17>>
Rest13 == Rest14 /\ UNCHANGED s14
Rest12 == Rest13 /\ UNCHANGED s13
Rest11 == Rest12 /\ UNCHANGED s12
Rest8 == Rest11 /\ UNCHANGED <<s9, s10, s11>>

SyncNext ==
  \/ /\ part = "ancestor" /\ Next
     /\ UNCHANGED <<part, s1, s2, s3, s4, s5, s6, s7, s8, s9, s10, s11, s12, s13, s14, s15, s16, s17>>
  \/ part = "headers" /\ Headers!Next /\ Rest17
  \/ part = "parts" /\ Parts!Next /\ Rest13
  \/ part = "late" /\ Late!Next /\ Rest13
  \/ part = "states" /\ States!Next /\ Rest12
  \/ part = "single" /\ Single!Next /\ Rest12
  \/ part = "back" /\ Back!Next /\ Rest12
  \/ part = "pipeline" /\ Pipeline!Next /\ Rest14
  \/ part = "worker" /\ Work!Next /\ Rest11
  \/ part = "ticks" /\ Ticks!Next /\ Rest8
  \/ part = "slow" /\ Slow!Next /\ Rest8

SyncSpec == SyncInit /\ [][SyncNext]_allVars

-----------------------------------------------------------------------------
(* Header download: the processor gets every header once and in order,     *)
(* whatever the order in which the gaps are filled, and all of them by the *)
(* end; every batch of the skeleton is queued, asked of one peer or in     *)
(* place, whoever fails, leaves or is late; and the end is signalled at    *)
(* most once for a skeleton, so that the delivery, which holds the queue's *)
(* lock, never waits.                                                      *)
HeadersInOrder ==
  part = "headers" => /\ Headers!TypeOK /\ Headers!InOrder /\ Headers!DoneIsAll
                      /\ Headers!EachBatchOnce /\ Headers!SignalNeverBlocks

(* Queue: every part of a scheduled block is queued, asked of one peer or  *)
(* done, whatever expires, is late, partial or refused; reservations stay  *)
(* inside the result cache; and a peer that counts as idle has no request. *)
PartsAreAccounted ==
  /\ part = "parts" => /\ Parts!TypeOK /\ Parts!NothingLostOrDoubled
                       /\ Parts!InsideCache /\ Parts!IdleHasNone
  /\ part = "late" => /\ Late!TypeOK /\ Late!NothingLostOrDoubled
                      /\ Late!InsideCache /\ Late!IdleHasNone

(* State download: a missing node is to be asked for or held by a request  *)
(* that will be processed, and never asked of two peers at once, whatever  *)
(* comes late, from the sync of an earlier root too.                       *)
NodesAreAccounted ==
  /\ part = "states" => States!TypeOK /\ States!NoNodeLost /\ States!AskedOnce
  /\ part = "single" => Single!TypeOK /\ Single!NoNodeLost
  /\ part = "back" => Back!TypeOK /\ Back!NoNodeLost

(* Sync: one that succeeds has imported all that the master peer had.      *)
SuccessIsComplete == part = "pipeline" => Pipeline!TypeOK /\ Pipeline!SuccessIsComplete

(* Worker: no sealing goroutine is left with a channel nobody can close,   *)
(* and two blocks are never sealed at once without one having been told to *)
(* stop.                                                                   *)
SealsAreAborted == part = "worker" => Work!SealsAreAborted

(* Ticks: every slot of a validator that is up has its block on everyone's *)
(* chain, whatever the phases of the tickers and the blocks made twice, if *)
(* a period and the work fit into a second, and if they may not, as long   *)
(* as no work outlasts its second.                                         *)
EverySlotFilled ==
  /\ part = "ticks" => Ticks!TypeOK /\ Ticks!EverySlotFilled
  /\ part = "slow" => Slow!TypeOK /\ Slow!EverySlotFilled
=============================================================================
