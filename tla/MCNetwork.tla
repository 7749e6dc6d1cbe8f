----------------------------- MODULE MCNetwork -----------------------------
(***************************************************************************)
(* What stands between the network and the chain, side by side: the        *)
(* peer-to-peer server, the peer handlers, the block fetcher and the       *)
(* transaction pool.  A behaviour is one of a single component, which part *)
(* names; the components use the same variables in turn, each for its own  *)
(* state, and some come in several sizes.  The peer handlers, of three     *)
(* connections above the limit of one peer, have their own variables.      *)
(***************************************************************************)
EXTENDS PeerSessions, Sequences

VARIABLES part, s1, s2, s3, s4, s5, s6, s7, s8, s9, s10, s11, s12, s13, s14, s15, s16

slots == <<s1, s2, s3, s4, s5, s6, s7, s8, s9, s10, s11, s12, s13, s14, s15, s16>>
allVars == <<vars, part, slots>>

-----------------------------------------------------------------------------
(* The server: two nodes that dial in, are dialed and are trusted or not;  *)
(* and three nodes, one of them barred, of which static, bootstrap, table  *)
(* and lookup candidates are dialed one at a time.                         *)
Server == INSTANCE P2PServer WITH
  peers <- s1, inboundCount <- s2, trusted <- s3, static <- s4, dialing <- s5, hist <- s6,
  elapsed <- s7, lookup <- s8, boot <- s9, running <- s10, queued <- s11, doing <- s12,
  conns <- s13, disc <- s14, quit <- s15, loop <- s16,
  Nodes <- {"m", "n"}, Barred <- {}, MaxPeers <- 2, DialRatio <- 2, MaxPendingPeers <- 2,
  MaxActiveDialTasks <- 2, Bootnodes <- <<>>, InitStatic <- {}, Users <- {"inbound", "trust"},
  MaxLookup <- 1
Dialer == INSTANCE P2PServer WITH
  peers <- s1, inboundCount <- s2, trusted <- s3, static <- s4, dialing <- s5, hist <- s6,
  elapsed <- s7, lookup <- s8, boot <- s9, running <- s10, queued <- s11, doing <- s12,
  conns <- s13, disc <- s14, quit <- s15, loop <- s16,
  Nodes <- {"m", "n", "o"}, Barred <- {"o"}, MaxPeers <- 2, DialRatio <- 1,
  MaxPendingPeers <- 2, MaxActiveDialTasks <- 1, Bootnodes <- <<"m">>, InitStatic <- {"o"},
  Users <- {"addstatic", "removestatic"}, MaxLookup <- 1

(* The fetcher: a chain of two blocks, the second of them with a body,     *)
(* announced by two peers, one of which may announce a wrong number.       *)
Blocks == INSTANCE Fetcher WITH
  f <- s1, chain <- s2, importing <- s3, fetchTimer <- s4, completeTimer <- s5, pc <- s6,
  Peer <- {"p", "q"}, Hash <- {"h1", "h2"}, Number <- [h1 |-> 1, h2 |-> 2],
  Parent <- [h1 |-> "genesis", h2 |-> "h1"], Empty <- {"h1"}, Liar <- {"q"},
  MaxUncleDist <- 0, MaxQueueDist <- 2, HashLimit <- 2, BlockLimit <- 1,
  MaxAnnounced <- 1, MaxDebt <- 1

(* The pool: two accounts on a chain that never drops a block; one account *)
(* whose blocks are dropped, with too little room and with enough of it.   *)
Pool == INSTANCE TxPool WITH
  pool <- s1, mined <- s2,
  Address <- {"a", "b"}, Owned <- {"a"}, MaxNonce <- 1,
  Prices <- {1, 2}, Balances <- {2}, PriceBump <- 10,
  AccountSlots <- 1, GlobalSlots <- 2, AccountQueue <- 1, GlobalQueue <- 1,
  Reorgs <- FALSE, Deep <- FALSE
Tight == INSTANCE TxPool WITH
  pool <- s1, mined <- s2,
  Address <- {"a"}, Owned <- {"a"}, MaxNonce <- 2,
  Prices <- {1, 2}, Balances <- {2}, PriceBump <- 10,
  AccountSlots <- 1, GlobalSlots <- 2, AccountQueue <- 1, GlobalQueue <- 1,
  Reorgs <- TRUE, Deep <- TRUE
Roomy == INSTANCE TxPool WITH
  pool <- s1, mined <- s2,
  Address <- {"a"}, Owned <- {"a"}, MaxNonce <- 1,
  Prices <- {1, 2}, Balances <- {1, 2}, PriceBump <- 10,
  AccountSlots <- 3, GlobalSlots <- 3, AccountQueue <- 3, GlobalQueue <- 3,
  Reorgs <- TRUE, Deep <- FALSE

-----------------------------------------------------------------------------
SessionsOff ==
  /\ pc = [s \in Session |-> "run"] /\ peers = {} /\ closed = FALSE /\ downloader = {}
  /\ broadcast = [s \in Session |-> "none"] /\ closes = [s \in Session |-> 0]
  /\ disconnected = {} /\ wg = 0 /\ drop = [s \in Session |-> "no"]
  /\ syncer = "running" /\ stop = "no"

Off0 == s1 = 0 /\ s2 = 0
Off2 == s3 = 0 /\ s4 = 0 /\ s5 = 0 /\ s6 = 0
Off6 == /\ s7 = 0 /\ s8 = 0 /\ s9 = 0 /\ s10 = 0 /\ s11 = 0
        /\ s12 = 0 /\ s13 = 0 /\ s14 = 0 /\ s15 = 0 /\ s16 = 0

NetworkInit ==
  \/ part = "sessions" /\ Init /\ Off0 /\ Off2 /\ Off6
  \/ /\ SessionsOff
     /\ \/ part = "server" /\ Server!Init
        \/ part = "dialer" /\ Dialer!Init
        \/ part = "blocks" /\ Blocks!Init /\ Off6
        \/ part = "pool" /\ Pool!Init /\ Off2 /\ Off6
        \/ part = "tight" /\ Tight!Init /\ Off2 /\ Off6
        \/ part = "roomy" /\ Roomy!Init /\ Off2 /\ Off6

Rest16 == UNCHANGED <<vars, part>>
Rest6 == Rest16 /\ UNCHANGED <<s7, s8, s9, s10, s11, s12, s13, s14, s15, s16>>
Rest2 == Rest6 /\ UNCHANGED <<s3, s4, s5, s6>>

NetworkNext ==
  \/ part = "sessions" /\ Next /\ UNCHANGED <<part, slots>>
  \/ part = "server" /\ Server!Next /\ Rest16
  \/ part = "dialer" /\ Dialer!Next /\ Rest16
  \/ part = "blocks" /\ Blocks!Next /\ Rest6
  \/ part = "pool" /\ Pool!Next /\ Rest2
  \/ part = "tight" /\ Tight!Next /\ Rest2
  \/ part = "roomy" /\ Roomy!Next /\ Rest2

NetworkSpec == NetworkInit /\ [][NetworkNext]_allVars

(* What tells two states of a component apart.  On a chain that never      *)
(* drops a block only the number of an account's mined transactions        *)
(* matters to later steps of the pool, and pool.nonce holds it.  Once the  *)
(* fetcher's loop has ended (s6 is its pc) only imports go on: of its maps *)
(* (s1) no step changes anything, and what they hold of announcements and  *)
(* the timers (s4, s5) were checked in the state before.                   *)
View ==
  CASE part = "sessions" -> <<part, vars>>
    [] part \in {"server", "dialer"} -> <<part, slots>>
    [] part = "blocks" -> IF s6 = "quit"
                          THEN <<part, s1.queue, s1.queues, s1.queued, s2, s3>>
                          ELSE <<part, s1, s2, s3, s4, s5, s6>>
    [] part = "pool" -> <<part, s1>>
    [] part \in {"tight", "roomy"} -> <<part, s1, s2>>

-----------------------------------------------------------------------------
(* Server: the peer map has exactly the peers whose goroutine runs,        *)
(* however connections of one node in both directions race through the two *)
(* checkpoints, and inboundCount is the number of inbound peers, whatever  *)
(* happened to their trust since they were added.                          *)
PeersAreCounted ==
  /\ part = "server" => Server!TypeOK /\ Server!PeersAreRunning /\ Server!InboundCounted
  /\ part = "dialer" => Dialer!TypeOK /\ Dialer!PeersAreRunning

(* Server: the dynamically dialed peers and the dynamic dials under way    *)
(* never exceed what the dial ratio allows, and a node marked as being     *)
(* dialed has exactly one task, running or queued, so that a finished task *)
(* always frees it for the next dial.                                      *)
DialsAreCounted ==
  /\ part = "server" => Server!DynDialsBounded /\ Server!DialingHasTask
  /\ part = "dialer" => Dialer!DynDialsBounded /\ Dialer!DialingHasTask

(* Fetcher: a block is remembered as queued exactly while it is in the     *)
(* import queue or with one importing goroutine, never both; a peer's      *)
(* counter is the number of its blocks that are queued or being imported;  *)
(* and while announcements or headers wait their timer runs.               *)
FetcherIsSound ==
  part = "blocks" => /\ Blocks!TypeOK /\ Blocks!QueuedOnce
                     /\ Blocks!QueuesCount /\ Blocks!TimersRun

(* Pool: the index and the lists agree, no nonce is both executable and    *)
(* queued, and every pooled transaction is in the lazily cleaned price     *)
(* heap.                                                                   *)
PoolIsIndexed ==
  /\ part = "pool" => Pool!TypeOK /\ Pool!AllIndexed /\ Pool!PricedCovers
  /\ part = "tight" => Tight!TypeOK /\ Tight!AllIndexed
  /\ part = "roomy" => Roomy!TypeOK /\ Roomy!AllIndexed

(* Pool: while the chain drops no block, executable transactions start at  *)
(* the account's nonce, leave no gap and can be paid; the nonce proposed   *)
(* follows them and nothing that could run is left waiting; and the limits *)
(* on the transactions of remote accounts hold.                            *)
PoolIsExecutable ==
  part = "pool" => Pool!PendingExecutable /\ Pool!NothingReadyWaits /\ Pool!PoolBounded

(* Pool: a local transaction is never lost for its price, its age or a     *)
(* full pool, and what a reorganisation takes out of the chain is pooled   *)
(* again, unless it is no longer valid or was outbid.                      *)
TxsAreKept ==
  [][/\ part = "pool" => Pool!LocalsKept
     /\ part = "tight" => Tight!LocalsKept
     /\ part = "roomy" => Roomy!DroppedComeBack]_allVars
=============================================================================
