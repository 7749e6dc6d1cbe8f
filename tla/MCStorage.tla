----------------------------- MODULE MCStorage -----------------------------
(***************************************************************************)
(* The components that keep the chain and the state, side by side: the     *)
(* block database, the header chain, the trie database, the state database *)
(* and the end of a fast sync.  A behaviour is one of a single component,  *)
(* which part names.  The block database has its own variables; the other  *)
(* components, and two more block databases, use the slots in turn, each   *)
(* for its own state.  What a part does not use stays as it is.            *)
(***************************************************************************)
EXTENDS BlockStore

VARIABLES part, s1, s2, s3, s4, s5, s6, s7, s8, s9, s10, s11, s12, s13, s14, s15, s16

slots == <<s1, s2, s3, s4, s5, s6, s7, s8, s9, s10, s11, s12, s13, s14, s15, s16>>
all == <<part, slots, vars>>

-----------------------------------------------------------------------------
A(n) == [i \in 1 .. n |-> "a"]
Fork(n, m) == A(n) \o [i \in 1 .. m |-> "b"]

(* A main chain of four blocks and a branch of two that leaves it at 1; a  *)
(* shorter pair, for the run that also rewinds; t1 is in both branches, t2 *)
(* only in the main chain.                                                 *)
WideTree ==
  {<<>>, <<"a">>, <<"a", "a">>, <<"a", "a", "a">>, <<"a", "a", "a", "a">>,
   <<"a", "b">>, <<"a", "b", "b">>}
SmallTree == {A(n) : n \in 0 .. 3} \cup {Fork(1, 1)}
Carried(b) == CASE b = A(2) -> {"t1", "t2"}
                [] b = Fork(1, 1) -> {"t1"}
                [] OTHER -> {}
WideTxs == [b \in WideTree |-> Carried(b)]

(* The block database prunes; of the others one keeps all states and is    *)
(* torn by crashes inside an insert, and one is rewound.                   *)
Kept == INSTANCE BlockStore WITH
  known <- s1, canonical <- s2, stored <- s3, current <- s4, lookup <- s5, triegc <- s6,
  onDisk <- s7, dpos <- s8, work <- s9, inserts <- s10, obsolete <- s11, status <- s12,
  Blocks <- WideTree, TxsOf <- WideTxs,
  TriesInMemory <- 2, Archive <- TRUE, Rewinds <- {}, TornWrites <- TRUE
Rewound == INSTANCE BlockStore WITH
  known <- s1, canonical <- s2, stored <- s3, current <- s4, lookup <- s5, triegc <- s6,
  onDisk <- s7, dpos <- s8, work <- s9, inserts <- s10, obsolete <- s11, status <- s12,
  Blocks <- SmallTree, TxsOf <- [b \in SmallTree |-> Carried(b)],
  TriesInMemory <- 2, Archive <- FALSE, Rewinds <- {0}, TornWrites <- FALSE

(* The header chain: two remote chains of the same height that part after  *)
(* block 1, with rewinds; and with crashes inside one WriteHeader.         *)
Tree == {A(n) : n \in 0 .. 4} \cup {Fork(1, m) : m \in 1 .. 3}
Headers == INSTANCE HeaderChain WITH
  headers <- s1, bodies <- s2, states <- s3, canonical <- s4, stored <- s5, current <- s6,
  tip <- s7, next <- s8, goal <- s9, at <- s10, unknown <- s11, rollback <- s12,
  bodied <- s13, syncs <- s14, doomed <- s15, status <- s16,
  Blocks <- Tree, Tips <- {A(4), Fork(1, 3)}, MaxChunk <- 2, SafetyNet <- 2,
  MinFullBlocks <- 1, Rewinds <- {0, 1}, MaxSyncs <- 3, Torn <- FALSE
Ragged == INSTANCE HeaderChain WITH
  headers <- s1, bodies <- s2, states <- s3, canonical <- s4, stored <- s5, current <- s6,
  tip <- s7, next <- s8, goal <- s9, at <- s10, unknown <- s11, rollback <- s12,
  bodied <- s13, syncs <- s14, doomed <- s15, status <- s16,
  Blocks <- Tree, Tips <- {A(4), Fork(1, 3)}, MaxChunk <- 2, SafetyNet <- 2,
  MinFullBlocks <- 1, Rewinds <- {}, MaxSyncs <- 2, Torn <- TRUE

(* The trie database: two states that share the account node b; their      *)
(* account nodes a and a2 have the same storage trie, whose root s holds   *)
(* the node l twice.                                                       *)
Order == <<"l", "s", "a", "a2", "b", "r1", "r2">>
Names == {Order[i] : i \in 1 .. Len(Order)}
Kids ==
  [n \in Names |-> CASE n = "s" -> <<"l", "l">>
                            [] n = "r1" -> <<"a", "b">>
                            [] n = "r2" -> <<"a2", "b">>
                            [] OTHER -> <<>>]
Storage == [n \in Names |-> IF n \in {"a", "a2"} THEN {"s"} ELSE {}]
Tries == INSTANCE TrieDatabase WITH
  db <- s1, disk <- s2, live <- s3, latest <- s4, states <- s5,
  Roots <- {"r1", "r2"}, Meta <- "meta", MaxStates <- 3

(* The state database: an ordinary account through two transactions, and   *)
(* one beside the precompile.                                              *)
Alone == INSTANCE StateDB WITH
  trie <- s1, stored <- s2, objects <- s3, dirty <- s4, journal <- s5, dirties <- s6,
  refund <- s7, revisions <- s8, nextId <- s9, held <- s10, finalised <- s11,
  Accounts <- {"a"}, Ripemd <- "ripemd", MaxBalance <- 1, MaxHeld <- 2, MaxRevisions <- 2,
  MaxRefund <- 1, MaxJournal <- <<2, 4>>
Beside == INSTANCE StateDB WITH
  trie <- s1, stored <- s2, objects <- s3, dirty <- s4, journal <- s5, dirties <- s6,
  refund <- s7, revisions <- s8, nextId <- s9, held <- s10, finalised <- s11,
  Accounts <- {"a", "ripemd"}, Ripemd <- "ripemd", MaxBalance <- 1, MaxHeld <- 2,
  MaxRevisions <- 2, MaxRefund <- 1, MaxJournal <- <<3>>

(* The end of a fast sync to a remote head that grows to block 10.         *)
Fast == INSTANCE FastContent WITH
  pc <- s1, taken <- s2, closed <- s3, cancelled <- s4, pivot <- s5, oldPivot <- s6,
  target <- s7, sync <- s8, states <- s9, tries <- s10, stored <- s11, head <- s12,
  committed <- s13, commits <- s14,
  Last <- 10, Heights <- {2, 4, 5}, MinFullBlocks <- 2

-----------------------------------------------------------------------------
Off5 == s6 = 0 /\ s7 = 0 /\ s8 = 0 /\ s9 = 0 /\ s10 = 0 /\ s11 = 0 /\ s12 = 0
Off11 == s12 = 0
Off12 == s13 = 0 /\ s14 = 0
Off14 == s15 = 0 /\ s16 = 0

Off == s1 = 0 /\ s2 = 0 /\ s3 = 0 /\ s4 = 0 /\ s5 = 0 /\ Off5 /\ Off12 /\ Off14

SlotsInit ==
  \/ part = "store" /\ Off
  \/ part = "kept" /\ Kept!Init /\ Off12 /\ Off14
  \/ part = "rewound" /\ Rewound!Init /\ Off12 /\ Off14
  \/ part = "headers" /\ Headers!Init
  \/ part = "ragged" /\ Ragged!Init
  \/ part = "tries" /\ Tries!Init /\ Off5 /\ Off12 /\ Off14
  \/ part = "alone" /\ Alone!Init /\ Off11 /\ Off12 /\ Off14
  \/ part = "beside" /\ Beside!Init /\ Off11 /\ Off12 /\ Off14
  \/ part = "fast" /\ Fast!Init /\ Off14

StorageInit == Init /\ SlotsInit

Rest5 == UNCHANGED <<part, s6, s7, s8, s9, s10, s11, s12, s13, s14, s15, s16>>
Rest11 == UNCHANGED <<part, s12, s13, s14, s15, s16>>
Rest12 == UNCHANGED <<part, s13, s14, s15, s16>>
Rest14 == UNCHANGED <<part, s15, s16>>

SlotsNext ==
  \/ part = "kept" /\ Kept!Next /\ Rest12
  \/ part = "rewound" /\ Rewound!Next /\ Rest12
  \/ part = "headers" /\ Headers!Next /\ UNCHANGED part
  \/ part = "ragged" /\ Ragged!Next /\ UNCHANGED part
  \/ part = "tries" /\ Tries!Next /\ Rest5
  \/ part = "alone" /\ Alone!Next /\ Rest11
  \/ part = "beside" /\ Beside!Next /\ Rest11
  \/ part = "fast" /\ Fast!Next /\ Rest14

StorageNext ==
  \/ part = "store" /\ Next /\ UNCHANGED <<part, slots>>
  \/ SlotsNext /\ UNCHANGED vars

StorageSpec == StorageInit /\ [][StorageNext]_all

(* States of the state database that differ by revision ids alone are      *)
(* explored once.                                                          *)
View ==
  CASE part = "alone" -> <<part, Alone!Placed>>
    [] part = "beside" -> <<part, Beside!Placed>>
    [] OTHER -> all
-----------------------------------------------------------------------------
(* Block database: the two others come through their crashes and rewinds   *)
(* the same way.  The one that is torn keeps a head it can open; in the    *)
(* rewound one the index and the lookup entries follow the head, and the   *)
(* chain a reader sees only changes as CanonicalChain allows.              *)
OtherStoresHold ==
  /\ [](part = "kept" => Kept!RestartsSafely)
  /\ [](part = "rewound" => Rewound!RestartsSafely /\ Rewound!ChainIsIndexed)
  /\ part = "rewound" => Rewound!Abstract!Init
  /\ [][part = "rewound" => Rewound!Abstract!Next \/ UNCHANGED Rewound!Abstract!vars]_all

(* Header chain: the number index up to the head header names its          *)
(* ancestors, through syncs, roll-backs, rewinds and crashes; what it      *)
(* names is a header the database has, even after a crash inside           *)
(* WriteHeader, whose walk back never meets a header that is missing.      *)
HeadersAreIndexed ==
  /\ part = "headers" => /\ Headers!TypeOK /\ Headers!IndexFollowsHeader
                         /\ Headers!IndexIsKnown /\ Headers!WalkNeverPanics
  /\ part = "ragged" => Ragged!TypeOK /\ Ragged!IndexIsKnown

(* Header chain: a roll-back leaves none of the heads among the headers it *)
(* was given, and goes no further back than the safety net and one chunk.  *)
RollbackIsExact ==
  [][part = "headers" => Headers!RollbackLeavesNoHead /\ Headers!RollbackIsBounded]_all

(* Trie database: no state the chain refers to loses a node, whatever was  *)
(* flushed, persisted or dropped with other states; what is on disk has    *)
(* everything below it on disk, after a crash too; and the flush list      *)
(* holds exactly the cached nodes, linked both ways.                       *)
TriesAreComplete ==
  part = "tries" => /\ Tries!TypeOK /\ Tries!LiveStatesComplete
                    /\ Tries!DiskClosed /\ Tries!FlushListSound

(* State database: reverting to a held snapshot would show what was seen   *)
(* when it was taken, and no inner revert invalidates a snapshot an outer  *)
(* call holds; a copy taken at any moment shows the same accounts and      *)
(* commits to the same trie; whatever Commit writes has its code and       *)
(* storage trie in the database.                                           *)
StateIsExact ==
  /\ part = "alone" => /\ Alone!TypeOK /\ Alone!SnapshotsHold /\ Alone!HeldAreValid
                       /\ Alone!CopyAgrees /\ Alone!CommitStoresAll
  /\ part = "beside" => Beside!TypeOK /\ Beside!SnapshotsHold /\ Beside!CopyAgrees

(* State database: Finalise writes every account as the transaction left   *)
(* it, and an account only reverted calls touched is not deleted.          *)
FinaliseIsExact ==
  [][/\ part = "alone" => Alone!FinaliseWritesView /\ Alone!RevertedTouchKeeps
     /\ part = "beside" => Beside!RevertedTouchKeeps]_all

(* Fast sync: no block is left out, whenever the pivot moves, and the head *)
(* never has a missing state.                                              *)
FastChainIsWhole == part = "fast" => Fast!TypeOK /\ Fast!NoGap /\ Fast!HeadHasState
=============================================================================
