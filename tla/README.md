# TLA+ specifications of the DPoS node

The repository is a fork of go-ethereum in which blocks are produced by
delegated proof of stake (DPoS): accounts register as candidates and vote for
them with transactions, an election at the start of each epoch makes a list of
validators, and these mint blocks in turn, one per slot. This directory holds
TLA+ models of that machinery and of the parts of the node around it, model
checked with TLC and in part proved with TLAPS.

## The system

| part | source | modules |
|---|---|---|
| slots, epochs, whose turn it is | `consensus/dpos/dpos.go`, `epoch_context.go` | `Slots` |
| DPoS context: the five tries of a block | `core/types/dpos_context.go`, `trie/trie.go` (prefix iterator) | `DposContext` |
| elections, kickout, mint counts | `consensus/dpos/epoch_context.go`, `api.go`, `dpos.go` | `EpochContext` |
| transactions, the worker's environment, Finalize | `core/state_processor.go`, `miner/worker.go`, `dpos.go` | `DposLedger` |
| minting, sealing, import, fork choice, confirmation, crashes | `miner/worker.go`, `core/blockchain.go`, `dpos.go` | `DposChain` |
| the worker's goroutines and channels; the miner's control; its ticks | `miner/worker.go`, `miner/miner.go` | `Worker`, `Miner`, `MintTicks` |
| block database: pruning, reorganisation, SetHead, repair | `core/blockchain.go` | `BlockStore`, `CanonicalChain` |
| header chain, roll-back | `core/headerchain.go`, `core/blockchain.go`, `eth/downloader/downloader.go` | `HeaderChain` |
| trie node cache | `trie/database.go` | `TrieDatabase` |
| state database, journal | `core/state/` | `StateDB` |
| transaction pool | `core/tx_pool.go`, `core/tx_list.go` | `TxPool` |
| block fetcher | `eth/fetcher/fetcher.go` | `Fetcher` |
| protocol handler, transaction relay, choice of sync mode | `eth/handler.go`, `eth/peer.go`, `eth/sync.go` | `PeerSessions`, `TxSync`, `Synchronise` |
| downloader | `eth/downloader/` | `FindAncestor`, `HeaderFetch`, `DownloadQueue`, `StateSync`, `FastContent`, `SyncPipeline` |
| peer-to-peer server and dialer | `p2p/server.go`, `p2p/dial.go` | `P2PServer` |

How they interact: `mintLoop` asks the engine on every tick whether this node
may mint on its head (`CheckValidator`). If so `createNewWork` opens an
environment on the head, applies transactions of the pool, and calls
`Finalize`, which holds an election when the block is the first of its epoch
and counts the block in `mintCntTrie`. The block is sealed at the next slot,
written with `WriteBlockWithState` and broadcast. Other nodes hear of it through
their protocol handlers, fetch it (fetcher) or catch up (downloader), and import
it with `insertChain`: header, state and seal are verified, `verifySeal` also
looks for a block with enough witnesses to be *confirmed*, and the block is
written. Fork choice is by total difficulty, which is the length of the chain as
every difficulty is 1.

Most of `core/blockchain.go` (from line 359) and of `core/state_transition.go`
lies inside an unclosed comment, with identifiers translated by machine. The
models follow that text as the Go it was; the map gives its lines.

In each module a definition whose comment begins "Mutant of" is a plausible
wrong version of the definition after it; no specification uses it. With it in
place of the right one, TLC finds the corresponding property violated.

## The modules

### The chain

**Slots** has the arithmetic of time: `EpochOf`, `PrevSlot`, `NextSlot`,
`lookupValidator`, `SafeSize`, `ConsensusSize`. An address is a number because
the election breaks ties by order of addresses.

**DposContext** is a library on *contexts*, records with a field for each trie.
Keys are sequences of components, so that the code's prefixes can be told from
its keys: `PrefixIterator` visits the keys that begin with the trie's prefix,
while the other operations use keys without it. The operators have the names of
the methods they stand for. **EpochContext** adds `countVotes`, `KickedOut`
(kickoutValidator), `tryElect` and `updateMintCnt`. The shuffle of the elected is
seeded with a hash, so that `DposLedger` allows every order.

**DposLedger** is one chain: `chain` is the sequence of blocks, each with the
context and balances its roots stand for, and `work` is the environment
`w.current`. Actions: `createNewWork`, `ApplyTransaction`, `Finalize`,
`FinalizeError` (no block; the process exits and starts again from the head).
Gas, nonces and contract code are left out.

**DposChain** has several nodes. A block is the sequence of headers from
genesis. A node's database is `known`, the blocks whose DPoS tries are committed
are `tries`, its head is `head`; the confirmed header is in memory (`confirmed`)
and on disk (`stored`). Minting is cut where another goroutine can come in:
`mintBlock` (CheckValidator), `createNewWork`, and the end of sealing (`Seal`,
`SealStopped`). A tick may be late. Several blocks of a node may be in sealing at
once, because a seal past its wait is not stopped by the next task. `Restart`,
`CrashInImport` and `CrashInSeal` lose what is in memory, the latter two inside
`WriteBlockWithState`: before or after the DPoS tries are committed, or with the
head on any of the blocks that `reorg` inserts one by one (`Inserted`). Such a
crash leaves the head behind blocks the database has. `CrashIsMadeGood` says why
that does not last: the block is not taken for known, as its number is above the
head's, and its parent has a state. The loop of
`updateConfirmedBlockHeader` is `ConfirmedFrom`: one turn of it is `Turn`, with
the reset of `validatorMap` and the fast return. Which list an election yields is
any member of `Lists`; `DposLedger` says which. Assumed: clocks agree, nodes keep
all state on disk (`--gcmode archive`).

**Worker** has the goroutines of `miner/worker.go` and their channels: `quitCh`,
closed and replaced by three of them in two steps, unbuffered `taskCh`, bounded
`resultCh` and `chainHeadCh`; `start`, `stop`, `close`. Blocks have no content.
**Miner** has `Start`, `Stop`, `SetCoinbase` and `update`, one step for each read
or write of a flag, with the mint loops and the stopper channels they wait on.
**MintTicks** sets the ticker, in tenths of a second and with any phase, against
`CheckValidator`, which accepts the ticks of one second only, and against
`Dpos.Seal`, which signs at once in a slot's second and otherwise waits for the
next slot. Blocks have a time, a signer and transactions; a tick that comes while
the worker is busy waits in the ticker's channel, so that a second block may be
made in one slot, or one whose time is no slot (it stays on its maker's chain). A
wait is stopped by a new head or task, a seal without one is not.

### What a node keeps

**BlockStore** is the database of one node: blocks, number index, the three
heads in memory and on disk, lookup entries, states in memory (`triegc`) and on
disk, DPoS tries. Imports go block by block (`insertChain`, `reorg`, `insert`),
with pruning, `SetHead`, `Stop`, a crash between any two blocks (with
`TornWrites` also between two writes of one block) and the restart with
`repair`. **CanonicalChain** is what it promises its readers: one chain, replaced
only from some block on and by a branch that reaches at least as high, cut but
never rewritten by a restart. `BlockStore!Abstract` is the refinement mapping:
`chain` is what the index and the stored head give a reader, `pending` the
blocks the running import has still to insert.

**HeaderChain** is `core/headerchain.go` during fast syncs: headers validated
and written in chunks, bodies following on another goroutine, roll-back, rewind,
crash (also inside `WriteHeader`). **TrieDatabase** is the node cache: reference
counts, flush list, `Cap`, `Commit`, `Dereference`. **StateDB** has objects,
journal, snapshots, `Finalise`, `Commit` and `Copy`, used as the miner and the
virtual machine use them. **FastContent** is the end of a fast sync: the pivot,
its moving, its commit, and the blocks after it.

### What a node holds of others

**P2PServer** is the run loop with its dialer, the goroutines that dial and set
up connections, and the stop. **PeerSessions** is the life of a connection in
the protocol handler against `removePeer` of other goroutines and `Stop`.
**TxSync** sends pending transactions to new connections, **Synchronise** chooses
the sync mode, **Fetcher** turns announcements into imports, and **TxPool** has
every operation of the pool including its reset on a new head.

**FindAncestor**, **HeaderFetch** (skeleton and fill), **DownloadQueue** (bodies
and receipts), **StateSync** and **SyncPipeline** (the goroutines of one sync) are
the parts of the downloader. Each leaves the others abstract: SyncPipeline counts
batches, HeaderFetch and DownloadQueue say how they come. SyncPipeline has
fetchers for any set of parts, but the importer is that of a full sync
(`processFullSyncContent`); FastContent has the fast one. In StateSync one root
follows another, the peers stay: `asked` has the requests a peer has not answered,
of the sync before too, and an answer is taken for whatever the peer was asked
last. The scheduler drops nodes it does not wait for (`Accepts`), and only
complete subtries outlive a sync (`StartNext`).

### Several components in one run

`MCStorage`, `MCNetwork`, `MCSync` and `MCProgress` each put several components
side by side. A behaviour is one of a single component, named by `part`, which
never changes; the variables `s1`, `s2`, ... hold the state of that component
and are 0 otherwise. The components do not interact in these runs: the run is
the union of their state graphs, and each conjunct of a property speaks of one
`part`. Some components appear several times with different constants. Where
theorems are about a property of the run, the component is extended instead of
instantiated (`PeerSessions` in `MCNetwork`, `FindAncestor` in `MCSync`).

## The runs

| run | config | distinct states | properties |
|---|---|---|---|
| votes | `MCLedgerVotes.cfg` | 258 255 | `TypeOK`, `VotesMatchDelegations`: balances never negative, delegateTrie and voteTrie agree |
| epochs | `MCLedgerEpochs.cfg` | 136 865 | `MintCntIsHistory`, `ElectionsAtEpochs`, `ElectionSameOnAllNodes` |
| chain | `MCChain.cfg` | 1 872 995 | `TypeOK`, `ConfirmedIsWitnessed`, `ConfirmationComplete`, `ConfirmedNeverGoesBack`, `OffSlotBlocksStayHome`, `HeadIsUsable`, `CrashIsMadeGood` |
| sealing | `MCChainSealing.cfg` | 90 863 | `HeadIsHeaviest` with two blocks of a node in sealing at once |
| storage | `MCStorage.cfg` | 581 536 | `RestartsSafely`, `ChainIsIndexed`, `ImplementsCanonicalChain`, `OtherStoresHold` (block databases); `HeadersAreIndexed`, `RollbackIsExact` (headers); `TriesAreComplete`; `StateIsExact`, `FinaliseIsExact`; `FastChainIsWhole` |
| network | `MCNetwork.cfg` | 922 493 | `PeersAreCounted`, `DialsAreCounted` (server); `SessionsAreForgotten`; `FetcherIsSound`; `PoolIsIndexed`, `PoolIsExecutable`, `TxsAreKept` |
| sync | `MCSync.cfg` | 2 311 325 | `AncestorIsFound`, `HeadersInOrder`, `PartsAreAccounted`, `NodesAreAccounted`, `SuccessIsComplete`; `SealsAreAborted` (worker), `EverySlotFilled` (ticks) |
| progress | `MCProgress.cfg` | 109 245 | liveness: `StopsEnd`, `WaitsAreServed`, `BegunIsEnded` |
| votes_are_balances | `FindVotesAreBalances.cfg` | | violated, see Findings |
| kickout_rule | `FindKickoutRule.cfg` | | violated |
| one_delegation | `FindOneDelegation.cfg` | | violated |
| irreversible | `FindIrreversible.cfg` | | violated |

What each property says is in the comment above it.

### Bounds

*votes*: three accounts (two genesis validators and one other, so that votes go
to a validator, to a new candidate and to oneself), two transactions per
environment, two blocks over two epochs; `createNewWork` makes the number of
attempts unbounded. *epochs*: three epochs of four slots, two seats, so that a
validator can mint twice in an epoch, slots and a whole epoch can be skipped, and
leaving candidates make elections fail. *chain*: two nodes and two seats
(consensusSize 2), slots of two seconds so that there are seconds outside a slot,
epochs of two slots, time up to 7 so that confirmation happens within and across
an epoch, one crash of each node, ticks up to a second late; branches of two
blocks form, so that a crash can leave the head two blocks behind. *sealing*: the
same up to time 5 with `MaxTasks` 2 and no crash.

*storage*: a main chain of four blocks and a branch of two that leaves it after
the first, with two states in memory, so that blocks are pruned, reorganised and
processed again from below the pruned states; a smaller tree with `SetHead` to 0
and an archive node with torn writes (`OtherStoresHold`);
two remote header chains that part after block 1; two states sharing an account
node and a storage trie with a node twice; one account over two transactions, and
one beside the precompile whose touch survives a revert; a pivot that moves up to
twice. *network*: two nodes that connect in both directions, three nodes from all
sources of dials; three connections above a limit of one; two blocks from two
peers, one of which may announce a wrong number; two accounts with a pool of two
slots, one account with reorganisations, with too little and with enough room.
*sync*: every pair of chains of up to 20 blocks; five batches of headers from
three peers; three blocks in a cache of two; two tries with a node in common, one
after the other, from two peers and from one that answers in part and returns, and
a small one from two peers that return; three batches through the whole pipeline;
three sealing goroutines; three validators with one down, slots of two seconds and
five of them, with work of up to 0.8 s, which fits into a second with the ticker's
period, and of up to 1.3 s, which does not. The comments in the MC modules say
what each instance is for.

Two instances leave out a case in which the property is known not to hold, each
described below under "Other disagreements": `EarlyDrops` is FALSE (no removal
falls between a connection's two registrations) and `TxSync` lets a node connect
once (`Times` 1). `BlockStore` checks its index with `TornWrites` FALSE and
`HeaderChain` with `Torn` FALSE for the same reason; with them TRUE only what
survives a torn write is checked.

`CHECK_DEADLOCK FALSE` is set where the system may stop: a bounded clock, a
process that ended, a download that is over. The ledger runs check deadlock.
`VIEW` in *storage* leaves out the numbers of snapshots, of which only the order
matters, and in *network*, for the pool on a chain that drops no block, the mined
transactions, of which the pool holds the number.

### Fairness

Only *progress* assumes fairness, component by component (`Step` is weakly fair,
`Chance` strongly). Goroutines that can go on do: the Go scheduler is preemptive.
Strong fairness is assumed for a case of a `select` that is ready again and again,
since Go picks a ready case at random, for senders waiting on a channel or a
lock, which are served in order, and for tickers. Timeouts fire, so that a request
is answered or expires. Nothing is assumed of users, of peers that need not
answer, or of connections; the exception is `synchronise`, where not every sync
of infinitely many fails and the best peer is offered again.

## Findings

Four statements of the repository's comments and tests about DPoS do not hold of
the code.

* *Votes are the balances of delegators* (`epoch_context.go:68`). The prefix
  iterator finds no delegator, so that all candidates have 0 votes and the
  election orders them by address. (`VotesAreBalances`)
* *Validators that minted less than half their blocks are out*
  (`api.go:115`). The iterator guarding `kickoutValidator` is empty for the same
  reason. (`KickoutRule`)
* *An earlier vote is cancelled first* (`dpos_context.go:269`). Genesis'
  self-delegations are not in voteTrie and stay. (`OneDelegationEach`)
* *The confirmed block is irreversible* (`api.go:78`). Fork choice does not look
  at it. (`ConfirmedIsIrreversible`)

A consequence of the second: elections do not depend on the process-wide
`timeOfFirstBlock`, on which nodes may differ after a reorganisation. With the
prefix mended they would (`ElectionSameOnAllNodes` fails for that mutant).

### Other disagreements

Met while modelling the other components. The models have the behaviour of the
code, and TLC shows each of these on the component's module when the quoted
comment is stated as a property; the project keeps no run for them.

Miner and worker:

* "start … triggers new work" (`miner/worker.go:230`): `stop` closes the stopper
  even when no mint loop runs, and the loop of a later start returns at once
  while `running` stays 1 (`worker.go:285`).
* "whether to start after a sync" (`miner/miner.go:59`): `update` restarts with a
  coinbase that only `SetCoinbase` sets, so that the worker's is cleared
  (`miner.go:106`); and a `Start` whose two steps fall between two of `update`'s is
  neither done nor remembered (`miner.go:104`).
* "stop sets the running state to 0" (`worker.go:294`): a second stop closes the
  closed stopper and panics (`worker.go:297`).
* "close terminates all background threads" (`worker.go:305`): a mint loop does
  not look at `exitCh` and goes on (`worker.go:281`).
* "interrupt aborts the sealing tasks in flight" (`worker.go:396`): two goroutines
  that close `quitCh` before one replaces it panic (`worker.go:399`).

Block database, headers and tries:

* "needed to repair incomplete database writes" (`core/blockchain.go:440`): a crash
  between the canonical hash and the head hash leaves the index with a block that
  is no ancestor of the head; repair looks at the state only (`blockchain.go:502`).
* "also resets the head header and the head fast sync block" (`blockchain.go:489`):
  only if the index entry changes, and entries above a repaired head stay
  (`blockchain.go:498`).
* "everything above the new head will be deleted" (`core/headerchain.go:454`):
  blocks of other branches stay (`headerchain.go:463`).
* "Impossible reorg" (`blockchain.go:1381`) is logged after a restart that rewound
  the head below blocks whose states are on disk.
* "Rollback is meant to remove a chain of links from the database"
  (`blockchain.go:733`): it moves the heads only. The next sync then skips the
  headers left as known and drops an honest peer as stalling
  (`eth/downloader/downloader.go:1232`, `1240`).
* "overwrite any stale canonical number assignments" (`headerchain.go:177`): after a
  crash in the middle of an earlier rewriting the walk stops at the first entry
  that agrees (`headerchain.go:183`).
* "dangling trie nodes after full clean-up" (`blockchain.go:701`) can be logged: a
  child put back under a parent that is still cached has no reference
  (`trie/database.go:304`).

Transaction pool:

* "strictly continuous" (`core/tx_list.go:231`): after a reorganisation whose second
  transaction is refused, the executable list has a hole (`core/tx_pool.go:1133`).
* "the sender of a transaction marked local is whitelisted" (`tx_pool.go:624`): not
  if it replaced an executable one (`tx_pool.go:680`).
* "the last heartbeat of each known account" (`tx_pool.go:214`): an account with
  queued transactions alone has none and is evicted at once (`tx_pool.go:773`).
* `tx_pool_test.go:108` requires heap minus stales to be the pooled transactions:
  not after one that left comes back (`tx_list.go:455`).

Fetcher, handler and relay:

* hashLimit, "the most blocks a peer may have announced" (`eth/fetcher/fetcher.go:47`):
  counted down twice for one announcement (`fetcher.go:382`).
* fetchTimeout (`fetcher.go:44`): a hash whose body was asked for never expires
  (`fetcher.go:295`).
* Stop "cancels all pending operations" (`fetcher.go:190`): an importing goroutine
  stays at its send on `done` (`fetcher.go:653`).
* Stop "waits for all peer handler goroutines" (`eth/handler.go:251`): `wg.Add` comes
  after the syncer took the peer (`handler.go:150`).
* maxPeers holds but for trusted peers (`handler.go:264`): it is checked before the
  handshake, and those who shake hands together all register (`handler.go:265`).
* "unregister the peer from the downloader and the peer set" (`handler.go:204`): a
  removal between the two registrations leaves the peer in the downloader
  (`handler.go:199`).
* "relay all currently pending transactions" (`eth/sync.go:70`): a failed send of an
  earlier connection deletes the entry of the node's new one (`sync.go:128`).
* fastSync "gets disabled if we already have blocks" (`handler.go:77`): a goroutine
  that read it before starts a fast sync afterwards (`sync.go:187`).

Downloader:

* "if the delivery is stale, the peer should have been idled" (`downloader.go:1034`):
  a late answer is matched with the next request, and the peer stays busy without
  one (`downloader.go:1035`).
* "to detect stalled syncs and abort" (`statesync.go:240`): a node tried with all
  connected peers because an untried one left wakes nobody (`statesync.go:304`).
  "failed with all peers" (`statesync.go:452`) counts peers that left.
* "also set the peers idle … for the next sync" (`statesync.go:106`): not the one
  whose finished request was not delivered (`statesync.go:108`).
* "finish the sync gracefully" (`downloader.go:879`): dropping the master has just
  cancelled it (`downloader.go:877`).
* "empty if the queue has been closed" (`queue.go:359`): Results returns what is
  complete, and the end of a sync needs that (`queue.go:366`).
* "header retrieval timed out" (`downloader.go:874`): a tick left in the timer's
  channel ends the next, fresh request (`downloader.go:813`).
* "fast sync done, pivot commit done, fully import" (`downloader.go:1464`): the DPoS
  tries are never downloaded, so that no block after the pivot can be imported
  (`statesync.go:250`).
* "if some headers were inserted, add them" (`downloader.go:1281`): when the
  validation fails none was, and known ones are rolled back (`downloader.go:1282`).
* InsertReceiptChain completes a chain (`blockchain.go:797`): the ancestor search
  accepts a header stored without its body (`downloader.go:669`).

Peer-to-peer server:

* MaxPeers (`p2p/server.go:70`): static dialed connections are exempt
  (`server.go:773`).
* a trusted node may "always connect" (`server.go:330`): not if it is trusted
  after its first checkpoint (`server.go:687`).
* "future attempts to connect will not be made" (`p2p/dial.go:163`): a queued task
  of a removed static node is started (`dial.go:164`).
* MaxPendingPeers is "counted separately for inbound and outbound"
  (`server.go:74`): outbound ones are bounded by `maxActiveDialTasks` only
  (`server.go:611`).

## The proofs

TLAPS checks the following for every value of the constants that satisfies the
named assumptions; TLC checks the same properties in the runs.

### The ledger (`DposLedgerProofs`, over the lemmas of `ElectionProofs`)

For every finite set of accounts, every genesis and all intervals greater than 0:

* `TypeCorrect`: `Spec => []TypeOK`. `TypeOK` is inductive; one lemma per
  operation on a context, `ElectionOutcome` for `tryElect` and `FinalizeEffect`
  for what a `Finalize` step does.
* `DelegationsHaveVotes`: `Spec => []VotesMatchDelegations`, inductive together
  with `TypeOK`; a lemma `...Agrees` per operation.
* `ElectionIsDeterministic`: `Spec => []ElectionSameOnAllNodes`. It follows from
  `TypeOK`: no stored key begins with "mintCnt-" (`MintCntPrefixAssumption`), so
  that no round kicks out and the outcome is that of one count of votes.
* `MintCntCountsBlocks`: `Spec => []MintCntIsHistory`. The invariant is
  `History`: beside `MintCntIsHistory`, the environment's counts are those of the
  head, and no block of the chain is later than the head. The latter is needed
  where `updateMintCnt` starts from 1: if the parent is of an earlier epoch, no
  block of the chain is of the new one (`EpochOfMonotone`).
* `ElectionsFillSeats`: `Spec => []ElectionsAtEpochs`. The invariant is
  `Elections`: beside `ElectionsAtEpochs`, the environment's list is the head's
  (no transaction touches it). The rest is about one election, in
  `ElectionProofs`: the order `Less` ranks the candidates one to one onto
  0..n-1, so that cutting at `maxValidatorSize` leaves the smaller of the two
  numbers (`FirstByWeightCount`); a result below `safeSize` is an error and no
  block comes of it (`OutcomeElectable`); the shuffle lists every elected
  candidate once (`ShuffleIs`). That the weights are natural numbers would be an
  induction over the delegators; it is not needed, since the prefix iterator finds
  no delegator and every weight is 0 (`NoDelegators`, `NoVotes`).

### The confirmation loop (`ConfirmationProofs`)

`ConfirmationLoop`: on every chain whose times do not go back, from every
confirmed block, the loop of `updateConfirmedBlockHeader` computes the highest
block above the confirmed one that `ConsensusSize` validators of its epoch signed
or built on (`HighestWitnessed`). The loop is a recursive function of the header
number. That this function exists (`WalkExists`) and what it computes
(`WalkFinds`) are inductions on the number, made by applying the well-foundedness
of the naturals to a set of numbers (`SetInduction`). `WalkFinds` says of the loop
at header i: the set `validatorMap` is that of the signers of the same epoch
above i, and the result is the first block below with enough of them, whether
the epoch changes, the fast return is taken or the confirmed block is reached. The
module ends with the facts on blocks and their parents that the chain's proofs use.

### The chain (`DposChainProofs`, over `ConfirmationProofs`)

For any set of nodes, any lists, times, number of tasks and of crashes, every
property of the run *chain* is a theorem:

* `ChainTypeOK`, `HeadAlwaysUsable`, `CrashAlwaysMadeGood`,
  `OffSlotBlocksAlwaysStayHome`, `ConfirmedAlwaysWitnessed`,
  `ConfirmationAlwaysComplete`, and the action property `ConfirmedNeverBack`;

and so is that of *sealing*, `HeadAlwaysHeaviest`.

They follow from one inductive invariant, `ChainInv`, which TLC also checked on
the instance of *chain*. It says of every node (`NodeOK`), in terms of the values
of its variables:
known blocks have times that do not go back and, except the node's own, lie in
their signer's slot; blocks with tries are known, with all their ancestors, and
the head is one of them; no known block is longer than the head of a node that
has not crashed; every known block has a time that has come, and its parent has
tries; each block in sealing has a parent with tries; what is confirmed
in memory is what is on disk, or nothing is on one of the sides; and the block a
node would load as confirmed is genesis or has its witnesses on a known chain.
The properties alone are not inductive: that the head is usable needs the closure
of the tries under ancestors, since a crash may fall after a block was written and
before its tries were; that a confirmed header is witnessed needs the times to be
ordered, since only then does the loop compute what it should; and that it never
goes back needs the relation of the one in memory to the one on disk.

The module has a lemma for each operation on one node (`WriteOK`,
`InterruptedOK`, `ForgetOK`, `ConfirmOK`, ...), then one for each step of the
network (minting, sealing, importing, the crashes), then the theorems.

### The block database (`BlockStoreInvariant`, `BlockStoreProofs`)

For every tree of blocks, every assignment of transactions to them, any number of
states kept in memory, archive nodes and pruning ones, with or without rewinds:

* `StoreRestartsSafely`: `Spec => []RestartsSafely`. Torn inserts are included
  where the property includes them.
* `StoreIsIndexed`: `Spec => []ChainIsIndexed`.
* `StoreImplementsChain`: while no insert is torn, `Spec =>
  ImplementsCanonicalChain`, the refinement of the abstract specification.

All three follow from one inductive invariant, `Inv`, which TLC also checked for
each combination of `Archive`, `TornWrites` and rewinds. The properties speak of
the head in memory, but what a restart finds is on disk, and the two differ: after
a repair the stored head stays above the head in memory until the next insert, and
the head header may be on another branch. The parts of `Inv` that bridge this:

* `HeadBelowStored`: the head in memory is an ancestor of the stored one, and no
  block between them has a state, unless it is one that is being inserted. Without
  it, a crash after an import could bring a restart to a block above the head that
  was never the head.
* `IndexFollowsStored`: index and lookup entries follow the stored heads, not only
  the one in memory.
* `InsertsSwitch`: what a reorganisation has still to insert is a branch off the
  head's chain whose last block has a state, and the transactions it will remove
  from the lookup entries are none of that branch's chain, nor of the head
  header's unless the next insert moves that head too.
* `DposComplete`, `ChainsKnown`, `NeverCut`: DPoS tries and blocks come with those
  of their ancestors; the latter fails after a rewind, which is why
  `RestartsSafely` speaks of nodes that were not rewound.
* `IndexCoversStates`: every number up to that of a block with a state has an index
  entry, so that the header the garbage collection commits is there. It is what
  `ImportsNeverPanic` needs.

The garbage collection is a recursive function over the states in memory
(`TriesAbove`); what it keeps (`TriesAboveIs`), and that the highest ancestor
`repair`, `reorg` and the walk over pruned ancestors look for exists
(`HighestExists`), are inductions on numbers by `SetInduction`. The longest argument,
that an insert keeps `Inv`, is a row of lemmas, `InsertIsAt` to `InsertCovers`, one
for each part of `Inv` that it disturbs. For the refinement,
`VisibleIs` shows that the chain a reader sees is the chain of one block, and a
lemma `...Maps` per action names the abstract step: the fork choice is `Switch`, an
insert `Adopt`, a stop, a crash and `SetHead` are `Cut`, a restart changes nothing.

### The ancestor search (`FindAncestorProofs`)

`AncestorAlwaysFound`: for chains of every length and every `Stride` not above
`MaxHeaderFetch`, the search returns a common block that may be reverted to and
is the last one up to a sampling step, and it refuses an honest peer only when
that block is too old. The invariant keeps the two bounds of the binary search
around the ancestor and below the local head; `SampledIsBest` is the fact about
the samples.

### Peer sessions (`PeerSessionsProofs`)

`SessionsAlwaysForgotten`: for every number of connections, however handlers,
removals by other goroutines and `Stop` interleave. The invariant says where the
handler of a registered connection is, that a removal has taken the connection
out of the downloader before it takes it out of the peer set, and that `pm.wg` is
the number of handlers between `wg.Add` and `wg.Done`: only with that does
`wg.Wait` mean that the closed peer set is empty. The part about the downloader
needs `EarlyDrops` FALSE, as the property itself says.

### Assumptions

Each is named where its constants are declared, and TLC evaluates it:
`AddressAssumption` (finitely many accounts, none the zero address),
`EpochIntervalAssumption`, `BlockIntervalAssumption`,
`MaxValidatorSizeAssumption` (none 0; the code divides by them unchecked),
`GenesisAssumption`, `DelegatePrefixAssumption` and `MintCntPrefixAssumption` (no
account or epoch has the bytes of a prefix), `MaxEpochAssumption`,
`LedgerAssumption` (types), `WholeSlotsAssumption` (an epoch is a whole number of
slots), `ChainAssumption` (types, and that the nodes are accounts),
`SampleAssumption` (types, and a stride within the batch), `SessionAssumption`
(finitely many connections), `BlocksAssumption` (a block's ancestors are blocks),
`TxsAssumption` (genesis has no transactions and no chain has one twice, which the
nonces see to), `StoreAssumption` (at least one state is kept; the code keeps 128).

### Only model checked

* All liveness (`StopsEnd`, `WaitsAreServed`, `BegunIsEnded`): TLAPS has no rules
  for fairness and ENABLED.
* `TrieDatabase`, `StateDB`, `TxPool` and `P2PServer` use RECURSIVE operators, which
  the provers cannot read.
* The rest of the runs *storage*, *network* and *sync*: the header chain, the
  fetcher and the parts of the downloader other than the ancestor search are
  checked on their instances only.
* The refinement with torn inserts is not claimed: a crash inside an insert can
  leave an index entry of the new branch below the old head.
* `EverySlotFilled`: it depends on the intervals, as a comment in `MintTicks` says,
  and on how long the making of a block takes. With the interval of 2 s of
  `cmd/geth/run/init.json` every slot is filled if a block takes no more than 0.8 s.
  With the 10 s of the constant in `dpos.go:48` the ticks are a second apart, and a tick late in its
  second leaves hardly any time: a block that comes to `Seal` after its second
  waits for the next slot, is stopped by that slot's block, or, made from a tick
  that waited, has a time that is no slot.

## Not modelled

The node as a whole is some 210 000 lines, of which the modules stand for 8000,
about 4 %: the parts that hold state shared between goroutines, processes or
crashes and that DPoS rests on. The rest is listed in `PROJECT.json` with the
reason. Left out are, in the modelled files, signatures and hashes (a signer is
its name, a block its contents), RLP, gas, contract execution, logs and metrics;
and as a whole the other consensus engines (the worker refuses them), RLPx and
discovery, accounts, RPC, console and command line, and Swarm, Whisper, LES,
dashboard and mobile, which do not take part in block production.
