----------------------------- MODULE DposChain -----------------------------
(***************************************************************************)
(* Nodes that mint, exchange and import DPoS blocks: the worker's path to  *)
(* a block (miner/worker.go), import and fork choice (core/blockchain.go), *)
(* the engine's checks and its confirmed header (consensus/dpos/dpos.go),  *)
(* crashes and restarts.                                                   *)
(*                                                                         *)
(* A block is the sequence of headers from genesis to its own, so that its *)
(* parent is the rest, its number Len(b) - 1 and, every difficulty being   *)
(* 1, its total difficulty Len(b).  A header has its time, its validator   *)
(* and the validator list its DPoS context holds.  A list elected at the   *)
(* start of an epoch is any member of Lists: which one, DposLedger says.   *)
(*                                                                         *)
(* Clocks agree.  A node whose clock is behind keeps a block it receives   *)
(* in futureBlocks and imports it later; here that is a late delivery.     *)
(* Nodes keep all state on disk (gcmode archive).                          *)
(***************************************************************************)
EXTENDS Slots, FiniteSetsExt

CONSTANTS
  Node,         \* the nodes; a node signs with the address it is
  GenesisList,  \* the validator list of the genesis block
  Lists,        \* the lists an election may yield
  MaxTime,      \* bound on the clock
  MaxLate,      \* bound on the age of a tick the worker takes up
  MaxTasks,     \* bound on the blocks a node seals at once
  MaxCrashes    \* bound on the crashes of each node

ASSUME ChainAssumption ==
  /\ Node \subseteq Address
  /\ GenesisList \in Seq(Address)
  /\ Lists \subseteq Seq(Address)
  /\ MaxTime \in Nat
  /\ MaxLate \in Nat
  /\ MaxTasks \in Nat
  /\ MaxCrashes \in Nat

VARIABLES
  now,        \* the time
  blocks,     \* the blocks broadcast; one may reach a node never, or often
  known,      \* known[n]: the blocks of n's database, with their state
  tries,      \* tries[n]: those whose DPoS tries have been committed too
  head,       \* head[n]: CurrentBlock, and CurrentHeader
  confirmed,  \* confirmed[n]: confirmedBlockHeader, NoBlock when nil
  stored,     \* stored[n]: the block under confirmedBlockHead on disk
  checked,    \* the nodes between CheckValidator and createNewWork
  task,       \* task[n]: the blocks being sealed, each by a goroutine
  prev,       \* prev[n]: the block taskLoop started sealing last
  crashes     \* crashes[n]: how often n has crashed

vars == <<now, blocks, known, tries, head, confirmed, stored, checked, task,
          prev, crashes>>

NoBlock == <<>>

Genesis == <<[time |-> 0, validator |-> NoAddress, validators |-> GenesisList]>>

Header(b) == b[Len(b)]

Parent(b) == SubSeq(b, 1, Len(b) - 1)

\* Block c is b or an ancestor of it.
IsAncestor(c, b) == Len(c) <= Len(b) /\ SubSeq(b, 1, Len(c)) = c

Init == /\ now = 0
        /\ blocks = {}
        /\ known = [n \in Node |-> {Genesis}]
        /\ tries = [n \in Node |-> {Genesis}]
        /\ head = [n \in Node |-> Genesis]
        /\ confirmed = [n \in Node |-> NoBlock]
        /\ stored = [n \in Node |-> NoBlock]
        /\ checked = {}
        /\ task = [n \in Node |-> {}]
        /\ prev = [n \in Node |-> NoBlock]
        /\ crashes = [n \in Node |-> 0]

Tick == /\ now < MaxTime
        /\ now' = now + 1
        /\ UNCHANGED <<blocks, known, tries, head, confirmed, stored, checked,
                       task, prev, crashes>>

-----------------------------------------------------------------------------
(* Minting.                                                                *)

\* checkDeadline lets a node mint on a block for a tick of its ticker.
checkDeadline(b, tick) ==
  /\ Header(b).time < NextSlot(tick)
  /\ Header(b).time = PrevSlot(tick) \/ NextSlot(tick) - tick <= 1

\* mintBlock up to the return of CheckValidator.  The ticker keeps a tick
\* while the worker is busy, so that it may be late.
mintBlock(n, tick) ==
  /\ n \notin checked
  /\ Cardinality(task[n]) < MaxTasks
  /\ checkDeadline(head[n], tick)
  /\ lookupValidator(Header(head[n]).validators, tick) = n
  /\ checked' = checked \cup {n}
  /\ UNCHANGED <<now, blocks, known, tries, head, confirmed, stored, task, prev,
                 crashes>>

\* createNewWork and taskLoop: reads the clock and the head again, and starts
\* sealing the finalized block unless it is the one started last.  Nothing
\* checks the slot a second time.
createNewWork(n) ==
  LET parent == head[n]
      time   == IF Header(parent).time >= now THEN Header(parent).time + 1 ELSE now
  IN  /\ n \in checked
      /\ checked' = checked \ {n}
      /\ \E list \in IF EpochOf(time) = EpochOf(Header(parent).time)
                     THEN {Header(parent).validators}
                     ELSE Lists :
           LET block == Append(parent, [time |-> time, validator |-> n,
                                        validators |-> list])
           IN  /\ task' = [task EXCEPT ![n] = IF block = prev[n] THEN @ ELSE @ \cup {block}]
               /\ prev' = [prev EXCEPT ![n] = block]
      /\ UNCHANGED <<now, blocks, known, tries, head, confirmed, stored, crashes>>

\* Seal waits for the next slot; a new head, a new task or a stop ends the
\* wait, unless the slot comes first.
SealStopped(n) ==
  /\ NextSlot(now) > now
  /\ \E b \in task[n] : task' = [task EXCEPT ![n] = @ \ {b}]
  /\ UNCHANGED <<now, blocks, known, tries, head, confirmed, stored, checked, prev,
                 crashes>>

\* Mutant of ForkChoice: the latest block wins.
ForkChoiceLatest(current, b) == {b}

\* The heads fork choice may take: the larger total difficulty; either one
\* when they are equal (a coin is tossed).
ForkChoice(current, b) ==
  CASE Len(b) > Len(current) -> {b}
    [] Len(b) = Len(current) -> {b, current}
    [] OTHER                 -> {current}

\* Mutant of WriteBlockWithState: the DPoS tries are not committed.
WriteBlockWithoutTries(n, b) ==
  /\ known' = [known EXCEPT ![n] = @ \cup {b}]
  /\ UNCHANGED tries
  /\ \E h \in ForkChoice(head[n], b) : head' = [head EXCEPT ![n] = h]

WriteBlockWithState(n, b) ==
  /\ known' = [known EXCEPT ![n] = @ \cup {b}]
  /\ tries' = [tries EXCEPT ![n] = @ \cup {b}]
  /\ \E h \in ForkChoice(head[n], b) : head' = [head EXCEPT ![n] = h]

\* Seal and resultLoop: the block is written, unseen by verifySeal, and
\* broadcast, unless the database has it.
Seal(n, b) ==
  /\ b \in task[n]
  /\ NextSlot(now) = now
  /\ task' = [task EXCEPT ![n] = @ \ {b}]
  /\ IF b \in known[n]
     THEN UNCHANGED <<blocks, known, tries, head>>
     ELSE /\ WriteBlockWithState(n, b)
          /\ blocks' = blocks \cup {b}
  /\ UNCHANGED <<now, confirmed, stored, checked, prev, crashes>>

-----------------------------------------------------------------------------
(* Confirmation.                                                           *)

\* The signers of headers; genesis has none.
Signer == Address \cup {NoAddress}

\* Mutant of Turn: validatorMap is kept over a change of epoch.
TurnAcrossEpochs(h, c, i, rest) ==
  [epoch \in Int |-> [seen \in SUBSET Signer |->
     LET witnesses == seen \cup {h[i].validator}
     IN  CASE Len(c) >= i -> c
           [] Len(c) < i /\ Cardinality(witnesses) >= ConsensusSize -> SubSeq(h, 1, i)
           [] OTHER -> rest[epoch][witnesses]]]

\* Mutant of Turn: the fast return is one block too early.
TurnTooFast(h, c, i, rest) ==
  [epoch \in Int |-> [seen \in SUBSET Signer |->
     IF Len(c) >= i
     THEN c
     ELSE LET before    == IF EpochOf(h[i].time) = epoch THEN seen ELSE {}
              witnesses == before \cup {h[i].validator}
          IN  CASE i - Len(c) <= ConsensusSize - Cardinality(before) -> c
                [] i - Len(c) > ConsensusSize - Cardinality(before)
                   /\ Cardinality(witnesses) >= ConsensusSize -> SubSeq(h, 1, i)
                [] OTHER -> rest[EpochOf(h[i].time)][witnesses]]]

\* A turn of updateConfirmedBlockHeader's loop, with curHeader the i-th of h:
\* the block the loop makes the confirmed one, given epoch and validatorMap,
\* or c if it returns without one.  rest is what it does from header i - 1.
Turn(h, c, i, rest) ==
  [epoch \in Int |-> [seen \in SUBSET Signer |->
     IF Len(c) >= i
     THEN c
     ELSE LET curEpoch  == EpochOf(h[i].time)
              before    == IF curEpoch = epoch THEN seen ELSE {}
              witnesses == before \cup {h[i].validator}
          IN  CASE i - Len(c) < ConsensusSize - Cardinality(before) -> c
                [] i - Len(c) >= ConsensusSize - Cardinality(before)
                   /\ Cardinality(witnesses) >= ConsensusSize -> SubSeq(h, 1, i)
                [] OTHER -> rest[curEpoch][witnesses]]]

\* The loop of updateConfirmedBlockHeader, down from block h.
ConfirmedFrom(h, c) ==
  LET walk[i \in 0..Len(h)] == Turn(h, c, i, walk[i - 1])
  IN  walk[Len(h)][-1][{}]

\* The confirmed header, once it has been loaded: from the database, or the
\* genesis header.
loadConfirmedBlockHeader(n) ==
  CASE confirmed[n] # NoBlock -> confirmed[n]
    [] confirmed[n] = NoBlock /\ stored[n] # NoBlock -> stored[n]
    [] OTHER -> Genesis

\* Mutant of updateConfirmedBlockHeader: the header is not stored.
updateConfirmedInMemory(n) ==
  /\ confirmed' = [confirmed EXCEPT ![n] =
                     ConfirmedFrom(head[n], loadConfirmedBlockHeader(n))]
  /\ UNCHANGED stored

\* updateConfirmedBlockHeader, which stores what it confirms.
updateConfirmedBlockHeader(n) ==
  LET old == loadConfirmedBlockHeader(n)
      new == ConfirmedFrom(head[n], old)
  IN  /\ confirmed' = [confirmed EXCEPT ![n] = new]
      /\ stored' = [stored EXCEPT ![n] = IF new = old THEN @ ELSE new]

-----------------------------------------------------------------------------
(* Import.                                                                 *)

\* The times verifyHeader asks for: not in the future (such a block waits in
\* futureBlocks) and a block interval after the parent.
verifyHeader(b) == /\ Header(b).time <= now
                   /\ Header(Parent(b)).time + BlockInterval <= Header(b).time

\* Mutant of verifySeal: the signer need only be in the list.
verifySealInList(b) ==
  \E i \in DOMAIN Header(Parent(b)).validators :
    Header(b).validator = Header(Parent(b)).validators[i]

\* verifySeal up to the confirmation: the slot is the signer's.
verifySeal(b) ==
  lookupValidator(Header(Parent(b)).validators, Header(b).time) = Header(b).validator

\* Mutant of Importable: a known block is skipped, whatever the head.
ImportableUnknown(n, b) ==
  /\ Parent(b) \in known[n]
  /\ b \notin known[n]
  /\ verifyHeader(b)
  /\ Parent(b) \in tries[n]
  /\ verifySeal(b)

\* The blocks insertChain verifies and writes: one whose parent is there with
\* its tries, and that is not known, or is known but above the head.
Importable(n, b) ==
  /\ Parent(b) \in known[n]
  /\ b \in known[n] => Len(head[n]) < Len(b)
  /\ verifyHeader(b)
  /\ Parent(b) \in tries[n]
  /\ verifySeal(b)

\* The engine looks for a block to confirm before the new one is written.
insertChain(n, b) ==
  /\ Importable(n, b)
  /\ updateConfirmedBlockHeader(n)
  /\ WriteBlockWithState(n, b)
  /\ UNCHANGED <<now, blocks, checked, task, prev, crashes>>

-----------------------------------------------------------------------------
(* Crashes and restarts.                                                   *)

\* A crash loses what is in memory.
Crash(n) ==
  /\ crashes[n] < MaxCrashes
  /\ crashes' = [crashes EXCEPT ![n] = @ + 1]
  /\ confirmed' = [confirmed EXCEPT ![n] = NoBlock]
  /\ task' = [task EXCEPT ![n] = {}]
  /\ prev' = [prev EXCEPT ![n] = NoBlock]
  /\ checked' = checked \ {n}
  /\ UNCHANGED <<now, blocks>>

Restart(n) == Crash(n) /\ UNCHANGED <<known, tries, head, stored>>

\* Mutant of CrashInImport: the head is moved before the tries are committed.
CrashInImportHeadFirst(n, b) ==
  /\ Crash(n)
  /\ Importable(n, b)
  /\ known' = [known EXCEPT ![n] = @ \cup {b}]
  /\ head' = [head EXCEPT ![n] = b]
  /\ UNCHANGED <<tries, stored>>

\* The heads insert writes on the way from the current block to b: b itself if
\* it is a child, or else, in reorg, one block of the new branch after the
\* other, from the common ancestor up.
Inserted(current, b) ==
  {SubSeq(b, 1, i) : i \in {j \in 1..Len(b) : ~IsAncestor(SubSeq(b, 1, j), current)}}

\* A crash inside WriteBlockWithState, after the block and its state were
\* written: before the head is moved, with the DPoS tries committed or not,
\* or after any of the inserts.
WriteInterrupted(n, b) ==
  /\ known' = [known EXCEPT ![n] = @ \cup {b}]
  /\ \/ tries' \in {tries, [tries EXCEPT ![n] = @ \cup {b}]} /\ UNCHANGED head
     \/ /\ b \in ForkChoice(head[n], b)
        /\ tries' = [tries EXCEPT ![n] = @ \cup {b}]
        /\ \E h \in Inserted(head[n], b) : head' = [head EXCEPT ![n] = h]

\* It strikes an imported block after verifySeal, which may have stored a
\* confirmed header, and before or inside WriteBlockWithState,
CrashInImport(n, b) ==
  /\ Crash(n)
  /\ Importable(n, b)
  /\ LET old == loadConfirmedBlockHeader(n)
         new == ConfirmedFrom(head[n], old)
     IN  stored' = [stored EXCEPT ![n] = IF new = old THEN @ ELSE new]
  /\ \/ WriteInterrupted(n, b)
     \/ UNCHANGED <<known, tries, head>>

\* or the node's own block, which nobody else has seen.
CrashInSeal(n, b) ==
  /\ Crash(n)
  /\ b \in task[n]
  /\ NextSlot(now) = now
  /\ b \notin known[n]
  /\ WriteInterrupted(n, b)
  /\ UNCHANGED stored

Next ==
  \/ Tick
  \/ \E n \in Node :
       \/ \E tick \in Max({0, now - MaxLate})..now : mintBlock(n, tick)
       \/ createNewWork(n)
       \/ SealStopped(n)
       \/ \E b \in task[n] : Seal(n, b)
       \/ \E b \in blocks : insertChain(n, b)
       \/ Restart(n)
       \/ \E b \in blocks : CrashInImport(n, b)
       \/ \E b \in task[n] : CrashInSeal(n, b)

Spec == Init /\ [][Next]_vars

-----------------------------------------------------------------------------
(* Properties.                                                             *)

\* The headers and the blocks, as types.
HeaderType == [time : Nat, validator : Signer,
               validators : Seq(Address)]

BlockType == Seq(HeaderType) \ {NoBlock}

\* The variables have their types; what a node confirms, stores or extends
\* is in its database.
TypeOK ==
  /\ now \in 0..MaxTime
  /\ blocks \subseteq BlockType
  /\ checked \subseteq Node
  /\ \A n \in Node :
       /\ crashes[n] \in 0..MaxCrashes
       /\ known[n] \subseteq BlockType
       /\ tries[n] \subseteq known[n]
       /\ head[n] \in tries[n]
       /\ confirmed[n] \in known[n] \cup {NoBlock}
       /\ stored[n] \in known[n] \cup {NoBlock}
       /\ task[n] \subseteq BlockType
       /\ prev[n] \in BlockType \cup {NoBlock}

\* A node's confirmed header never goes back to a lower number, not even
\* over a crash: updateConfirmedBlockHeader stores what it confirms.
ConfirmedNeverGoesBack ==
  [][\A n \in Node : Len(loadConfirmedBlockHeader(n)')
                       >= Len(loadConfirmedBlockHeader(n))]_vars

\* The validators of one epoch that signed the confirmed block or a block
\* after it on a chain.
Witnesses(b, i) ==
  {b[j].validator : j \in {k \in i..Len(b) :
                             EpochOf(b[k].time) = EpochOf(b[i].time)}}

\* A confirmed block was signed or built on by consensusSize different
\* validators of its epoch: updateConfirmedBlockHeader adds no validators of
\* another epoch to the count, and counts none twice.
ConfirmedIsWitnessed ==
  \A n \in Node :
    LET c == loadConfirmedBlockHeader(n)
    IN  c # Genesis =>
          \E b \in known[n] : /\ IsAncestor(c, b)
                              /\ Cardinality(Witnesses(b, Len(c))) >= ConsensusSize

\* What the loop should find: the highest block above c with enough
\* witnesses.
HighestWitnessed(h, c) ==
  LET enough == {i \in (Len(c) + 1)..Len(h) :
                   Cardinality(Witnesses(h, i)) >= ConsensusSize}
  IN  IF enough = {} THEN c ELSE SubSeq(h, 1, Max(enough))

\* The loop of updateConfirmedBlockHeader, with its fast return, misses
\* nothing: from every head and every confirmed ancestor of it it finds the
\* highest block with enough witnesses.
ConfirmationComplete ==
  \A n \in Node : \A i \in 1..Len(head[n]) :
    LET c == SubSeq(head[n], 1, i)
    IN  ConfirmedFrom(head[n], c) = HighestWitnessed(head[n], c)

\* A block minted outside its slot (the second ticked over between
\* CheckValidator and createNewWork, or another head came in), and all that
\* is built on it, stays with the node that minted it: in every database
\* the headers of others are in their signer's slot, a block interval apart.
OffSlotBlocksStayHome ==
  \A n \in Node : \A b \in known[n] : \A i \in 2..Len(b) :
    \/ b[i].validator = n
    \/ /\ lookupValidator(b[i - 1].validators, b[i].time) = b[i].validator
       /\ b[i - 1].time + BlockInterval <= b[i].time

\* A node can always build on its head: wherever a crash strikes, the DPoS
\* tries of the head and of all its ancestors are on disk.
HeadIsUsable ==
  \A n \in Node : \A i \in 1..Len(head[n]) : SubSeq(head[n], 1, i) \in tries[n]

\* The head of a node that has not crashed is the heaviest of the blocks in
\* its database, in whatever order imported blocks and its own, two of which
\* may be sealed at once and on an old head, are written.
HeadIsHeaviest ==
  \A n \in Node : crashes[n] = 0 => \A b \in known[n] : Len(b) <= Len(head[n])

\* A crash may leave the head any number of blocks behind: reorg inserts the
\* new branch block by block.  But insertChain takes again every block of the
\* database that is heavier than the head, at once and without the blocks
\* between, except one the node itself minted outside its slot.
CrashIsMadeGood ==
  \A n \in Node : \A b \in known[n] :
    Len(b) > Len(head[n]) =>
      \/ Importable(n, b)
      \/ Header(b).validator = n /\ ~(verifyHeader(b) /\ verifySeal(b))

\* GetConfirmedBlockNumber's comment calls the confirmed block irreversible:
\* the head is always on top of it.
ConfirmedIsIrreversible ==
  \A n \in Node : IsAncestor(loadConfirmedBlockHeader(n), head[n])

=============================================================================
