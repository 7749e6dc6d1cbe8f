----------------------------- MODULE DposLedger -----------------------------
(***************************************************************************)
(* One chain of DPoS blocks as a validator's node extends it: the worker   *)
(* opens an environment on the head block (createNewWork, makeCurrent),    *)
(* applies transactions to it (ApplyTransaction), and Finalize turns it    *)
(* into the next block, electing new validators when the epoch changes.    *)
(* A block keeps the DPoS context and the balances its roots stand for.    *)
(***************************************************************************)
EXTENDS EpochContext

CONSTANTS
  GenesisTime,     \* g.Timestamp
  GenesisBalance,  \* g.Alloc
  BlockReward,     \* AccumulateRewards
  Coinbase,        \* the account each validator's node is rewarded on
  TxTypes,         \* the transaction types offered to the worker
  Values,          \* the values transactions carry
  MaxTxs,          \* bound on the transactions of a block
  MaxBlocks,       \* bound on the blocks after genesis
  MaxTime          \* bound on block times

ASSUME LedgerAssumption ==
  /\ GenesisTime \in Nat
  /\ GenesisBalance \in [Address -> Nat]
  /\ BlockReward \in Nat
  /\ Coinbase \in [Address -> Address]
  /\ TxTypes \subseteq DposTypes \cup {"Binary"}
  /\ Values \subseteq Nat
  /\ MaxTxs \in Nat
  /\ MaxBlocks \in Nat
  /\ MaxTime \in Nat
  /\ \A t \in 0..MaxTime : EpochOf(t) \in Epoch

\* Otherwise slots of two epochs can be closer than BlockInterval.
ASSUME WholeSlotsAssumption == EpochInterval % BlockInterval = 0

VARIABLES
  chain,  \* the blocks from genesis to the head: time, validator, ctx, balance
  work    \* the worker's environment w.current: ctx, balance, number of txs

vars == <<chain, work>>

Block == [time : Nat, validator : Address \cup {NoAddress},
          ctx : Context, balance : [Address -> Nat]]

Environment == [ctx : Context, balance : [Address -> Nat], txs : 0..MaxTxs]

Genesis == [time |-> GenesisTime, validator |-> NoAddress,
            ctx |-> GenesisContext, balance |-> GenesisBalance]

CurrentBlock == chain[Len(chain)]

\* makeCurrent: a fresh environment on the state of a block.
makeCurrent(block) ==
  [ctx |-> block.ctx, balance |-> block.balance, txs |-> 0]

Init == /\ chain = <<Genesis>>
        /\ work = makeCurrent(Genesis)

-----------------------------------------------------------------------------
(* The worker drops its environment and opens one on the head block.       *)

createNewWork == /\ work' = makeCurrent(CurrentBlock)
                 /\ UNCHANGED chain

\* What ApplyMessage does to the balances: the value moves (gas is left out).
ApplyMessage(balance, from, to, value) ==
  [a \in Address |-> balance[a] - (IF a = from THEN value ELSE 0)
                               + (IF a = to THEN value ELSE 0)]

\* Mutant of ApplyTransaction: the sender's balance is not checked.
ApplyTransactionUnpaid(type, from, to, value) ==
  /\ work.txs < MaxTxs
  /\ work' = [work EXCEPT !.balance = ApplyMessage(@, from, to, value),
                          !.ctx = applyDposMessage(@, type, from, to),
                          !.txs = @ + 1]
  /\ UNCHANGED chain

\* A transaction moves its value; one of a DPoS type then changes the
\* context, even when the EVM fails it and nothing moves (as if value were
\* 0).  A transaction that cannot pay is reverted and changes nothing.
ApplyTransaction(type, from, to, value) ==
  /\ work.txs < MaxTxs
  /\ work.balance[from] >= value
  /\ work' = [work EXCEPT !.balance = ApplyMessage(@, from, to, value),
                          !.ctx = applyDposMessage(@, type, from, to),
                          !.txs = @ + 1]
  /\ UNCHANGED chain

-----------------------------------------------------------------------------
(* Finalize.                                                               *)

\* The process-wide timeOfFirstBlock, set from block 1 once there is one.
TimeOfFirstBlock == IF Len(chain) > 1 THEN chain[2].time ELSE 0

AccumulateRewards(balance, coinbase) ==
  [balance EXCEPT ![coinbase] = @ + BlockReward]

\* The validator whose turn it is at time t and who may extend the head:
\* CheckValidator, and verifyHeader's spacing of blocks.
Producer(t) == lookupValidator(CurrentBlock.ctx.validators, t)

MayExtend(t) == /\ Producer(t) # NoAddress
                /\ CurrentBlock.time + BlockInterval <= t

\* tryElect as Finalize calls it for a block at time t.
Election(t, timeOfFirstBlock) ==
  tryElect(work.ctx, AccumulateRewards(work.balance, Coinbase[Producer(t)]),
           GenesisTime, CurrentBlock.time, t, timeOfFirstBlock)

\* The lists the shuffle can make of the elected, whose seed is a hash; the
\* list is kept when no round was held.
Shuffles(t, elected) ==
  IF EpochOf(t) = EpochOf(CurrentBlock.time)
  THEN {work.ctx.validators}
  ELSE SetToSeqs(elected)

Finalize(t) ==
  LET election == Election(t, TimeOfFirstBlock)
      balance  == AccumulateRewards(work.balance, Coinbase[Producer(t)])
  IN  /\ Len(chain) <= MaxBlocks
      /\ MayExtend(t)
      /\ ~election.err
      /\ \E validators \in Shuffles(t, election.elected) :
           LET ctx   == updateMintCnt(SetValidators(election.ctx, validators),
                                      CurrentBlock.time, t, Producer(t))
               block == [time |-> t, validator |-> Producer(t),
                         ctx |-> ctx, balance |-> balance]
           IN  /\ chain' = Append(chain, block)
               /\ work' = makeCurrent(block)

\* When the election fails no block is made and the process exits; the
\* worker of the restarted process starts from the head again.
FinalizeError(t) ==
  /\ MayExtend(t)
  /\ Election(t, TimeOfFirstBlock).err
  /\ work' = makeCurrent(CurrentBlock)
  /\ UNCHANGED chain

Next ==
  \/ createNewWork
  \/ \E type \in TxTypes, from, to \in Address, value \in Values :
       ApplyTransaction(type, from, to, value)
  \/ \E t \in 0..MaxTime : Finalize(t)
  \/ \E t \in 0..MaxTime : FinalizeError(t)

Spec == Init /\ [][Next]_vars

-----------------------------------------------------------------------------
(* Properties.                                                             *)

\* The variables have their types: every context on the chain and in the
\* environment is a well-formed set of tries.
TypeOK == /\ chain \in Seq(Block) /\ chain # <<>>
          /\ work \in Environment

\* The contexts of the system: the environment's and every block's.
Contexts == {work.ctx} \cup {chain[i].ctx : i \in DOMAIN chain}

\* delegateTrie and voteTrie agree in a context: a delegation is written
\* for exactly the vote its delegator holds, but for the genesis validators'
\* delegations to themselves, which have no vote.
TriesAgree(ctx) ==
  /\ \A d \in Address :
       ctx.vote[d] # NoAddress => <<ctx.vote[d], d>> \in ctx.delegate
  /\ \A c, d \in Address :
       <<c, d>> \in ctx.delegate =>
         \/ ctx.vote[d] = c
         \/ c = d /\ d \in ToSet(GenesisValidators)

\* Whatever transactions are applied in whatever order, and however often
\* candidates leave and return, Delegate, UnDelegate and KickoutCandidate
\* leave no delegation without its vote and no vote without its delegation.
VotesMatchDelegations == \A ctx \in Contexts : TriesAgree(ctx)

\* mintCntTrie counts exactly the blocks of the chain: updateMintCnt, which
\* looks only at the parent's epoch, never loses or carries over a count.
MintCntIsHistory ==
  \A i \in DOMAIN chain : \A e \in Epoch, v \in Address :
    chain[i].ctx.mintCnt[<<e, v>>] =
      Cardinality({j \in 2..i : /\ EpochOf(chain[j].time) = e
                                /\ chain[j].validator = v})

\* The validator list changes with the first block of an epoch and no other
\* (the rule of the comment in tryElect).  Then it holds between safeSize
\* and maxValidatorSize different candidates.
ElectionsAtEpochs ==
  \A i \in 2..Len(chain) :
    LET new == chain[i].ctx.validators
        old == chain[i - 1].ctx.validators
    IN  IF EpochOf(chain[i].time) = EpochOf(chain[i - 1].time)
        THEN new = old
        ELSE /\ Len(new) \in SafeSize..MaxValidatorSize
             /\ ToSet(new) \subseteq chain[i].ctx.candidate
             /\ Cardinality(ToSet(new)) = Len(new)

\* Every node elects the same validators: the outcome does not depend on
\* timeOfFirstBlock, a variable of the process that a node keeps from the
\* block 1 it first saw, even after another block 1 has replaced it.
ElectionSameOnAllNodes ==
  \A t \in 0..MaxTime :
    MayExtend(t) =>
      \A first \in 0..t : Election(t, first) = Election(t, TimeOfFirstBlock)

\* The votes of a candidate are the balances of its delegators, as the
\* comment in countVotes and the test of it say.
VotesAreBalances ==
  \A c \in work.ctx.candidate :
    countVotes(work.ctx, work.balance)[c] =
      MapThenSumSet(LAMBDA d : work.balance[d],
                    {d \in Address : <<c, d>> \in work.ctx.delegate})

\* The kickout rule of the comment in tryElect: after the election that ends
\* an epoch, a validator that minted too few blocks in it is a candidate no
\* more, unless only safeSize candidates are left.
KickoutRule ==
  \A i \in 3..Len(chain) :
    LET epoch == EpochOf(chain[i - 1].time)
    IN  epoch \in (EpochOf(GenesisTime) + 1)..(EpochOf(chain[i].time) - 1) =>
          \/ Cardinality(chain[i].ctx.candidate) <= SafeSize
          \/ \A v \in ToSet(chain[i - 1].ctx.validators) :
               v \in chain[i].ctx.candidate =>
                 chain[i].ctx.mintCnt[<<epoch, v>>] >=
                   AtLeastMintCnt(chain[i].time, chain[2].time)

\* A delegator delegates to one candidate at a time: the comment in Delegate
\* says the earlier vote is cancelled first.
OneDelegationEach ==
  \A c, d, e \in Address :
    {<<c, d>>, <<e, d>>} \subseteq work.ctx.delegate => c = e

=============================================================================
