-------------------------- MODULE DposLedgerProofs --------------------------
(***************************************************************************)
(* Proofs about the ledger, for every set of accounts, genesis and timing. *)
(***************************************************************************)
EXTENDS DposLedger, ElectionProofs

-----------------------------------------------------------------------------
(* The operations on a DPoS context keep its type.                         *)

\* BecomeCandidate returns a context.
LEMMA BecomeCandidateType ==
  ASSUME NEW ctx \in Context, NEW c \in Address
  PROVE  BecomeCandidate(ctx, c) \in Context
BY Zenon DEF BecomeCandidate, Context

\* KickoutCandidate returns a context.
LEMMA KickoutCandidateType ==
  ASSUME NEW ctx \in Context, NEW c \in Address
  PROVE  KickoutCandidate(ctx, c) \in Context
BY Zenon DEF KickoutCandidate, Context

\* Delegate returns a context.
LEMMA DelegateType ==
  ASSUME NEW ctx \in Context, NEW d \in Address, NEW c \in Address
  PROVE  Delegate(ctx, d, c) \in Context
<1>1. CASE c \notin ctx.candidate
  BY <1>1 DEF Delegate
<1>2. CASE c \in ctx.candidate
  <2>1. /\ Delegate(ctx, d, c).delegate \in SUBSET (Address \X Address)
        /\ Delegate(ctx, d, c).vote \in [Address -> Address \cup {NoAddress}]
    BY <1>2 DEF Delegate, Context
  <2>2. QED
    BY <1>2, <2>1, Zenon DEF Delegate, Context
<1>3. QED
  BY <1>1, <1>2

\* UnDelegate returns a context.
LEMMA UnDelegateType ==
  ASSUME NEW ctx \in Context, NEW d \in Address, NEW c \in Address
  PROVE  UnDelegate(ctx, d, c) \in Context
BY Zenon DEF UnDelegate, Context

\* SetValidators returns a context.
LEMMA SetValidatorsType ==
  ASSUME NEW ctx \in Context, NEW s \in Seq(Address)
  PROVE  SetValidators(ctx, s) \in Context
BY Zenon DEF SetValidators, Context

\* The context of genesis is one.
LEMMA GenesisContextType == GenesisContext \in Context
<1>1. ToSet(GenesisValidators) \subseteq Address
  BY GenesisAssumption DEF ToSet
<1>2. QED
  BY <1>1, GenesisAssumption DEF GenesisContext, Context, NoAddress

\* applyDposMessage keeps the type of a context, whatever the transaction.
LEMMA applyDposMessageType ==
  ASSUME NEW ctx \in Context, NEW type, NEW from \in Address, NEW to \in Address
  PROVE  applyDposMessage(ctx, type, from, to) \in Context
BY BecomeCandidateType, KickoutCandidateType, DelegateType, UnDelegateType
   DEF applyDposMessage

-----------------------------------------------------------------------------
(* The operations keep delegateTrie and voteTrie in agreement.             *)

\* At genesis the only delegations are the validators' to themselves.
LEMMA GenesisAgrees == TriesAgree(GenesisContext)
BY DEF TriesAgree, GenesisContext, NoAddress

\* A new candidate leaves the agreement of the two tries alone.
LEMMA BecomeCandidateAgrees ==
  ASSUME NEW ctx \in Context, NEW c \in Address, TriesAgree(ctx)
  PROVE  TriesAgree(BecomeCandidate(ctx, c))
BY DEF BecomeCandidate, Context, TriesAgree

\* Whichever delegators the iterator finds, the vote goes with the delegation.
LEMMA KickoutCandidateAgrees ==
  ASSUME NEW ctx \in Context, NEW c \in Address, TriesAgree(ctx)
  PROVE  TriesAgree(KickoutCandidate(ctx, c))
<1> DEFINE new == KickoutCandidate(ctx, c)
           gone == DelegatorsOf(ctx, c)
<1>1. /\ new.delegate = ctx.delegate \ {<<c, d>> : d \in gone}
      /\ new.vote = [d \in Address |-> IF d \in gone /\ ctx.vote[d] = c
                                       THEN NoAddress ELSE ctx.vote[d]]
  BY DEF KickoutCandidate, Context
<1> HIDE DEF new, gone
<1>2. ASSUME NEW d \in Address, new.vote[d] # NoAddress
      PROVE  <<new.vote[d], d>> \in new.delegate
  BY <1>1, <1>2 DEF TriesAgree, Context
<1>3. ASSUME NEW b \in Address, NEW d \in Address, <<b, d>> \in new.delegate
      PROVE  new.vote[d] = b \/ (b = d /\ d \in ToSet(GenesisValidators))
  BY <1>1, <1>3 DEF TriesAgree, Context
<1>4. QED
  BY <1>2, <1>3 DEF TriesAgree, new

\* Delegate withdraws the old delegation with the vote it replaces.
LEMMA DelegateAgrees ==
  ASSUME NEW ctx \in Context, NEW d \in Address, NEW c \in Address, TriesAgree(ctx)
  PROVE  TriesAgree(Delegate(ctx, d, c))
<1>1. CASE c \notin ctx.candidate
  BY <1>1 DEF Delegate
<1>2. CASE c \in ctx.candidate
  <2> DEFINE new == Delegate(ctx, d, c)
  <2>1. /\ new.delegate = (ctx.delegate \ {<<ctx.vote[d], d>>}) \cup {<<c, d>>}
        /\ new.vote = [ctx.vote EXCEPT ![d] = c]
    BY <1>2 DEF Delegate, Context
  <2> HIDE DEF new
  <2>2. ASSUME NEW a \in Address, new.vote[a] # NoAddress
        PROVE  <<new.vote[a], a>> \in new.delegate
    BY <2>1, <2>2 DEF TriesAgree, Context
  <2>3. ASSUME NEW b \in Address, NEW a \in Address, <<b, a>> \in new.delegate
        PROVE  new.vote[a] = b \/ (b = a /\ a \in ToSet(GenesisValidators))
    BY <2>1, <2>3 DEF TriesAgree, Context
  <2>4. QED
    BY <2>2, <2>3 DEF TriesAgree, new
<1>3. QED
  BY <1>1, <1>2

\* UnDelegate removes a delegation together with its vote.
LEMMA UnDelegateAgrees ==
  ASSUME NEW ctx \in Context, NEW d \in Address, NEW c \in Address, TriesAgree(ctx)
  PROVE  TriesAgree(UnDelegate(ctx, d, c))
<1>1. CASE c \notin ctx.candidate \/ ctx.vote[d] # c
  BY <1>1 DEF UnDelegate
<1>2. CASE c \in ctx.candidate /\ ctx.vote[d] = c
  <2> DEFINE new == UnDelegate(ctx, d, c)
  <2>1. /\ new.delegate = ctx.delegate \ {<<c, d>>}
        /\ new.vote = [ctx.vote EXCEPT ![d] = NoAddress]
    BY <1>2 DEF UnDelegate, Context
  <2> HIDE DEF new
  <2>2. ASSUME NEW a \in Address, new.vote[a] # NoAddress
        PROVE  <<new.vote[a], a>> \in new.delegate
    BY <2>1, <2>2 DEF TriesAgree, Context
  <2>3. ASSUME NEW b \in Address, NEW a \in Address, <<b, a>> \in new.delegate
        PROVE  new.vote[a] = b \/ (b = a /\ a \in ToSet(GenesisValidators))
    BY <1>2, <2>1, <2>3 DEF TriesAgree, Context
  <2>4. QED
    BY <2>2, <2>3 DEF TriesAgree, new
<1>3. QED
  BY <1>1, <1>2

\* A transaction of any type keeps the two tries in agreement.
LEMMA applyDposMessageAgrees ==
  ASSUME NEW ctx \in Context, NEW type, NEW from \in Address, NEW to \in Address,
         TriesAgree(ctx)
  PROVE  TriesAgree(applyDposMessage(ctx, type, from, to))
BY BecomeCandidateAgrees, KickoutCandidateAgrees, DelegateAgrees, UnDelegateAgrees
   DEF applyDposMessage

-----------------------------------------------------------------------------
(* The parts of Finalize.                                                  *)

\* lookupValidator yields an account or none.
LEMMA LookupType ==
  ASSUME NEW validators \in Seq(Address), NEW t \in Nat
  PROVE  lookupValidator(validators, t) \in Address \cup {NoAddress}
<1> DEFINE offset == t % EpochInterval
           slot   == offset \div BlockInterval
<1>1. CASE offset % BlockInterval # 0 \/ validators = <<>>
  BY <1>1 DEF lookupValidator
<1>2. CASE ~ (offset % BlockInterval # 0 \/ validators = <<>>)
  <2>1. offset \in Nat
    BY EpochIntervalAssumption
  <2>2. slot \in Nat
    BY <2>1, BlockIntervalAssumption
  <2>3. Len(validators) \in Nat \ {0}
    BY <1>2
  <2> HIDE DEF slot
  <2>4. (slot % Len(validators)) + 1 \in 1..Len(validators)
    BY <2>2, <2>3
  <2>5. QED
    BY <1>2, <2>4 DEF lookupValidator, slot
<1>3. QED
  BY <1>1, <1>2

\* updateMintCnt reads the old count.
Seen(ctx, parentTime, t) ==
  /\ EpochOf(parentTime) = EpochOf(t)
  /\ \E k \in MintCntKeys(ctx) : k[1] >= EpochOf(t)

\* What updateMintCnt changes, and what it leaves alone.
LEMMA updateMintCntEffect ==
  ASSUME NEW ctx \in Context, NEW parentTime \in Nat,
         NEW t \in Nat, EpochOf(t) \in Epoch, NEW v \in Address,
         NEW new, new = updateMintCnt(ctx, parentTime, t, v)
  PROVE  /\ new \in Context
         /\ new.mintCnt = [ctx.mintCnt EXCEPT ![<<EpochOf(t), v>>] =
                             IF Seen(ctx, parentTime, t) THEN @ + 1 ELSE 1]
         /\ new.candidate = ctx.candidate
         /\ new.delegate = ctx.delegate
         /\ new.vote = ctx.vote
         /\ new.validators = ctx.validators
<1> DEFINE key   == <<EpochOf(t), v>>
           count == IF Seen(ctx, parentTime, t) THEN ctx.mintCnt[key] + 1 ELSE 1
<1>1. new = [ctx EXCEPT !.mintCnt[key] = count]
  BY DEF updateMintCnt, Seen
<1>2. key \in Epoch \X Address
  OBVIOUS
<1>3. count \in Nat
  BY <1>2 DEF Context
<1>4. ctx.mintCnt \in [Epoch \X Address -> Nat]
  BY DEF Context
<1> HIDE DEF key, count
<1>5. /\ new.mintCnt = [ctx.mintCnt EXCEPT ![key] = count]
      /\ new.candidate = ctx.candidate
      /\ new.delegate = ctx.delegate
      /\ new.vote = ctx.vote
      /\ new.validators = ctx.validators
      /\ new = [candidate |-> new.candidate, delegate |-> new.delegate,
                vote |-> new.vote, validators |-> new.validators,
                mintCnt |-> new.mintCnt]
  BY <1>1, Zenon DEF Context
<1>6. new.mintCnt \in [Epoch \X Address -> Nat]
  BY <1>2, <1>3, <1>4, <1>5
<1>7. new \in Context
  BY <1>5, <1>6 DEF Context
<1>8. QED
  BY <1>5, <1>7 DEF key, count

\* The head block of a chain of blocks is a block.
LEMMA CurrentBlockType ==
  ASSUME TypeOK
  PROVE  CurrentBlock \in Block /\ CurrentBlock.time \in Nat
         /\ CurrentBlock.ctx \in Context /\ CurrentBlock.ctx.validators \in Seq(Address)
<1>1. Len(chain) \in DOMAIN chain
  BY DEF TypeOK
<1>2. CurrentBlock \in Block
  BY <1>1 DEF TypeOK, CurrentBlock
<1> HIDE DEF CurrentBlock
<1>3. QED
  BY <1>2 DEF Block, Context

\* A Finalize step appends one block: its validator is an account, its
\* context is the environment's with the elected list and the new count.
LEMMA FinalizeStep ==
  ASSUME TypeOK, NEW t \in 0..MaxTime, Finalize(t)
  PROVE  \E s \in Seq(Address), v \in Address, balance \in [Address -> Nat] :
           LET ctx == updateMintCnt(SetValidators(work.ctx, s), CurrentBlock.time, t, v)
           IN  /\ chain' = Append(chain, [time |-> t, validator |-> v,
                                         ctx |-> ctx, balance |-> balance])
               /\ work' = [ctx |-> ctx, balance |-> balance, txs |-> 0]
               /\ CurrentBlock.time + BlockInterval <= t
               /\ IF EpochOf(t) = EpochOf(CurrentBlock.time)
                  THEN s = work.ctx.validators
                  ELSE Listed(s, work.ctx.candidate)
<1> DEFINE v        == Producer(t)
           balance  == AccumulateRewards(work.balance, Coinbase[v])
           election == Election(t, TimeOfFirstBlock)
<1>1. work.ctx \in Context /\ work.balance \in [Address -> Nat] /\ t \in Nat
  BY LedgerAssumption DEF TypeOK, Environment
<1>2. v \in Address /\ CurrentBlock.time + BlockInterval <= t
  <2>1. Producer(t) \in Address \cup {NoAddress}
    BY <1>1, CurrentBlockType, LookupType DEF Producer
  <2>2. QED
    BY <2>1 DEF Finalize, MayExtend
<1>3. balance \in [Address -> Nat]
  BY <1>1, <1>2, LedgerAssumption DEF AccumulateRewards
<1> HIDE DEF v, balance
<1>4. /\ election.ctx = work.ctx /\ election.elected \subseteq Address
      /\ EpochOf(t) # EpochOf(CurrentBlock.time) => Electable(election.elected, work.ctx.candidate)
  <2>1. ToSet(work.ctx.validators) \subseteq Address /\ work.ctx.candidate \subseteq Address
    BY <1>1 DEF ToSet, Context
  <2>2. CurrentBlock.time \in Nat /\ GenesisTime \in Nat
    BY CurrentBlockType, LedgerAssumption
  <2>3. election = Outcome(work.ctx, balance, CurrentBlock.time, t)
    BY <1>1, <2>2, ElectionOutcome DEF Election, v, balance
  <2>4. ~election.err
    BY DEF Finalize
  <2>5. EpochOf(CurrentBlock.time) <= EpochOf(t)
    BY <1>1, <1>2, <2>2, BlockIntervalAssumption, EpochOfMonotone
  <2>6. EpochOf(t) \in Nat /\ EpochOf(CurrentBlock.time) \in Nat
    BY <1>1, <2>2, EpochOfType
  <2> HIDE DEF election
  <2>7. EpochOf(t) # EpochOf(CurrentBlock.time) => ~(EpochOf(t) <= EpochOf(CurrentBlock.time))
    BY <2>5, <2>6
  <2>8. EpochOf(t) # EpochOf(CurrentBlock.time) => Electable(election.elected, work.ctx.candidate)
    BY <1>1, <2>3, <2>4, <2>7, OutcomeElectable
  <2>9. QED
    BY <1>1, <2>1, <2>3, <2>8, OutcomeType
<1>5. PICK s \in Shuffles(t, election.elected) :
        LET ctx == updateMintCnt(SetValidators(election.ctx, s), CurrentBlock.time, t, v)
        IN  /\ chain' = Append(chain, [time |-> t, validator |-> v,
                                      ctx |-> ctx, balance |-> balance])
            /\ work' = [ctx |-> ctx, balance |-> balance, txs |-> 0]
  BY DEF Finalize, makeCurrent, v, balance
<1> HIDE DEF election
<1>6. /\ s \in Seq(Address)
      /\ IF EpochOf(t) = EpochOf(CurrentBlock.time)
         THEN s = work.ctx.validators
         ELSE Listed(s, work.ctx.candidate)
  <2>1. work.ctx.validators \in Seq(Address)
    BY <1>1 DEF Context
  <2>2. CASE EpochOf(t) = EpochOf(CurrentBlock.time)
    BY <2>1, <2>2 DEF Shuffles
  <2>3. CASE EpochOf(t) # EpochOf(CurrentBlock.time)
    <3>1. s \in SetToSeqs(election.elected)
      BY <2>3 DEF Shuffles
    <3>2. QED
      BY <1>4, <2>3, <3>1, ShuffleIs
  <2>4. QED
    BY <2>2, <2>3
<1>7. QED
  BY <1>2, <1>3, <1>4, <1>5, <1>6, Zenon

-----------------------------------------------------------------------------
(* Type correctness.                                                       *)

\* An ApplyTransaction step keeps the environment well formed.
LEMMA ApplyTransactionType ==
  ASSUME TypeOK, NEW type, NEW from \in Address, NEW to \in Address,
         NEW value \in Values, ApplyTransaction(type, from, to, value)
  PROVE  /\ work' \in Environment
         /\ work'.ctx = applyDposMessage(work.ctx, type, from, to)
<1> DEFINE balance == ApplyMessage(work.balance, from, to, value)
           ctx     == applyDposMessage(work.ctx, type, from, to)
<1>1. /\ work.ctx \in Context
      /\ work.balance \in [Address -> Nat]
      /\ work.txs \in 0..MaxTxs
      /\ value \in Nat
  BY LedgerAssumption DEF TypeOK, Environment
<1>2. balance \in [Address -> Nat]
  BY <1>1 DEF ApplyTransaction, ApplyMessage
<1>3. ctx \in Context
  BY <1>1, applyDposMessageType
<1> HIDE DEF balance, ctx
<1>4. work' = [work EXCEPT !.balance = balance, !.ctx = ctx, !.txs = work.txs + 1]
      /\ work.txs < MaxTxs
  BY DEF ApplyTransaction, balance, ctx
<1>5. work.txs + 1 \in 0..MaxTxs
  BY <1>1, <1>4, LedgerAssumption
<1>6. QED
  BY <1>2, <1>3, <1>4, <1>5, Zenon DEF TypeOK, Environment, ctx

\* An environment opened on a block is well formed.
LEMMA FreshEnvironmentType ==
  ASSUME NEW b \in Block
  PROVE  makeCurrent(b) \in Environment
BY LedgerAssumption DEF makeCurrent, Environment, Block

\* What a Finalize step does to the state: it appends one block, whose
\* context has the delegations and votes of the environment and counts the
\* block for its validator.
LEMMA FinalizeEffect ==
  ASSUME TypeOK, NEW t \in 0..MaxTime, Finalize(t)
  PROVE  \E block \in Block :
           /\ chain' = Append(chain, block)
           /\ work' = makeCurrent(block)
           /\ block.time = t
           /\ CurrentBlock.time <= t
           /\ block.validator \in Address
           /\ block.ctx.delegate = work.ctx.delegate
           /\ block.ctx.vote = work.ctx.vote
           /\ block.ctx.mintCnt =
                [work.ctx.mintCnt EXCEPT ![<<EpochOf(t), block.validator>>] =
                   IF Seen(work.ctx, CurrentBlock.time, t) THEN @ + 1 ELSE 1]
<1>1. PICK s \in Seq(Address), v \in Address, balance \in [Address -> Nat] :
        LET ctx == updateMintCnt(SetValidators(work.ctx, s), CurrentBlock.time, t, v)
        IN  /\ chain' = Append(chain, [time |-> t, validator |-> v,
                                      ctx |-> ctx, balance |-> balance])
            /\ work' = [ctx |-> ctx, balance |-> balance, txs |-> 0]
            /\ CurrentBlock.time + BlockInterval <= t
  BY FinalizeStep, Zenon
<1> DEFINE set   == SetValidators(work.ctx, s)
           ctx   == updateMintCnt(set, CurrentBlock.time, t, v)
           block == [time |-> t, validator |-> v, ctx |-> ctx, balance |-> balance]
<1>2. /\ set \in Context
      /\ set.delegate = work.ctx.delegate
      /\ set.vote = work.ctx.vote
      /\ set.mintCnt = work.ctx.mintCnt
  BY SetValidatorsType, Zenon DEF TypeOK, Environment, SetValidators, Context
<1>3. CurrentBlock.time \in Nat /\ t \in Nat /\ EpochOf(t) \in Epoch
  BY CurrentBlockType, LedgerAssumption
<1>4. Seen(set, CurrentBlock.time, t) = Seen(work.ctx, CurrentBlock.time, t)
  BY <1>2 DEF Seen, MintCntKeys
<1>5. PICK new : new = ctx
  OBVIOUS
<1>6. /\ new \in Context
      /\ new.mintCnt = [set.mintCnt EXCEPT ![<<EpochOf(t), v>>] =
                          IF Seen(set, CurrentBlock.time, t) THEN @ + 1 ELSE 1]
      /\ new.delegate = set.delegate
      /\ new.vote = set.vote
  <2>1. new = updateMintCnt(set, CurrentBlock.time, t, v)
    BY <1>5
  <2> HIDE DEF set, ctx
  <2>2. QED
    BY <1>2, <1>3, <2>1, updateMintCntEffect
<1> HIDE DEF set, ctx
<1>7. block \in Block
  BY <1>3, <1>5, <1>6 DEF Block
<1>8. chain' = Append(chain, block) /\ work' = makeCurrent(block)
  BY <1>1 DEF makeCurrent, ctx, set
<1>9. CurrentBlock.time <= t
  BY <1>1, <1>3, BlockIntervalAssumption
<1>10. /\ block.ctx.delegate = work.ctx.delegate
       /\ block.ctx.vote = work.ctx.vote
       /\ block.ctx.mintCnt =
            [work.ctx.mintCnt EXCEPT ![<<EpochOf(t), v>>] =
               IF Seen(work.ctx, CurrentBlock.time, t) THEN @ + 1 ELSE 1]
  BY <1>2, <1>4, <1>5, <1>6
<1>11. block.time = t /\ block.validator = v
  OBVIOUS
<1> HIDE DEF block
<1>12. QED
  BY <1>7, <1>8, <1>9, <1>10, <1>11, Zenon

\* Every block of the chain and the worker's environment are well formed in
\* every reachable state: balances never go negative, every count is a
\* number, every validator list holds accounts.
THEOREM TypeCorrect == Spec => []TypeOK
<1>1. Init => TypeOK
  <2>1. Genesis \in Block
    BY GenesisContextType, LedgerAssumption DEF Genesis, Block
  <2>2. QED
    BY <2>1, FreshEnvironmentType DEF Init, TypeOK
<1>2. TypeOK /\ [Next]_vars => TypeOK'
  <2> SUFFICES ASSUME TypeOK, [Next]_vars
               PROVE  TypeOK'
    OBVIOUS
  <2>1. CASE createNewWork
    BY <2>1, CurrentBlockType, FreshEnvironmentType DEF createNewWork, TypeOK
  <2>2. ASSUME NEW type \in TxTypes, NEW from \in Address, NEW to \in Address,
               NEW value \in Values, ApplyTransaction(type, from, to, value)
        PROVE  TypeOK'
    <3>1. work' \in Environment
      BY <2>2, ApplyTransactionType
    <3>2. QED
      BY <2>2, <3>1 DEF ApplyTransaction, TypeOK
  <2>3. ASSUME NEW t \in 0..MaxTime, Finalize(t)
        PROVE  TypeOK'
    <3>1. PICK block \in Block : chain' = Append(chain, block) /\ work' = makeCurrent(block)
      BY <2>3, FinalizeEffect, ZenonT(60)
    <3>2. QED
      BY <3>1, FreshEnvironmentType DEF TypeOK
  <2>4. ASSUME NEW t \in 0..MaxTime, FinalizeError(t)
        PROVE  TypeOK'
    BY <2>4, CurrentBlockType, FreshEnvironmentType DEF FinalizeError, TypeOK
  <2>5. CASE UNCHANGED vars
    BY <2>5 DEF vars, TypeOK
  <2>6. QED
    BY <2>1, <2>2, <2>3, <2>4, <2>5 DEF Next
<1>3. QED
  BY <1>1, <1>2, PTL DEF Spec

-----------------------------------------------------------------------------
(* Delegations and votes.                                                  *)

\* In every block and in the worker's environment, after any transactions
\* and elections, delegateTrie and voteTrie agree up to the self-delegations
\* of genesis.
THEOREM DelegationsHaveVotes == Spec => []VotesMatchDelegations
<1>1. Init => VotesMatchDelegations
  BY GenesisAgrees DEF Init, VotesMatchDelegations, Contexts, Genesis, makeCurrent
<1>2. TypeOK /\ VotesMatchDelegations /\ [Next]_vars => VotesMatchDelegations'
  <2> SUFFICES ASSUME TypeOK, VotesMatchDelegations, [Next]_vars
               PROVE  VotesMatchDelegations'
    OBVIOUS
  <2>a. TriesAgree(work.ctx) /\ \A i \in DOMAIN chain : TriesAgree(chain[i].ctx)
    BY DEF VotesMatchDelegations, Contexts
  <2>b. work.ctx \in Context
    BY DEF TypeOK, Environment
  <2>c. ASSUME TriesAgree(work'.ctx), UNCHANGED chain
        PROVE  VotesMatchDelegations'
    BY <2>a, <2>c DEF VotesMatchDelegations, Contexts
  <2>d. TriesAgree(makeCurrent(CurrentBlock).ctx)
    <3>1. Len(chain) \in DOMAIN chain
      BY DEF TypeOK
    <3>2. QED
      BY <2>a, <3>1 DEF makeCurrent, CurrentBlock
  <2>1. CASE createNewWork
    BY <2>1, <2>c, <2>d DEF createNewWork
  <2>2. ASSUME NEW type \in TxTypes, NEW from \in Address, NEW to \in Address,
               NEW value \in Values, ApplyTransaction(type, from, to, value)
        PROVE  VotesMatchDelegations'
    <3>1. work'.ctx = applyDposMessage(work.ctx, type, from, to)
      BY <2>2, ApplyTransactionType
    <3>2. TriesAgree(work'.ctx)
      BY <2>a, <2>b, <3>1, applyDposMessageAgrees
    <3>3. QED
      BY <2>2, <2>c, <3>2 DEF ApplyTransaction
  <2>3. ASSUME NEW t \in 0..MaxTime, Finalize(t)
        PROVE  VotesMatchDelegations'
    <3>1. PICK block \in Block : /\ chain' = Append(chain, block)
                                 /\ work' = makeCurrent(block)
                                 /\ block.ctx.delegate = work.ctx.delegate
                                 /\ block.ctx.vote = work.ctx.vote
      BY <2>3, FinalizeEffect, ZenonT(60)
    <3>2. TriesAgree(block.ctx) /\ work'.ctx = block.ctx
      BY <2>a, <3>1 DEF TriesAgree, makeCurrent
    <3>3. \A i \in DOMAIN chain' : chain'[i] = block \/ (i \in DOMAIN chain /\ chain'[i] = chain[i])
      BY <3>1 DEF TypeOK
    <3>4. QED
      BY <2>a, <3>2, <3>3 DEF VotesMatchDelegations, Contexts
  <2>4. ASSUME NEW t \in 0..MaxTime, FinalizeError(t)
        PROVE  VotesMatchDelegations'
    BY <2>4, <2>c, <2>d DEF FinalizeError
  <2>5. CASE UNCHANGED vars
    BY <2>5, <2>a, <2>c DEF vars
  <2>6. QED
    BY <2>1, <2>2, <2>3, <2>4, <2>5 DEF Next
<1>3. QED
  BY <1>1, <1>2, TypeCorrect, PTL DEF Spec

-----------------------------------------------------------------------------
(* Elections are the same on all nodes.                                    *)

\* Whatever block 1 a node has taken timeOfFirstBlock from, it elects the
\* validators every other node elects.
THEOREM ElectionIsDeterministic == Spec => []ElectionSameOnAllNodes
<1>1. TypeOK => ElectionSameOnAllNodes
  <2> SUFFICES ASSUME TypeOK, NEW t \in 0..MaxTime, NEW first \in 0..t
               PROVE  Election(t, first) = Election(t, TimeOfFirstBlock)
    BY DEF ElectionSameOnAllNodes
  <2>1. /\ work.ctx \in Context
        /\ GenesisTime \in Nat
        /\ t \in Nat
        /\ CurrentBlock.time \in Nat
    BY CurrentBlockType, LedgerAssumption DEF TypeOK, Environment
  <2>2. QED
    BY <2>1, ElectionOutcome DEF Election
<1>2. QED
  BY <1>1, TypeCorrect, PTL

-----------------------------------------------------------------------------
(* The mint counts are the history of the chain.                           *)

\* The blocks of a chain up to the i-th that v minted in epoch e.
Minted(blocks, i, e, v) == {j \in 2..i : /\ EpochOf(blocks[j].time) = e
                                         /\ blocks[j].validator = v}

\* The strengthening of MintCntIsHistory that Finalize preserves: no
\* transaction has touched the counts of the environment, and time never
\* goes back along the chain, so that an epoch that has been left is left
\* for good.
History ==
  /\ MintCntIsHistory
  /\ work.ctx.mintCnt = CurrentBlock.ctx.mintCnt
  /\ \A i \in DOMAIN chain : chain[i].time <= CurrentBlock.time

\* The messages of transactions leave the mint counts alone.
LEMMA applyDposMessageMintCnt ==
  ASSUME NEW ctx \in Context, NEW type \in DposTypes \cup {"Binary"},
         NEW from \in Address, NEW to \in Address
  PROVE  applyDposMessage(ctx, type, from, to).mintCnt = ctx.mintCnt
BY DEF applyDposMessage, BecomeCandidate, KickoutCandidate, Delegate, UnDelegate,
       Context, DposTypes

\* However the epochs pass and whichever validators are elected, the counts
\* in mintCntTrie are the numbers of blocks on the chain.
THEOREM MintCntCountsBlocks == Spec => []MintCntIsHistory
<1>1. Init => History
  <2> SUFFICES ASSUME Init PROVE History
    OBVIOUS
  <2>1. chain = <<Genesis>> /\ CurrentBlock = Genesis /\ DOMAIN chain = {1}
    BY DEF Init, CurrentBlock
  <2>2. Genesis.time \in Nat /\ Genesis.ctx.mintCnt = [k \in Epoch \X Address |-> 0]
    BY LedgerAssumption DEF Genesis, GenesisContext
  <2>3. work.ctx = Genesis.ctx
    BY DEF Init, makeCurrent
  <2>4. MintCntIsHistory
    <3> SUFFICES ASSUME NEW e \in Epoch, NEW v \in Address
                 PROVE  chain[1].ctx.mintCnt[<<e, v>>] = Cardinality(Minted(chain, 1, e, v))
      BY <2>1, Zenon DEF MintCntIsHistory, Minted
    <3>1. Minted(chain, 1, e, v) = {}
      BY DEF Minted
    <3>2. QED
      BY <2>1, <2>2, <3>1, FS_EmptySet, Zenon
  <2>5. QED
    BY <2>1, <2>2, <2>3, <2>4 DEF History
<1>2. TypeOK /\ History /\ [Next]_vars => History'
  <2> SUFFICES ASSUME TypeOK, History, [Next]_vars
               PROVE  History'
    OBVIOUS
  <2>b. work.ctx \in Context
    BY DEF TypeOK, Environment
  <2>c. ASSUME work'.ctx.mintCnt = CurrentBlock.ctx.mintCnt, UNCHANGED chain
        PROVE  History'
    BY <2>c DEF History, MintCntIsHistory, CurrentBlock
  <2>1. CASE createNewWork
    BY <2>1, <2>c DEF createNewWork, makeCurrent
  <2>2. ASSUME NEW type \in TxTypes, NEW from \in Address, NEW to \in Address,
               NEW value \in Values, ApplyTransaction(type, from, to, value)
        PROVE  History'
    <3>1. work'.ctx = applyDposMessage(work.ctx, type, from, to)
      BY <2>2, ApplyTransactionType
    <3>2. work'.ctx.mintCnt = work.ctx.mintCnt
      BY <2>b, <3>1, applyDposMessageMintCnt, LedgerAssumption
    <3>3. QED
      BY <2>2, <2>c, <3>2 DEF ApplyTransaction, History
  <2>3. ASSUME NEW t \in 0..MaxTime, Finalize(t)
        PROVE  History'
    <3>1. PICK block \in Block :
            /\ chain' = Append(chain, block)
            /\ work' = makeCurrent(block)
            /\ block.time = t
            /\ CurrentBlock.time <= t
            /\ block.validator \in Address
            /\ block.ctx.mintCnt =
                 [work.ctx.mintCnt EXCEPT ![<<EpochOf(t), block.validator>>] =
                    IF Seen(work.ctx, CurrentBlock.time, t) THEN @ + 1 ELSE 1]
      BY <2>3, FinalizeEffect, ZenonT(60)
    <3> DEFINE n == Len(chain)
    <3>2. /\ n \in Nat /\ n >= 1 /\ DOMAIN chain = 1..n
          /\ DOMAIN chain' = 1..(n + 1) /\ Len(chain') = n + 1
          /\ chain'[n + 1] = block
          /\ \A i \in 1..n : chain'[i] = chain[i]
      BY <3>1 DEF TypeOK
    <3>3. \A i \in 1..n : chain[i].time \in Nat
      <4>1. \A i \in 1..n : chain[i] \in Block
        BY <3>2 DEF TypeOK
      <4>2. QED
        BY <4>1 DEF Block
    <3>4. CurrentBlock' = block /\ CurrentBlock = chain[n]
      BY <3>2 DEF CurrentBlock
    <3>5. \A i \in DOMAIN chain' : chain'[i].time <= CurrentBlock'.time
      BY <3>1, <3>2, <3>3, <3>4 DEF History
    <3>6. MintCntIsHistory'
      <4> SUFFICES ASSUME NEW i \in 1..(n + 1), NEW e \in Epoch, NEW v \in Address
                   PROVE  chain'[i].ctx.mintCnt[<<e, v>>] = Cardinality(Minted(chain', i, e, v))
        BY <3>2, Zenon DEF MintCntIsHistory, Minted
      <4>1. \A k \in 1..n : /\ Minted(chain', k, e, v) = Minted(chain, k, e, v)
                            /\ chain[k].ctx.mintCnt[<<e, v>>] = Cardinality(Minted(chain, k, e, v))
        BY <3>2 DEF Minted, History, MintCntIsHistory
      <4>2. CASE i \in 1..n
        BY <3>2, <4>1, <4>2
      <4>3. CASE i = n + 1
        <5> DEFINE old  == Minted(chain, n, e, v)
                   mine == e = EpochOf(t) /\ v = block.validator
        <5>1. Minted(chain', i, e, v) = IF mine THEN old \cup {n + 1} ELSE old
          BY <3>1, <3>2, <4>3 DEF Minted
        <5>2. IsFiniteSet(old) /\ n + 1 \notin old
          <6>1. IsFiniteSet(2..n)
            BY <3>2, FS_Interval
          <6>2. QED
            BY <6>1, <3>2, FS_Subset DEF Minted
        <5>3. work.ctx.mintCnt[<<e, v>>] = Cardinality(old)
          BY <3>2, <3>4, <4>1 DEF History
        <5>4. work.ctx.mintCnt \in [Epoch \X Address -> Nat]
          BY <2>b DEF Context
        <5>5. chain'[i].ctx.mintCnt[<<e, v>>] =
                IF ~mine THEN Cardinality(old)
                ELSE IF Seen(work.ctx, CurrentBlock.time, t) THEN Cardinality(old) + 1
                ELSE 1
          <6> DEFINE key   == <<EpochOf(t), block.validator>>
                     count == IF Seen(work.ctx, CurrentBlock.time, t)
                              THEN work.ctx.mintCnt[key] + 1 ELSE 1
          <6>1. chain'[i].ctx.mintCnt = [work.ctx.mintCnt EXCEPT ![key] = count]
            BY <3>1, <3>2, <4>3
          <6>2. mine => key = <<e, v>>
            OBVIOUS
          <6>3. ~mine => key # <<e, v>>
            OBVIOUS
          <6>4. <<e, v>> \in Epoch \X Address
            OBVIOUS
          <6> HIDE DEF mine, key, old
          <6>5. QED
            BY <6>1, <6>2, <6>3, <6>4, <5>3, <5>4, Zenon
        <5>6. Cardinality(Minted(chain', i, e, v)) =
                IF mine THEN Cardinality(old) + 1 ELSE Cardinality(old)
          BY <5>1, <5>2, FS_AddElement, Zenon
        <5>7. mine /\ ~Seen(work.ctx, CurrentBlock.time, t) => Cardinality(old) = 0
          <6> SUFFICES ASSUME mine, ~Seen(work.ctx, CurrentBlock.time, t),
                              NEW j \in old
                       PROVE  FALSE
            BY FS_EmptySet, Zenon
          <6>1. j \in 1..n /\ EpochOf(chain[j].time) = EpochOf(t)
            BY <3>2 DEF Minted
          <6>2. EpochOf(CurrentBlock.time) = EpochOf(t)
            <7>1. chain[j].time <= CurrentBlock.time /\ CurrentBlock.time <= t
              BY <3>1, <3>2, <6>1 DEF History
            <7>2. chain[j].time \in Nat /\ CurrentBlock.time \in Nat /\ t \in Nat
              BY <3>3, <6>1, CurrentBlockType, LedgerAssumption
            <7>3. EpochOf(chain[j].time) <= EpochOf(CurrentBlock.time)
              BY <7>1, <7>2, EpochOfMonotone
            <7>4. EpochOf(CurrentBlock.time) <= EpochOf(t)
              BY <7>1, <7>2, EpochOfMonotone
            <7>5. EpochOf(CurrentBlock.time) \in Nat /\ EpochOf(t) \in Nat
              BY <7>2, EpochOfType, Zenon
            <7>6. QED
              BY <6>1, <7>3, <7>4, <7>5
          <6>3. Cardinality(old) # 0
            BY <5>2, FS_EmptySet
          <6>4. <<EpochOf(t), v>> \in MintCntKeys(work.ctx)
            BY <5>3, <6>3 DEF MintCntKeys
          <6>5. EpochOf(t) \in Int
            BY LedgerAssumption, EpochOfType
          <6>6. QED
            BY <6>2, <6>4, <6>5 DEF Seen
        <5>8. QED
          BY <5>5, <5>6, <5>7
      <4>4. QED
        BY <3>2, <4>2, <4>3
    <3>7. QED
      BY <3>1, <3>4, <3>5, <3>6 DEF History, makeCurrent
  <2>4. ASSUME NEW t \in 0..MaxTime, FinalizeError(t)
        PROVE  History'
    BY <2>4, <2>c DEF FinalizeError, makeCurrent
  <2>5. CASE UNCHANGED vars
    BY <2>5, <2>c DEF vars, History
  <2>6. QED
    BY <2>1, <2>2, <2>3, <2>4, <2>5 DEF Next
<1>3. QED
  BY <1>1, <1>2, TypeCorrect, PTL DEF Spec, History

-----------------------------------------------------------------------------
(* Elections are held at epochs and fill enough seats.                     *)

\* The strengthening of ElectionsAtEpochs that Finalize preserves: no
\* transaction has touched the list of the environment.
Elections ==
  /\ ElectionsAtEpochs
  /\ work.ctx.validators = CurrentBlock.ctx.validators

\* The messages of transactions leave the list of validators alone.
LEMMA applyDposMessageValidators ==
  ASSUME NEW ctx \in Context, NEW type \in DposTypes \cup {"Binary"},
         NEW from \in Address, NEW to \in Address
  PROVE  applyDposMessage(ctx, type, from, to).validators = ctx.validators
BY DEF applyDposMessage, BecomeCandidate, KickoutCandidate, Delegate, UnDelegate,
       Context, DposTypes

\* updateMintCnt writes the mint counts only.
LEMMA updateMintCntKeeps ==
  ASSUME NEW ctx \in Context, NEW parentTime \in Nat,
         NEW t \in Nat, EpochOf(t) \in Epoch, NEW v \in Address
  PROVE  /\ updateMintCnt(ctx, parentTime, t, v).validators = ctx.validators
         /\ updateMintCnt(ctx, parentTime, t, v).candidate = ctx.candidate
<1> DEFINE key   == <<EpochOf(t), v>>
           count == IF Seen(ctx, parentTime, t) THEN ctx.mintCnt[key] + 1 ELSE 1
<1>1. updateMintCnt(ctx, parentTime, t, v) = [ctx EXCEPT !.mintCnt[key] = count]
  BY DEF updateMintCnt, Seen
<1> HIDE DEF key, count
<1>2. QED
  BY <1>1, Zenon DEF Context

\* The list of the block a Finalize step appends.
LEMMA FinalizeElects ==
  ASSUME TypeOK, NEW t \in 0..MaxTime, Finalize(t)
  PROVE  \E block :
           /\ chain' = Append(chain, block)
           /\ work' = makeCurrent(block)
           /\ block.time = t
           /\ IF EpochOf(t) = EpochOf(CurrentBlock.time)
              THEN block.ctx.validators = work.ctx.validators
              ELSE Listed(block.ctx.validators, block.ctx.candidate)
<1>1. PICK s \in Seq(Address), v \in Address, balance \in [Address -> Nat] :
        LET ctx == updateMintCnt(SetValidators(work.ctx, s), CurrentBlock.time, t, v)
        IN  /\ chain' = Append(chain, [time |-> t, validator |-> v,
                                      ctx |-> ctx, balance |-> balance])
            /\ work' = [ctx |-> ctx, balance |-> balance, txs |-> 0]
            /\ IF EpochOf(t) = EpochOf(CurrentBlock.time)
               THEN s = work.ctx.validators
               ELSE Listed(s, work.ctx.candidate)
  BY FinalizeStep, Zenon
<1> DEFINE set   == SetValidators(work.ctx, s)
           ctx   == updateMintCnt(set, CurrentBlock.time, t, v)
           block == [time |-> t, validator |-> v, ctx |-> ctx, balance |-> balance]
<1>2. set \in Context /\ set.validators = s /\ set.candidate = work.ctx.candidate
  BY SetValidatorsType, Zenon DEF TypeOK, Environment, SetValidators, Context
<1>3. CurrentBlock.time \in Nat /\ t \in Nat /\ EpochOf(t) \in Epoch
  BY CurrentBlockType, LedgerAssumption
<1>4. set \in Context
  BY <1>2
<1>5. ctx.validators = set.validators /\ ctx.candidate = set.candidate
  <2> HIDE DEF set
  <2>1. QED
    BY <1>3, <1>4, updateMintCntKeeps, Zenon
<1> HIDE DEF set, ctx
<1>6. chain' = Append(chain, block) /\ work' = makeCurrent(block)
  BY <1>1 DEF makeCurrent, ctx, set
<1>7. block.time = t /\ block.ctx.validators = s /\ block.ctx.candidate = work.ctx.candidate
  BY <1>2, <1>5
<1> HIDE DEF block
<1>8. QED
  BY <1>1, <1>6, <1>7, Zenon

\* Whatever transactions there were, the validator list changes with the
\* first block of an epoch and no other, and is then made of at least
\* safeSize and at most maxValidatorSize different candidates.
THEOREM ElectionsFillSeats == Spec => []ElectionsAtEpochs
<1>1. Init => Elections
  <2> SUFFICES ASSUME Init PROVE Elections
    OBVIOUS
  <2>1. chain = <<Genesis>> /\ Len(chain) = 1 /\ CurrentBlock = Genesis
    BY DEF Init, CurrentBlock
  <2>2. ElectionsAtEpochs
    BY <2>1 DEF ElectionsAtEpochs
  <2>3. QED
    BY <2>1, <2>2 DEF Init, Elections, makeCurrent
<1>2. TypeOK /\ Elections /\ [Next]_vars => Elections'
  <2> SUFFICES ASSUME TypeOK, Elections, [Next]_vars
               PROVE  Elections'
    OBVIOUS
  <2>c. ASSUME work'.ctx.validators = CurrentBlock.ctx.validators, UNCHANGED chain
        PROVE  Elections'
    BY <2>c DEF Elections, ElectionsAtEpochs, CurrentBlock
  <2>1. CASE createNewWork
    BY <2>1, <2>c DEF createNewWork, makeCurrent
  <2>2. ASSUME NEW type \in TxTypes, NEW from \in Address, NEW to \in Address,
               NEW value \in Values, ApplyTransaction(type, from, to, value)
        PROVE  Elections'
    <3>1. work'.ctx = applyDposMessage(work.ctx, type, from, to)
      BY <2>2, ApplyTransactionType
    <3>2. work'.ctx.validators = work.ctx.validators
      <4>1. work.ctx \in Context
        BY DEF TypeOK, Environment
      <4>2. QED
        BY <3>1, <4>1, applyDposMessageValidators, LedgerAssumption
    <3>3. QED
      BY <2>2, <2>c, <3>2 DEF ApplyTransaction, Elections
  <2>3. ASSUME NEW t \in 0..MaxTime, Finalize(t)
        PROVE  Elections'
    <3>1. PICK block :
            /\ chain' = Append(chain, block)
            /\ work' = makeCurrent(block)
            /\ block.time = t
            /\ IF EpochOf(t) = EpochOf(CurrentBlock.time)
               THEN block.ctx.validators = work.ctx.validators
               ELSE Listed(block.ctx.validators, block.ctx.candidate)
      BY <2>3, FinalizeElects, ZenonT(60)
    <3> DEFINE n == Len(chain)
    <3>2. /\ n \in Nat /\ n >= 1 /\ Len(chain') = n + 1
          /\ chain'[n + 1] = block
          /\ \A i \in 1..n : chain'[i] = chain[i]
      BY <3>1 DEF TypeOK
    <3>3. CurrentBlock' = block /\ CurrentBlock = chain[n]
      BY <3>2 DEF CurrentBlock
    <3>4. ElectionsAtEpochs'
      <4> SUFFICES ASSUME NEW i \in 2..(n + 1)
                   PROVE  IF EpochOf(chain'[i].time) = EpochOf(chain'[i - 1].time)
                          THEN chain'[i].ctx.validators = chain'[i - 1].ctx.validators
                          ELSE Listed(chain'[i].ctx.validators, chain'[i].ctx.candidate)
        BY <3>2, Zenon DEF ElectionsAtEpochs, Listed
      <4>1. CASE i \in 2..n
        <5>1. i - 1 \in 1..n /\ i \in 1..n
          BY <3>2, <4>1
        <5>2. chain'[i] = chain[i] /\ chain'[i - 1] = chain[i - 1]
          BY <3>2, <5>1
        <5>3. QED
          BY <4>1, <5>2, Zenon DEF Elections, ElectionsAtEpochs, Listed
      <4>2. CASE i = n + 1
        <5>1. chain'[i] = block /\ i - 1 = n /\ chain'[i - 1] = CurrentBlock
          BY <3>2, <3>3, <4>2
        <5>2. QED
          BY <3>1, <5>1, Zenon DEF Elections
      <4>3. QED
        BY <3>2, <4>1, <4>2
    <3>5. QED
      BY <3>1, <3>3, <3>4 DEF Elections, makeCurrent
  <2>4. ASSUME NEW t \in 0..MaxTime, FinalizeError(t)
        PROVE  Elections'
    BY <2>4, <2>c DEF FinalizeError, makeCurrent
  <2>5. CASE UNCHANGED vars
    BY <2>5, <2>c DEF vars, Elections
  <2>6. QED
    BY <2>1, <2>2, <2>3, <2>4, <2>5 DEF Next
<1>3. QED
  BY <1>1, <1>2, TypeCorrect, PTL DEF Spec, Elections

=============================================================================
