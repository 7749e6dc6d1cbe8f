---------------------------- MODULE EpochContext ----------------------------
(***************************************************************************)
(* Elections (consensus/dpos/epoch_context.go, tryElect of api.go) and the *)
(* count of minted blocks (updateMintCnt of dpos.go), as operators on a    *)
(* DPoS context.                                                           *)
(***************************************************************************)
EXTENDS DposContext

\* countVotes: the balance of the delegators found for each candidate.
countVotes(ctx, balance) ==
  [c \in ctx.candidate |->
     MapThenSumSet(LAMBDA d : balance[d], DelegatorsOf(ctx, c))]

\* sortableAddresses.Less: by weight downwards, then by address upwards.
Less(weight, a, b) ==
  \/ weight[a] > weight[b]
  \/ weight[a] = weight[b] /\ a < b

\* The n first addresses of weight's domain in the order of Less.
FirstByWeight(weight, n) ==
  {a \in DOMAIN weight :
     Cardinality({b \in DOMAIN weight : Less(weight, b, a)}) < n}

\* The n first in the reverse order, sort.Reverse.
LastByWeight(weight, n) ==
  {a \in DOMAIN weight :
     Cardinality({b \in DOMAIN weight : Less(weight, a, b)}) < n}

\* The blocks a validator must have minted in an epoch to stay a candidate.
\* The first epoch is measured from the time of block 1.
AtLeastMintCnt(timeStamp, timeOfFirstBlock) ==
  LET sinceFirst    == timeStamp - timeOfFirstBlock
      epochDuration == IF sinceFirst < EpochInterval
                       THEN sinceFirst
                       ELSE EpochInterval
  IN  ((epochDuration \div BlockInterval) \div MaxValidatorSize) \div 2

\* kickoutValidator: the candidates it removes.  The candidates are counted
\* up to one kickout each above safeSize, and the validators short of blocks
\* are removed, fewest blocks first, while the count is above safeSize.
KickedOut(ctx, validators, epoch, timeStamp, timeOfFirstBlock) ==
  LET minted  == [v \in validators |-> ctx.mintCnt[<<epoch, v>>]]
      need    == {v \in validators :
                    minted[v] < AtLeastMintCnt(timeStamp, timeOfFirstBlock)}
      counted == Min({Cardinality(ctx.candidate), Cardinality(need) + SafeSize})
  IN  LastByWeight([v \in need |-> minted[v]], counted - SafeSize)

\* Mutant of ElectRound: the check that enough candidates are left is missing.
ElectRoundUnchecked(r, kick, balance, epoch, timeStamp, timeOfFirstBlock) ==
  [r EXCEPT !.elected = FirstByWeight(countVotes(r.ctx, balance), MaxValidatorSize)]

\* One round of tryElect's loop: kickoutValidator when kick, then the vote.
\* r.elected is the set of validators; err is tryElect's early return.
ElectRound(r, kick, balance, epoch, timeStamp, timeOfFirstBlock) ==
  LET kicked == IF kick
                THEN KickedOut(r.ctx, r.elected, epoch, timeStamp, timeOfFirstBlock)
                ELSE {}
      ctx    == IF kicked = {}
                THEN r.ctx
                ELSE FoldSet(LAMBDA v, c : KickoutCandidate(c, v), r.ctx, kicked)
      votes  == countVotes(ctx, balance)
  IN  IF r.err \/ (kick /\ r.elected = {})
      THEN [r EXCEPT !.err = TRUE]
      ELSE IF Cardinality(DOMAIN votes) < SafeSize
           THEN [ctx |-> ctx, err |-> TRUE, elected |-> r.elected]
           ELSE [ctx |-> ctx, err |-> FALSE,
                 elected |-> FirstByWeight(votes, MaxValidatorSize)]

\* The epoch tryElect starts from: from the genesis epoch it skips to the
\* epoch before the block's.
PrevEpoch(genesisTime, parentTime, timeStamp) ==
  IF /\ EpochOf(parentTime) = EpochOf(genesisTime)
     /\ EpochOf(parentTime) < EpochOf(timeStamp)
  THEN EpochOf(timeStamp) - 1
  ELSE EpochOf(parentTime)

\* How many rounds kick out: one for each leaf the mintCnt iterator, created
\* once before the loop, still has; none from the genesis epoch.
KickRounds(ctx, genesisTime, parentTime, timeStamp) ==
  IF EpochOf(parentTime) = EpochOf(genesisTime)
  THEN 0
  ELSE Cardinality(PrefixIterator(MintCntKeys(ctx), MintCntPrefix,
                                  <<EpochOf(parentTime)>>))

\* tryElect: one round per epoch between the parent and the block.  Rounds
\* that do not kick out elect the same set, so when none does the loop has
\* the effect of one round.
tryElect(ctx, balance, genesisTime, parentTime, timeStamp, timeOfFirstBlock) ==
  LET prevEpoch == PrevEpoch(genesisTime, parentTime, timeStamp)
      rounds    == EpochOf(timeStamp) - prevEpoch
      kicks     == KickRounds(ctx, genesisTime, parentTime, timeStamp)
      start     == [ctx |-> ctx, err |-> FALSE, elected |-> ToSet(ctx.validators)]
      Round(r, kick) == ElectRound(r, kick, balance, prevEpoch,
                                   timeStamp, timeOfFirstBlock)
  IN  CASE rounds <= 0            -> start
        [] rounds > 0 /\ kicks = 0 -> Round(start, FALSE)
        [] OTHER -> FoldLeft(LAMBDA r, i : Round(r, i <= kicks), start,
                             [i \in 1..rounds |-> i])

\* Mutant of updateMintCnt: an old count of the epoch is never read.
updateMintCntFromOne(ctx, parentTime, time, validator) ==
  [ctx EXCEPT !.mintCnt[<<EpochOf(time), validator>>] = 1]

\* updateMintCnt: counts the block for its validator in its epoch.  The old
\* count is read only when the parent is of the same epoch and the trie has
\* a key from that epoch on.
updateMintCnt(ctx, parentTime, time, validator) ==
  LET epoch == EpochOf(time)
      key   == <<epoch, validator>>
      seen  == /\ EpochOf(parentTime) = epoch
               /\ \E k \in MintCntKeys(ctx) : k[1] >= epoch
  IN  [ctx EXCEPT !.mintCnt[key] = IF seen THEN @ + 1 ELSE 1]

=============================================================================
