--------------------------- MODULE ElectionProofs ---------------------------
(***************************************************************************)
(* What an election yields, for every set of accounts and every context:   *)
(* which candidates are elected and how many, that no round kicks out, and *)
(* what a shuffle makes of the elected.                                    *)
(***************************************************************************)
EXTENDS EpochContext, FiniteSetTheorems, TLAPS

-----------------------------------------------------------------------------
(* Epochs.                                                                 *)

\* An epoch is a number.
LEMMA EpochOfType == \A t \in Nat : EpochOf(t) \in Nat
BY EpochIntervalAssumption DEF EpochOf

\* An earlier time has no later epoch.
LEMMA EpochOfMonotone ==
  ASSUME NEW a \in Nat, NEW b \in Nat, a <= b
  PROVE  EpochOf(a) <= EpochOf(b)
<1> DEFINE p == a \div EpochInterval
           q == b \div EpochInterval
           r == a % EpochInterval
           s == b % EpochInterval
           n == EpochInterval
<1>1. /\ n \in Nat /\ n > 0
      /\ p \in Int /\ q \in Int /\ r \in 0..(n - 1) /\ s \in 0..(n - 1)
      /\ a = n * p + r /\ b = n * q + s
  BY EpochIntervalAssumption
<1> HIDE DEF p, q, r, s, n
<1>2. ASSUME q + 1 <= p PROVE FALSE
  <2>1. n * (q + 1) <= n * p
    BY <1>1, <1>2
  <2>2. n * (q + 1) = n * q + n
    BY <1>1
  <2>3. QED
    BY <1>1, <2>1, <2>2
<1>3. p <= q
  BY <1>1, <1>2
<1>4. QED
  BY <1>3 DEF p, q, EpochOf

-----------------------------------------------------------------------------
(* The first of a set by weight.                                           *)

\* How many addresses come before a in the order of Less.
Before(weight, a) == {b \in DOMAIN weight : Less(weight, b, a)}

\* Less is a strict total order, whatever the weights.
LEMMA LessIsOrder ==
  ASSUME NEW D \in SUBSET Nat, NEW w \in [D -> Int]
  PROVE  /\ \A a \in D : ~Less(w, a, a)
         /\ \A a, b, c \in D : Less(w, a, b) /\ Less(w, b, c) => Less(w, a, c)
         /\ \A a, b \in D : a # b => Less(w, a, b) \/ Less(w, b, a)
BY DEF Less

\* An address that comes before another has fewer before it.
LEMMA RankOrdered ==
  ASSUME NEW D \in SUBSET Nat, IsFiniteSet(D), NEW w \in [D -> Int], NEW a \in D
  PROVE  /\ Cardinality(Before(w, a)) \in 0 .. Cardinality(D) - 1
         /\ \A b \in D : Less(w, a, b) => Cardinality(Before(w, a)) < Cardinality(Before(w, b))
<1>1. \A b \in D : /\ Before(w, b) \subseteq D /\ b \notin Before(w, b)
  BY LessIsOrder DEF Before
<1>2. \A b \in D : IsFiniteSet(Before(w, b)) /\ Cardinality(Before(w, b)) \in Nat
  BY <1>1, FS_Subset, FS_CardinalityType
<1>3. /\ IsFiniteSet(Before(w, a) \cup {a})
      /\ Cardinality(Before(w, a) \cup {a}) = Cardinality(Before(w, a)) + 1
  BY <1>1, <1>2, FS_AddElement
<1>4. Cardinality(Before(w, a)) \in 0 .. Cardinality(D) - 1
  <2>1. Before(w, a) \cup {a} \subseteq D
    BY <1>1
  <2>2. Cardinality(Before(w, a) \cup {a}) <= Cardinality(D) /\ Cardinality(D) \in Nat
    BY <2>1, FS_Subset, FS_CardinalityType
  <2>3. QED
    BY <1>2, <1>3, <2>2
<1>5. ASSUME NEW b \in D, Less(w, a, b)
      PROVE  Cardinality(Before(w, a)) < Cardinality(Before(w, b))
  <2>1. Before(w, a) \cup {a} \subseteq Before(w, b)
    <3>1. \A c \in D : Less(w, c, a) => Less(w, c, b)
      BY <1>5, LessIsOrder
    <3>2. QED
      BY <1>5, <3>1 DEF Before
  <2>2. Cardinality(Before(w, a) \cup {a}) <= Cardinality(Before(w, b))
    BY <1>2, <2>1, FS_Subset
  <2>3. QED
    BY <1>2, <1>3, <2>2
<1>6. QED
  BY <1>4, <1>5

\* The n first are n, or all when there are fewer.
LEMMA FirstByWeightCount ==
  ASSUME NEW D \in SUBSET Nat, IsFiniteSet(D), NEW w \in [D -> Int], NEW n \in Nat
  PROVE  Cardinality(FirstByWeight(w, n)) = IF n <= Cardinality(D) THEN n ELSE Cardinality(D)
<1> DEFINE m     == IF n <= Cardinality(D) THEN n ELSE Cardinality(D)
           rank  == [a \in D |-> Cardinality(Before(w, a))]
           First == {a \in D : rank[a] < n}
           part  == [a \in First |-> rank[a]]
<1>1. Cardinality(D) \in Nat /\ m \in Nat
  BY FS_CardinalityType
<1>2. rank \in [D -> 0 .. Cardinality(D) - 1]
  BY RankOrdered
<1>3. \A a, b \in D : rank[a] = rank[b] => a = b
  <2> SUFFICES ASSUME NEW a \in D, NEW b \in D, a # b PROVE rank[a] # rank[b]
    OBVIOUS
  <2>1. Less(w, a, b) \/ Less(w, b, a)
    BY LessIsOrder
  <2>2. Cardinality(Before(w, a)) \in Nat /\ Cardinality(Before(w, b)) \in Nat
    BY RankOrdered
  <2>3. Less(w, a, b) => Cardinality(Before(w, a)) < Cardinality(Before(w, b))
    BY RankOrdered
  <2>4. Less(w, b, a) => Cardinality(Before(w, b)) < Cardinality(Before(w, a))
    BY RankOrdered
  <2>5. QED
    BY <2>1, <2>2, <2>3, <2>4
<1>4. FirstByWeight(w, n) = First
  BY DEF FirstByWeight, Before
<1>5. \A r \in 0 .. Cardinality(D) - 1 : \E a \in D : rank[a] = r
  <2>1. rank \in Injection(D, 0 .. Cardinality(D) - 1)
    BY <1>2, <1>3 DEF Injection, IsInjective
  <2>2. /\ IsFiniteSet(0 .. Cardinality(D) - 1)
        /\ Cardinality(0 .. Cardinality(D) - 1) = Cardinality(D)
    BY <1>1, FS_Interval
  <2> HIDE DEF rank
  <2>3. rank \in Surjection(D, 0 .. Cardinality(D) - 1)
    BY <2>1, <2>2, FS_Injection
  <2>4. QED
    BY <2>3 DEF Surjection
<1> HIDE DEF rank
<1>6. part \in Bijection(First, 0 .. m - 1)
  <2>1. part \in [First -> 0 .. m - 1]
    <3>1. ASSUME NEW a \in First PROVE rank[a] \in 0 .. m - 1
      <4>1. rank[a] \in 0 .. Cardinality(D) - 1 /\ rank[a] < n
        BY <1>2
      <4>2. QED
        BY <1>1, <4>1
    <3>2. QED
      BY <3>1
  <2>2. \A a, b \in First : part[a] = part[b] => a = b
    BY <1>3
  <2>3. \A r \in 0 .. m - 1 : \E a \in First : part[a] = r
    <3> SUFFICES ASSUME NEW r \in 0 .. m - 1 PROVE \E a \in First : part[a] = r
      OBVIOUS
    <3>1. r \in 0 .. Cardinality(D) - 1 /\ r < n
      BY <1>1
    <3>2. PICK a \in D : rank[a] = r
      BY <1>5, <3>1
    <3>3. QED
      BY <3>1, <3>2
  <2>4. QED
    BY <2>1, <2>2, <2>3 DEF Bijection, Injection, Surjection, IsInjective
<1>7. IsFiniteSet(First) /\ Cardinality(0 .. m - 1) = m
  <2>1. First \subseteq D
    OBVIOUS
  <2> HIDE DEF First, m
  <2>2. IsFiniteSet(First)
    BY <2>1, FS_Subset
  <2>3. Cardinality(0 .. m - 1) = m
    BY <1>1, FS_Interval
  <2>4. QED
    BY <2>2, <2>3
<1>8. ExistsBijection(First, 0 .. m - 1)
  BY <1>6, Zenon DEF ExistsBijection
<1> HIDE DEF First, part, m
<1>9. Cardinality(First) = m
  BY <1>7, <1>8, FS_Bijection
<1>10. QED
  BY <1>4, <1>9 DEF m

-----------------------------------------------------------------------------
(* The prefix iterators find nothing.                                      *)

\* The iterator of countVotes finds no delegator either.
LEMMA NoDelegators ==
  ASSUME NEW ctx \in Context, NEW c
  PROVE  DelegatorsOf(ctx, c) = {}
<1>1. SUFFICES ASSUME NEW k \in ctx.delegate, IsPrefix(<<DelegatePrefix>> \o <<c>>, k)
               PROVE  FALSE
  BY DEF DelegatorsOf, PrefixIterator
<1>2. PICK e \in Address, a \in Address : k = <<e, a>>
  BY DEF Context
<1>3. SubSeq(<<DelegatePrefix, c>>, 1, 2) = SubSeq(<<e, a>>, 1, 2)
  BY <1>1, <1>2 DEF IsPrefix
<1>4. DelegatePrefix = e
  BY <1>3
<1>5. QED
  BY <1>4, DelegatePrefixAssumption

\* What countVotes adds up for a candidate with these delegators.
Weight(balance, delegators) == MapThenSumSet(LAMBDA d : balance[d], delegators)

\* The sum over no delegators.
LEMMA WeightOfNone ==
  ASSUME NEW balance
  PROVE  Weight(balance, {}) = 0
<1> DEFINE F(it) == [s \in SUBSET {} |->
                       IF s = {} THEN 0
                       ELSE balance[CHOOSE x \in s : TRUE] + it[s \ {CHOOSE x \in s : TRUE}]]
           iter == CHOOSE it : it = F(it)
           zero == [s \in SUBSET {} |-> 0]
<1>1. zero = F(zero)
  OBVIOUS
<1>2. iter = F(iter)
  BY <1>1, Zenon
<1>3. iter[{}] = 0
  BY <1>2
<1>4. Weight(balance, {}) = iter[{}]
  BY DEF Weight, MapThenSumSet, MapThenFoldSet
<1>5. QED
  BY <1>3, <1>4

\* All candidates have the same number of votes, 0.
LEMMA NoVotes ==
  ASSUME NEW ctx \in Context, NEW balance
  PROVE  countVotes(ctx, balance) = [c \in ctx.candidate |-> 0]
<1>1. countVotes(ctx, balance) = [c \in ctx.candidate |-> Weight(balance, DelegatorsOf(ctx, c))]
  BY Zenon DEF countVotes, Weight
<1>2. QED
  BY <1>1, NoDelegators, WeightOfNone

-----------------------------------------------------------------------------
(* Elections.                                                              *)

\* tryElect's iterator finds no leaf: it looks for an epoch behind the
\* prefix "mintCnt-", and the keys start with the epoch.
LEMMA MintCntIteratorEmpty ==
  ASSUME NEW ctx, NEW epoch
  PROVE  PrefixIterator(MintCntKeys(ctx), MintCntPrefix, <<epoch>>) = {}
<1>1. SUFFICES ASSUME NEW k \in Epoch \X Address,
                      IsPrefix(<<MintCntPrefix>> \o <<epoch>>, k)
               PROVE  FALSE
  BY DEF PrefixIterator, MintCntKeys
<1>2. PICK e \in Epoch, a \in Address : k = <<e, a>>
  OBVIOUS
<1>3. SubSeq(<<MintCntPrefix, epoch>>, 1, 2) = SubSeq(<<e, a>>, 1, 2)
  BY <1>1, <1>2 DEF IsPrefix
<1>4. MintCntPrefix = e
  BY <1>3
<1>5. QED
  BY <1>4, MintCntPrefixAssumption DEF Epoch

\* The iterator of tryElect is empty, so that no round kicks out.
LEMMA NoKickRounds ==
  ASSUME NEW ctx, NEW genesisTime, NEW parentTime, NEW timeStamp
  PROVE  KickRounds(ctx, genesisTime, parentTime, timeStamp) = 0
BY MintCntIteratorEmpty, FS_EmptySet DEF KickRounds

\* The elected are candidates.
LEMMA ElectedAreCandidates ==
  ASSUME NEW ctx, NEW balance, NEW n
  PROVE  FirstByWeight(countVotes(ctx, balance), n) \subseteq ctx.candidate
BY Zenon DEF FirstByWeight, countVotes

\* The outcome of tryElect: the context is not changed, and the time of the
\* first block has no part in it.
Outcome(ctx, balance, parentTime, timeStamp) ==
  LET votes == countVotes(ctx, balance)
      old   == ToSet(ctx.validators)
  IN  IF EpochOf(timeStamp) <= EpochOf(parentTime)
      THEN [ctx |-> ctx, err |-> FALSE, elected |-> old]
      ELSE IF Cardinality(DOMAIN votes) < SafeSize
           THEN [ctx |-> ctx, err |-> TRUE, elected |-> old]
           ELSE [ctx |-> ctx, err |-> FALSE,
                 elected |-> FirstByWeight(votes, MaxValidatorSize)]

\* tryElect has the outcome above, whatever its last argument.
LEMMA ElectionOutcome ==
  ASSUME NEW ctx \in Context, NEW balance, NEW genesisTime \in Nat,
         NEW parentTime \in Nat, NEW timeStamp \in Nat, NEW first
  PROVE  tryElect(ctx, balance, genesisTime, parentTime, timeStamp, first) =
           Outcome(ctx, balance, parentTime, timeStamp)
<1> DEFINE votes     == countVotes(ctx, balance)
           start     == [ctx |-> ctx, err |-> FALSE, elected |-> ToSet(ctx.validators)]
           prevEpoch == PrevEpoch(genesisTime, parentTime, timeStamp)
           rounds    == EpochOf(timeStamp) - prevEpoch
           kicks     == KickRounds(ctx, genesisTime, parentTime, timeStamp)
           outcome   == tryElect(ctx, balance, genesisTime, parentTime, timeStamp, first)
<1>1. kicks = 0
  BY NoKickRounds
<1>2. rounds \in Int /\ (rounds <= 0 <=> EpochOf(timeStamp) <= EpochOf(parentTime))
  BY EpochOfType DEF PrevEpoch
<1>3. CASE rounds <= 0
  <2>1. ~ (rounds > 0)
    BY <1>2, <1>3
  <2>2. outcome = start
    BY <1>3, <2>1, Zenon DEF tryElect
  <2>3. QED
    BY <1>2, <1>3, <2>2 DEF Outcome
<1>4. CASE ~ (rounds <= 0)
  <2>1. rounds > 0
    BY <1>2, <1>4
  <2>2. outcome = ElectRound(start, FALSE, balance, prevEpoch, timeStamp, first)
    BY <1>1, <1>4, <2>1, Zenon DEF tryElect
  <2>3. outcome = IF Cardinality(DOMAIN votes) < SafeSize
                  THEN [ctx |-> ctx, err |-> TRUE, elected |-> ToSet(ctx.validators)]
                  ELSE [ctx |-> ctx, err |-> FALSE,
                        elected |-> FirstByWeight(votes, MaxValidatorSize)]
    <3>1. start.elected = ToSet(ctx.validators) /\ start.err = FALSE /\ start.ctx = ctx
      OBVIOUS
    <3>2. outcome = IF Cardinality(DOMAIN votes) < SafeSize
                    THEN [ctx |-> ctx, err |-> TRUE, elected |-> start.elected]
                    ELSE [ctx |-> ctx, err |-> FALSE,
                          elected |-> FirstByWeight(votes, MaxValidatorSize)]
      BY <2>2, <3>1, Zenon DEF ElectRound
    <3> HIDE DEF outcome, votes, start
    <3>3. QED
      BY <3>1, <3>2
  <2>4. QED
    BY <1>2, <1>4, <2>3 DEF Outcome
<1>5. QED
  BY <1>3, <1>4

\* The outcome of an election: the old context and a set of accounts.
LEMMA OutcomeType ==
  ASSUME NEW ctx \in Context, NEW balance, NEW parentTime, NEW timeStamp
  PROVE  LET e == Outcome(ctx, balance, parentTime, timeStamp)
         IN  /\ e.ctx = ctx
             /\ e.elected \subseteq ToSet(ctx.validators) \cup ctx.candidate
<1> DEFINE votes == countVotes(ctx, balance)
           old   == ToSet(ctx.validators)
           new   == FirstByWeight(votes, MaxValidatorSize)
           e     == Outcome(ctx, balance, parentTime, timeStamp)
<1>1. \/ e = [ctx |-> ctx, err |-> FALSE, elected |-> old]
      \/ e = [ctx |-> ctx, err |-> TRUE, elected |-> old]
      \/ e = [ctx |-> ctx, err |-> FALSE, elected |-> new]
  BY Zenon DEF Outcome
<1>2. new \subseteq ctx.candidate
  BY ElectedAreCandidates
<1> HIDE DEF old, new, e
<1>3. QED
  BY <1>1, <1>2 DEF old, e

\* A set that may be elected, and a list of validators made of it.
Electable(S, candidates) ==
  /\ S \subseteq candidates
  /\ Cardinality(S) \in SafeSize..MaxValidatorSize

Listed(s, candidates) ==
  /\ Len(s) \in SafeSize..MaxValidatorSize
  /\ ToSet(s) \subseteq candidates
  /\ Cardinality(ToSet(s)) = Len(s)

\* An election that is held and does not fail elects enough candidates, and
\* no more than there are seats.
LEMMA OutcomeElectable ==
  ASSUME NEW ctx \in Context, NEW balance, NEW parentTime, NEW timeStamp,
         ~(EpochOf(timeStamp) <= EpochOf(parentTime)),
         ~Outcome(ctx, balance, parentTime, timeStamp).err
  PROVE  Electable(Outcome(ctx, balance, parentTime, timeStamp).elected, ctx.candidate)
<1> DEFINE votes == countVotes(ctx, balance)
           new   == FirstByWeight(votes, MaxValidatorSize)
           fails == Cardinality(DOMAIN votes) < SafeSize
           e     == Outcome(ctx, balance, parentTime, timeStamp)
<1>1. e = IF fails THEN [ctx |-> ctx, err |-> TRUE, elected |-> ToSet(ctx.validators)]
                   ELSE [ctx |-> ctx, err |-> FALSE, elected |-> new]
  BY Zenon DEF Outcome
<1>2. /\ ctx.candidate \in SUBSET Nat /\ IsFiniteSet(ctx.candidate)
      /\ Cardinality(ctx.candidate) \in Nat
  <2>1. ctx.candidate \subseteq Address
    BY DEF Context
  <2>2. QED
    BY <2>1, AddressAssumption, FS_Subset, FS_CardinalityType
<1>3. votes = [c \in ctx.candidate |-> 0]
  BY NoVotes
<1>4. votes \in [ctx.candidate -> Int] /\ DOMAIN votes = ctx.candidate
  BY <1>3
<1>5. Cardinality(new) = IF MaxValidatorSize <= Cardinality(ctx.candidate)
                         THEN MaxValidatorSize ELSE Cardinality(ctx.candidate)
  <2> HIDE DEF votes
  <2>1. QED
    BY <1>2, <1>4, MaxValidatorSizeAssumption, FirstByWeightCount
<1>6. new \subseteq ctx.candidate
  BY ElectedAreCandidates
<1> HIDE DEF votes, new, fails, e
<1>7. ~fails /\ e.elected = new
  BY <1>1 DEF e
<1>8. ~(Cardinality(ctx.candidate) < SafeSize)
  BY <1>4, <1>7 DEF fails
<1>9. Cardinality(new) \in SafeSize..MaxValidatorSize
  BY <1>2, <1>5, <1>8, MaxValidatorSizeAssumption DEF SafeSize
<1>10. QED
  BY <1>6, <1>7, <1>9 DEF Electable, e

\* A shuffle of a set of accounts is a list of each of them once.
LEMMA ShuffleIs ==
  ASSUME NEW S \in SUBSET Address, NEW s \in SetToSeqs(S)
  PROVE  /\ s \in Seq(Address)
         /\ \A candidates : Electable(S, candidates) => Listed(s, candidates)
<1>1. IsFiniteSet(S) /\ Cardinality(S) \in Nat
  BY AddressAssumption, FS_Subset, FS_CardinalityType, Zenon
<1>2. /\ s \in [1..Cardinality(S) -> S]
      /\ \A i, j \in 1..Cardinality(S) : i # j => s[i] # s[j]
  BY DEF SetToSeqs
<1>3. s \in Seq(Address) /\ Len(s) = Cardinality(S) /\ DOMAIN s = 1..Cardinality(S)
  BY <1>1, <1>2
<1>4. ToSet(s) = {s[i] : i \in 1..Cardinality(S)}
  BY <1>3 DEF ToSet
<1>5. ToSet(s) \subseteq S
  BY <1>2, <1>4
<1>6. Cardinality(ToSet(s)) = Cardinality(S)
  <2>1. /\ IsFiniteSet(1..Cardinality(S))
        /\ Cardinality(1..Cardinality(S)) = Cardinality(S)
    BY <1>1, FS_Interval
  <2>2. s \in Bijection(1..Cardinality(S), ToSet(s))
    BY <1>2, <1>4 DEF Bijection, Injection, Surjection, IsInjective
  <2>3. ExistsBijection(1..Cardinality(S), ToSet(s))
    BY <2>2, Zenon DEF ExistsBijection
  <2>4. QED
    BY <2>1, <2>3, FS_Bijection
<1>7. QED
  BY <1>3, <1>5, <1>6 DEF Electable, Listed

=============================================================================
