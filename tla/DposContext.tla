---------------------------- MODULE DposContext ----------------------------
(***************************************************************************)
(* The DPoS context of a block (core/types/dpos_context.go): five tries,   *)
(* and the operations that transactions, genesis and the election perform  *)
(* on them.  A context is a record:                                        *)
(*                                                                         *)
(*   candidate   candidateTrie: the set of its keys (key = value)          *)
(*   delegate    delegateTrie: the set of its keys <<candidate, delegator>>*)
(*               (the value stored is the key's last component)            *)
(*   vote        voteTrie: delegator -> candidate, NoAddress if absent     *)
(*   validators  epochTrie: the list under its only key, "validator"       *)
(*   mintCnt     mintCntTrie: <<epoch, validator>> -> blocks minted, 0 if  *)
(*               the key is absent (a stored count is at least 1)          *)
(*                                                                         *)
(* A trie key is a sequence of components; one component stands for the    *)
(* bytes of an address, of an epoch number or of a trie's prefix.          *)
(***************************************************************************)
EXTENDS Slots, SequencesExt

CONSTANTS
  GenesisValidators, \* g.Config.Dpos.Validators, in order
  DelegatePrefix,    \* the bytes "delegate-"
  MintCntPrefix,     \* the bytes "mintCnt-", read as an epoch number
  MaxEpoch           \* bound on the epochs considered

ASSUME GenesisAssumption == GenesisValidators \in Seq(Address)

\* No account's 20 bytes begin with the nine bytes "delegate-".
ASSUME DelegatePrefixAssumption == DelegatePrefix \in Nat \ Address

ASSUME MaxEpochAssumption == MaxEpoch \in Nat

\* The eight bytes "mintCnt-" are an epoch of about 7.9 * 10^18, which no
\* block reaches.
ASSUME MintCntPrefixAssumption == MintCntPrefix \in Nat \ (0..MaxEpoch)

Epoch == 0..MaxEpoch

\* Mutant of PrefixIterator: the trie's prefix is not put in front.
PrefixIteratorWithoutTriePrefix(keys, triePrefix, prefix) ==
  {k \in keys : IsPrefix(prefix, k)}

\* The leaves PrefixIterator visits.  NewTrieWithPrefix only records the
\* trie's prefix: TryGet, TryUpdate and TryDelete use keys without it, and
\* PrefixIterator alone puts it in front of the prefix it searches.
PrefixIterator(keys, triePrefix, prefix) ==
  {k \in keys : IsPrefix(<<triePrefix>> \o prefix, k)}

\* The delegators found for a candidate: the values of the leaves visited.
DelegatorsOf(ctx, candidate) ==
  {Last(k) : k \in PrefixIterator(ctx.delegate, DelegatePrefix, <<candidate>>)}

BecomeCandidate(ctx, candidate) ==
  [ctx EXCEPT !.candidate = @ \cup {candidate}]

\* Removes the candidate, then for every delegator found the delegation and,
\* if it is for this candidate, the vote.
KickoutCandidate(ctx, candidate) ==
  LET delegators == DelegatorsOf(ctx, candidate)
  IN  [ctx EXCEPT
         !.candidate = @ \ {candidate},
         !.delegate  = @ \ {<<candidate, d>> : d \in delegators},
         !.vote      = [d \in Address |->
                          IF d \in delegators /\ ctx.vote[d] = candidate
                          THEN NoAddress
                          ELSE ctx.vote[d]]]

\* Mutant of Delegate: the earlier delegation is not withdrawn.
DelegateKeepingOld(ctx, delegator, candidate) ==
  IF candidate \notin ctx.candidate
  THEN ctx
  ELSE [ctx EXCEPT !.delegate = @ \cup {<<candidate, delegator>>},
                   !.vote[delegator] = candidate]

\* A vote for a non-candidate is refused; otherwise the delegation recorded
\* in voteTrie is withdrawn first and the new one is written to both tries.
Delegate(ctx, delegator, candidate) ==
  IF candidate \notin ctx.candidate
  THEN ctx
  ELSE [ctx EXCEPT
          !.delegate = (@ \ {<<ctx.vote[delegator], delegator>>})
                         \cup {<<candidate, delegator>>},
          !.vote[delegator] = candidate]

\* Refused unless the account is still a candidate and holds this vote.
UnDelegate(ctx, delegator, candidate) ==
  IF candidate \notin ctx.candidate \/ ctx.vote[delegator] # candidate
  THEN ctx
  ELSE [ctx EXCEPT
          !.delegate = @ \ {<<candidate, delegator>>},
          !.vote[delegator] = NoAddress]

\* The keys present in mintCntTrie.
MintCntKeys(ctx) == {k \in Epoch \X Address : ctx.mintCnt[k] # 0}

SetValidators(ctx, validators) == [ctx EXCEPT !.validators = validators]

\* initGenesisDposContext: every genesis validator is a candidate and
\* delegates to itself; nothing is written to voteTrie.
GenesisContext ==
  [candidate  |-> ToSet(GenesisValidators),
   delegate   |-> {<<v, v>> : v \in ToSet(GenesisValidators)},
   vote       |-> [d \in Address |-> NoAddress],
   validators |-> GenesisValidators,
   mintCnt    |-> [k \in Epoch \X Address |-> 0]]

\* applyDposMessage: the effect of a transaction of each DPoS type.  The
\* errors of the four operations are discarded.
applyDposMessage(ctx, type, from, to) ==
  CASE type = "RegCandidate"   -> BecomeCandidate(ctx, from)
    [] type = "UnregCandidate" -> KickoutCandidate(ctx, from)
    [] type = "Delegate"       -> Delegate(ctx, from, to)
    [] type = "UnDelegate"     -> UnDelegate(ctx, from, to)
    [] OTHER                   -> ctx

DposTypes == {"RegCandidate", "UnregCandidate", "Delegate", "UnDelegate"}

\* The contexts, as a type.
Context ==
  [candidate  : SUBSET Address,
   delegate   : SUBSET (Address \X Address),
   vote       : [Address -> Address \cup {NoAddress}],
   validators : Seq(Address),
   mintCnt    : [Epoch \X Address -> Nat]]

=============================================================================
