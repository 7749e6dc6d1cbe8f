------------------------------- MODULE TxPool -------------------------------
(***************************************************************************)
(* The transaction pool (core/tx_pool.go, core/tx_list.go): executable and *)
(* queued transactions per account, the index of all of them, the price    *)
(* heap that is cleaned lazily, the virtual nonces, local accounts and     *)
(* their journal, under additions, replacements, evictions, price changes, *)
(* new heads, reorganisations and restarts.  A transaction is its sender,  *)
(* its nonce and its price; it costs its price, the gas being 1.           *)
(***************************************************************************)
EXTENDS Integers, Sequences, FiniteSets, SequencesExt, FiniteSetsExt, Bags

CONSTANTS
  Address,
  Owned,          \* the accounts whose transactions are submitted at this node
  MaxNonce,       \* nonces are 0 .. MaxNonce
  Prices,
  Balances,       \* the balances an account may have
  PriceBump,      \* config.PriceBump, in percent
  AccountSlots, GlobalSlots, AccountQueue, GlobalQueue,
  Reorgs,         \* may the chain drop blocks?
  Deep            \* may a reorganisation be too deep to reinject?

Tx == [from : Address, nonce : 0 .. MaxNonce, price : Prices]

VARIABLES
  pool,       \* the fields of TxPool, which its methods pass around
  mined       \* the transactions of each account in the current chain

vars == <<pool, mined>>

At(list, n) == {t \in list : t.nonce = n}

Lowest(list) == CHOOSE t \in list : \A u \in list : t.nonce <= u.nonce
Highest(list) == CHOOSE t \in list : \A u \in list : t.nonce >= u.nonce

(* The element of a singleton.  The({e(x) : x \in {v}}) is e(v).           *)
The(singleton) == CHOOSE x \in singleton : TRUE

AsSeq(set) == FoldSet(LAMBDA x, seq : Append(seq, x), <<>>, set)
Sorted(set, less(_, _)) == SortSeq(AsSeq(set), less)

Total(lists) == Cardinality(UNION {lists[a] : a \in Address})

(* What NewTxPool makes before it loads the journal.                       *)
Fresh(chain, funds, saved) ==
  [pending |-> [a \in Address |-> {}],
   queue |-> [a \in Address |-> {}],
   all |-> {},
   items |-> EmptyBag,                                 \* priced.items
   stales |-> 0,                                       \* priced.stales
   nonce |-> [a \in Address |-> Len(chain[a])],        \* currentState
   balance |-> funds,                                  \* currentState
   virtual |-> [a \in Address |-> Len(chain[a])],      \* pendingState
   beats |-> [a \in Address |-> "none"],
   locals |-> {},
   gasPrice |-> Min(Prices),
   journal |-> saved]                                  \* the file

-----------------------------------------------------------------------------
(* txPricedList.Removed: count one more stale entry of the heap, rebuild   *)
(* the heap when more than a quarter is stale.                             *)
PricedRemoved(p) ==
  IF p.stales + 1 <= BagCardinality(p.items) \div 4
    THEN [p EXCEPT !.stales = @ + 1]
    ELSE [p EXCEPT !.stales = 0, !.items = SetToBag(p.all)]

(* all.Remove and priced.Removed, for each of a set of transactions.       *)
Forget(p, txs) ==
  FoldSet(LAMBDA t, q : PricedRemoved([q EXCEPT !.all = @ \ {t}]), p, txs)

(* Mutant of Remember: the transaction is not put in the heap.             *)
RememberUnpriced(p, t) == [p EXCEPT !.all = @ \cup {t}]

(* all.Add and priced.Put, unless the transaction is there.                *)
Remember(p, t) ==
  IF t \in p.all THEN p
  ELSE [p EXCEPT !.all = @ \cup {t}, !.items = @ (+) SetToBag({t})]

(* txList.Add: a transaction takes a nonce that is free or whose holder it *)
(* outbids by the price bump.                                              *)
Accepts(list, t) ==
  \A old \in At(list, t.nonce) :
    /\ t.price > old.price
    /\ t.price >= (old.price * (100 + PriceBump)) \div 100

(* enqueueTx; the caller that needs the result asks Accepts before.        *)
EnqueueTx(p, t) ==
  LET list == p.queue[t.from]
      old == At(list, t.nonce)
  IN  IF ~Accepts(list, t) THEN p
      ELSE Remember(Forget([p EXCEPT !.queue[t.from] = (@ \ old) \cup {t}], old), t)

EnqueueAll(p, txs) == FoldSet(LAMBDA t, q : EnqueueTx(q, t), p, txs)

(* promoteTx                                                               *)
PromoteTx(p, t) ==
  LET a == t.from
      list == p.pending[a]
      old == At(list, t.nonce)
  IN  IF ~Accepts(list, t) THEN Forget(p, {t})
      ELSE [Remember(Forget([p EXCEPT !.pending[a] = (@ \ old) \cup {t}], old), t)
              EXCEPT !.beats[a] = "new", !.virtual[a] = t.nonce + 1]

LowerNonce(p, a, n) == [p EXCEPT !.virtual[a] = IF @ > n THEN n ELSE @]

(* An account whose last executable transaction goes loses its heartbeat.  *)
DropEmpty(p, a) ==
  IF p.pending[a] = {} THEN [p EXCEPT !.beats[a] = "none"] ELSE p

(* Mutant of RemoveTx: the transactions after a removed one stay.          *)
RemoveOnly(p, t, outofbound) ==
  LET q == [p EXCEPT !.all = @ \ {t}, !.pending[t.from] = @ \ {t},
                     !.queue[t.from] = @ \ {t}]
  IN  IF t \notin p.all THEN p
      ELSE LowerNonce(DropEmpty(IF outofbound THEN PricedRemoved(q) ELSE q, t.from),
                      t.from, t.nonce)

(* removeTx: the transactions after a removed executable one are queued    *)
(* again; outofbound tells whether the heap still holds the transaction.   *)
RemoveTx(p, t, outofbound) ==
  LET a == t.from
      gone == [p EXCEPT !.all = @ \ {t}]
      q == IF outofbound THEN PricedRemoved(gone) ELSE gone
      list == q.pending[a]
      invalids == {u \in list : u.nonce > t.nonce}
  IN  IF t \notin p.all THEN p
      ELSE IF At(list, t.nonce) # {}
        THEN LowerNonce(
               EnqueueAll(
                 DropEmpty([q EXCEPT !.pending[a] =
                              {u \in list : u.nonce < t.nonce}], a),
                 invalids),
               a, t.nonce)
        ELSE [q EXCEPT !.queue[a] = @ \ At(@, t.nonce)]

RemoveAll(p, txs, outofbound) ==
  FoldLeft(LAMBDA q, t : RemoveTx(q, t, outofbound), p, txs)

-----------------------------------------------------------------------------
(* Go leaves the order of maps, of equal prices and of equal heartbeats    *)
(* open: an order of the accounts settles them.                            *)
Orders == SetToSeqs(Address)
Rank(order, a) == CHOOSE i \in DOMAIN order : order[i] = a

(* The order in which the price heap gives its entries.                    *)
Cheapest(p, order) ==
  Sorted(BagToSet(p.items),
    LAMBDA t, u : \/ t.price < u.price
                  \/ t.price = u.price /\ t.nonce > u.nonce
                  \/ /\ t.price = u.price
                     /\ t.nonce = u.nonce
                     /\ Rank(order, t.from) < Rank(order, u.from))

Pop(p, t, copies) == [p EXCEPT !.items = @ (-) [u \in {t} |-> copies]]

PopStale(p, t) ==
  [Pop(p, t, p.items[t]) EXCEPT !.stales = @ - p.items[t]]

(* The stale entries that Underpriced pops before it sees a live one.      *)
StripStale(p, order) ==
  LET heap == Cheapest(p, order)
      live == {i \in DOMAIN heap : heap[i] \in p.all}
      first == IF live = {} THEN Len(heap) + 1 ELSE Min(live)
  IN  FoldLeft(PopStale, p, SubSeq(heap, 1, first - 1))

Underpriced(p, t, order) ==
  LET heap == SelectSeq(Cheapest(p, order), LAMBDA u : u \in p.all)
  IN  t.from \notin p.locals /\ heap # <<>> /\ heap[1].price >= t.price

(* txPricedList.Discard, and the removal of what it returns.               *)
Discard(p, count, order) ==
  LET step(s, t) ==
        LET copies == Min({s.left, s.p.items[t]})
        IN  IF s.left <= 0 THEN s
            ELSE IF t \notin p.all THEN [s EXCEPT !.p = PopStale(s.p, t)]
            ELSE IF t.from \in p.locals THEN s
            ELSE [p |-> Pop(s.p, t, copies), left |-> s.left - copies,
                  drop |-> Append(s.drop, t)]
      end == FoldLeft(step, [p |-> p, left |-> count, drop |-> <<>>],
                      Cheapest(p, order))
  IN  RemoveAll(end.p, end.drop, FALSE)

(* txPricedList.Cap, and the removal of what it returns.                   *)
CapPrice(p, threshold, order) ==
  LET step(s, t) ==
        IF s.done THEN s
        ELSE IF t \notin p.all THEN [s EXCEPT !.p = PopStale(s.p, t)]
        ELSE IF t.price >= threshold THEN [s EXCEPT !.done = TRUE]
        ELSE IF t.from \in p.locals THEN s
        ELSE [s EXCEPT !.p = Pop(s.p, t, s.p.items[t]),
                       !.drop = Append(s.drop, t)]
      end == FoldLeft(step, [p |-> p, done |-> FALSE, drop |-> <<>>],
                      Cheapest(p, order))
  IN  RemoveAll(end.p, end.drop, FALSE)

-----------------------------------------------------------------------------
(* The executable run that txSortedMap.Ready takes from a list.            *)
Ready(list, start) ==
  IF list = {} \/ Lowest(list).nonce > start THEN {}
  ELSE {t \in list : \A n \in Lowest(list).nonce .. t.nonce : At(list, n) # {}}

Unpayable(p, list, a) == {t \in list : t.price > p.balance[a]}

(* txSortedMap.Cap: what exceeds a number of transactions.                 *)
Exceeding(list, size) ==
  {t \in list : Cardinality({u \in list : u.nonce < t.nonce}) >= size}

OverQueue(p, list, a) ==
  IF a \in p.locals THEN {} ELSE Exceeding(list, AccountQueue)

(* The body of the first loop of promoteExecutables.                       *)
PromoteAccount(p, a) ==
  LET list == p.queue[a]
      old == {t \in list : t.nonce < p.nonce[a]}
      drops == Unpayable(p, list \ old, a)
      rest == (list \ old) \ drops
      ready == Ready(rest, p.virtual[a])
      over == OverQueue(p, rest \ ready, a)
      q == Forget([p EXCEPT !.queue[a] = rest \ (ready \cup over)], old \cup drops)
      run == Sorted(ready, LAMBDA t, u : t.nonce < u.nonce)
  IN  Forget(FoldLeft(PromoteTx, q, run), over)

(* One executable transaction less for each of some accounts.              *)
Shrink(p, accounts) ==
  FoldLeft(LAMBDA q, a :
             LET t == Highest(q.pending[a])
             IN  LowerNonce(Forget([q EXCEPT !.pending[a] = @ \ {t}], {t}), a, t.nonce),
           p, accounts)

RECURSIVE ShrinkWhile(_, _, _, _)
ShrinkWhile(p, accounts, a, size) ==
  IF Total(p.pending) > GlobalSlots /\ Cardinality(p.pending[a]) > size
    THEN ShrinkWhile(Shrink(p, accounts), accounts, a, size)
    ELSE p

(* The remote accounts with more executable transactions than their slots, *)
(* the largest first.                                                      *)
Spammers(p, order) ==
  LET size(a) == Cardinality(p.pending[a])
  IN  Sorted({a \in Address \ p.locals : size(a) > AccountSlots},
             LAMBDA a, b : \/ size(a) > size(b)
                           \/ /\ size(a) = size(b)
                              /\ Rank(order, a) < Rank(order, b))

(* One offender after the other joins; the earlier ones shrink to its size.*)
Equalize(p, spammers) ==
  FoldLeft(LAMBDA q, k : ShrinkWhile(q, SubSeq(spammers, 1, k - 1),
                           spammers[k - 1], Cardinality(q.pending[spammers[k]])),
           p, [k \in 1 .. Len(spammers) - 1 |-> k + 1])

(* The second part of promoteExecutables: the accounts with the most       *)
(* executable transactions are made equal, then cut to their slots.        *)
LimitPending(p, order) ==
  LET spammers == Spammers(p, order)
  IN  IF Total(p.pending) <= GlobalSlots \/ spammers = <<>> THEN p
      ELSE ShrinkWhile(Equalize(p, spammers), spammers, Last(spammers), AccountSlots)

BeatRank == [none |-> 0, old |-> 1, new |-> 2]

(* The third part: the accounts heard of last lose queued transactions.    *)
LimitQueue(p, order) ==
  LET latest(a, b) == \/ BeatRank[p.beats[a]] > BeatRank[p.beats[b]]
                      \/ /\ p.beats[a] = p.beats[b]
                         /\ Rank(order, a) < Rank(order, b)
      step(s, a) ==
        LET list == s.p.queue[a]
            kept == Cardinality(list) - Min({s.drop, Cardinality(list)})
        IN  [p |-> RemoveAll(s.p, AsSeq(Exceeding(list, kept)), TRUE),
             drop |-> s.drop - (Cardinality(list) - kept)]
  IN  IF Total(p.queue) <= GlobalQueue THEN p
      ELSE FoldLeft(step, [p |-> p, drop |-> Total(p.queue) - GlobalQueue],
             Sorted({a \in Address \ p.locals : p.queue[a] # {}}, latest)).p

PromoteExecutables(p, accounts, order) ==
  LET promoted == FoldLeft(PromoteAccount, p,
                    SelectSeq(order, LAMBDA a : a \in accounts))
  IN  LimitQueue(LimitPending(promoted, order), order)

-----------------------------------------------------------------------------
(* Mutant of ValidateTx: the next nonce is refused.                        *)
ValidateLater(p, t, local) ==
  /\ local \/ t.from \in p.locals \/ t.price >= p.gasPrice
  /\ t.nonce > p.nonce[t.from]
  /\ t.price <= p.balance[t.from]

(* validateTx, of what depends on the state of the pool.                   *)
ValidateTx(p, t, local) ==
  /\ local \/ t.from \in p.locals \/ t.price >= p.gasPrice
  /\ t.nonce >= p.nonce[t.from]
  /\ t.price <= p.balance[t.from]

JournalTx(p, t) ==
  IF t.from \in p.locals THEN [p EXCEPT !.journal = @ \cup {t}] ELSE p

MarkLocal(p, a, local) ==
  IF local THEN [p EXCEPT !.locals = @ \cup {a}] ELSE p

Replace(p, t) ==
  LET old == At(p.pending[t.from], t.nonce)
  IN  Remember(Forget([p EXCEPT !.pending[t.from] = (@ \ old) \cup {t}], old), t)

(* The additions so far: the pool, and the accounts they made dirty.       *)
Added(p, dirty) == [p |-> p, dirty |-> dirty]

(* The end of TxPool.add, once there is room: the transaction replaces one *)
(* of its nonce or is queued, which makes its account dirty.               *)
Settle(room, dirty, t, local) ==
  LET a == t.from
      overlaps == At(room.pending[a], t.nonce) # {}
      fills == At(room.queue[a], t.nonce) = {}
  IN  IF ~Accepts(IF overlaps THEN room.pending[a] ELSE room.queue[a], t)
        THEN Added(room, dirty)
      ELSE IF overlaps THEN Added(JournalTx(Replace(room, t), t), dirty)
      ELSE Added(JournalTx(MarkLocal(EnqueueTx(room, t), a, local), t),
                 IF fills THEN dirty \cup {a} ELSE dirty)

(* TxPool.add of a transaction that is new and valid: a full pool refuses  *)
(* it or makes room first.                                                 *)
AddValid(seen, dirty, t, local, order) ==
  LET excess == Cardinality(seen.all) - (GlobalSlots + GlobalQueue - 1)
  IN  IF excess > 0 /\ ~local /\ Underpriced(seen, t, order) THEN Added(seen, dirty)
      ELSE The({Settle(room, dirty, t, local) :
                  room \in {IF excess > 0 THEN Discard(seen, excess, order) ELSE seen}})

(* TxPool.add                                                              *)
Add(p, dirty, t, local, order) ==
  LET full == Cardinality(p.all) >= GlobalSlots + GlobalQueue
      asks == full /\ ~local /\ t.from \notin p.locals
  IN  IF t \in p.all \/ ~ValidateTx(p, t, local) THEN Added(p, dirty)
      ELSE The({AddValid(seen, dirty, t, local, order) :
                  seen \in {IF asks THEN StripStale(p, order) ELSE p}})

(* The loop of addTxsLocked.                                               *)
AddAll(p, txs, local, order) ==
  FoldLeft(LAMBDA s, t : Add(s.p, s.dirty, t, local, order), Added(p, {}), txs)

(* The end of addTx and of addTxsLocked.                                   *)
PromoteDirty(added, order) ==
  IF added.dirty = {} THEN added.p ELSE PromoteExecutables(added.p, added.dirty, order)

(* The body of the loop of demoteUnexecutables.                            *)
DemoteAccount(p, a) ==
  LET list == p.pending[a]
      old == {t \in list : t.nonce < p.nonce[a]}
      drops == Unpayable(p, list \ old, a)
      invalids == {t \in (list \ old) \ drops : \E u \in drops : t.nonce > u.nonce}
      rest == ((list \ old) \ drops) \ invalids
      gapped == IF At(rest, p.nonce[a]) = {} THEN rest ELSE {}
      q == Forget([p EXCEPT !.pending[a] = rest \ gapped], old \cup drops)
  IN  IF list = {} THEN p
      ELSE DropEmpty(EnqueueAll(q, invalids \cup gapped), a)

(* The beginning of reset: the state of the new head.                      *)
AtHead(p, chain, funds) ==
  [p EXCEPT !.nonce = [a \in Address |-> Len(chain[a])],
            !.balance = funds,
            !.virtual = [a \in Address |-> Len(chain[a])]]

(* The virtual nonces reset sets once everything is demoted.               *)
FollowPending(p) ==
  [p EXCEPT !.virtual = [a \in Address |->
     IF p.pending[a] = {} THEN p.virtual[a] ELSE Highest(p.pending[a]).nonce + 1]]

(* reset, once the state of the new head is there.                         *)
Reset(chain, funds, reinject, order) ==
  \E added \in {AddAll(AtHead(pool, chain, funds), reinject, FALSE, order)} :
    \E back \in {PromoteDirty(added, order)} :
      \E kept \in {FoldLeft(DemoteAccount, back, order)} :
        \E next \in {FollowPending(kept)} :
          pool' = PromoteExecutables(next, Address, order)

LocalTxs(p) == UNION {p.pending[a] \cup p.queue[a] : a \in p.locals}

-----------------------------------------------------------------------------
Init ==
  /\ mined = [a \in Address |-> <<>>]
  /\ \E funds \in [Address -> Balances] : pool = Fresh(mined, funds, {})

(* addTx                                                                   *)
AddTx(t, local, order) ==
  \E added \in {AddAll(pool, <<t>>, local, order)} :
    /\ pool' = PromoteDirty(added, order)
    /\ UNCHANGED mined

AddLocal(t, order) == AddTx(t, TRUE, order)
AddRemote(t, order) == AddTx(t, FALSE, order)

SetGasPrice(price, order) ==
  /\ pool' = CapPrice([pool EXCEPT !.gasPrice = price], price, order)
  /\ UNCHANGED mined

(* The loop's handler of a new head.  The chain drops the transactions of  *)
(* an account from the k-th on and may include one; what it dropped comes  *)
(* back from the newest block to the oldest, unless the heights are too    *)
(* far apart.                                                              *)
NewHead(a, k, included, funds, skip, order) ==
  LET chain == [mined EXCEPT ![a] = SubSeq(@, 1, k) \o included]
      dropped == SelectSeq(Reverse(mined[a]), LAMBDA t : t \notin ToSet(chain[a]))
  IN  /\ \A t \in ToSet(included) : t.from = a /\ t.nonce = k
      /\ mined' = chain
      /\ Reset(chain, [pool.balance EXCEPT ![a] = funds],
               IF skip THEN <<>> ELSE dropped, order)

(* Time passes: the last heartbeat of an account is more than Lifetime old.*)
Age(a) ==
  /\ pool.beats[a] = "new"
  /\ pool' = [pool EXCEPT !.beats[a] = "old"]
  /\ UNCHANGED mined

(* The loop's eviction tick.                                               *)
Evict ==
  LET idle == {a \in Address \ pool.locals : pool.beats[a] # "new"}
  IN  /\ pool' = RemoveAll(pool, AsSeq(UNION {pool.queue[a] : a \in idle}), TRUE)
      /\ UNCHANGED mined

(* The loop's journal tick.                                                *)
Rejournal ==
  /\ pool' = [pool EXCEPT !.journal = LocalTxs(pool)]
  /\ UNCHANGED mined

(* The node stops, or crashes, and NewTxPool loads the journal.            *)
Restart(order) ==
  LET file == Sorted(pool.journal,
                LAMBDA t, u : \/ t.nonce < u.nonce
                              \/ t.nonce = u.nonce /\ t.price < u.price
                              \/ /\ t.nonce = u.nonce
                                 /\ t.price = u.price
                                 /\ Rank(order, t.from) < Rank(order, u.from))
  IN  \E added \in {AddAll(Fresh(mined, pool.balance, {}), file, TRUE, order)} :
        \E loaded \in {PromoteDirty(added, order)} :
          /\ pool' = [loaded EXCEPT !.journal = LocalTxs(loaded)]
          /\ UNCHANGED mined

Next ==
  \E order \in Orders :
    \/ \E t \in Tx : (t.from \in Owned /\ AddLocal(t, order)) \/ AddRemote(t, order)
    \/ \E price \in Prices : SetGasPrice(price, order)
    \/ \E a \in Address : \E k \in 0 .. Len(mined[a]), funds \in Balances :
         \E included \in {<<>>} \cup {<<t>> : t \in Tx}, skip \in {FALSE, Deep} :
           /\ Reorgs \/ k = Len(mined[a])
           /\ NewHead(a, k, included, funds, skip, order)
    \/ \E a \in Address : Age(a)
    \/ Evict
    \/ Rejournal
    \/ Restart(order)

Spec == Init /\ [][Next]_vars

-----------------------------------------------------------------------------
(* The lists hold transactions of their account, one for a nonce.          *)
TypeOK ==
  /\ mined \in [Address -> UNION {[1 .. n -> Tx] : n \in 0 .. MaxNonce + 1}]
  /\ pool.all \subseteq Tx /\ pool.journal \subseteq Tx
  /\ pool.locals \subseteq Address
  /\ pool.beats \in [Address -> {"none", "old", "new"}]
  /\ \A a \in Address : \A list \in {pool.pending[a], pool.queue[a]} :
       \A t, u \in list : t.from = a /\ (t.nonce = u.nonce => t = u)

(* The index and the lists agree and no nonce is both executable and       *)
(* queued: whatever moved between lists, nothing is lost, held twice or    *)
(* left in the index alone (removeTx, enqueueTx, demoteUnexecutables).     *)
AllIndexed ==
  /\ pool.all = UNION {pool.pending[a] \cup pool.queue[a] : a \in Address}
  /\ \A a \in Address : \A t \in pool.pending[a] : At(pool.queue[a], t.nonce) = {}

(* What the miner is given runs: the executable transactions of an account *)
(* start at its nonce in the state, leave no gap and can be paid one by    *)
(* one, after every addition, eviction and new block without a reorg.      *)
PendingExecutable ==
  \A a \in Address :
    /\ {t.nonce : t \in pool.pending[a]} =
         pool.nonce[a] .. pool.nonce[a] + Cardinality(pool.pending[a]) - 1
    /\ Unpayable(pool, pool.pending[a], a) = {}

(* The nonce the pool proposes for an account is the one after its last    *)
(* executable transaction, and no queued transaction has it: nothing that  *)
(* could run is left waiting (promoteTx, removeTx, promoteExecutables).    *)
NothingReadyWaits ==
  \A a \in Address :
    /\ pool.virtual[a] = pool.nonce[a] + Cardinality(pool.pending[a])
    /\ At(pool.queue[a], pool.virtual[a]) = {}

(* The limits hold for remote accounts: the pool never holds more of their *)
(* transactions than all its slots, and more executable ones than          *)
(* GlobalSlots only when no remote account has more than AccountSlots.     *)
PoolBounded ==
  /\ Cardinality({t \in pool.all : t.from \notin pool.locals}) <= GlobalSlots + GlobalQueue
  /\ Total(pool.pending) > GlobalSlots =>
       \A a \in Address \ pool.locals : Cardinality(pool.pending[a]) <= AccountSlots

(* Every pooled transaction is in the price heap, however lazily that is   *)
(* cleaned, so eviction by price can always find it.                       *)
PricedCovers == pool.all \subseteq BagToSet(pool.items)

(* A transaction of a local account leaves the pool only because a block   *)
(* took its nonce, its sender cannot pay it or a better one replaced it,   *)
(* never for its price, its age or a full pool; only a restart forgets.    *)
LocalsKept ==
  \A t \in pool.all \ pool'.all :
       t.from \in pool.locals =>
         \/ t.nonce < pool'.nonce[t.from]
         \/ t.price > pool'.balance[t.from]
         \/ \E u \in pool'.all :
              u.from = t.from /\ u.nonce = t.nonce /\ u.price > t.price
         \/ \E order \in Orders : Restart(order)

(* What a reorganisation takes out of the chain comes back: a transaction  *)
(* that a new head drops is pooled again, unless its nonce is taken in the *)
(* new chain, its sender cannot pay it, it is below the price asked of     *)
(* remote accounts or the pool holds one for that nonce it does not outbid *)
(* (reset, addTxsLocked), as long as the pool has room and heights are     *)
(* near.                                                                   *)
DroppedComeBack ==
  \A a \in Address : \A t \in ToSet(mined[a]) \ ToSet(mined'[a]) :
       \/ t \in pool'.all
       \/ t.nonce < pool'.nonce[a]
       \/ t.price > pool'.balance[a]
       \/ t.price < pool'.gasPrice /\ a \notin pool'.locals
       \/ ~Accepts({u \in pool'.all : u.from = a}, t)

=============================================================================
