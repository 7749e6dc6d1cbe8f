--------------------------- MODULE DownloadQueue ---------------------------
(***************************************************************************)
(* The downloader's queue (eth/downloader/queue.go) with the peers it      *)
(* hands work to (peer.go) and the loop that feeds it (fetchParts of       *)
(* downloader.go).  The parts of a block, its body and in a fast sync its  *)
(* receipts, are fetched from several peers at once; a result is ready     *)
(* when all its parts have come, and results leave in order through a      *)
(* cache of bounded size.  Blocks are their numbers; a part that comes is  *)
(* right exactly if it is the part of the block it is matched with.        *)
(***************************************************************************)
EXTENDS Integers, Sequences, FiniteSets, FiniteSetsExt

CONSTANTS
  Kind,          \* the parts: {"body"} in full sync, with "receipt" in fast
  Peer,
  LastBlock,     \* the headers are 1 .. LastBlock
  Empty,         \* for each kind, the blocks whose part is known to be empty
  CacheItems,    \* blockCacheItems
  Capacity,      \* the most parts asked of a peer at once
  StallLimit,    \* what is asked of a peer whose speed is unknown; a request
                 \* of this size or less that expires drops its peer
  LateAnswers    \* may an answer come after its request has expired?

Block == 1 .. LastBlock
NoResult == -1

VARIABLES
  next,          \* the next header to schedule
  tasks,         \* the task queue of each kind: how often it holds a block
  pend,          \* the request each peer has, by kind
  doneset,       \* the parts fetched and not yet retrieved
  cache,         \* resultCache: the parts a result still waits for
  offset,        \* resultOffset
  limit,         \* the part of the cache the memory allowance leaves
  peers, idle, lacking,
  speedy,        \* peers whose measured throughput is not zero
  sent,          \* requests on their way, or their answers; one that is
                 \* never delivered is lost
  failed         \* why the sync was given up

vars == <<next, tasks, pend, doneset, cache, offset, limit, peers, idle,
          lacking, speedy, sent, failed>>

NoRequest == <<>>

Init ==
  /\ next = 1
  /\ tasks = [k \in Kind |-> [b \in Block |-> 0]]
  /\ pend = [k \in Kind |-> [p \in Peer |-> NoRequest]]
  /\ doneset = [k \in Kind |-> {}]
  /\ cache = [b \in Block |-> NoResult]
  /\ offset = 1 /\ limit = CacheItems
  /\ peers = Peer
  /\ idle = [k \in Kind |-> [p \in Peer |-> TRUE]]
  /\ lacking = [p \in Peer |-> {}]
  /\ speedy = [k \in Kind |-> {}]
  /\ sent = {}
  /\ failed = "no"

-----------------------------------------------------------------------------
(* The task queue as a sequence, lowest number first.                      *)
Ordered(bag) ==
  LET Times(b) == [i \in 1 .. bag[b] |-> b]
      upto[n \in 0 .. LastBlock] == IF n = 0 THEN <<>> ELSE upto[n - 1] \o Times(n)
  IN upto[LastBlock]

Elements(s) == {s[i] : i \in 1 .. Len(s)}

Push(bag, s) == [b \in Block |-> bag[b] + Cardinality({i \in 1 .. Len(s) : s[i] = b})]

(* Mutant of ResultSlots: requests under way are not counted.              *)
ResultSlotsDone(k) ==
  LET filled == {b \in Block : /\ offset <= b /\ b < offset + limit
                               /\ \A c \in offset .. b : cache[c] # NoResult}
  IN limit - Cardinality(filled \cap doneset[k])

(* resultSlots: the free places of the cache, as far as a kind may see.    *)
ResultSlots(k) ==
  LET filled == {b \in Block : /\ offset <= b /\ b < offset + limit
                               /\ \A c \in offset .. b : cache[c] # NoResult}
      asked(p) == {i \in 1 .. Len(pend[k][p]) : pend[k][p][i] < offset + limit}
  IN limit - Cardinality(filled \cap doneset[k])
           - MapThenSumSet(LAMBDA p : Cardinality(asked(p)), Peer)

(* Schedule: the next header of the chain.                                 *)
Schedule ==
  /\ failed = "no" /\ next <= LastBlock
  /\ tasks' = [k \in Kind |-> [tasks[k] EXCEPT ![next] = @ + 1]]
  /\ next' = next + 1
  /\ UNCHANGED <<pend, doneset, cache, offset, limit, peers, idle, lacking, speedy, sent, failed>>

-----------------------------------------------------------------------------
(* What reserveHeaders takes off the task queue for a peer: the lowest     *)
(* blocks, as many as there are free places, until count of them can be    *)
(* asked for.  Empty parts and parts the peer lacks are taken too.         *)
Sendable(k, p, b) == b \notin Empty[k] /\ b \notin lacking[p]

Taken(k, p, count) ==
  LET line == Ordered(tasks[k])
      space == ResultSlots(k)
      fits == {m \in 0 .. Len(line) :
                 /\ m <= space
                 /\ Cardinality({i \in 1 .. m - 1 : Sendable(k, p, line[i])}) < count}
  IN SubSeq(line, 1, IF fits = {} THEN 0 ELSE Max(fits))

(* The results a reservation opens, and the empty parts it settles.        *)
Opened(taken, k) ==
  [b \in Block |->
     LET before == IF cache[b] = NoResult /\ b \in Elements(taken)
                   THEN Cardinality(Kind) ELSE cache[b]
     IN IF b \in Elements(taken) \cap Empty[k] THEN before - 1 ELSE before]

(* ReserveBodies, ReserveReceipts and the request that fetchParts sends.   *)
(* A block beyond the cache is reported and fails the sync.                *)
Reserve(k, p, count) ==
  /\ failed = "no"
  /\ p \in peers /\ idle[k][p] /\ pend[k][p] = NoRequest
  /\ count <= StallLimit \/ p \in speedy[k]
  /\ ResultSlots(k) > 0
  /\ \E taken \in {Taken(k, p, count)} :
     \E send \in {SelectSeq(taken, LAMBDA b : Sendable(k, p, b))},
        empty \in {Elements(taken) \cap Empty[k]} :
        /\ taken # <<>>
        /\ IF \E b \in Elements(taken) : b < offset \/ b >= offset + CacheItems
           THEN failed' = "overflow" /\ UNCHANGED <<tasks, cache, doneset, pend, idle, sent>>
           ELSE /\ tasks' = [tasks EXCEPT ![k] =
                     [b \in Block |-> @[b] - (IF b \in Elements(send) \cup empty THEN 1 ELSE 0)]]
                /\ cache' = Opened(taken, k)
                /\ tasks' # tasks \/ cache' # cache
                /\ doneset' = [doneset EXCEPT ![k] = @ \cup empty]
                /\ pend' = [pend EXCEPT ![k][p] = send]
                /\ idle' = [idle EXCEPT ![k][p] = (send = <<>>)]
                /\ sent' = IF send = <<>> THEN sent ELSE sent \cup {<<p, k, send>>}
                /\ UNCHANGED failed
  /\ UNCHANGED <<next, offset, limit, peers, lacking, speedy>>

-----------------------------------------------------------------------------
(* deliver: the parts that fit the request, from the first on.             *)
Matched(request, answer) ==
  Max({i \in 0 .. Len(request) :
         i <= Len(answer) /\ \A j \in 1 .. i : answer[j] = request[j] /\ cache[request[j]] # NoResult})

(* An answer, the first n parts of what a request asked for, is taken by   *)
(* fetchParts and matched with the request the peer has now.  One that     *)
(* fits in no part is stale, and leaves the peer as it is.                 *)
Deliver(p, k, asked, n) ==
  /\ failed = "no"
  /\ sent' = sent \ {<<p, k, asked>>}
  /\ LET request == pend[k][p]
         good == Matched(request, SubSeq(asked, 1, n))
         accepted == Elements(SubSeq(request, 1, good))
         stale == request # NoRequest /\ good = 0 /\ n > 0
     IN /\ pend' = [pend EXCEPT ![k][p] = NoRequest]
        /\ idle' = [idle EXCEPT ![k][p] = @ \/ ~stale]
        /\ speedy' = IF stale THEN speedy
                     ELSE [speedy EXCEPT ![k] = IF good > 0 THEN @ \cup {p} ELSE @ \ {p}]
        /\ lacking' = [lacking EXCEPT ![p] = IF n = 0 THEN @ \cup Elements(request) ELSE @]
        /\ doneset' = [doneset EXCEPT ![k] = @ \cup accepted]
        /\ cache' = [b \in Block |-> IF b \in accepted THEN cache[b] - 1 ELSE cache[b]]
        /\ tasks' = [tasks EXCEPT ![k] = Push(@, SubSeq(request, good + 1, Len(request)))]
  /\ UNCHANGED <<next, offset, limit, peers, failed>>

(* Revoke: what a peer was asked for goes back to the task queue.          *)
Revoked(p, k) == Push(tasks[k], pend[k][p])

(* UnregisterPeer, whoever calls it; the connection goes with it.          *)
Unregister(p) ==
  /\ peers' = peers \ {p}
  /\ tasks' = [k \in Kind |-> Revoked(p, k)]
  /\ pend' = [k \in Kind |-> [pend[k] EXCEPT ![p] = NoRequest]]
  /\ idle' = [k \in Kind |-> [idle[k] EXCEPT ![p] = TRUE]]
  /\ lacking' = [lacking EXCEPT ![p] = {}]
  /\ speedy' = [k \in Kind |-> speedy[k] \ {p}]
  /\ sent' = {m \in sent : m[1] # p}

Drop(p) ==
  /\ failed = "no" /\ p \in peers
  /\ Unregister(p)
  /\ UNCHANGED <<next, doneset, cache, offset, limit, failed>>

(* A request expires: it goes back, and its peer is idle again, or is      *)
(* dropped if the request was as small as they get.                        *)
Expire(k, p) ==
  /\ failed = "no" /\ pend[k][p] # NoRequest
  /\ IF Len(pend[k][p]) > StallLimit
     THEN /\ tasks' = [tasks EXCEPT ![k] = Push(@, pend[k][p])]
          /\ pend' = [pend EXCEPT ![k][p] = NoRequest]
          /\ idle' = [idle EXCEPT ![k][p] = TRUE]
          /\ speedy' = [speedy EXCEPT ![k] = @ \ {p}]
          /\ sent' = IF LateAnswers THEN sent ELSE sent \ {<<p, k, pend[k][p]>>}
          /\ UNCHANGED <<peers, lacking>>
     ELSE Unregister(p)
  /\ UNCHANGED <<next, doneset, cache, offset, limit, failed>>

(* Results: the finished results at the front leave, and the average size  *)
(* of a result, with it the usable part of the cache, changes.             *)
Results ==
  /\ failed = "no"
  /\ \E last \in offset .. LastBlock :
       /\ \A b \in offset .. last : cache[b] = 0
       /\ last < LastBlock => cache[last + 1] # 0
       /\ offset' = last + 1
       /\ cache' = [b \in Block |-> IF b <= last THEN NoResult ELSE cache[b]]
       /\ doneset' = [k \in Kind |-> {b \in doneset[k] : b > last}]
  /\ limit' \in 1 .. CacheItems
  /\ UNCHANGED <<next, tasks, pend, peers, idle, lacking, speedy, sent, failed>>

(* No peers are left, or all of them are idle and none can help.           *)
GiveUp(k) ==
  /\ failed = "no"
  /\ \/ peers = {} /\ failed' = "nopeers"
     \/ /\ peers # {}
        /\ \A p \in Peer : pend[k][p] = NoRequest
        /\ \A p \in peers : idle[k][p]
        /\ \E b \in Block : tasks[k][b] > 0
        /\ ResultSlots(k) > 0
        /\ \A p \in peers : Elements(Taken(k, p, Capacity)) \subseteq lacking[p] \ Empty[k]
        /\ failed' = "unavailable"
  /\ UNCHANGED <<next, tasks, pend, doneset, cache, offset, limit, peers, idle, lacking, speedy, sent>>

Next ==
  \/ Schedule \/ Results
  \/ \E k \in Kind, p \in Peer :
       \/ \E count \in StallLimit .. Capacity : Reserve(k, p, count)
       \/ Expire(k, p)
  \/ \E p \in Peer : Drop(p)
  \/ \E m \in sent : \E n \in 0 .. Len(m[3]) : Deliver(m[1], m[2], m[3], n)
  \/ \E k \in Kind : GiveUp(k)

Spec == Init /\ [][Next]_vars

-----------------------------------------------------------------------------
TypeOK ==
  /\ next \in 1 .. LastBlock + 1 /\ offset \in 1 .. LastBlock + 1
  /\ limit \in 1 .. CacheItems
  /\ tasks \in [Kind -> [Block -> 0 .. 1]]
  /\ \A k \in Kind, p \in Peer : pend[k][p] \in Seq(Block) /\ Len(pend[k][p]) <= Capacity
  /\ doneset \in [Kind -> SUBSET Block]
  /\ cache \in [Block -> {NoResult} \cup 0 .. Cardinality(Kind)]
  /\ peers \subseteq Peer
  /\ idle \in [Kind -> [Peer -> BOOLEAN]]
  /\ lacking \in [Peer -> SUBSET Block] /\ speedy \in [Kind -> SUBSET Peer]
  /\ failed \in {"no", "overflow", "nopeers", "unavailable"}

(* Every part of every scheduled block is in exactly one place: in the     *)
(* queue, asked of exactly one peer, or done, until the block leaves; and  *)
(* a result waits for exactly the parts that are not done.                 *)
NothingLostOrDoubled ==
  failed # "overflow" =>
    \A b \in Block :
      /\ \A k \in Kind :
           tasks[k][b]
             + MapThenSumSet(LAMBDA p : Cardinality({i \in 1 .. Len(pend[k][p]) : pend[k][p][i] = b}), Peer)
             + (IF b \in doneset[k] THEN 1 ELSE 0)
           = IF offset <= b /\ b < next THEN 1 ELSE 0
      /\ cache[b] # NoResult => cache[b] = Cardinality({k \in Kind : b \notin doneset[k]})

(* The throttle keeps reservations inside the cache: the report "index     *)
(* allocation went beyond available resultCache space" is never made.      *)
InsideCache == failed # "overflow"

(* A peer that counts as idle has no request: fetchParts panics if it asks *)
(* a peer that is busy.                                                    *)
IdleHasNone ==
  \A k \in Kind, p \in peers : idle[k][p] => pend[k][p] = NoRequest

(* What its progress is about: everything is imported, or the sync is      *)
(* given up.                                                               *)
ReserveSome(k) == \E p \in Peer, count \in StallLimit .. Capacity : Reserve(k, p, count)
Ended == offset > LastBlock \/ failed # "no"
=============================================================================
