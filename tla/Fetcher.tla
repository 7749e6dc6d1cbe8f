------------------------------ MODULE Fetcher -------------------------------
(***************************************************************************)
(* The block fetcher (eth/fetcher/fetcher.go): the loop that turns the     *)
(* announcements of peers into requests for headers and bodies, queues the *)
(* blocks it gets by number and hands them to importing goroutines, with   *)
(* its two timers, its counters per peer and its end.  Requests and their  *)
(* answers may be lost, late, repeated or come from the wrong peer.  Time  *)
(* is a choice: any announcement may be old enough when the loop looks.    *)
(***************************************************************************)
EXTENDS Integers, Sequences, FiniteSets, SequencesExt, FiniteSetsExt

CONSTANTS
  Peer, Hash,
  Number, Parent,     \* of the block of each hash; Parent may be "genesis"
  Empty,              \* the hashes of blocks without a body
  Liar,               \* the peers that may announce a wrong number
  MaxUncleDist, MaxQueueDist, HashLimit, BlockLimit,
  MaxAnnounced,       \* bound on the announcements kept for a hash
  MaxDebt             \* bound on how far a peer's counter is below zero

VARIABLES
  f,           \* the maps of the Fetcher
  chain,       \* the hashes of the local chain
  importing,   \* the goroutines of insert: "running", or "done" and sending
  fetchTimer, completeTimer,   \* are the timers running?
  pc           \* where the loop is: "top", "select" or "quit"

vars == <<f, chain, importing, fetchTimer, completeTimer, pc>>

None == [origin |-> "none", number |-> 0]

Announce == [origin : Peer, number : {Number[h] : h \in Hash}
                                       \cup {Number[h] + 1 : h \in Hash}]

Height == Max({0} \cup {Number[h] : h \in chain})

TooFar(number) ==
  \/ number - Height < -MaxUncleDist
  \/ number - Height > MaxQueueDist

-----------------------------------------------------------------------------
(* How many announcements of a peer the maps hold for a hash.              *)
Held(s, h, p) ==
  LET one(a) == IF a.origin = p THEN 1 ELSE 0
  IN  Cardinality({i \in DOMAIN s.announced[h] : s.announced[h][i].origin = p})
        + one(s.fetching[h]) + one(s.fetched[h]) + one(s.completing[h])

ForgetHash(s, h) ==
  [s EXCEPT !.announces = [p \in Peer |-> @[p] - Held(s, h, p)],
            !.announced[h] = <<>>, !.fetching[h] = None,
            !.fetched[h] = None, !.completing[h] = None]

(* Mutant of ForgetBlock: the counter of the peer stays.                   *)
ForgetUncounted(s, h) == [s EXCEPT !.queued[h] = "none"]

ForgetBlock(s, h) ==
  IF s.queued[h] = "none" THEN s
  ELSE [s EXCEPT !.queues[s.queued[h]] = @ - 1, !.queued[h] = "none"]

ForgetHashes(s, hs) == FoldSet(LAMBDA h, t : ForgetHash(t, h), s, hs)
ForgetBlocks(s, hs) == FoldSet(LAMBDA h, t : ForgetBlock(t, h), s, hs)

(* enqueue: schedule a block for import, unless its peer has too many or   *)
(* it is too far from the head.                                            *)
Enqueue(s, p, h) ==
  IF s.queues[p] + 1 > BlockLimit \/ TooFar(Number[h]) THEN ForgetHash(s, h)
  ELSE IF s.queued[h] # "none" THEN s
  ELSE [s EXCEPT !.queues[p] = @ + 1, !.queued[h] = p, !.queue = @ \cup {h}]

-----------------------------------------------------------------------------
Init ==
  /\ f = [announces |-> [p \in Peer |-> 0],
          announced |-> [h \in Hash |-> <<>>],
          fetching |-> [h \in Hash |-> None],
          fetched |-> [h \in Hash |-> None],
          completing |-> [h \in Hash |-> None],
          queue |-> {},
          queues |-> [p \in Peer |-> 0],
          queued |-> [h \in Hash |-> "none"]]
  /\ chain = {}
  /\ importing = [h \in Hash |-> "none"]
  /\ fetchTimer = TRUE /\ completeTimer = TRUE      \* NewTimer(0)
  /\ pc = "top"

Announced(s) == {h \in Hash : s.announced[h] # <<>>}
Fetching(s) == {h \in Hash : s.fetching[h] # None}
Fetched(s) == {h \in Hash : s.fetched[h] # None}
Completing(s) == {h \in Hash : s.completing[h] # None}

(* The top of the loop: give up the fetches that took too long, import the *)
(* queued blocks that fit on the chain or drop them when old or known.     *)
Top(expired) ==
  LET s == ForgetHashes(f, expired)
      ready == {h \in s.queue : Number[h] <= Height + 1}
      useless == {h \in ready : Number[h] + MaxUncleDist < Height \/ h \in chain}
  IN  /\ pc = "top"
      /\ pc' = "select"
      /\ f' = [ForgetBlocks(s, useless) EXCEPT !.queue = @ \ ready]
      /\ importing' = [h \in Hash |-> IF h \in ready \ useless THEN "running"
                                      ELSE importing[h]]
      /\ UNCHANGED <<chain, fetchTimer, completeTimer>>

Received == pc = "select" /\ pc' = "top"

(* rescheduleFetch: the timer is started while announcements wait.         *)
RescheduleFetch(s) == Announced(s) # {}

(* A peer announces a block (Notify).                                      *)
Notify(p, h, number) ==
  LET a == [origin |-> p, number |-> number]
      s == [f EXCEPT !.announces[p] = @ + 1, !.announced[h] = Append(@, a)]
      refused == \/ f.announces[p] + 1 > HashLimit
                 \/ number > 0 /\ TooFar(number)
                 \/ h \in Fetching(f) \cup Completing(f)
  IN  /\ Received
      /\ Len(f.announced[h]) < MaxAnnounced
      /\ f.announces[p] > -MaxDebt
      /\ f' = IF refused THEN f ELSE s
      /\ fetchTimer' = (fetchTimer \/ (~refused /\ Cardinality(Announced(s)) = 1))
      /\ UNCHANGED <<chain, importing, completeTimer>>

(* A peer propagates a block (Enqueue).                                    *)
Inject(p, h) ==
  /\ Received
  /\ f' = Enqueue(f, p, h)
  /\ UNCHANGED <<chain, importing, fetchTimer, completeTimer>>

(* An import has ended and the loop takes its hash from f.done.            *)
Done(h) ==
  /\ Received
  /\ importing[h] = "done"
  /\ importing' = [importing EXCEPT ![h] = "none"]
  /\ f' = ForgetBlock(ForgetHash(f, h), h)
  /\ UNCHANGED <<chain, fetchTimer, completeTimer>>

(* The fetch timer fires: the announcements that waited long enough, of    *)
(* any one of their peers, become requests unless the block is there.      *)
FetchTimer(ripe, pick) ==
  LET s == ForgetHashes(f, ripe)
      t == [s EXCEPT !.fetching = [h \in Hash |->
              IF h \in ripe \ chain THEN f.announced[h][pick[h]] ELSE @[h]]]
  IN  /\ Received
      /\ fetchTimer
      /\ f' = t
      /\ fetchTimer' = RescheduleFetch(t)
      /\ UNCHANGED <<chain, importing, completeTimer>>

(* The complete timer fires: the bodies of all fetched headers are asked   *)
(* for, unless the block is there.                                         *)
CompleteTimer ==
  LET hs == Fetched(f)
      s == ForgetHashes(f, hs)
  IN  /\ Received
      /\ completeTimer
      /\ f' = [s EXCEPT !.completing = [h \in Hash |->
                 IF h \in hs \ chain THEN f.fetched[h] ELSE @[h]]]
      /\ completeTimer' = FALSE
      /\ UNCHANGED <<chain, importing, fetchTimer>>

(* A peer sends a header: one the loop asked that peer for is taken.       *)
FilterHeaders(p, h) ==
  LET a == f.fetching[h]
      wanted == /\ a.origin = p
                /\ f.fetched[h] = None /\ f.completing[h] = None
                /\ f.queued[h] = "none"
      useless == Number[h] # a.number \/ h \in chain
      incomplete == wanted /\ ~useless /\ h \notin Empty
  IN  /\ Received
      /\ f' = IF ~wanted THEN f
              ELSE IF useless THEN ForgetHash(f, h)
              ELSE IF h \in Empty THEN Enqueue([f EXCEPT !.completing[h] = a], p, h)
              ELSE [f EXCEPT !.fetched[h] = a]
      /\ completeTimer' = (completeTimer \/ (incomplete /\ Fetched(f) = {}))
      /\ UNCHANGED <<chain, importing, fetchTimer>>

(* A peer sends a body: one that completes a header asked of it is taken.  *)
FilterBodies(p, h) ==
  /\ Received
  /\ f' = IF f.completing[h].origin # p \/ f.queued[h] # "none" THEN f
          ELSE IF h \in chain THEN ForgetHash(f, h)
          ELSE Enqueue(f, p, h)
  /\ UNCHANGED <<chain, importing, fetchTimer, completeTimer>>

Stop ==
  /\ pc = "select"
  /\ pc' = "quit"
  /\ UNCHANGED <<f, chain, importing, fetchTimer, completeTimer>>

(* A goroutine of insert: the block goes into the chain if its parent is   *)
(* there, verifyHeader accepts its header and insertChain succeeds.        *)
Insert(h, succeeds) ==
  /\ importing[h] = "running"
  /\ importing' = [importing EXCEPT ![h] = "done"]
  /\ succeeds => Parent[h] \in chain \cup {"genesis"}
  /\ chain' = IF succeeds THEN chain \cup {h} ELSE chain
  /\ UNCHANGED <<f, fetchTimer, completeTimer, pc>>

(* The chain also grows in other ways: mining and the downloader.          *)
Grow(h) ==
  /\ h \notin chain
  /\ Parent[h] \in chain \cup {"genesis"}
  /\ chain' = chain \cup {h}
  /\ UNCHANGED <<f, importing, fetchTimer, completeTimer, pc>>

Picks(ripe) == {pick \in [Hash -> 1 .. MaxAnnounced] :
                  \A h \in Hash : pick[h] <= IF h \in ripe THEN Len(f.announced[h]) ELSE 1}

Next ==
  \/ \E expired \in SUBSET Fetching(f) : Top(expired)
  \/ \E p \in Peer, h \in Hash :
       \/ Notify(p, h, Number[h])
       \/ p \in Liar /\ Notify(p, h, Number[h] + 1)
       \/ Inject(p, h)
       \/ FilterHeaders(p, h)
       \/ FilterBodies(p, h)
  \/ \E ripe \in SUBSET Announced(f) : \E pick \in Picks(ripe) : FetchTimer(ripe, pick)
  \/ CompleteTimer
  \/ Stop
  \/ \E h \in Hash : Done(h) \/ Grow(h) \/ \E ok \in BOOLEAN : Insert(h, ok)

Spec == Init /\ [][Next]_vars

-----------------------------------------------------------------------------
TypeOK ==
  /\ \A h \in Hash :
       /\ ToSet(f.announced[h]) \subseteq Announce
       /\ {f.fetching[h], f.fetched[h], f.completing[h]} \subseteq Announce \cup {None}
       /\ f.queued[h] \in Peer \cup {"none"}
  /\ f.queue \subseteq Hash /\ chain \subseteq Hash
  /\ f.announces \in [Peer -> Int] /\ f.queues \in [Peer -> 0 .. BlockLimit]
  /\ importing \in [Hash -> {"none", "running", "done"}]
  /\ fetchTimer \in BOOLEAN /\ completeTimer \in BOOLEAN
  /\ pc \in {"top", "select", "quit"}

(* A block is in the import queue or with one goroutine, never both, and   *)
(* exactly then remembered as queued, so that no block is imported twice   *)
(* at a time and none is remembered for ever (insert, forgetBlock).        *)
QueuedOnce ==
  /\ \A h \in Hash : (f.queued[h] # "none") <=> (h \in f.queue \/ importing[h] # "none")
  /\ \A h \in f.queue : importing[h] = "none"

(* The counter of a peer is the number of its blocks that are queued or    *)
(* being imported, whatever path each of them left by (forgetBlock).       *)
QueuesCount ==
  \A p \in Peer : f.queues[p] = Cardinality({h \in Hash : f.queued[h] = p})

(* While announcements wait the fetch timer runs, and while headers wait   *)
(* for their bodies the complete timer does, although both are started     *)
(* only when the first one comes and when the other timer fires.           *)
TimersRun ==
  /\ Announced(f) # {} => fetchTimer
  /\ Fetched(f) # {} => completeTimer

-----------------------------------------------------------------------------
(* What the fetcher's progress is about.                                   *)
FetchAll == \E pick \in Picks(Announced(f)) : FetchTimer(Announced(f), pick)
TopOnce == \E expired \in SUBSET Fetching(f) : Top(expired)
TopAll == Top(Fetching(f))
InsertOnce(h) == \E ok \in BOOLEAN : Insert(h, ok)
Waits(h) == f.announced[h] # <<>>
Asked(h) == f.announced[h] = <<>> \/ pc = "quit"
Imports(h) == importing[h] # "none"
Settled(h) == f.queued[h] = "none" \/ pc = "quit"
=============================================================================
