---------------------------- MODULE HeaderFetch ----------------------------
(***************************************************************************)
(* The header download of a sync (eth/downloader): fetchHeaders asks the   *)
(* master peer for a skeleton, every MaxHeaderFetch-th header; all peers   *)
(* fill the gaps; batches that are ready are handed to the header          *)
(* processor early, when its channel has room, and the rest afterwards.    *)
(* Once the skeleton ends the remaining headers come from the master.      *)
(* A number stands for a batch of MaxHeaderFetch headers, except that the  *)
(* last one, Height, may be shorter and is never part of a skeleton.       *)
(***************************************************************************)
EXTENDS Integers, Sequences, FiniteSets

CONSTANTS
  Peer, Master,
  Height,        \* the batches of the remote chain
  SkeletonSize   \* the batches of a skeleton

VARIABLES
  pc,          \* what fetchHeaders does
  skeleton,    \* still assembling the skeleton?
  from,        \* the first batch not yet asked for
  base, last,  \* the batches of the skeleton being filled
  queue,       \* batches to be asked for
  pend,        \* the batch each peer was asked for, or 0
  miss,        \* the batches each peer failed to give
  filled,      \* the batches in place
  proced,      \* how many were handed on early
  cont,        \* the end-of-fill signals in their channel, of capacity 1
  out,         \* the batches fetchHeaders is about to hand on
  procCh,      \* the channel to the header processor, of capacity 1
  received,    \* the batches the header processor got, in order
  conn,        \* the connected peers
  timer,       \* has the time for the request to the master run out?
  stale        \* has the timer of an earlier, answered request fired?

vars == <<pc, skeleton, from, base, last, queue, pend, miss, filled, proced,
          cont, out, procCh, received, conn, timer, stale>>
filling == <<base, last, queue, pend, miss, filled, proced, cont>>

Init ==
  /\ pc = "ask" /\ skeleton = TRUE /\ from = 1
  /\ base = 1 /\ last = 0
  /\ queue = {} /\ pend = [p \in Peer |-> 0] /\ miss = [p \in Peer |-> {}]
  /\ filled = {} /\ proced = 0 /\ cont = 0
  /\ out = <<>> /\ procCh = <<>> /\ received = <<>>
  /\ conn = Peer
  /\ timer = "set" /\ stale = FALSE

Range(a, b) == [i \in 1 .. (IF b < a THEN 0 ELSE b - a + 1) |-> a + i - 1]

(* The answer of the master stops the timer, which may already have fired, *)
(* and the next request sets it anew.                                      *)
Answered == timer' = "set" /\ stale' = (stale \/ timer = "fired")

(* The master sends the next skeleton, and its batches become tasks.       *)
ScheduleSkeleton ==
  /\ pc = "ask" /\ skeleton /\ from < Height
  /\ \E n \in from .. Height - 1 :
       /\ n < from + SkeletonSize
       /\ base' = from /\ last' = n
       /\ queue' = from .. n
  /\ miss' = [p \in Peer |-> {}]
  /\ filled' = {} /\ proced' = 0 /\ cont' = 0
  /\ pc' = "fill"
  /\ Answered
  /\ UNCHANGED <<skeleton, from, pend, out, procCh, received, conn>>

(* The skeleton has ended: the rest comes from the master directly.        *)
SkeletonEnds ==
  /\ pc = "ask" /\ skeleton /\ from = Height
  /\ skeleton' = FALSE
  /\ Answered
  /\ UNCHANGED <<pc, from, filling, out, procCh, received, conn>>

FullHeaders ==
  /\ pc = "ask" /\ ~skeleton /\ from <= Height
  /\ out' = <<from>> /\ pc' = "send"
  /\ Answered
  /\ UNCHANGED <<skeleton, from, filling, procCh, received, conn>>

NoMoreHeaders ==
  /\ pc = "ask" /\ ~skeleton /\ from > Height
  /\ out' = <<>> /\ pc' = "finish"
  /\ Answered
  /\ UNCHANGED <<skeleton, from, filling, procCh, received, conn>>

(* A peer that has no request is asked for the first batch it has not      *)
(* failed to give.                                                         *)
ReserveHeaders(p) ==
  /\ pc = "fill" /\ cont = 0 /\ p \in conn /\ pend[p] = 0
  /\ \E b \in queue \ miss[p] :
       /\ \A c \in queue \ miss[p] : b <= c
       /\ pend' = [pend EXCEPT ![p] = b]
       /\ queue' = queue \ {b}
  /\ UNCHANGED <<pc, skeleton, from, base, last, miss, filled, proced, cont, out, procCh,
                 received, conn, timer, stale>>

(* How many batches after those handed on are in place without a gap.      *)
Ready(done) ==
  LET first == base + proced
  IN Cardinality({b \in first .. last : first .. b \subseteq done})

(* What is ready is handed on if the channel has room.                     *)
Forward(n) ==
  IF n > 0 /\ procCh = <<>>
  THEN /\ procCh' = <<Range(base + proced, base + proced + n - 1)>>
       /\ proced' = proced + n
  ELSE UNCHANGED <<procCh, proced>>

(* The end is signalled when no batch is missing.                          *)
Signal == IF base .. last \subseteq filled' THEN cont + 1 ELSE cont

(* A batch that fits the skeleton is put in place.                         *)
DeliverHeaders(p) ==
  /\ pc = "fill" /\ p \in conn /\ pend[p] # 0
  /\ pend' = [pend EXCEPT ![p] = 0]
  /\ filled' = filled \cup {pend[p]}
  /\ Forward(Ready(filled'))
  /\ cont' = Signal
  /\ UNCHANGED <<pc, skeleton, from, base, last, queue, miss, out, received, conn, timer, stale>>

(* A batch that does not fit is asked of another peer.                     *)
RejectHeaders(p) ==
  /\ pc = "fill" /\ p \in conn /\ pend[p] # 0
  /\ pend' = [pend EXCEPT ![p] = 0]
  /\ miss' = [miss EXCEPT ![p] = @ \cup {pend[p]}]
  /\ queue' = queue \cup {pend[p]}
  /\ UNCHANGED <<pc, skeleton, from, base, last, filled, proced, cont, out, procCh,
                 received, conn, timer, stale>>

(* A request runs out of time: its batch is queued again and the peer is   *)
(* dropped; without its master the sync is cancelled.                      *)
ExpireHeaders(p) ==
  /\ pc = "fill" /\ cont = 0 /\ pend[p] # 0
  /\ pend' = [pend EXCEPT ![p] = 0]
  /\ queue' = queue \cup {pend[p]}
  /\ conn' = conn \ {p}
  /\ pc' = IF p = Master THEN "cancelled" ELSE pc
  /\ UNCHANGED <<skeleton, from, base, last, miss, filled, proced, cont, out, procCh, received, timer, stale>>

(* The time for the request to the master runs out.                        *)
Fire ==
  /\ pc = "ask" /\ timer = "set"
  /\ timer' = "fired"
  /\ UNCHANGED <<pc, skeleton, from, filling, out, procCh, received, conn, stale>>

(* The master is dropped, and the sync is cancelled with it.               *)
Timeout ==
  /\ pc = "ask" /\ (timer = "fired" \/ stale)
  /\ pc' = "timeout"
  /\ conn' = conn \ {Master}
  /\ UNCHANGED <<skeleton, from, filling, out, procCh, received, timer, stale>>

(* A peer leaves; its request stays until it runs out of time.             *)
Disconnect(p) ==
  /\ pc \notin {"done", "invalid", "cancelled", "timeout"} /\ p \in conn
  /\ conn' = conn \ {p}
  /\ pc' = IF p = Master THEN "cancelled" ELSE pc
  /\ UNCHANGED <<skeleton, from, filling, out, procCh, received, timer, stale>>

(* No peer can give what is missing.                                       *)
PeersUnavailable ==
  /\ pc = "fill" /\ cont = 0 /\ queue # {}
  /\ \A p \in Peer : pend[p] = 0
  /\ \A p \in conn : queue \subseteq miss[p]
  /\ pc' = "invalid"
  /\ UNCHANGED <<skeleton, from, filling, out, procCh, received, conn, timer, stale>>

(* Mutant of FillEnds: everything is handed on once more.                  *)
FillEndsAll ==
  /\ pc = "fill" /\ cont > 0 /\ queue = {} /\ \A p \in Peer : pend[p] = 0
  /\ out' = Range(base, last)
  /\ pc' = "send"
  /\ UNCHANGED <<skeleton, from, filling, procCh, received, conn, timer, stale>>

(* The skeleton is full; what was not handed on yet follows.               *)
FillEnds ==
  /\ pc = "fill" /\ cont > 0 /\ queue = {} /\ \A p \in Peer : pend[p] = 0
  /\ out' = Range(base + proced, last)
  /\ from' = base + proced
  /\ pc' = "send"
  /\ UNCHANGED <<skeleton, filling, procCh, received, conn, timer, stale>>

(* fetchHeaders hands the batches on, and asks for the next.               *)
SendHeaders ==
  /\ pc = "send" /\ (out # <<>> => procCh = <<>>)
  /\ procCh' = IF out = <<>> THEN procCh ELSE <<out>>
  /\ from' = from + Len(out)
  /\ out' = <<>> /\ pc' = "ask"
  /\ UNCHANGED <<skeleton, filling, received, conn, timer, stale>>

SendNil ==
  /\ pc = "finish" /\ procCh = <<>>
  /\ procCh' = <<<<>>>>
  /\ pc' = "done"
  /\ UNCHANGED <<skeleton, from, filling, out, received, conn, timer, stale>>

(* The header processor takes what is in the channel.                      *)
ProcessHeaders ==
  /\ procCh # <<>> /\ pc \notin {"cancelled", "timeout"}
  /\ received' = received \o Head(procCh)
  /\ procCh' = <<>>
  /\ UNCHANGED <<pc, skeleton, from, filling, out, conn, timer, stale>>

Next ==
  \/ ScheduleSkeleton \/ SkeletonEnds \/ FullHeaders \/ NoMoreHeaders
  \/ \E p \in Peer :
       \/ ReserveHeaders(p) \/ DeliverHeaders(p) \/ RejectHeaders(p)
       \/ ExpireHeaders(p) \/ Disconnect(p)
  \/ Fire \/ Timeout \/ PeersUnavailable \/ FillEnds \/ SendHeaders \/ SendNil \/ ProcessHeaders

Spec == Init /\ [][Next]_vars

-----------------------------------------------------------------------------
TypeOK ==
  /\ pc \in {"ask", "fill", "send", "finish", "done", "invalid",
           "cancelled", "timeout"}
  /\ timer \in {"set", "fired"} /\ stale \in BOOLEAN
  /\ skeleton \in BOOLEAN /\ from \in 1 .. Height + 1
  /\ base \in 1 .. Height /\ last \in 0 .. Height
  /\ queue \subseteq 1 .. Height /\ filled \subseteq 1 .. Height
  /\ pend \in [Peer -> 0 .. Height] /\ miss \in [Peer -> SUBSET (1 .. Height)]
  /\ proced \in 0 .. Height /\ Len(procCh) <= 1 /\ conn \subseteq Peer
  /\ cont \in Nat

(* The header processor gets every header once and in order, whatever the  *)
(* order in which the gaps are filled and however much was handed on       *)
(* early: what it has, what is in the channel and what is about to be sent *)
(* are the first batches of the chain.                                     *)
InOrder ==
  LET all == received \o (IF procCh = <<>> THEN <<>> ELSE Head(procCh)) \o out
  IN all = Range(1, Len(all))

(* When the header download is done every header was handed on.            *)
DoneIsAll ==
  pc = "done" => Len(received) + (IF procCh = <<>> THEN 0 ELSE Len(Head(procCh))) = Height

(* Every batch of the skeleton is queued, asked of exactly one peer, or in *)
(* place.                                                                  *)
EachBatchOnce ==
  pc = "fill" =>
    \A b \in base .. last :
      (IF b \in queue THEN 1 ELSE 0) + (IF b \in filled THEN 1 ELSE 0)
        + Cardinality({p \in Peer : pend[p] = b}) = 1

(* DeliverHeaders signals the end with the queue locked into a channel of  *)
(* capacity one: it must never have to wait.                               *)
SignalNeverBlocks == cont <= 1

(* What its progress is about.                                             *)
Ended == pc \in {"done", "invalid", "cancelled", "timeout"}
=============================================================================
