----------------------------- MODULE StateSync -----------------------------
(***************************************************************************)
(* The state download of a fast sync (eth/downloader/statesync.go): the    *)
(* loop that assigns missing trie nodes to idle peers and processes what   *)
(* comes back, and runStateSync, which holds the requests under way and    *)
(* hands finished ones to the loop one by one.  A new root starts a new    *)
(* sync with the same peers, whose answers to the old one may still come.  *)
(* Tries are given by the nodes below each node; what is missing is known  *)
(* only once the parent is there, and two tries may share nodes.           *)
(***************************************************************************)
EXTENDS Integers, Sequences, FiniteSets

CONSTANTS
  Peer,
  Node, Below,         \* trie nodes and the children of each
  Roots,               \* the roots of the syncs, one after the other
  MaxItems,            \* the most nodes asked for at once
  StallItems,          \* a peer that fails to answer so few is dropped
  MaxAsked,            \* bound on the requests a peer has not answered
  Reconnects,          \* how often a peer may come back
  Leave                \* may peers leave, and requests time out?

VARIABLES
  sync,        \* the number of the sync that runs
  status,      \* how it goes
  have,        \* nodes in the database or processed in this sync
  tasks,       \* nodes to be asked for
  attempts,    \* the peers asked in vain for each
  active,      \* the request under way with each peer
  finished,    \* requests answered, timed out or dropped, not yet processed
  asked,       \* the requests each peer may still answer
  conn,        \* the number of each peer's connection, or 0
  again,       \* how often one has come back
  busy,        \* the connections that are not idle
  dropped      \* the peers whose departure has not been noticed

vars == <<sync, status, have, tasks, attempts, active, finished, asked, conn,
          again, busy, dropped>>

None == [peer |-> "none"]

Init ==
  /\ sync = 1 /\ status = "run"
  /\ have = {} /\ tasks = {Roots[1]}
  /\ attempts = [n \in Node |-> {}]
  /\ active = [p \in Peer |-> None]
  /\ finished = <<>>
  /\ asked = [p \in Peer |-> <<>>]
  /\ conn = [p \in Peer |-> 1] /\ again = 0
  /\ busy = {} /\ dropped = {}

Connected == {p \in Peer : conn[p] > 0}

(* A request that a peer still has when it gets another is finished as     *)
(* dropped: the peer must have left and come back.                         *)
Replaced(p) ==
  IF active[p] = None THEN finished ELSE Append(finished, [active[p] EXCEPT !.end = "dropped"])

Taken(items) == tasks \ items

(* assignTasks: some of the nodes not yet tried with an idle peer are      *)
(* taken, the request is tracked and sent.                                 *)
Assign(p) ==
  /\ status = "run"
  /\ p \in Connected /\ <<p, conn[p]>> \notin busy /\ Len(asked[p]) < MaxAsked
  /\ \E items \in SUBSET {n \in tasks : p \notin attempts[n]} :
       /\ items # {} /\ Cardinality(items) <= MaxItems
       /\ tasks' = Taken(items)
       /\ attempts' = [n \in Node |-> IF n \in items THEN attempts[n] \cup {p} ELSE attempts[n]]
       /\ finished' = Replaced(p)
       /\ active' = [active EXCEPT ![p] =
            [peer |-> p, conn |-> conn[p], items |-> items, got |-> {}, end |-> "none"]]
       /\ asked' = [asked EXCEPT ![p] = Append(@, items)]
  /\ busy' = busy \cup {<<p, conn[p]>>}
  /\ UNCHANGED <<sync, status, have, conn, again, dropped>>

(* The request of a peer is over and waits to be processed.                *)
Finish(p, end, got) ==
  /\ active[p] # None
  /\ finished' = Append(finished, [active[p] EXCEPT !.end = end, !.got = got])
  /\ active' = [active EXCEPT ![p] = None]

(* A pack of nodes comes from a peer: its answer to a request it has not   *)
(* answered, those before it being left out.  It finishes the request      *)
(* under way with the peer, whichever that is, and is ignored if there is  *)
(* none.                                                                   *)
Answer(p) ==
  /\ status = "run"
  /\ \E i \in 1 .. Len(asked[p]) :
       /\ asked' = [asked EXCEPT ![p] = SubSeq(@, i + 1, Len(@))]
       /\ IF active[p] = None
          THEN UNCHANGED <<active, finished>>
          ELSE \E got \in SUBSET asked[p][i] : Finish(p, "answered", got)
  /\ UNCHANGED <<sync, status, have, tasks, attempts, conn, again, busy, dropped>>

Timeout(p) ==
  /\ Leave /\ status = "run"
  /\ Finish(p, "timeout", {})
  /\ UNCHANGED <<sync, status, have, tasks, attempts, asked, conn, again, busy, dropped>>

(* A peer that leaves answers no more, but for the pack that its handler   *)
(* is handing to the downloader.                                           *)
Left(unanswered, p) == [unanswered EXCEPT ![p] = SubSeq(@, 1, IF @ = <<>> THEN 0 ELSE 1)]

Disconnect(p) ==
  /\ Leave /\ status = "run" /\ p \in Connected
  /\ conn' = [conn EXCEPT ![p] = 0]
  /\ dropped' = dropped \cup {p}
  /\ asked' = Left(asked, p)
  /\ busy' = busy \ {<<p, conn[p]>>}
  /\ UNCHANGED <<sync, status, have, tasks, attempts, active, finished, again>>

Reconnect(p) ==
  /\ status = "run" /\ p \notin Connected /\ again < Reconnects
  /\ again' = again + 1
  /\ conn' = [conn EXCEPT ![p] = again + 2]
  /\ UNCHANGED <<sync, status, have, tasks, attempts, active, finished, asked, busy, dropped>>

(* Mutant of PeerDrop: the request of a peer that left is thrown away.     *)
PeerDropLost(p) ==
  /\ status = "run" /\ p \in dropped
  /\ dropped' = dropped \ {p}
  /\ active' = [active EXCEPT ![p] = None]
  /\ UNCHANGED <<sync, status, have, tasks, attempts, finished, asked, conn, again, busy>>

(* runStateSync hears that a peer left, and finishes its request if any.   *)
PeerDrop(p) ==
  /\ status = "run" /\ p \in dropped
  /\ dropped' = dropped \ {p}
  /\ IF active[p] = None THEN UNCHANGED <<active, finished>> ELSE Finish(p, "dropped", {})
  /\ UNCHANGED <<sync, status, have, tasks, attempts, asked, conn, again, busy>>

(* A node a peer did not send may be asked of it again if it sent others,  *)
(* or never answered.                                                      *)
Retried(req, n) ==
  IF req.got # {} \/ req.end # "answered" THEN attempts[n] \ {req.peer} ELSE attempts[n]

(* A node tried with as many peers as there are is given up.               *)
GivenUp(tried, peers) == Cardinality(tried) >= peers

(* The nodes the scheduler knows of, and waits for unless it has them.     *)
Root == Roots[sync]

Needed == {Root} \cup UNION {Below[n] : n \in have}

(* The scheduler accepts A of the nodes that came: those it waits for when *)
(* their turn comes.  A child that comes before its parent is not taken.   *)
Accepts(A, got) ==
  /\ got \cap (Needed \ have) \subseteq A
  /\ A \subseteq got \ have
  /\ A \subseteq Needed \cup UNION {Below[n] : n \in A}

(* The nodes that accepted parents make the scheduler ask for.             *)
Scheduled(A) == UNION {Below[n] : n \in A} \ (have \cup Needed)

(* The loop takes a finished request: a peer that timed out is dropped,    *)
(* nodes that came are processed, the others are asked for again unless    *)
(* they have been tried with as many peers as there are.                   *)
Process ==
  /\ status = "run" /\ finished # <<>>
  /\ LET req == Head(finished)
         stalls == /\ req.end = "timeout" /\ Cardinality(req.items) <= StallItems
                   /\ conn[req.peer] > 0
         peers == Cardinality(Connected \ (IF stalls THEN {req.peer} ELSE {}))
         missing == req.items \ req.got
     IN /\ conn' = IF stalls THEN [conn EXCEPT ![req.peer] = 0] ELSE conn
        /\ dropped' = IF stalls THEN dropped \cup {req.peer} ELSE dropped
        /\ asked' = IF stalls THEN Left(asked, req.peer) ELSE asked
        /\ \E A \in SUBSET req.got :
             /\ Accepts(A, req.got)
             /\ have' = have \cup A
             /\ tasks' = tasks \cup missing \cup Scheduled(A)
        /\ attempts' = [n \in Node |-> IF n \in missing THEN Retried(req, n) ELSE attempts[n]]
        /\ status' = IF \E n \in missing : GivenUp(attempts'[n], peers)
                     THEN "failed" ELSE "run"
        /\ busy' = IF status' = "failed" THEN busy ELSE busy \ {<<req.peer, req.conn>>}
  /\ finished' = Tail(finished)
  /\ UNCHANGED <<sync, active, again>>

(* The scheduler has nothing pending.                                      *)
Complete ==
  /\ status = "run" /\ Needed \subseteq have
  /\ status' = "done"
  /\ UNCHANGED <<sync, have, tasks, attempts, active, finished, asked, conn, again, busy, dropped>>

(* The whole sync is cancelled.                                            *)
Cancel ==
  /\ status = "run"
  /\ status' = "cancelled"
  /\ UNCHANGED <<sync, have, tasks, attempts, active, finished, asked, conn, again, busy, dropped>>

(* What is below a node, and the node itself.                              *)
SubTrie(n) ==
  LET grow[k \in 0 .. Cardinality(Node)] ==
        IF k = 0 THEN {n} ELSE grow[k - 1] \cup UNION {Below[m] : m \in grow[k - 1]}
  IN  grow[Cardinality(Node)]

(* A new root: runStateSync cancels the sync that runs, if one does, whose *)
(* loop writes every node with all that is below it, sets the peers of the *)
(* requests under way idle, and starts the next.                           *)
StartNext ==
  /\ sync < Len(Roots)
  /\ sync' = sync + 1 /\ status' = "run"
  /\ busy' = busy \ {<<active[p].peer, active[p].conn>> : p \in {q \in Peer : active[q] # None}}
  /\ active' = [p \in Peer |-> None]
  /\ finished' = <<>>
  /\ have' = {n \in have : SubTrie(n) \subseteq have}
  /\ tasks' = {Roots[sync + 1]} \ have'
  /\ attempts' = [n \in Node |-> {}]
  /\ dropped' = {}
  /\ UNCHANGED <<asked, conn, again>>

Next ==
  \/ \E p \in Peer :
       \/ Assign(p) \/ Answer(p) \/ Timeout(p)
       \/ Disconnect(p) \/ Reconnect(p) \/ PeerDrop(p)
  \/ Process \/ Complete \/ Cancel \/ StartNext

Spec == Init /\ [][Next]_vars

-----------------------------------------------------------------------------
Request == [peer : Peer, conn : 1 .. Reconnects + 1, items : SUBSET Node,
            got : SUBSET Node, end : {"none", "answered", "timeout", "dropped"}]

TypeOK ==
  /\ sync \in DOMAIN Roots /\ status \in {"run", "failed", "done", "cancelled"}
  /\ have \subseteq Node /\ tasks \subseteq Node
  /\ attempts \in [Node -> SUBSET Peer]
  /\ \A p \in Peer : active[p] = None \/ active[p] \in Request
  /\ \A i \in 1 .. Len(finished) : finished[i] \in Request /\ finished[i].end # "none"
  /\ \A p \in Peer : /\ Len(asked[p]) <= MaxAsked
                     /\ \A i \in 1 .. Len(asked[p]) : asked[p][i] \subseteq Node
  /\ conn \in [Peer -> 0 .. Reconnects + 1] /\ again \in 0 .. Reconnects
  /\ busy \subseteq Peer \X (1 .. Reconnects + 1) /\ dropped \subseteq Peer

Held ==
  UNION {active[p].items : p \in {q \in Peer : active[q] # None}}
    \cup UNION {finished[i].items : i \in 1 .. Len(finished)}

(* No node is forgotten: one that is missing is to be asked for, or is     *)
(* held by a request that will be processed, whatever timeouts, departures *)
(* and second connections do to the requests.                              *)
NoNodeLost == Needed \subseteq have \cup tasks \cup Held

(* A missing node is never asked of two peers at once.                     *)
AskedOnce ==
  \A p, q \in Peer : p # q /\ active[p] # None /\ active[q] # None
                     => active[p].items \cap active[q].items \subseteq have

(* What its progress is about.                                             *)
Ended == status # "run"
=============================================================================
