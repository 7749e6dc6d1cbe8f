----------------------------- MODULE P2PServer -----------------------------
(***************************************************************************)
(* The peer-to-peer server (p2p/server.go, p2p/dial.go): the run loop that *)
(* owns the peer set, the dialer it asks for tasks before every select,    *)
(* the goroutines that dial and set up connections and wait for the loop   *)
(* at two checkpoints, the goroutine of every peer, and the stop.          *)
(***************************************************************************)
EXTENDS Integers, Sequences, FiniteSets, SequencesExt, TLC

CONSTANTS
  Nodes,        \* the other nodes
  Barred,       \* of them: ourselves, and nodes outside the netrestrict list
  MaxPeers, DialRatio, MaxPendingPeers, MaxActiveDialTasks,
  Bootnodes,    \* a sequence
  InitStatic, Users,  \* Users: which calls of the user happen
  MaxLookup     \* bound: how many nodes a lookup returns

None == [none |-> TRUE]
Dirs == {"in", "out"}
Conns == Nodes \X Dirs

VARIABLES
  peers,        \* the loop's peer map: what was connected, and its flags
  inboundCount,
  trusted,      \* the loop's trusted map
  static,       \* dialstate: nodes to keep connected
  dialing,      \* dialstate: flag of each node being dialed, or "no"
  hist,         \* dialstate: recently dialed nodes
  elapsed,      \* of them, those whose time is over
  lookup,       \* dialstate: [running, buf]
  boot,         \* dialstate: bootnodes, rotated; and whether the fallback time came
  running, queued,  \* dial tasks
  doing,        \* the goroutine of a node's dial task
  conns,        \* connections: their stage and whether they have the trusted flag
  disc,         \* peers asked to disconnect
  quit, loop

vars == <<peers, inboundCount, trusted, static, dialing, hist, elapsed, lookup, boot,
          running, queued, doing, conns, disc, quit, loop>>

dialvars == <<static, dialing, hist, lookup, boot, running, queued, doing>>

MaxDialedConns == MaxPeers \div DialRatio
MaxInboundConns == MaxPeers - MaxDialedConns

Idle == [stage |-> "idle", flag |-> "no", trusted |-> FALSE]
Dial(n, flag) == [kind |-> "dial", node |-> n, flag |-> flag]
Task(kind) == [kind |-> kind]

Connected == {n \in Nodes : peers[n] # None}

-----------------------------------------------------------------------------
(* The dialer and the tasks, as one record for the steps of scheduleTasks, *)
(* with the tasks it makes and the dynamic dials it still wants.           *)
Smaller(a, b) == IF a < b THEN a ELSE b

(* How many dynamic dials are wanted.                                      *)
Needed(d, peerMap) ==
  MaxDialedConns - Cardinality({n \in Nodes : peerMap[n] # None /\ peerMap[n].flag = "dyn"})
                 - Cardinality({n \in Nodes : d.dialing[n] = "dyn"})

Dialer == [static |-> static, dialing |-> dialing, hist |-> hist, lookup |-> lookup,
           boot |-> boot, running |-> running, queued |-> queued]

Working(d, peerMap) ==
  d @@ [tasks |-> <<>>, want |-> Needed(d, peerMap), peers |-> {n \in Nodes : peerMap[n] # None}]

(* startTasks: as many as there is room for; the others are left.          *)
Room(d) == MaxActiveDialTasks - Cardinality(d.running)
Started(d, ts) == [d EXCEPT !.running = @ \cup ToSet(SubSeq(ts, 1, Smaller(Room(d), Len(ts))))]
Rest(d, ts) == SubSeq(ts, Smaller(Room(d), Len(ts)) + 1, Len(ts))

(* Mutant of CanDial: a node already being dialed is dialed again.         *)
CanDialAgain(d, n) == n \notin d.peers /\ n \notin Barred /\ n \notin d.hist

(* checkDial                                                               *)
CanDial(d, n) == d.dialing[n] = "no" /\ n \notin d.peers /\ n \notin Barred /\ n \notin d.hist

(* addDial: a candidate is dialed unless checkDial objects.                *)
AddDial(d, n) ==
  IF CanDial(d, n)
  THEN [d EXCEPT !.dialing[n] = "dyn", !.tasks = Append(@, Dial(n, "dyn")), !.want = @ - 1]
  ELSE d

(* The lookup results are consumed while dials are wanted.                 *)
RECURSIVE FromLookup(_)
FromLookup(d) ==
  IF d.lookup.buf = <<>> \/ d.want <= 0 THEN d
  ELSE FromLookup([AddDial(d, Head(d.lookup.buf)) EXCEPT !.lookup.buf = Tail(@)])

(* The steps of newTasks.  The history expires, and static nodes that are  *)
(* not on their way are dialed in the order of the map; barred ones are    *)
(* dropped.                                                                *)
DialStatic(d, ready) ==
  [d EXCEPT !.dialing = [n \in Nodes |-> IF n \in ToSet(ready) THEN "static" ELSE @[n]],
            !.tasks = [i \in DOMAIN ready |-> Dial(ready[i], "static")]]

Expired(d) ==
  [d EXCEPT !.hist = @ \ elapsed,
            !.static = @ \ {n \in Barred : d.dialing[n] = "no" /\ n \notin d.peers}]

Statics(d) == {n \in d.static : CanDial(d, n)}

(* Without any peer for a while, the next bootnode is tried.               *)
Fallback(d) ==
  IF d.peers = {} /\ d.boot.nodes # <<>> /\ d.want > 0 /\ d.boot.late
  THEN AddDial([d EXCEPT !.boot.nodes = Append(Tail(@), Head(@))], Head(d.boot.nodes))
  ELSE d

(* Random nodes of the table serve half of the dials still wanted.         *)
FromTable(d, random) == FoldLeft(AddDial, d, random)

(* A lookup when the candidates are too few.                               *)
WithLookup(d) ==
  IF Len(d.lookup.buf) < d.want /\ ~d.lookup.running
  THEN [d EXCEPT !.lookup.running = TRUE, !.tasks = Append(@, Task("lookup"))]
  ELSE d

(* A timer when nothing else would wake the loop.                          *)
WithWait(d) ==
  IF d.running = {} /\ d.queued = <<>> /\ d.tasks = <<>> /\ d.hist # {}
  THEN [d EXCEPT !.tasks = <<Task("wait")>>]
  ELSE d

(* scheduleTasks: the queue first, then what the dialer wants.             *)
FromQueue(d) == [Started(d, d.queued) EXCEPT !.queued = Rest(d, d.queued)]
Launched(d) == [Started(d, d.tasks) EXCEPT !.queued = @ \o Rest(d, d.tasks)]

(* Some nodes in some order, as the table and a lookup give them.          *)
Picks(size) ==
  {r \in UNION {[1 .. k -> Nodes] : k \in 0 .. size} : IsInjective(r)}

(* The loop goes round: scheduleTasks runs before the next select.         *)
Becomes(e, busy) ==
  /\ static' = e.static /\ dialing' = e.dialing /\ hist' = e.hist /\ elapsed' = elapsed \cap e.hist
  /\ lookup' = e.lookup /\ boot' = e.boot /\ running' = e.running /\ queued' = e.queued
  /\ doing' = [n \in Nodes |->
                 IF \E t \in e.running : t.kind = "dial" /\ t.node = n /\ busy[n] = "none"
                 THEN "dial" ELSE busy[n]]

Around(d, peerMap, busy) ==
  \E queue \in {FromQueue(Working(d, peerMap))} :
    IF Room(queue) <= 0 THEN Becomes(queue, busy)
    ELSE \E expired \in {Expired(queue)} :
         \E ready \in SetToSeqs(Statics(expired)) :
         \E first \in {Fallback(DialStatic(expired, ready))} :
         \E random \in Picks(IF first.want > 0 THEN first.want \div 2 ELSE 0) :
         \E found \in {WithLookup(FromLookup(FromTable(first, random)))} :
           Becomes(Launched(WithWait(found)), busy)

Init ==
  /\ peers = [n \in Nodes |-> None] /\ inboundCount = 0 /\ trusted = {}
  /\ static = InitStatic /\ dialing = [n \in Nodes |-> "no"] /\ hist = {} /\ elapsed = {}
  /\ lookup = [running |-> FALSE, buf |-> <<>>]
  /\ boot = [nodes |-> Bootnodes, late |-> FALSE]
  /\ running = {} /\ queued = <<>> /\ doing = [n \in Nodes |-> "none"]
  /\ conns = [c \in Conns |-> Idle] /\ disc = {} /\ quit = FALSE /\ loop = "start"

-----------------------------------------------------------------------------
(* The run loop: one action per case of the select.                        *)
Begin ==
  /\ loop = "start" /\ loop' = "run"
  /\ Around(Dialer, peers, doing)
  /\ UNCHANGED <<peers, inboundCount, trusted, conns, disc, quit>>

AddStatic(n) ==
  /\ loop = "run" /\ "addstatic" \in Users
  /\ Around([Dialer EXCEPT !.static = @ \cup {n}], peers, doing)
  /\ UNCHANGED <<peers, inboundCount, trusted, conns, disc, quit, loop>>

RemoveStatic(n) ==
  /\ loop = "run" /\ "removestatic" \in Users
  /\ disc' = disc \cup ({n} \cap Connected)
  /\ Around([Dialer EXCEPT !.static = @ \ {n}, !.hist = @ \ {n}], peers, doing)
  /\ UNCHANGED <<peers, inboundCount, trusted, conns, quit, loop>>

(* Trust given or taken reaches the connection of a peer there is.         *)
SetTrusted(n, val) ==
  /\ loop = "run" /\ "trust" \in Users
  /\ trusted' = IF val THEN trusted \cup {n} ELSE trusted \ {n}
  /\ conns' = [c \in Conns |-> IF c[1] = n /\ peers[n] # None /\ peers[n].dir = c[2]
                               THEN [conns[c] EXCEPT !.trusted = val] ELSE conns[c]]
  /\ Around(Dialer, peers, doing)
  /\ UNCHANGED <<peers, inboundCount, disc, quit, loop>>

Finished(t) ==
  CASE t.kind = "dial" -> doing[t.node] = "done"
    [] t.kind = "lookup" -> TRUE
    [] t.kind = "wait" -> elapsed # {} \/ hist = {}

TaskDone(t) ==
  /\ loop = "run" /\ t \in running /\ Finished(t)
  /\ \E results \in (IF t.kind = "lookup" THEN Picks(MaxLookup) ELSE {<<>>}) :
       LET d == [Dialer EXCEPT !.running = @ \ {t}]
           e == CASE t.kind = "dial" ->
                       [d EXCEPT !.hist = @ \cup {t.node}, !.dialing[t.node] = "no"]
                  [] t.kind = "lookup" ->
                       [d EXCEPT !.lookup = [running |-> FALSE, buf |-> @.buf \o results]]
                  [] t.kind = "wait" -> d
       IN Around(e, peers, IF t.kind = "dial" THEN [doing EXCEPT ![t.node] = "none"] ELSE doing)
  /\ UNCHANGED <<peers, inboundCount, trusted, conns, disc, quit, loop>>

AlreadyConnected(c, stage) == peers[c[1]] # None

(* encHandshakeChecks, at both checkpoints.                                *)
TooManyPeers(c, trust) ==
  /\ ~trust
  /\ \/ conns[c].flag # "static" /\ Cardinality(Connected) >= MaxPeers
     \/ c[2] = "in" /\ inboundCount >= MaxInboundConns

Refused(c, stage, trust) == TooManyPeers(c, trust) \/ AlreadyConnected(c, stage)

(* A connection set up from a dial task ends the task when it is over.     *)
Over(c) == IF c[2] = "out" THEN [doing EXCEPT ![c[1]] = "done"] ELSE doing

(* The trusted flag is set here, before the limits are checked.            *)
PostHandshake(c) ==
  LET trust == conns[c].trusted \/ c[1] \in trusted
  IN /\ loop = "run" /\ conns[c].stage = "post"
     /\ IF Refused(c, "post", trust)
        THEN conns' = [conns EXCEPT ![c] = Idle] /\ Around(Dialer, peers, Over(c))
        ELSE /\ conns' = [conns EXCEPT ![c].stage = "proto", ![c].trusted = trust]
             /\ Around(Dialer, peers, doing)
     /\ UNCHANGED <<peers, inboundCount, trusted, disc, quit, loop>>

(* Mutant of Counts: only connections that are not trusted are counted.    *)
CountsUntrusted(c) == c[2] = "in" /\ ~conns[c].trusted

(* Inbound: by the flag the connection was accepted with.                  *)
Counts(c) == c[2] = "in"

(* The connection becomes a peer, unless no protocol matches or a check    *)
(* fails now.                                                              *)
AddPeer(c) ==
  /\ loop = "run" /\ conns[c].stage = "add"
  /\ \E useless \in BOOLEAN :
       LET ok == ~useless /\ ~Refused(c, "add", conns[c].trusted)
           now == IF ok THEN [peers EXCEPT ![c[1]] = [dir |-> c[2], flag |-> conns[c].flag]]
                  ELSE peers
       IN /\ peers' = now
          /\ inboundCount' = IF ok /\ Counts(c) THEN inboundCount + 1 ELSE inboundCount
          /\ conns' = [conns EXCEPT ![c] = IF ok THEN [@ EXCEPT !.stage = "peer"] ELSE Idle]
          /\ Around(Dialer, now, Over(c))
  /\ UNCHANGED <<trusted, disc, quit, loop>>

DelPeer(c) ==
  LET now == [peers EXCEPT ![c[1]] = None]
  IN /\ loop \in {"run", "drain"} /\ conns[c].stage = "ended"
     /\ peers' = now
     /\ inboundCount' = IF loop = "run" /\ Counts(c) THEN inboundCount - 1 ELSE inboundCount
     /\ conns' = [conns EXCEPT ![c] = Idle]
     /\ disc' = disc \ {c[1]}
     /\ IF loop = "run" THEN Around(Dialer, now, doing) ELSE UNCHANGED <<dialvars, elapsed>>
     /\ UNCHANGED <<trusted, quit, loop>>

(* Mutant of Leave: the peers are not asked to disconnect.                 *)
LeaveQuietly ==
  /\ loop = "run" /\ quit
  /\ loop' = "drain"
  /\ UNCHANGED <<peers, inboundCount, trusted, dialvars, elapsed, conns, disc, quit>>

(* The loop sees the quit and asks every peer to disconnect.               *)
Leave ==
  /\ loop = "run" /\ quit
  /\ loop' = "drain" /\ disc' = disc \cup Connected
  /\ UNCHANGED <<peers, inboundCount, trusted, dialvars, elapsed, conns, quit>>

Return ==
  /\ loop = "drain" /\ Connected = {}
  /\ loop' = "done"
  /\ UNCHANGED <<peers, inboundCount, trusted, dialvars, elapsed, conns, disc, quit>>

-----------------------------------------------------------------------------
(* The goroutines.                                                         *)
Goroutine == UNCHANGED <<peers, inboundCount, trusted, static, dialing, hist, elapsed, lookup, boot,
                         running, queued, disc, quit, loop>>

(* listenLoop: a slot is taken for every inbound handshake.                *)
Setting(dir) == {n \in Nodes : conns[<<n, dir>>].stage \in {"enc", "post", "proto", "add"}}

Accept(n) ==
  /\ "inbound" \in Users
  /\ ~quit /\ loop = "run" /\ n \notin Barred
  /\ Cardinality(Setting("in")) < MaxPendingPeers
  /\ conns[<<n, "in">>] = Idle
  /\ conns' = [conns EXCEPT ![<<n, "in">>] = [stage |-> "enc", flag |-> "in", trusted |-> FALSE]]
  /\ UNCHANGED doing /\ Goroutine

(* dialTask.Do: the dial, or the second one of a static node after its     *)
(* address was resolved, connects, or every attempt fails.                 *)
DialConnects(n) ==
  /\ doing[n] = "dial" /\ ~quit
  /\ conns' = [conns EXCEPT ![<<n, "out">>] =
                 [stage |-> "enc", flag |-> dialing[n], trusted |-> FALSE]]
  /\ doing' = [doing EXCEPT ![n] = "setup"]
  /\ Goroutine

DialFails(n) ==
  /\ doing[n] = "dial"
  /\ doing' = [doing EXCEPT ![n] = "done"]
  /\ UNCHANGED conns /\ Goroutine

(* setupConn between the checkpoints: the handshakes succeed, or fail.     *)
Handshake(c) ==
  /\ conns[c].stage \in {"enc", "proto"}
  /\ conns' = [conns EXCEPT ![c].stage = IF @ = "enc" THEN "post" ELSE "add"]
  /\ UNCHANGED doing /\ Goroutine

(* A handshake that fails, or a checkpoint given up because of the quit.   *)
SetupFails(c) ==
  /\ conns[c].stage \in {"enc", "proto"} \cup (IF quit THEN {"post", "add"} ELSE {})
  /\ conns' = [conns EXCEPT ![c] = Idle] /\ doing' = Over(c)
  /\ Goroutine

(* Peer.run returns: an error, the remote's wish or ours.                  *)
PeerEnds(c) ==
  /\ conns[c].stage = "peer"
  /\ conns' = [conns EXCEPT ![c].stage = "ended"]
  /\ UNCHANGED doing /\ Goroutine

(* Time: a recent dial is no longer recent; the fallback time comes.       *)
Elapse(n) ==
  /\ n \in hist \ elapsed
  /\ elapsed' = elapsed \cup {n}
  /\ UNCHANGED <<peers, inboundCount, trusted, dialvars, conns, disc, quit, loop>>

Late ==
  /\ Bootnodes # <<>> /\ ~boot.late
  /\ boot' = [boot EXCEPT !.late = TRUE]
  /\ UNCHANGED <<peers, inboundCount, trusted, static, dialing, hist, elapsed, lookup, running,
                 queued, doing, conns, disc, quit, loop>>

Stop ==
  /\ "stop" \in Users /\ ~quit
  /\ quit' = TRUE
  /\ UNCHANGED <<peers, inboundCount, trusted, dialvars, elapsed, conns, disc, loop>>

Next ==
  \/ Begin \/ Leave \/ Return \/ Late \/ Stop
  \/ \E n \in Nodes : \/ AddStatic(n) \/ RemoveStatic(n) \/ (\E v \in BOOLEAN : SetTrusted(n, v))
                       \/ Accept(n) \/ DialConnects(n) \/ DialFails(n) \/ Elapse(n)
  \/ \E t \in running : TaskDone(t)
  \/ \E c \in Conns : PostHandshake(c) \/ AddPeer(c) \/ DelPeer(c)
                      \/ Handshake(c) \/ SetupFails(c) \/ PeerEnds(c)

Spec == Init /\ [][Next]_vars

-----------------------------------------------------------------------------
(* The loop's counters and maps have their types, and no more dial tasks   *)
(* run than there may be.                                                  *)
TypeOK ==
  /\ \A n \in Nodes : peers[n] = None \/ (peers[n].dir \in Dirs /\ peers[n].flag \in {"dyn", "static", "in"})
  /\ inboundCount \in 0 .. Cardinality(Nodes)
  /\ trusted \subseteq Nodes /\ static \subseteq Nodes /\ hist \subseteq Nodes /\ elapsed \subseteq hist
  /\ dialing \in [Nodes -> {"no", "dyn", "static"}]
  /\ doing \in [Nodes -> {"none", "dial", "setup", "done"}]
  /\ Cardinality(running) <= MaxActiveDialTasks
  /\ loop \in {"start", "run", "drain", "done"}

(* The peer map has exactly the peers whose goroutine runs: a connection   *)
(* made while another one of the same node was set up is refused at the    *)
(* second checkpoint, and delpeer, which deletes by id, never deletes the  *)
(* entry of another connection.                                            *)
PeersAreRunning ==
  \A c \in Conns : (conns[c].stage \in {"peer", "ended"}) <=> (peers[c[1]] # None /\ peers[c[1]].dir = c[2])

(* inboundCount is the number of inbound peers, whatever happened to their *)
(* trust since they were added.                                            *)
InboundCounted ==
  loop = "run" => inboundCount = Cardinality({n \in Nodes : peers[n] # None /\ peers[n].dir = "in"})

(* There are never more dynamically dialed peers, with the dials under     *)
(* way, than the dial ratio allows.                                        *)
DynDialsBounded ==
  Cardinality({n \in Nodes : \/ peers[n] # None /\ peers[n].flag = "dyn"
                            \/ dialing[n] = "dyn"}) <= MaxDialedConns

(* Every node being dialed has its task, running or queued, and only one,  *)
(* so that a finished task always frees the node for the next dial.        *)
DialingHasTask ==
  \A n \in Nodes :
    LET mine(t) == t.kind = "dial" /\ t.node = n
        all == Cardinality({t \in running : mine(t)}) + Cardinality({i \in DOMAIN queued : mine(queued[i])})
    IN all = IF dialing[n] = "no" THEN 0 ELSE 1

-----------------------------------------------------------------------------
(* What the server's progress is about: a static node that is connected or *)
(* on its way, and the stop.                                               *)
IsStatic(n) == n \in static
OnItsWay(n) == n \notin static \/ peers[n] # None \/ dialing[n] # "no" \/ quit
AskedToLeave(c) == c[1] \in disc
Stopping == quit
Stopped == loop = "done"
=============================================================================
