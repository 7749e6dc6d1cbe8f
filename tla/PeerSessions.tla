---------------------------- MODULE PeerSessions ----------------------------
(***************************************************************************)
(* The sessions of the eth protocol (eth/handler.go, eth/peer.go): each    *)
(* connection runs a handler that is admitted by the syncer, shakes hands, *)
(* registers, serves messages and is removed, against removePeer called by *)
(* the fetcher and the downloader, the goroutine that broadcasts to the    *)
(* peer, and Stop.                                                         *)
(***************************************************************************)
EXTENDS Integers, FiniteSets

CONSTANTS
  Session,       \* the connections; each has its own peer id
  Trusted,       \* those that ignore maxPeers
  MaxPeers,
  EarlyDrops     \* may removePeer be called for an id before its handler
                 \* serves messages (for a block of an earlier connection)?

ASSUME SessionAssumption == IsFiniteSet(Session) /\ EarlyDrops \in BOOLEAN

VARIABLES
  pc,            \* where each handler is
  peers,         \* pm.peers, and whether it is closed
  closed,
  downloader,    \* the peers the downloader knows
  broadcast,     \* the broadcast goroutine of each peer
  closes,        \* how often each peer's term channel was closed
  disconnected,  \* the connections the node has asked to end
  wg,            \* pm.wg
  drop,          \* a removePeer of another goroutine, per id
  syncer,        \* "running" or "ended"
  stop           \* where Stop is

vars == <<pc, peers, closed, downloader, broadcast, closes, disconnected,
          wg, drop, syncer, stop>>

QuitSync == stop \in {"quit", "closed", "returned"}    \* quitSync is closed

Init ==
  /\ pc = [s \in Session |-> "run"]
  /\ peers = {} /\ closed = FALSE /\ downloader = {}
  /\ broadcast = [s \in Session |-> "none"]
  /\ closes = [s \in Session |-> 0]
  /\ disconnected = {}
  /\ wg = 0
  /\ drop = [s \in Session |-> "no"]
  /\ syncer = "running"
  /\ stop = "no"

Goto(s, from, to) == pc[s] = from /\ pc' = [pc EXCEPT ![s] = to]

-----------------------------------------------------------------------------
(* Run: hand the peer to the syncer, or leave when the node stops.         *)
Accept(s) ==
  /\ Goto(s, "run", "accepted")
  /\ syncer = "running"
  /\ UNCHANGED <<peers, closed, downloader, broadcast, closes, disconnected,
                 wg, drop, syncer, stop>>

Quit(s) ==
  /\ Goto(s, "run", "ended")
  /\ QuitSync
  /\ UNCHANGED <<peers, closed, downloader, broadcast, closes, disconnected,
                 wg, drop, syncer, stop>>

(* wg.Add, the first thing after the syncer took the peer.                 *)
Join(s) ==
  /\ Goto(s, "accepted", "handle")
  /\ wg' = wg + 1
  /\ UNCHANGED <<peers, closed, downloader, broadcast, closes, disconnected,
                 drop, syncer, stop>>

(* handle: too many peers, or on to the handshake.                         *)
Admit(s) ==
  /\ Goto(s, "handle",
          IF Cardinality(peers) >= MaxPeers /\ s \notin Trusted THEN "leave" ELSE "handshake")
  /\ UNCHANGED <<peers, closed, downloader, broadcast, closes, disconnected,
                 wg, drop, syncer, stop>>

(* The handshake succeeds, fails or times out.                             *)
Handshake(s) ==
  /\ \/ Goto(s, "handshake", "register")
     \/ Goto(s, "handshake", "leave")
  /\ UNCHANGED <<peers, closed, downloader, broadcast, closes, disconnected,
                 wg, drop, syncer, stop>>

(* Mutant of Register: a closed set takes new peers.                       *)
RegisterClosed(s) ==
  /\ Goto(s, "register", "registered")
  /\ peers' = peers \cup {s}
  /\ broadcast' = [broadcast EXCEPT ![s] = "running"]
  /\ UNCHANGED <<closed, downloader, closes, disconnected, wg, drop, syncer, stop>>

(* peerSet.Register                                                        *)
Register(s) ==
  /\ Goto(s, "register", IF closed THEN "leave" ELSE "registered")
  /\ peers' = IF closed THEN peers ELSE peers \cup {s}
  /\ broadcast' = IF closed THEN broadcast ELSE [broadcast EXCEPT ![s] = "running"]
  /\ UNCHANGED <<closed, downloader, closes, disconnected, wg, drop, syncer, stop>>

(* downloader.RegisterPeer, then syncTransactions, which the quit channel  *)
(* ends: the handler serves messages from here.                            *)
Enlist(s) ==
  /\ Goto(s, "registered", "serve")
  /\ downloader' = downloader \cup {s}
  /\ UNCHANGED <<peers, closed, broadcast, closes, disconnected, wg, drop,
                 syncer, stop>>

(* A message cannot be read or handled: the handler returns.               *)
Fail(s) ==
  /\ Goto(s, "serve", "remove")
  /\ UNCHANGED <<peers, closed, downloader, broadcast, closes, disconnected,
                 wg, drop, syncer, stop>>

(* peerSet.Unregister: one critical section.                               *)
Unregister(s) ==
  /\ peers' = peers \ {s}
  /\ closes' = IF s \in peers THEN [closes EXCEPT ![s] = @ + 1] ELSE closes

(* The deferred removePeer: nothing if the id is gone, otherwise first     *)
(* from the downloader, then from the set, then the connection.            *)
RemoveFirst(s) ==
  /\ Goto(s, "remove", IF s \in peers THEN "unregister" ELSE "leave")
  /\ downloader' = IF s \in peers THEN downloader \ {s} ELSE downloader
  /\ UNCHANGED <<peers, closed, broadcast, closes, disconnected, wg, drop,
                 syncer, stop>>

RemoveThen(s) ==
  /\ Goto(s, "unregister", "leave")
  /\ Unregister(s)
  /\ disconnected' = disconnected \cup {s}
  /\ UNCHANGED <<closed, downloader, broadcast, wg, drop, syncer, stop>>

(* wg.Done, and the connection ends.                                       *)
Leave(s) ==
  /\ Goto(s, "leave", "ended")
  /\ wg' = wg - 1
  /\ UNCHANGED <<peers, closed, downloader, broadcast, closes, disconnected,
                 drop, syncer, stop>>

-----------------------------------------------------------------------------
(* Another goroutine calls removePeer for an id, in the same three steps.  *)
Drop(s) ==
  /\ drop[s] = "no"
  /\ s \in peers
  /\ EarlyDrops \/ pc[s] # "registered"
  /\ drop' = [drop EXCEPT ![s] = "found"]
  /\ UNCHANGED <<pc, peers, closed, downloader, broadcast, closes,
                 disconnected, wg, syncer, stop>>

DropFirst(s) ==
  /\ drop[s] = "found"
  /\ drop' = [drop EXCEPT ![s] = "unregister"]
  /\ downloader' = downloader \ {s}
  /\ UNCHANGED <<pc, peers, closed, broadcast, closes, disconnected, wg,
                 syncer, stop>>

DropThen(s) ==
  /\ drop[s] = "unregister"
  /\ drop' = [drop EXCEPT ![s] = "done"]
  /\ Unregister(s)
  /\ disconnected' = disconnected \cup {s}
  /\ UNCHANGED <<pc, closed, downloader, broadcast, wg, syncer, stop>>

(* peer.broadcast returns: its term channel is closed or a send fails.     *)
BroadcastEnds(s) ==
  /\ broadcast[s] = "running"
  /\ broadcast' = [broadcast EXCEPT ![s] = "ended"]
  /\ UNCHANGED <<pc, peers, closed, downloader, closes, disconnected, wg,
                 drop, syncer, stop>>

-----------------------------------------------------------------------------
(* Stop meets the syncer on noMorePeers, which ends it.                    *)
NoMorePeers ==
  /\ stop = "no" /\ syncer = "running"
  /\ stop' = "nomore" /\ syncer' = "ended"
  /\ UNCHANGED <<pc, peers, closed, downloader, broadcast, closes,
                 disconnected, wg, drop>>

CloseQuitSync ==
  /\ stop = "nomore"
  /\ stop' = "quit"
  /\ UNCHANGED <<pc, peers, closed, downloader, broadcast, closes,
                 disconnected, wg, drop, syncer>>

(* peerSet.Close                                                           *)
ClosePeers ==
  /\ stop = "quit"
  /\ stop' = "closed"
  /\ closed' = TRUE
  /\ disconnected' = disconnected \cup peers
  /\ UNCHANGED <<pc, peers, downloader, broadcast, closes, wg, drop, syncer>>

(* wg.Wait                                                                 *)
Wait ==
  /\ stop = "closed" /\ wg = 0
  /\ stop' = "returned"
  /\ UNCHANGED <<pc, peers, closed, downloader, broadcast, closes,
                 disconnected, wg, drop, syncer>>

Next ==
  \/ \E s \in Session :
       \/ Accept(s) \/ Quit(s) \/ Join(s) \/ Admit(s) \/ Handshake(s)
       \/ Register(s) \/ Enlist(s) \/ Fail(s)
       \/ RemoveFirst(s) \/ RemoveThen(s) \/ Leave(s)
       \/ Drop(s) \/ DropFirst(s) \/ DropThen(s)
       \/ BroadcastEnds(s)
  \/ NoMorePeers \/ CloseQuitSync \/ ClosePeers \/ Wait

Spec == Init /\ [][Next]_vars

-----------------------------------------------------------------------------
TypeOK ==
  /\ pc \in [Session -> {"run", "accepted", "handle", "handshake", "register",
                         "registered", "serve", "remove", "unregister",
                         "leave", "ended"}]
  /\ peers \subseteq Session /\ downloader \subseteq Session
  /\ disconnected \subseteq Session /\ closed \in BOOLEAN
  /\ broadcast \in [Session -> {"none", "running", "ended"}]
  /\ closes \in [Session -> Nat]
  /\ wg \in 0 .. Cardinality(Session)
  /\ drop \in [Session -> {"no", "found", "unregister", "done"}]
  /\ syncer \in {"running", "ended"}
  /\ stop \in {"no", "nomore", "quit", "closed", "returned"}

(* A connection that has ended has left the peer set and the downloader,   *)
(* whoever removed it and however the two removals interleave; but another *)
(* goroutine's removal between the handler's two registrations             *)
(* (EarlyDrops) leaves the peer in the downloader.                         *)
EndedIsForgotten ==
  \A s \in Session :
    pc[s] = "ended" => s \notin peers /\ (s \in downloader => EarlyDrops)

(* The term channel of a peer is closed at most once, although its handler *)
(* and another goroutine may both be removing it: closing twice panics     *)
(* (peerSet.Unregister checks and closes in one critical section).         *)
TermClosedOnce == \A s \in Session : closes[s] <= 1

(* Once Stop has returned no peer is registered, and none registers later, *)
(* although a handler may still be on its way in.                          *)
StoppedHasNoPeers == stop = "returned" => peers = {}

(* A connection that has ended is in neither the peer set nor the          *)
(* downloader, however its own removal and another one interleave; its     *)
(* term channel is never closed twice; and after Stop has returned no peer *)
(* is registered or registers (removePeer, peerSet, Stop).                 *)
SessionsAreForgotten == TypeOK /\ EndedIsForgotten /\ TermClosedOnce /\ StoppedHasNoPeers

-----------------------------------------------------------------------------
(* What the handlers' progress is about.                                   *)
AskedToLeave(s) == s \in disconnected
TermClosed(s) == closes[s] > 0
Stopping == stop = "nomore"
Stopped == stop = "returned"
Ended(s) == pc[s] = "ended"
Broadcasting(s) == broadcast[s] = "running"
=============================================================================
