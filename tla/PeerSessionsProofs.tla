------------------------- MODULE PeerSessionsProofs ------------------------
(***************************************************************************)
(* For every number of connections: a connection that has ended is in      *)
(* neither register, no term channel is closed twice, and once Stop has    *)
(* returned there are no peers.  The invariant says of each connection     *)
(* where its handler is while it is registered, and of pm.wg that it       *)
(* counts the handlers between wg.Add and wg.Done; only with it does       *)
(* wg.Wait mean that the set, which takes no peers any more, is empty.     *)
(***************************************************************************)
EXTENDS PeerSessions, FiniteSetTheorems, TLAPS

(* The handlers between wg.Add and wg.Done.                                *)
Counted == {s \in Session : pc[s] \notin {"run", "accepted", "ended"}}

(* A registered connection has its handler past Register and not yet past  *)
(* its removal, and its term channel open, which it also is before.        *)
Registered(s) ==
  /\ s \in peers => pc[s] \in {"registered", "serve", "remove", "unregister"}
  /\ s \in peers \/ pc[s] \in {"run", "accepted", "handle", "handshake", "register"}
       => closes[s] = 0
  /\ closes[s] \in {0, 1}

(* When no other goroutine removes a connection before the downloader has  *)
(* it, the downloader's connections are registered, and a removal under    *)
(* way has taken it from the downloader before it takes it from the set.   *)
Enlisted(s) ==
  /\ s \in downloader => s \in peers /\ pc[s] \in {"serve", "remove"}
  /\ drop[s] # "no" => pc[s] \in {"serve", "remove", "unregister", "leave", "ended"}
  /\ drop[s] = "unregister" => s \notin downloader
  /\ pc[s] = "registered" => s \in peers

(* Stop has closed the set before it waits, and finds it empty.            *)
StopInv ==
  /\ closed <=> stop \in {"closed", "returned"}
  /\ stop = "returned" => peers = {}

SessionsInv ==
  /\ TypeOK
  /\ \A s \in Session : Registered(s)
  /\ EarlyDrops \/ \A s \in Session : Enlisted(s)
  /\ wg = Cardinality(Counted)
  /\ StopInv

SessionStep(s) ==
  \/ Accept(s) \/ Quit(s) \/ Join(s) \/ Admit(s) \/ Handshake(s)
  \/ Register(s) \/ Enlist(s) \/ Fail(s)
  \/ RemoveFirst(s) \/ RemoveThen(s) \/ Leave(s)
  \/ Drop(s) \/ DropFirst(s) \/ DropThen(s)
  \/ BroadcastEnds(s)

StopStep == NoMorePeers \/ CloseQuitSync \/ ClosePeers \/ Wait

LEMMA NextIs == Next <=> (\E s \in Session : SessionStep(s)) \/ StopStep
BY DEF Next, SessionStep, StopStep

-----------------------------------------------------------------------------
LEMMA SessionsFinite ==
  ASSUME NEW S \in SUBSET Session
  PROVE  /\ IsFiniteSet(S)
         /\ Cardinality(S) \in 0 .. Cardinality(Session)
<1>1. Cardinality(Session) \in Nat
  BY SessionAssumption, FS_CardinalityType
<1>2. IsFiniteSet(S) /\ Cardinality(S) <= Cardinality(Session)
  BY SessionAssumption, FS_Subset
<1>3. Cardinality(S) \in Nat
  BY <1>2, FS_CardinalityType
<1> QED
  BY <1>1, <1>2, <1>3

LEMMA CountedFinite ==
  /\ IsFiniteSet(Counted)
  /\ Cardinality(Counted) \in 0 .. Cardinality(Session)
<1>1. Counted \subseteq Session
  BY DEF Counted
<1> QED
  BY <1>1, SessionsFinite

(* What a step does to the number of counted handlers.                     *)
LEMMA CountedStep ==
  ASSUME TypeOK, NEW s \in Session, NEW to,
         pc' = [pc EXCEPT ![s] = to]
  PROVE  /\ s \in Counted /\ to \notin {"run", "accepted", "ended"} => Counted' = Counted
         /\ s \notin Counted /\ to \in {"run", "accepted", "ended"} => Counted' = Counted
         /\ s \notin Counted /\ to \notin {"run", "accepted", "ended"}
              => Cardinality(Counted') = Cardinality(Counted) + 1
         /\ s \in Counted /\ to \in {"run", "accepted", "ended"}
              => Cardinality(Counted') = Cardinality(Counted) - 1
<1>1. \A t \in Session : pc'[t] = IF t = s THEN to ELSE pc[t]
  BY DEF TypeOK
<1>2. to \notin {"run", "accepted", "ended"} => Counted' = Counted \cup {s}
  BY <1>1 DEF Counted
<1>3. to \in {"run", "accepted", "ended"} => Counted' = Counted \ {s}
  BY <1>1 DEF Counted
<1>4. /\ s \notin Counted => Cardinality(Counted \cup {s}) = Cardinality(Counted) + 1
      /\ s \in Counted => Cardinality(Counted \ {s}) = Cardinality(Counted) - 1
  BY CountedFinite, FS_AddElement, FS_RemoveElement
<1> QED
  BY <1>2, <1>3, <1>4

-----------------------------------------------------------------------------
LEMMA InitSessionsInv ==
  ASSUME Init
  PROVE  SessionsInv
<1>1. Counted = {}
  BY DEF Init, Counted
<1>2. wg = Cardinality(Counted)
  BY <1>1, FS_EmptySet DEF Init
<1>3. wg \in 0 .. Cardinality(Session)
  BY <1>2, CountedFinite
<1>4. TypeOK
  BY <1>3 DEF Init, TypeOK
<1>5. \A s \in Session : Registered(s) /\ Enlisted(s)
  BY DEF Init, Registered, Enlisted
<1>6. StopInv
  BY DEF Init, StopInv
<1> QED
  BY <1>2, <1>4, <1>5, <1>6 DEF SessionsInv

(* A step of one connection keeps what is known of all of them.            *)
LEMMA StepRegistered ==
  ASSUME TypeOK, \A t \in Session : Registered(t), NEW s \in Session, SessionStep(s)
  PROVE  \A t \in Session : Registered(t)'
<1> SUFFICES ASSUME NEW t \in Session PROVE Registered(t)'
  OBVIOUS
<1> USE DEF TypeOK, Registered, Goto
<1>1. CASE Accept(s) \/ Quit(s) \/ Join(s)
  BY <1>1 DEF Accept, Quit, Join
<1>2. CASE Admit(s) \/ Handshake(s)
  BY <1>2 DEF Admit, Handshake
<1>3. CASE Register(s)
  BY <1>3 DEF Register
<1>4. CASE Enlist(s) \/ Fail(s)
  BY <1>4 DEF Enlist, Fail
<1>5. CASE RemoveFirst(s)
  BY <1>5 DEF RemoveFirst
<1>6. CASE RemoveThen(s)
  BY <1>6 DEF RemoveThen, Unregister
<1>7. CASE Leave(s)
  BY <1>7 DEF Leave
<1>8. CASE Drop(s) \/ DropFirst(s) \/ BroadcastEnds(s)
  BY <1>8 DEF Drop, DropFirst, BroadcastEnds
<1>9. CASE DropThen(s)
  BY <1>9 DEF DropThen, Unregister
<1> QED
  BY <1>1, <1>2, <1>3, <1>4, <1>5, <1>6, <1>7, <1>8, <1>9 DEF SessionStep

LEMMA StepEnlisted ==
  ASSUME TypeOK, \A t \in Session : Registered(t), ~EarlyDrops,
         \A t \in Session : Enlisted(t), NEW s \in Session, SessionStep(s)
  PROVE  \A t \in Session : Enlisted(t)'
<1> SUFFICES ASSUME NEW t \in Session PROVE Enlisted(t)'
  OBVIOUS
<1> USE DEF TypeOK, Enlisted, Goto
<1>1. CASE Accept(s) \/ Quit(s) \/ Join(s)
  BY <1>1 DEF Accept, Quit, Join
<1>2. CASE Admit(s) \/ Handshake(s)
  BY <1>2 DEF Admit, Handshake
<1>3. CASE Register(s)
  BY <1>3 DEF Register
<1>4. CASE Enlist(s) \/ Fail(s)
  BY <1>4 DEF Enlist, Fail
<1>5. CASE RemoveFirst(s)
  BY <1>5 DEF RemoveFirst
<1>6. CASE RemoveThen(s)
  BY <1>6 DEF RemoveThen, Unregister
<1>7. CASE Leave(s)
  BY <1>7 DEF Leave
<1>8. CASE Drop(s)
  BY <1>8 DEF Drop, Registered
<1>9. CASE DropFirst(s) \/ BroadcastEnds(s)
  BY <1>9 DEF DropFirst, BroadcastEnds
<1>10. CASE DropThen(s)
  BY <1>10 DEF DropThen, Unregister
<1> QED
  BY <1>1, <1>2, <1>3, <1>4, <1>5, <1>6, <1>7, <1>8, <1>9, <1>10 DEF SessionStep

(* pm.wg goes up and down with the handlers it counts.                     *)
LEMMA StepCounted ==
  ASSUME TypeOK, wg = Cardinality(Counted), NEW s \in Session, SessionStep(s)
  PROVE  wg' = Cardinality(Counted')
<1>1. CASE Accept(s) \/ Quit(s)
  <2>1. PICK to \in {"accepted", "ended"} : pc[s] = "run" /\ pc' = [pc EXCEPT ![s] = to] /\ wg' = wg
    BY <1>1 DEF Accept, Quit, Goto
  <2>2. Counted' = Counted
    BY <2>1, CountedStep DEF Counted
  <2> QED
    BY <2>1, <2>2
<1>2. CASE Join(s)
  <2>1. pc[s] = "accepted" /\ pc' = [pc EXCEPT ![s] = "handle"] /\ wg' = wg + 1
    BY <1>2 DEF Join, Goto
  <2>2. Cardinality(Counted') = Cardinality(Counted) + 1
    BY <2>1, CountedStep DEF Counted
  <2> QED
    BY <2>1, <2>2
<1>3. CASE Leave(s)
  <2>1. pc[s] = "leave" /\ pc' = [pc EXCEPT ![s] = "ended"] /\ wg' = wg - 1
    BY <1>3 DEF Leave, Goto
  <2>2. Cardinality(Counted') = Cardinality(Counted) - 1
    BY <2>1, CountedStep DEF Counted
  <2> QED
    BY <2>1, <2>2
<1>4. CASE \/ Admit(s) \/ Handshake(s) \/ Register(s) \/ Enlist(s) \/ Fail(s)
           \/ RemoveFirst(s) \/ RemoveThen(s)
  <2>1. PICK to \in {"leave", "handshake", "register", "registered", "serve", "remove", "unregister"} :
          /\ pc[s] \in {"handle", "handshake", "register", "registered", "serve", "remove", "unregister"}
          /\ pc' = [pc EXCEPT ![s] = to] /\ wg' = wg
    BY <1>4 DEF Admit, Handshake, Register, Enlist, Fail, RemoveFirst, RemoveThen, Goto
  <2>2. Counted' = Counted
    BY <2>1, CountedStep DEF Counted
  <2> QED
    BY <2>1, <2>2
<1>5. CASE Drop(s) \/ DropFirst(s) \/ DropThen(s) \/ BroadcastEnds(s)
  BY <1>5 DEF Drop, DropFirst, DropThen, BroadcastEnds, Counted
<1> QED
  BY <1>1, <1>2, <1>3, <1>4, <1>5 DEF SessionStep

LEMMA StepStopInv ==
  ASSUME TypeOK, StopInv, NEW s \in Session, SessionStep(s)
  PROVE  StopInv'
<1> USE DEF TypeOK, StopInv, Goto
<1>1. CASE Accept(s) \/ Quit(s) \/ Join(s) \/ Admit(s) \/ Handshake(s) \/ Enlist(s) \/ Fail(s)
  BY <1>1 DEF Accept, Quit, Join, Admit, Handshake, Enlist, Fail
<1>2. CASE Register(s)
  BY <1>2 DEF Register
<1>3. CASE RemoveFirst(s) \/ Leave(s) \/ Drop(s) \/ DropFirst(s) \/ BroadcastEnds(s)
  BY <1>3 DEF RemoveFirst, Leave, Drop, DropFirst, BroadcastEnds
<1>4. CASE RemoveThen(s) \/ DropThen(s)
  BY <1>4 DEF RemoveThen, DropThen, Unregister
<1> QED
  BY <1>1, <1>2, <1>3, <1>4 DEF SessionStep

LEMMA StepTypeOK ==
  ASSUME TypeOK, NEW s \in Session, SessionStep(s), wg' \in 0 .. Cardinality(Session)
  PROVE  TypeOK'
<1> USE DEF TypeOK, Goto
<1>1. CASE Accept(s) \/ Quit(s) \/ Join(s) \/ Admit(s) \/ Handshake(s)
  BY <1>1 DEF Accept, Quit, Join, Admit, Handshake
<1>2. CASE Register(s) \/ Enlist(s) \/ Fail(s) \/ RemoveFirst(s)
  BY <1>2 DEF Register, Enlist, Fail, RemoveFirst
<1>3. CASE RemoveThen(s) \/ DropThen(s)
  BY <1>3 DEF RemoveThen, DropThen, Unregister
<1>4. CASE Leave(s) \/ Drop(s) \/ DropFirst(s) \/ BroadcastEnds(s)
  BY <1>4 DEF Leave, Drop, DropFirst, BroadcastEnds
<1> QED
  BY <1>1, <1>2, <1>3, <1>4 DEF SessionStep

(* Stop moves on; when wg.Wait returns no handler is left that could be    *)
(* registered.                                                             *)
LEMMA StopSessionsInv ==
  ASSUME SessionsInv, StopStep
  PROVE  SessionsInv'
<1>1. UNCHANGED <<pc, peers, downloader, closes, broadcast, wg, drop>>
  BY DEF StopStep, NoMorePeers, CloseQuitSync, ClosePeers, Wait
<1>2. TypeOK'
  BY <1>1 DEF SessionsInv, TypeOK, StopStep, NoMorePeers, CloseQuitSync, ClosePeers, Wait
<1>3. \A s \in Session : (Registered(s) => Registered(s)') /\ (Enlisted(s) => Enlisted(s)')
  BY <1>1 DEF Registered, Enlisted
<1>4. wg' = Cardinality(Counted')
  <2>1. Counted' = Counted
    BY <1>1 DEF Counted
  <2> QED
    BY <1>1, <2>1 DEF SessionsInv
<1>5. CASE NoMorePeers \/ CloseQuitSync \/ ClosePeers
  <2>1. StopInv'
    BY <1>5 DEF SessionsInv, StopInv, TypeOK, NoMorePeers, CloseQuitSync, ClosePeers
  <2> QED
    BY <1>2, <1>3, <1>4, <2>1 DEF SessionsInv
<1>6. CASE Wait
  <2>1. Counted = {}
    BY <1>6, CountedFinite, FS_EmptySet DEF Wait, SessionsInv
  <2>2. peers = {}
    BY <2>1 DEF SessionsInv, TypeOK, Registered, Counted
  <2>3. StopInv'
    BY <1>6, <2>2 DEF Wait, SessionsInv, StopInv
  <2> QED
    BY <1>2, <1>3, <1>4, <2>3 DEF SessionsInv
<1> QED
  BY <1>5, <1>6 DEF StopStep

-----------------------------------------------------------------------------
(* For every set of connections: a connection that has ended is in neither *)
(* register (when no removal comes between the two registrations), its     *)
(* term channel is closed at most once, and once Stop has returned no peer *)
(* is registered or registers.                                             *)
THEOREM SessionsAlwaysForgotten == Spec => []SessionsAreForgotten
<1>1. Init => SessionsInv
  BY InitSessionsInv
<1>2. SessionsInv /\ [Next]_vars => SessionsInv'
  <2> SUFFICES ASSUME SessionsInv, [Next]_vars PROVE SessionsInv'
    OBVIOUS
  <2>1. ASSUME NEW s \in Session, SessionStep(s) PROVE SessionsInv'
    <3>1. /\ TypeOK /\ \A t \in Session : Registered(t)
          /\ wg = Cardinality(Counted) /\ StopInv
      BY DEF SessionsInv
    <3>2. wg' = Cardinality(Counted')
      BY <2>1, <3>1, StepCounted
    <3>3. TypeOK'
      <4>1. Cardinality(Counted') \in 0 .. Cardinality(Session)
        <5>1. Counted' \subseteq Session
          BY DEF Counted
        <5> QED
          BY <5>1, SessionsFinite
      <4> QED
        BY <2>1, <3>1, <3>2, <4>1, StepTypeOK
    <3>4. \A t \in Session : Registered(t)'
      BY <2>1, <3>1, StepRegistered
    <3>5. EarlyDrops \/ \A t \in Session : Enlisted(t)'
      BY <2>1, <3>1, StepEnlisted DEF SessionsInv
    <3>6. StopInv'
      BY <2>1, <3>1, StepStopInv
    <3> QED
      BY <3>2, <3>3, <3>4, <3>5, <3>6 DEF SessionsInv
  <2>2. CASE UNCHANGED vars
    BY <2>2 DEF vars, SessionsInv, TypeOK, Registered, Enlisted, StopInv, Counted
  <2> QED
    BY <2>1, <2>2, NextIs, StopSessionsInv
<1>3. SessionsInv => SessionsAreForgotten
  BY DEF SessionsInv, SessionsAreForgotten, EndedIsForgotten, TermClosedOnce, StoppedHasNoPeers,
         Registered, Enlisted, StopInv, TypeOK
<1> QED
  BY <1>1, <1>2, <1>3, PTL DEF Spec
=============================================================================
