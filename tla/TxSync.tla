------------------------------- MODULE TxSync -------------------------------
(***************************************************************************)
(* txsyncLoop (eth/sync.go): every new connection is sent the pending      *)
(* transactions, in packs, one pack in flight for the whole node.  The     *)
(* connections still to be served are kept by node id, and a node may      *)
(* connect again while the pack of its last connection is in flight.       *)
(***************************************************************************)
EXTENDS Integers

CONSTANTS
  Peer,       \* node ids
  Times,      \* how often a node may connect
  Txs,        \* the pending transactions
  PackSize    \* how many fill a pack

Session == Peer \X (1 .. Times)
None == <<>>

VARIABLES
  conn,       \* what became of each connection
  txs,        \* how many transactions it has still to be sent
  pending,    \* the connection to be served, by node id
  sending,    \* a pack is in flight
  pack,       \* whose
  done        \* the result of the send, waiting in its channel

vars == <<conn, txs, pending, sending, pack, done>>

Init ==
  /\ conn = [s \in Session |-> "new"]
  /\ txs = [s \in Session |-> Txs]
  /\ pending = [p \in Peer |-> None]
  /\ sending = FALSE /\ pack = None /\ done = "none"

(* send: take a pack off the connection's transactions.                    *)
Send(s, waiting) ==
  /\ txs' = [txs EXCEPT ![s] = IF @ <= PackSize THEN 0 ELSE @ - PackSize]
  /\ pending' = [waiting EXCEPT ![s[1]] = IF txs[s] <= PackSize THEN None ELSE @]
  /\ sending' = TRUE
  /\ pack' = s

(* A handler calls syncTransactions; it waits for the loop to take it.     *)
Connect(s) ==
  /\ conn[s] = "new"
  /\ s[2] > 1 => conn[<<s[1], s[2] - 1>>] = "gone"
  /\ conn' = [conn EXCEPT ![s] = "joining"]
  /\ UNCHANGED <<txs, pending, sending, pack, done>>

Disconnect(s) ==
  /\ conn[s] = "served"
  /\ conn' = [conn EXCEPT ![s] = "gone"]
  /\ UNCHANGED <<txs, pending, sending, pack, done>>

(* The loop takes a connection from txsyncCh.                              *)
Take(s) ==
  /\ conn[s] = "joining"
  /\ conn' = [conn EXCEPT ![s] = "served"]
  /\ LET waiting == [pending EXCEPT ![s[1]] = s]
     IN IF sending
        THEN pending' = waiting /\ UNCHANGED <<txs, sending, pack>>
        ELSE Send(s, waiting)
  /\ UNCHANGED done

(* The goroutine that sends the pack: a connection that is gone fails, and *)
(* a send that fails takes its connection down.                            *)
Finish(s) ==
  /\ sending /\ done = "none" /\ pack = s
  /\ \/ conn[s] = "served" /\ done' = "ok" /\ UNCHANGED conn
     \/ done' = "failed" /\ conn' = [conn EXCEPT ![s] = "gone"]
  /\ UNCHANGED <<txs, pending, sending, pack>>

(* The loop takes the result: it drops the node whose send failed, and     *)
(* picks a connection at random for the next pack.                         *)
Finished ==
  /\ done # "none"
  /\ done' = "none"
  /\ LET waiting == IF done = "failed" THEN [pending EXCEPT ![pack[1]] = None] ELSE pending
         left == {p \in Peer : waiting[p] # None}
     IN \/ \E p \in left : Send(waiting[p], waiting)
        \/ left = {} /\ pending' = waiting /\ sending' = FALSE /\ UNCHANGED <<txs, pack>>
  /\ UNCHANGED conn

Next ==
  \/ \E s \in Session : Connect(s) \/ Disconnect(s) \/ Take(s) \/ Finish(s)
  \/ Finished

Spec == Init /\ [][Next]_vars

-----------------------------------------------------------------------------
TypeOK ==
  /\ conn \in [Session -> {"new", "joining", "served", "gone"}]
  /\ txs \in [Session -> 0 .. Txs]
  /\ pending \in [Peer -> Session \cup {None}]
  /\ sending \in BOOLEAN
  /\ pack \in Session \cup {None}
  /\ done \in {"none", "ok", "failed"}

-----------------------------------------------------------------------------
(* What its progress is about.                                             *)
Joining(s) == conn[s] = "joining"
Relayed(s) == conn[s] = "gone" \/ txs[s] = 0
=============================================================================
