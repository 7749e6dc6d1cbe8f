----------------------------- MODULE Synchronise -----------------------------
(***************************************************************************)
(* synchronise (eth/sync.go) and the fetcher's inserter (eth/handler.go):  *)
(* goroutines that each choose between a fast and a full sync from the     *)
(* fastSync flag and then call the downloader, which serves one of them.   *)
(* The chain is abstracted to the total difficulty of its current block    *)
(* and of its current fast block, 0 for the genesis block.                 *)
(***************************************************************************)
EXTENDS Integers

CONSTANTS
  Routine,    \* the goroutines that may run synchronise at once
  MaxTd       \* the total difficulty of the best peer

Td == 0 .. MaxTd

VARIABLES
  fastSync, acceptTxs,   \* the two flags of the protocol manager
  current, fast,         \* CurrentBlock and CurrentFastBlock
  downloading,           \* what the downloader is doing
  routine,               \* where each goroutine is, with what it has read
  inserting              \* the fetcher's inserter has passed its check

vars == <<fastSync, acceptTxs, current, fast, downloading, routine, inserting>>

Larger(a, b) == IF a > b THEN a ELSE b

Idle == [pc |-> "idle", td |-> 0, genesis |-> FALSE, mode |-> "full"]

(* NewProtocolManager, on a database that a fast sync may have been        *)
(* interrupted in; fast sync is granted to an empty chain only.            *)
Init ==
  /\ current \in Td /\ fast \in current .. MaxTd - 1
  /\ fastSync \in IF current > 0 THEN {FALSE} ELSE BOOLEAN
  /\ acceptTxs = FALSE
  /\ downloading = "nothing"
  /\ routine = [r \in Routine |-> Idle]
  /\ inserting = FALSE

(* synchronise: the peer's total difficulty must be above ours.            *)
Begin(r, td) ==
  /\ routine[r].pc = "idle"
  /\ td > current
  /\ routine' = [routine EXCEPT ![r] = [Idle EXCEPT !.pc = "decide", !.td = td,
                                                   !.genesis = (current = 0)]]
  /\ UNCHANGED <<fastSync, acceptTxs, current, fast, downloading, inserting>>

(* The mode: fast when the flag says so, or when only the fast block is    *)
(* ahead of the genesis block, which sets the flag again.                  *)
Decide(r) ==
  /\ routine[r].pc = "decide"
  /\ LET resume == routine[r].genesis /\ fast > 0
     IN /\ fastSync' = (fastSync \/ resume)
        /\ routine' = [routine EXCEPT ![r].pc = "check",
                          ![r].mode = IF fastSync \/ resume THEN "fast" ELSE "full"]
  /\ UNCHANGED <<acceptTxs, current, fast, downloading, inserting>>

(* A fast sync needs a peer above the fast block too.                      *)
Check(r) ==
  /\ routine[r].pc = "check"
  /\ routine' = [routine EXCEPT ![r] =
       IF @.mode = "fast" /\ fast >= @.td THEN Idle ELSE [@ EXCEPT !.pc = "start"]]
  /\ UNCHANGED <<fastSync, acceptTxs, current, fast, downloading, inserting>>

(* Downloader.Synchronise: busy, or the sync starts.                       *)
Start(r) ==
  /\ routine[r].pc = "start"
  /\ \/ /\ downloading = "nothing"
        /\ downloading' = routine[r].mode
        /\ routine' = [routine EXCEPT ![r].pc = "sync"]
     \/ /\ downloading # "nothing"
        /\ routine' = [routine EXCEPT ![r] = Idle]
        /\ UNCHANGED downloading
  /\ UNCHANGED <<fastSync, acceptTxs, current, fast, inserting>>

(* The sync ends.  One that fails may have got somewhere: a fast sync      *)
(* leaves the current block where it is.                                   *)
Succeed(r) ==
  /\ routine[r].pc = "sync"
  /\ current' = Larger(current, routine[r].td)
  /\ fast' = Larger(fast, routine[r].td)
  /\ downloading' = "nothing"
  /\ routine' = [routine EXCEPT ![r].pc = "mark"]
  /\ UNCHANGED <<fastSync, acceptTxs, inserting>>

FailSync(r) ==
  /\ routine[r].pc = "sync"
  /\ \E td \in 0 .. routine[r].td - 1 :
       /\ fast' = Larger(fast, td)
       /\ current' = IF downloading = "full" THEN Larger(current, td) ELSE current
  /\ downloading' = "nothing"
  /\ routine' = [routine EXCEPT ![r] = Idle]
  /\ UNCHANGED <<fastSync, acceptTxs, inserting>>

(* After a sync: fast sync off, transactions on.                           *)
Mark(r) ==
  /\ routine[r].pc = "mark"
  /\ fastSync' = FALSE
  /\ acceptTxs' = TRUE
  /\ routine' = [routine EXCEPT ![r] = Idle]
  /\ UNCHANGED <<current, fast, downloading, inserting>>

(* The fetcher's inserter: dropped during fast sync, otherwise imported.   *)
Look ==
  /\ ~inserting /\ ~fastSync
  /\ inserting' = TRUE
  /\ acceptTxs' = TRUE
  /\ UNCHANGED <<fastSync, current, fast, downloading, routine>>

Insert ==
  /\ inserting
  /\ inserting' = FALSE
  /\ current' = IF current < MaxTd THEN current + 1 ELSE current
  /\ fast' = Larger(fast, current')
  /\ UNCHANGED <<fastSync, acceptTxs, downloading, routine>>

Next ==
  \/ \E r \in Routine :
       \/ \E td \in Td : Begin(r, td)
       \/ Decide(r) \/ Check(r) \/ Start(r) \/ Succeed(r) \/ FailSync(r) \/ Mark(r)
  \/ Look \/ Insert

Spec == Init /\ [][Next]_vars

-----------------------------------------------------------------------------
TypeOK ==
  /\ fastSync \in BOOLEAN /\ acceptTxs \in BOOLEAN /\ inserting \in BOOLEAN
  /\ current \in Td /\ fast \in Td /\ current <= fast
  /\ downloading \in {"nothing", "fast", "full"}
  /\ routine \in [Routine -> [pc : {"idle", "decide", "check", "start", "sync", "mark"},
                              td : Td, genesis : BOOLEAN, mode : {"fast", "full"}]]

-----------------------------------------------------------------------------
(* What its progress is about.                                             *)
Accepting == acceptTxs
=============================================================================
