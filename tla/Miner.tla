------------------------------- MODULE Miner -------------------------------
(***************************************************************************)
(* The control of the miner: Miner.Start and Stop as the RPC calls them,   *)
(* the update goroutine that follows the downloader (miner/miner.go), and  *)
(* the mint loops that worker.start creates and worker.stop ends           *)
(* (miner/worker.go).                                                      *)
(*                                                                         *)
(* The flags are atomics and the loops share the stopper channel without a *)
(* lock, so that every read and write of them is a step of its own.  A     *)
(* channel is a number: stopper is the one the field holds, closed the set *)
(* of those that were closed.  Closing one twice panics and ends the       *)
(* process.  Worker models what a mint loop does with a tick.              *)
(***************************************************************************)
EXTENDS Naturals, FiniteSets

CONSTANTS
  Caller,  \* the RPC calls that are made, each one operation
  Ops      \* the operations they may be: "start", "stop", "setCoinbase"

\* Every call of Start creates at most one mint loop; it has the call's name.
Loop == Caller \cup {"update"}

VARIABLES
  canStart,        \* mining may start: no sync has begun, or it is over
  shouldStart,     \* mining is wanted
  running,         \* worker.running
  coinbase,        \* Miner.coinbase is set
  workerCoinbase,  \* worker.coinbase is set
  call,            \* call[c]: how far an RPC call, or update's Start, has come
  update,          \* how far the update goroutine has come
  sync,            \* the downloader: "idle" or "syncing"
  loop,            \* loop[l]: a mint loop's place and the channel it waits on
  stopper,         \* the channel in worker.stopper
  closed,          \* the stopper channels that have been closed
  panic            \* a channel was closed twice

vars == <<canStart, shouldStart, running, coinbase, workerCoinbase, call, update,
          sync, loop, stopper, closed, panic>>

flags  == <<canStart, shouldStart, running>>
bases  == <<coinbase, workerCoinbase>>
chans  == <<stopper, closed, panic>>

Init == /\ canStart = TRUE
        /\ shouldStart = FALSE
        /\ running = FALSE
        /\ coinbase = FALSE
        /\ workerCoinbase = FALSE
        /\ call = [c \in Loop |-> "idle"]
        /\ update = "select"
        /\ sync = "idle"
        /\ loop = [l \in Loop |-> [pc |-> "none", ch |-> 0]]
        /\ stopper = 0
        /\ closed = {}
        /\ panic = FALSE

-----------------------------------------------------------------------------
(* worker.start and worker.stop.                                           *)

\* worker.start: sets running and starts another mintLoop.
start(c) == /\ running' = TRUE
            /\ loop' = [loop EXCEPT ![c].pc = "top"]

\* worker.stop: resets running and closes the stopper.
stop == /\ running' = FALSE
        /\ closed' = closed \cup {stopper}
        /\ panic' = (stopper \in closed)
        /\ UNCHANGED stopper

-----------------------------------------------------------------------------
(* Miner.Start and Miner.Stop.                                             *)

\* The RPC starts the miner in a goroutine unless it is mining.
APIStart(c) ==
  /\ "start" \in Ops /\ call[c] = "idle" /\ ~running
  /\ call' = [call EXCEPT ![c] = "start"]
  /\ UNCHANGED <<flags, bases, update, sync, loop, chans>>

\* Start: notes that mining is wanted and sets the worker's coinbase, to the
\* one the call brings or, in update, to the miner's.
StartWanted(c) ==
  /\ call[c] = "start"
  /\ shouldStart' = TRUE
  /\ workerCoinbase' = IF c = "update" THEN coinbase ELSE TRUE
  /\ call' = [call EXCEPT ![c] = "check"]
  /\ UNCHANGED <<canStart, running, coinbase, update, sync, loop, chans>>

\* ... and starts the worker, unless a sync forbids it.
StartAllowed(c) ==
  /\ call[c] = "check" /\ canStart
  /\ start(c)
  /\ call' = [call EXCEPT ![c] = "done"]
  /\ UNCHANGED <<canStart, shouldStart, bases, update, sync, chans>>

StartDeferred(c) ==
  /\ call[c] = "check" /\ ~canStart
  /\ call' = [call EXCEPT ![c] = "deferred"]
  /\ UNCHANGED <<flags, bases, update, sync, loop, chans>>

Stop(c) ==
  /\ "stop" \in Ops /\ call[c] = "idle"
  /\ stop
  /\ call' = [call EXCEPT ![c] = "stop"]
  /\ UNCHANGED <<canStart, shouldStart, bases, update, sync, loop>>

StopUnwanted(c) ==
  /\ call[c] = "stop"
  /\ shouldStart' = FALSE
  /\ call' = [call EXCEPT ![c] = "stopped"]
  /\ UNCHANGED <<canStart, running, bases, update, sync, loop, chans>>

SetCoinbase(c) ==
  /\ "setCoinbase" \in Ops /\ call[c] = "idle"
  /\ coinbase' = TRUE
  /\ workerCoinbase' = TRUE
  /\ call' = [call EXCEPT ![c] = "done"]
  /\ UNCHANGED <<flags, update, sync, loop, chans>>

-----------------------------------------------------------------------------
(* The update goroutine.  The downloader posts an event and waits until    *)
(* update takes it or has unsubscribed.                                    *)

\* StartEvent forbids mining ...
SyncStarts ==
  /\ sync = "idle" /\ update \in {"select", "returned"}
  /\ sync' = "syncing"
  /\ IF update = "returned"
     THEN UNCHANGED <<canStart, update>>
     ELSE canStart' = FALSE /\ update' = "starting"
  /\ UNCHANGED <<shouldStart, running, bases, call, loop, chans>>

\* ... and stops a miner that is mining ...
StopForSync ==
  /\ update = "starting" /\ running
  /\ stop
  /\ update' = "stopped"
  /\ UNCHANGED <<canStart, shouldStart, bases, call, sync, loop>>

NotMining ==
  /\ update = "starting" /\ ~running
  /\ update' = "select"
  /\ UNCHANGED <<flags, bases, call, sync, loop, chans>>

\* ... which is to start again.
WantAfterSync ==
  /\ update = "stopped"
  /\ shouldStart' = TRUE
  /\ update' = "select"
  /\ UNCHANGED <<canStart, running, bases, call, sync, loop, chans>>

\* DoneEvent or FailedEvent: reads shouldStart, allows mining, resets it, ...
SyncEnds ==
  /\ sync = "syncing" /\ update \in {"select", "returned"}
  /\ sync' = "idle"
  /\ update' = IF update = "returned" THEN update
               ELSE IF shouldStart THEN "wanted" ELSE "unwanted"
  /\ UNCHANGED <<flags, bases, call, loop, chans>>

AllowStart ==
  /\ update \in {"wanted", "unwanted"} /\ ~canStart
  /\ canStart' = TRUE
  /\ UNCHANGED <<shouldStart, running, bases, call, update, sync, loop, chans>>

\* ... starts the miner if shouldStart was set, and returns for good.
Restart ==
  /\ update \in {"wanted", "unwanted"} /\ canStart
  /\ shouldStart' = FALSE
  /\ call' = IF update = "wanted" THEN [call EXCEPT !["update"] = "start"] ELSE call
  /\ update' = "returned"
  /\ UNCHANGED <<canStart, running, bases, sync, loop, chans>>

-----------------------------------------------------------------------------
(* mintLoop.                                                               *)

\* The select reads the field anew in every round.
Select(l) ==
  /\ loop[l].pc = "top"
  /\ loop' = [loop EXCEPT ![l] = [pc |-> "select", ch |-> stopper]]
  /\ UNCHANGED <<flags, bases, call, update, sync, chans>>

TickerFires(l) ==
  /\ loop[l].pc = "select"
  /\ loop' = [loop EXCEPT ![l].pc = "mint"]
  /\ UNCHANGED <<flags, bases, call, update, sync, chans>>

MintReturns(l) ==
  /\ loop[l].pc = "mint"
  /\ loop' = [loop EXCEPT ![l].pc = "top"]
  /\ UNCHANGED <<flags, bases, call, update, sync, chans>>

StopperFires(l) ==
  /\ loop[l].pc = "select" /\ loop[l].ch \in closed
  /\ loop' = [loop EXCEPT ![l].pc = "stop"]
  /\ UNCHANGED <<flags, bases, call, update, sync, chans>>

\* The loop that ends makes the channel for the next one.
LoopReturns(l) ==
  /\ loop[l].pc = "stop"
  /\ loop' = [loop EXCEPT ![l].pc = "returned"]
  /\ stopper' = stopper + 1
  /\ UNCHANGED <<flags, bases, call, update, sync, closed, panic>>

-----------------------------------------------------------------------------

LoopStep(l) == \/ Select(l) \/ TickerFires(l) \/ MintReturns(l)
               \/ StopperFires(l) \/ LoopReturns(l)

UpdateStep == StopForSync \/ NotMining \/ WantAfterSync \/ AllowStart \/ Restart

CallStep(c) == StartWanted(c) \/ StartAllowed(c) \/ StartDeferred(c)

\* A panic ends the process.
Next == /\ ~panic
        /\ \/ \E c \in Caller : APIStart(c) \/ Stop(c) \/ StopUnwanted(c) \/ SetCoinbase(c)
           \/ \E c \in Loop : CallStep(c)
           \/ SyncStarts \/ SyncEnds
           \/ UpdateStep
           \/ \E l \in Loop : LoopStep(l)

Spec == Init /\ [][Next]_vars

-----------------------------------------------------------------------------
(* Properties.                                                             *)

TypeOK == /\ {canStart, shouldStart, running, coinbase, workerCoinbase, panic} \subseteq BOOLEAN
          /\ call \in [Loop ->
                {"idle", "start", "check", "deferred", "stop", "stopped", "done"}]
          /\ update \in {"select", "starting", "stopped", "wanted", "unwanted", "returned"}
          /\ sync \in {"idle", "syncing"}
          /\ loop \in [Loop -> [pc : {"none", "top", "select", "mint", "stop", "returned"},
                                ch : 0 .. Cardinality(Loop)]]
          /\ stopper \in 0 .. Cardinality(Loop)
          /\ closed \subseteq 0 .. stopper

Running(l) == loop[l].pc \notin {"none", "returned"}

\* What the miner's progress is about; a panic ends the process.
Alive == ~panic
Forbidden == ~canStart
Allowed == canStart \/ panic
Aborted == update = "stopped"
Resumed == running \/ panic \/ \E c \in Caller : call[c] \in {"stop", "stopped"}
\* A stopped miner with a single mint loop.
StoppedLoop(l) == ~running /\ Running(l) /\ \A k \in Loop \ {l} : loop[k].pc = "none"
LoopEnded(l) == ~Running(l) \/ running \/ panic
=============================================================================
