------------------------------- MODULE Worker ------------------------------
(***************************************************************************)
(* The goroutines of the worker and their channels (miner/worker.go):      *)
(* mintLoop makes tasks, taskLoop seals them, each in a goroutine of its   *)
(* own, resultLoop writes the sealed blocks, and mainLoop ends a sealing   *)
(* when the head changes.  DposChain says what the blocks are; here they   *)
(* have no content.                                                        *)
(*                                                                         *)
(* Three goroutines close w.quitCh and replace it, without a lock, in two  *)
(* steps.  quitClosed tells whether the channel the field holds is closed. *)
(* A sealing goroutine keeps the channel it was given: it is "live" while  *)
(* that is the field's channel and open, "stopped" once it was closed, and *)
(* "lost" if it was replaced without having been closed.  Closing a closed *)
(* channel panics.                                                         *)
(***************************************************************************)
EXTENDS Naturals, Sequences, FiniteSets

CONSTANTS
  Seal,             \* the sealing goroutines there may be at once: a bound
  ResultQueueSize,  \* capacity of resultCh
  ChainHeadChanSize \* capacity of chainHeadCh

VARIABLES
  running,     \* worker.running
  mint,        \* mintLoop: "off", "select", "send" on taskCh, "make" when stopped
  task,        \* taskLoop: "select", "close", "make", "seal", and the same on exit
  main,        \* mainLoop: "select", "make", "end"
  result,      \* resultLoop: "select", "post", "end"
  seal,        \* seal[s]: a sealing goroutine, "none" when there is none
  quitClosed,  \* the channel in w.quitCh is closed
  resultCh,    \* the results on their way: "block" or "nil"
  headCh,      \* the number of head events on their way to mainLoop
  exit,        \* exitCh is closed
  panic        \* quitCh was closed twice

vars == <<running, mint, task, main, result, seal, quitClosed, resultCh, headCh, exit, panic>>

Init == /\ running = FALSE
        /\ mint = "off"
        /\ task = "select"
        /\ main = "select"
        /\ result = "select"
        /\ seal = [s \in Seal |-> "none"]
        /\ quitClosed = FALSE
        /\ resultCh = <<>>
        /\ headCh = 0
        /\ exit = FALSE
        /\ panic = FALSE

-----------------------------------------------------------------------------
(* close(w.quitCh) and w.quitCh = make(...).                               *)

CloseQuit == /\ panic' = quitClosed
             /\ quitClosed' = TRUE
             /\ seal' = [s \in Seal |-> IF seal[s] = "live" THEN "stopped" ELSE seal[s]]

MakeQuit == /\ quitClosed' = FALSE
            /\ seal' = [s \in Seal |-> IF seal[s] = "live" THEN "lost" ELSE seal[s]]

-----------------------------------------------------------------------------
(* mintLoop.                                                               *)

\* worker.start.
Start == /\ mint = "off" /\ ~running
         /\ running' = TRUE
         /\ mint' = "select"
         /\ UNCHANGED <<task, main, result, seal, quitClosed, resultCh, headCh, exit, panic>>

\* worker.stop: the loop comes to see it.
Stop == /\ running
        /\ running' = FALSE
        /\ UNCHANGED <<mint, task, main, result, seal, quitClosed, resultCh, headCh, exit, panic>>

\* A tick in the validator's slot: createNewWork up to commit's send, which
\* happens only while the worker is running.
mintBlock == /\ mint = "select" /\ running
             /\ mint' = "send"
             /\ UNCHANGED <<running, task, main, result, seal, quitClosed, resultCh, headCh, exit, panic>>

\* Mutant of commitSends: the sealing of the task before goes on.
commitSendsBeside == /\ mint = "send" /\ task = "select"
                     /\ mint' = "select"
                     /\ task' \in {"select", "seal"}
                     /\ UNCHANGED <<running, main, result, seal, quitClosed, resultCh, headCh, exit, panic>>

\* commit gives its task to taskLoop, which drops it if it is the last one
\* again, ...
commitSends == /\ mint = "send" /\ task = "select"
               /\ mint' = "select"
               /\ task' \in {"select", "close"}
               /\ UNCHANGED <<running, main, result, seal, quitClosed, resultCh, headCh, exit, panic>>

\* Mutant of commitExits: only taskLoop is waited for.
commitWaits == /\ mint = "send" /\ exit /\ task = "select"
               /\ mint' = "select"
               /\ UNCHANGED <<running, task, main, result, seal, quitClosed, resultCh, headCh, exit, panic>>

\* ... or notices that the worker has exited.
commitExits == /\ mint = "send" /\ exit
               /\ mint' = "select"
               /\ UNCHANGED <<running, task, main, result, seal, quitClosed, resultCh, headCh, exit, panic>>

mintLoopStops == /\ mint = "select" /\ ~running
                 /\ CloseQuit
                 /\ mint' = "make"
                 /\ UNCHANGED <<running, task, main, result, resultCh, headCh, exit>>

mintLoopReturns == /\ mint = "make"
                   /\ MakeQuit
                   /\ mint' = "off"
                   /\ UNCHANGED <<running, task, main, result, resultCh, headCh, exit, panic>>

-----------------------------------------------------------------------------
(* taskLoop and the sealing goroutines.                                    *)

\* interrupt ends the sealing of the task before, ...
interrupt == /\ task \in {"close", "exitClose"}
             /\ CloseQuit
             /\ task' = IF task = "close" THEN "make" ELSE "exitMake"
             /\ UNCHANGED <<running, mint, main, result, resultCh, headCh, exit>>

interruptMakes == /\ task \in {"make", "exitMake"}
                  /\ MakeQuit
                  /\ task' = IF task = "make" THEN "seal" ELSE "end"
                  /\ UNCHANGED <<running, mint, main, result, resultCh, headCh, exit, panic>>

\* ... and the new task is sealed with the channel the field then holds.
goSeal == /\ task = "seal"
          /\ \E s \in Seal :
               /\ seal[s] = "none"
               /\ seal' = [seal EXCEPT ![s] = IF quitClosed THEN "stopped" ELSE "live"]
          /\ task' = "select"
          /\ UNCHANGED <<running, mint, main, result, quitClosed, resultCh, headCh, exit, panic>>

taskLoopExits == /\ task = "select" /\ exit
                 /\ task' = "exitClose"
                 /\ UNCHANGED <<running, mint, main, result, seal, quitClosed, resultCh, headCh, exit, panic>>

\* The engine's Seal: the slot comes, whether the channel is closed or not, ...
SealDone(s) == /\ seal[s] \in {"live", "stopped", "lost"}
               /\ seal' = [seal EXCEPT ![s] = "block"]
               /\ UNCHANGED <<running, mint, task, main, result, quitClosed, resultCh, headCh, exit, panic>>

\* ... or the channel is closed, or signing fails.
SealStopped(s) == /\ seal[s] \in {"live", "stopped", "lost"}
                  /\ seal' = [seal EXCEPT ![s] = "nil"]
                  /\ UNCHANGED <<running, mint, task, main, result, quitClosed, resultCh, headCh, exit, panic>>

sealSends(s) == /\ seal[s] \in {"block", "nil"}
                /\ Len(resultCh) < ResultQueueSize
                /\ resultCh' = Append(resultCh, seal[s])
                /\ seal' = [seal EXCEPT ![s] = "none"]
                /\ UNCHANGED <<running, mint, task, main, result, quitClosed, headCh, exit, panic>>

sealExits(s) == /\ seal[s] \in {"block", "nil"} /\ exit
                /\ seal' = [seal EXCEPT ![s] = "none"]
                /\ UNCHANGED <<running, mint, task, main, result, quitClosed, resultCh, headCh, exit, panic>>

-----------------------------------------------------------------------------
(* resultLoop and mainLoop.                                                *)

\* A nil result, a block the chain has and one that cannot be written are
\* skipped; a block that becomes the head is announced.
takeResult == /\ result = "select" /\ resultCh # <<>>
              /\ resultCh' = Tail(resultCh)
              /\ result' \in IF Head(resultCh) = "nil" THEN {"select"} ELSE {"select", "post"}
              /\ UNCHANGED <<running, mint, task, main, seal, quitClosed, headCh, exit, panic>>

\* The feed waits for room in chainHeadCh, unless mainLoop has unsubscribed.
postHead == /\ result = "post"
            /\ main = "end" \/ headCh < ChainHeadChanSize
            /\ headCh' = IF main = "end" THEN headCh ELSE headCh + 1
            /\ result' = "select"
            /\ UNCHANGED <<running, mint, task, main, seal, quitClosed, resultCh, exit, panic>>

resultLoopExits == /\ result = "select" /\ exit
                   /\ result' = "end"
                   /\ UNCHANGED <<running, mint, task, main, seal, quitClosed, resultCh, headCh, exit, panic>>

\* The head changes with an imported block.
importHead == /\ main # "end" /\ headCh < ChainHeadChanSize
              /\ headCh' = headCh + 1
              /\ UNCHANGED <<running, mint, task, main, result, seal, quitClosed, resultCh, exit, panic>>

takeHead == /\ main = "select" /\ headCh > 0
            /\ CloseQuit
            /\ headCh' = headCh - 1
            /\ main' = "make"
            /\ UNCHANGED <<running, mint, task, result, resultCh, exit>>

mainLoopMakes == /\ main = "make"
                 /\ MakeQuit
                 /\ main' = "select"
                 /\ UNCHANGED <<running, mint, task, result, resultCh, headCh, exit, panic>>

mainLoopExits == /\ main = "select" /\ exit
                 /\ main' = "end"
                 /\ UNCHANGED <<running, mint, task, result, seal, quitClosed, resultCh, headCh, exit, panic>>

\* worker.close: closes exitCh and empties resultCh.
close == /\ ~exit
         /\ exit' = TRUE
         /\ resultCh' = <<>>
         /\ UNCHANGED <<running, mint, task, main, result, seal, quitClosed, headCh, panic>>

-----------------------------------------------------------------------------

MintStep == mintBlock \/ commitSends \/ commitExits \/ mintLoopStops \/ mintLoopReturns

TaskStep == interrupt \/ interruptMakes \/ goSeal \/ taskLoopExits

SealStep(s) == SealDone(s) \/ SealStopped(s) \/ sealSends(s) \/ sealExits(s)

ResultStep == takeResult \/ postHead \/ resultLoopExits

MainStep == takeHead \/ mainLoopMakes \/ mainLoopExits

Next == /\ ~panic
        /\ \/ Start \/ Stop \/ close \/ importHead
           \/ MintStep \/ TaskStep \/ ResultStep \/ MainStep
           \/ \E s \in Seal : SealStep(s)

Spec == Init /\ [][Next]_vars

-----------------------------------------------------------------------------
(* Properties.                                                             *)

TypeOK == /\ {running, quitClosed, exit, panic} \subseteq BOOLEAN
          /\ mint \in {"off", "select", "send", "make"}
          /\ task \in {"select", "close", "make", "seal", "exitClose", "exitMake", "end"}
          /\ main \in {"select", "make", "end"}
          /\ result \in {"select", "post", "end"}
          /\ seal \in [Seal -> {"none", "live", "stopped", "lost", "block", "nil"}]
          /\ Len(resultCh) <= ResultQueueSize
          /\ headCh \in 0 .. ChainHeadChanSize

\* Whatever goroutine replaces quitCh, no sealing goroutine is left with a
\* channel nobody can close: the races on quitCh end in a panic or in nothing.
AbortReachesSeals == \A s \in Seal : seal[s] # "lost"

\* A new task ends the sealing of the one before: two blocks are never sealed
\* at once without one of them having been told to stop.
OneLiveSeal == Cardinality({s \in Seal : seal[s] = "live"}) <= 1

\* All that interrupt promises of the sealing goroutines.
SealsAreAborted == TypeOK /\ AbortReachesSeals /\ OneLiveSeal

\* What the worker's progress is about; a panic ends the process.
Alive == ~panic
ToldToStop(s) == seal[s] # "live"
Committing == mint = "send"
Committed == mint # "send" \/ panic
SealsOldHead(s) == seal[s] = "live" /\ headCh > 0 /\ ~exit
SealGivenUp(s) == seal[s] # "live" \/ exit \/ panic
Closing == exit
Closed == panic \/ /\ main = "end" /\ task = "end" /\ result = "end"
                   /\ \A s \in Seal : seal[s] = "none"
=============================================================================
