---------------------------- MODULE SyncPipeline ---------------------------
(***************************************************************************)
(* The goroutines of one sync (eth/downloader/downloader.go) as            *)
(* spawnSync runs them: the header fetcher, the header processor, the body *)
(* and the receipt fetcher and the block importer, with the channels, the  *)
(* closing of the queue and the cancel channel that stop them.  A number   *)
(* stands for a batch of headers; how the batches and their parts come     *)
(* from the peers is left to the modules HeaderFetch and DownloadQueue.    *)
(***************************************************************************)
EXTENDS Integers, Sequences, FiniteSets

CONSTANTS
  Last,     \* the batches the master peer has
  Needed,   \* the parts fetched: bodies in a full sync, both in a fast one
  Queued    \* how many batches may wait for their parts

Part == {"body", "receipt"}

Fetcher == {"headers", "process", "import"} \cup Part

VARIABLES
  pc,         \* what each goroutine does; "ok" or "err" is sent to spawnSync
  results,    \* the results not yet read by spawnSync
  read,       \* how many it has read
  outcome,    \* what the sync returns
  cancelled,  \* the cancel channel is closed
  closed,     \* the queue is closed
  sent,       \* batches the header fetcher has sent
  procCh,     \* the channel to the header processor, of capacity 1
  scheduled,  \* batches the header processor has put into the queue
  got,        \* it has seen any header
  wakeCh,     \* the channel to each part fetcher, of capacity 1
  finished,   \* the part fetcher was told that there is no more
  parts,      \* how many batches have the part
  imported    \* batches handed to the chain

vars == <<pc, results, read, outcome, cancelled, closed, sent, procCh, scheduled, got,
          wakeCh, finished, parts, imported>>
feed == <<sent, procCh, scheduled, got, wakeCh, finished, parts, imported>>

Init ==
  /\ pc = [f \in Fetcher |-> "run"]
  /\ results = <<>> /\ read = 0 /\ outcome = "none"
  /\ cancelled = FALSE /\ closed = FALSE
  /\ sent = 0 /\ procCh = <<>> /\ scheduled = 0 /\ got = FALSE
  /\ wakeCh = [p \in Part |-> <<>>] /\ finished = [p \in Part |-> FALSE]
  /\ parts = [p \in Part |-> 0] /\ imported = 0

(* A goroutine ends and its result goes into a channel with room for all;  *)
(* results that spawnSync will not read any more are left out.             *)
Return(f, r) ==
  /\ pc' = [pc EXCEPT ![f] = r]
  /\ results' = IF outcome = "none" THEN Append(results, r) ELSE results

Goto(f, l) == pc' = [pc EXCEPT ![f] = l] /\ UNCHANGED results

control == <<read, outcome, cancelled, closed>>

-----------------------------------------------------------------------------
(* fetchHeaders *)

SendHeaders ==
  /\ pc["headers"] = "run" /\ sent < Last /\ procCh = <<>>
  /\ sent' = sent + 1 /\ procCh' = <<sent + 1>>
  /\ UNCHANGED <<pc, results, control, scheduled, got, wakeCh, finished, parts, imported>>

SendNoMore ==
  /\ pc["headers"] = "run" /\ sent = Last /\ procCh = <<>>
  /\ procCh' = <<0>>
  /\ Return("headers", "ok")
  /\ UNCHANGED <<control, sent, scheduled, got, wakeCh, finished, parts, imported>>

(* A header request runs out of time: the master peer is dropped, which    *)
(* cancels the sync it leads.                                              *)
HeaderTimeout ==
  /\ pc["headers"] = "run"
  /\ cancelled' = TRUE
  /\ Goto("headers", "wake body")
  /\ UNCHANGED <<read, outcome, closed, sent, procCh, scheduled, got, wakeCh, finished, parts, imported>>

(* Then the part fetchers and the header processor are told that there is  *)
(* no more, unless the sync is cancelled.                                  *)
GiveUpWake(p, here, next) ==
  /\ pc["headers"] = here
  /\ \/ /\ wakeCh[p] = <<>>
        /\ wakeCh' = [wakeCh EXCEPT ![p] = <<FALSE>>]
     \/ cancelled /\ UNCHANGED wakeCh
  /\ Goto("headers", next)
  /\ UNCHANGED <<control, sent, procCh, scheduled, got, finished, parts, imported>>

GiveUpHeaders ==
  /\ pc["headers"] = "nil"
  /\ \/ procCh = <<>> /\ procCh' = <<0>>
     \/ cancelled /\ UNCHANGED procCh
  /\ Return("headers", "err")
  /\ UNCHANGED <<control, sent, scheduled, got, wakeCh, finished, parts, imported>>

HeadersCancelled ==
  /\ pc["headers"] = "run" /\ cancelled
  /\ Return("headers", "err")
  /\ UNCHANGED <<control, feed>>

-----------------------------------------------------------------------------
(* processHeaders *)

ProcessBatch ==
  /\ pc["process"] = "run" /\ procCh # <<>> /\ Head(procCh) # 0
  /\ procCh' = <<>> /\ got' = TRUE
  /\ Goto("process", "hold")
  /\ UNCHANGED <<control, sent, scheduled, wakeCh, finished, parts, imported>>

Pending(p) == IF p \in Needed THEN scheduled - parts[p] ELSE 0

(* The batch is scheduled once there is room, and the part fetchers are    *)
(* woken if their channel has room.                                        *)
Schedule ==
  /\ pc["process"] = "hold"
  /\ \A p \in Part : Pending(p) < Queued
  /\ scheduled' = scheduled + 1
  /\ wakeCh' = [p \in Part |-> IF wakeCh[p] = <<>> THEN <<TRUE>> ELSE wakeCh[p]]
  /\ Goto("process", "run")
  /\ UNCHANGED <<control, sent, procCh, got, finished, parts, imported>>

ProcessEnd ==
  /\ pc["process"] = "run" /\ procCh # <<>> /\ Head(procCh) = 0
  /\ procCh' = <<>>
  /\ Goto("process", "wake body")
  /\ UNCHANGED <<control, sent, scheduled, got, wakeCh, finished, parts, imported>>

(* Mutant of EndWake: the signal is dropped if the channel is full.        *)
EndWakeDropped(p, here, next) ==
  /\ pc["process"] = here
  /\ wakeCh' = IF wakeCh[p] = <<>> THEN [wakeCh EXCEPT ![p] = <<FALSE>>] ELSE wakeCh
  /\ Goto("process", next)
  /\ UNCHANGED <<control, sent, procCh, scheduled, got, finished, parts, imported>>

(* The part fetchers are told that there is no more, as soon as they can   *)
(* take it, unless the sync is cancelled.                                  *)
EndWake(p, here, next) ==
  /\ pc["process"] = here
  /\ \/ /\ wakeCh[p] = <<>>
        /\ wakeCh' = [wakeCh EXCEPT ![p] = <<FALSE>>]
     \/ cancelled /\ UNCHANGED wakeCh
  /\ Goto("process", next)
  /\ UNCHANGED <<control, sent, procCh, scheduled, got, finished, parts, imported>>

(* A peer that promised a better chain and had no header is stalling.      *)
ProcessReturns ==
  /\ pc["process"] = "last"
  /\ Return("process", IF got THEN "ok" ELSE "err")
  /\ UNCHANGED <<control, feed>>

ProcessCancelled ==
  /\ pc["process"] \in {"run", "hold"} /\ cancelled
  /\ Return("process", "err")
  /\ UNCHANGED <<control, feed>>

-----------------------------------------------------------------------------
(* fetchParts, for bodies and for receipts *)

TakeWake(p) ==
  /\ pc[p] = "run" /\ wakeCh[p] # <<>>
  /\ finished' = [finished EXCEPT ![p] = @ \/ ~Head(wakeCh[p])]
  /\ wakeCh' = [wakeCh EXCEPT ![p] = <<>>]
  /\ UNCHANGED <<pc, results, control, sent, procCh, scheduled, got, parts, imported>>

FetchPart(p) ==
  /\ pc[p] = "run" /\ Pending(p) > 0
  /\ parts' = [parts EXCEPT ![p] = @ + 1]
  /\ UNCHANGED <<pc, results, control, sent, procCh, scheduled, got, wakeCh, finished, imported>>

(* Mutant of PartsDone: ends as soon as it is told, whatever is pending.   *)
PartsDoneEarly(p) ==
  /\ pc[p] = "run" /\ finished[p]
  /\ Return(p, "ok")
  /\ UNCHANGED <<control, feed>>

PartsDone(p) ==
  /\ pc[p] = "run" /\ finished[p] /\ Pending(p) = 0
  /\ Return(p, "ok")
  /\ UNCHANGED <<control, feed>>

(* The peers have gone, cannot help, or the sync is cancelled.             *)
PartsFail(p) ==
  /\ pc[p] = "run"
  /\ cancelled \/ Pending(p) > 0
  /\ Return(p, "err")
  /\ UNCHANGED <<control, feed>>

-----------------------------------------------------------------------------
(* processFullSyncContent *)

(* Batches all of whose parts are there.                                   *)
Complete == Cardinality({n \in 1 .. scheduled : \A p \in Needed : n <= parts[p]})

(* Results gives what is complete, though the queue be closed.             *)
Results ==
  /\ pc["import"] = "run" /\ imported < Complete
  /\ imported' = Complete
  /\ UNCHANGED <<pc, results, control, sent, procCh, scheduled, got, wakeCh, finished, parts>>

ImportFails ==
  /\ pc["import"] = "run" /\ imported < Complete
  /\ Return("import", "err")
  /\ UNCHANGED <<control, feed>>

ImportDone ==
  /\ pc["import"] = "run" /\ closed /\ imported = Complete
  /\ Return("import", "ok")
  /\ UNCHANGED <<control, feed>>

-----------------------------------------------------------------------------
(* spawnSync *)

(* The queue is closed when only one goroutine is left.                    *)
ClosesAt == read = Cardinality(Fetcher) - 1

CloseQueue ==
  /\ outcome = "none" /\ ~closed /\ ClosesAt
  /\ closed' = TRUE
  /\ UNCHANGED <<pc, results, read, outcome, cancelled, feed>>

(* The first error, or the last result, ends the sync: everything is       *)
(* closed and cancelled.                                                   *)
ReadResult ==
  /\ outcome = "none" /\ results # <<>> /\ (ClosesAt => closed)
  /\ read' = read + 1
  /\ LET over == Head(results) = "err" \/ read' = Cardinality(Fetcher)
     IN /\ results' = IF over THEN <<>> ELSE Tail(results)
        /\ outcome' = IF over THEN Head(results) ELSE outcome
        /\ closed' = (closed \/ over)
        /\ cancelled' = (cancelled \/ over)
  /\ UNCHANGED <<pc, feed>>

(* The master peer leaves, or the node stops.                              *)
Cancel ==
  /\ ~cancelled
  /\ cancelled' = TRUE
  /\ UNCHANGED <<pc, results, read, outcome, closed, feed>>

HeadersStep ==
  \/ SendHeaders \/ SendNoMore \/ HeadersCancelled \/ GiveUpHeaders
  \/ GiveUpWake("body", "wake body", "wake receipt")
  \/ GiveUpWake("receipt", "wake receipt", "nil")

ProcessStep ==
  \/ ProcessBatch \/ Schedule \/ ProcessEnd \/ ProcessReturns \/ ProcessCancelled
  \/ EndWake("body", "wake body", "wake receipt")
  \/ EndWake("receipt", "wake receipt", "last")

PartsStep(p) == TakeWake(p) \/ FetchPart(p) \/ PartsDone(p) \/ PartsFail(p)
ImportStep == Results \/ ImportFails \/ ImportDone
SpawnStep == CloseQueue \/ ReadResult

Next ==
  \/ HeadersStep \/ HeaderTimeout \/ ProcessStep
  \/ \E p \in Part : PartsStep(p)
  \/ ImportStep \/ SpawnStep \/ Cancel

Spec == Init /\ [][Next]_vars

-----------------------------------------------------------------------------
TypeOK ==
  /\ pc \in [Fetcher -> {"run", "wake body", "wake receipt", "nil", "last", "hold", "ok", "err"}]
  /\ Len(results) + read <= Cardinality(Fetcher)
  /\ outcome \in {"none", "ok", "err"}
  /\ cancelled \in BOOLEAN /\ closed \in BOOLEAN /\ got \in BOOLEAN
  /\ Len(procCh) <= 1 /\ \A p \in Part : Len(wakeCh[p]) <= 1
  /\ imported <= scheduled /\ scheduled <= sent /\ sent <= Last
  /\ \A p \in Needed : imported <= parts[p] /\ parts[p] <= scheduled

(* A sync that succeeds has imported all that the master peer had: the     *)
(* part fetchers do not stop before the last batch is scheduled, nor the   *)
(* importer before the last part is there.                                 *)
SuccessIsComplete == outcome = "ok" => imported = Last

(* What its progress is about: every goroutine is over and the sync has    *)
(* returned.                                                               *)
Ended == outcome # "none" /\ \A f \in Fetcher : pc[f] \in {"ok", "err"}
=============================================================================
