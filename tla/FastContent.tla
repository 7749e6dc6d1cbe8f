---------------------------- MODULE FastContent ----------------------------
(***************************************************************************)
(* The content processor of a fast sync (processFastSyncContent in         *)
(* eth/downloader/downloader.go) with the operations of the chain it       *)
(* calls: blocks below the pivot are stored with their receipts, the pivot *)
(* becomes the head once its state has been downloaded, and the blocks     *)
(* after it are executed.  A pivot that is left too far behind is replaced *)
(* by a later one.  Blocks are their numbers.                              *)
(***************************************************************************)
EXTENDS Integers, FiniteSets

CONSTANTS
  Last,            \* the last block of the remote chain, which may grow to it
  Heights,         \* where the remote head may be when the sync starts
  MinFullBlocks    \* how many blocks at the end are executed

VARIABLES
  pc,          \* what the processor does
  taken,       \* the last block taken from the queue
  closed,      \* the queue is closed
  cancelled,   \* the sync is cancelled
  pivot,       \* the number of the pivot, 0 for none
  oldPivot,    \* the pivot block held, or 0; the blocks after it are held too
  target,      \* the block whose state is being downloaded
  sync,        \* how that goes
  states,      \* blocks whose state is in the database
  tries,       \* blocks whose DPoS tries are in the database
  stored,      \* blocks stored with body and receipts
  head,        \* the current block
  committed,   \* the pivot is committed
  commits      \* the blocks that were committed as pivot

vars == <<pc, taken, closed, cancelled, pivot, oldPivot, target, sync, states, tries,
          stored, head, committed, commits>>
chain == <<states, tries, stored, head, committed, commits>>

Init ==
  /\ pc = "results" /\ taken = 0 /\ closed = FALSE /\ cancelled = FALSE
  /\ \E height \in Heights :
       /\ pivot = IF height > MinFullBlocks THEN height - MinFullBlocks ELSE 0
       /\ target = height
  /\ committed = (pivot = 0)
  /\ oldPivot = 0 /\ sync = "run"
  /\ states = {0} /\ tries = {0} /\ stored = {0} /\ head = 0
  /\ commits = {}

-----------------------------------------------------------------------------
(* The state download started last completes or fails; a failure closes    *)
(* the queue.  Only the state trie of the block is fetched.                *)
StateSyncDone ==
  /\ sync = "run" /\ pc # "end"
  /\ sync' = "ok" /\ states' = states \cup {target}
  /\ UNCHANGED <<pc, taken, closed, cancelled, pivot, oldPivot, target, tries, stored, head,
                 committed, commits>>

StateSyncFails ==
  /\ sync = "run" /\ pc # "end"
  /\ sync' = "failed" /\ closed' = TRUE
  /\ UNCHANGED <<pc, taken, cancelled, pivot, oldPivot, target, chain>>

StateSyncCancelled ==
  /\ sync = "run" /\ cancelled /\ pc # "end"
  /\ sync' = "failed"
  /\ UNCHANGED <<pc, taken, closed, cancelled, pivot, oldPivot, target, chain>>

(* The other goroutines of the sync end, or it is cancelled.               *)
CloseQueue ==
  /\ ~closed /\ pc # "end"
  /\ committed \/ cancelled
  /\ closed' = TRUE
  /\ UNCHANGED <<pc, taken, cancelled, pivot, oldPivot, target, sync, chain>>

Cancel ==
  /\ ~cancelled /\ pc # "end"
  /\ cancelled' = TRUE
  /\ UNCHANGED <<pc, taken, closed, pivot, oldPivot, target, sync, chain>>

-----------------------------------------------------------------------------
(* A pivot more than twice the distance behind is replaced.                *)
Moved(last) ==
  IF ~committed /\ last > pivot + 2 * MinFullBlocks THEN last - MinFullBlocks ELSE pivot

(* Blocks up to last are executed upon parent, which needs its state and   *)
(* its DPoS tries, and leave theirs; otherwise the import fails.           *)
Execute(blocks, first, parent, last) ==
  IF first > last \/ (first = parent + 1 /\ parent \in states /\ parent \in tries)
  THEN /\ stored' = blocks \cup (first .. last)
       /\ states' = states \cup (first .. last)
       /\ tries' = tries \cup (first .. last)
       /\ head' = last /\ pc' = "results"
  ELSE /\ stored' = blocks /\ head' = parent /\ pc' = "end"
       /\ UNCHANGED <<states, tries>>

(* Mutant of Before: the blocks held are left out.                         *)
BeforeNew(first, P) == taken + 1 .. P - 1

(* The blocks before the pivot, the one it replaces among them.            *)
Before(first, P) == first .. P - 1

(* Results gives the next blocks, or none when the queue is closed or a    *)
(* pivot is held.  With the held ones they are split around the pivot.     *)
Results ==
  /\ pc = "results"
  /\ \E n \in taken .. Last :
       LET first == IF oldPivot # 0 THEN oldPivot ELSE taken + 1
           P == Moved(n)
       IN /\ n > taken \/ oldPivot # 0
          /\ cancelled => n > taken
          /\ taken' = n
          /\ pivot' = P
          /\ IF first < P /\ sync = "failed"
             THEN pc' = "end" /\ UNCHANGED <<oldPivot, target, sync, chain>>
             ELSE IF P \in first .. n
             THEN /\ stored' = stored \cup Before(first, P)
                  /\ target' = P
                  /\ sync' = IF oldPivot = P THEN sync ELSE "run"
                  /\ oldPivot' = P
                  /\ pc' = "wait"
                  /\ UNCHANGED <<states, tries, head, committed, commits>>
             ELSE IF n < P
             THEN /\ stored' = stored \cup (first .. n)
                  /\ UNCHANGED <<pc, oldPivot, target, sync, states, tries, head, committed, commits>>
             ELSE /\ Execute(stored, first, head, n)
                  /\ UNCHANGED <<oldPivot, target, sync, committed, commits>>
  /\ UNCHANGED <<closed, cancelled>>

NoResults ==
  /\ pc = "results"
  /\ IF oldPivot = 0 THEN closed ELSE cancelled
  /\ pc' = "end"
  /\ UNCHANGED <<taken, closed, cancelled, pivot, oldPivot, target, sync, chain>>

Synced == sync = "ok"

(* The state of the pivot is there: it is stored and becomes the head, and *)
(* the blocks held after it are executed.                                  *)
CommitPivot ==
  /\ pc = "wait" /\ Synced
  /\ committed' = TRUE /\ commits' = commits \cup {oldPivot}
  /\ oldPivot' = 0
  /\ Execute(stored \cup {oldPivot}, oldPivot + 1, oldPivot, taken)
  /\ UNCHANGED <<taken, closed, cancelled, pivot, target, sync>>

WaitFails ==
  /\ pc = "wait" /\ sync = "failed"
  /\ pc' = "end"
  /\ UNCHANGED <<taken, closed, cancelled, pivot, oldPivot, target, sync, chain>>

(* After a second the blocks after the pivot are put aside and the queue   *)
(* is asked again.                                                         *)
WaitLonger ==
  /\ pc = "wait"
  /\ pc' = "results"
  /\ UNCHANGED <<taken, closed, cancelled, pivot, oldPivot, target, sync, chain>>

Next ==
  \/ StateSyncDone \/ StateSyncFails \/ StateSyncCancelled \/ CloseQueue \/ Cancel
  \/ Results \/ NoResults \/ CommitPivot \/ WaitFails \/ WaitLonger

Spec == Init /\ [][Next]_vars

-----------------------------------------------------------------------------
TypeOK ==
  /\ pc \in {"results", "wait", "end"} /\ taken \in 0 .. Last
  /\ closed \in BOOLEAN /\ cancelled \in BOOLEAN /\ committed \in BOOLEAN
  /\ pivot \in 0 .. Last /\ oldPivot \in 0 .. Last /\ target \in 0 .. Last
  /\ sync \in {"run", "ok", "failed"} /\ head \in 0 .. Last
  /\ states \subseteq 0 .. Last /\ tries \subseteq 0 .. Last /\ stored \subseteq 0 .. Last
  /\ commits \subseteq 1 .. Last

(* No block is left out, whenever the pivot moves: the blocks stored and   *)
(* those held together are the first blocks of the chain.                  *)
NoGap ==
  pc # "end" => stored \cup (IF oldPivot # 0 THEN oldPivot .. taken ELSE {}) = 0 .. taken

(* The head never has a missing state: the state downloaded last is that   *)
(* of the pivot committed, not of one that was replaced.                   *)
HeadHasState == head \in states

=============================================================================
