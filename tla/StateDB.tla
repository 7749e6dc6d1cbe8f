------------------------------ MODULE StateDB ------------------------------
(***************************************************************************)
(* The state database a block's transactions work on (core/state): account *)
(* objects loaded from the trie, a journal that undoes their changes back  *)
(* to a snapshot, the end of a transaction (Finalise), the end of a block  *)
(* (Commit) and copies.  An account holds a balance, a nonce, a code and   *)
(* the value of one storage key; empty accounts a transaction touched are  *)
(* deleted (EIP 158).  The callers are the miner, which holds a snapshot   *)
(* over each transaction, and the virtual machine, which holds one over    *)
(* each call.                                                              *)
(***************************************************************************)
EXTENDS Integers, Sequences, FiniteSets, SequencesExt

CONSTANTS
  Accounts, Ripemd,   \* Ripemd: the precompile whose touch survives a revert
  MaxBalance, MaxHeld, MaxRevisions, MaxRefund,  \* bounds
  MaxJournal          \* and the entries of each transaction

None == [none |-> TRUE]

VARIABLES
  trie,        \* the account trie: what Finalise has written
  stored,      \* the codes and storage tries the trie database has
  objects,     \* stateObjects
  dirty,       \* stateObjectsDirty
  journal,     \* the entries, each a record
  dirties,     \* journal.dirties
  refund,      \* the refund counter
  revisions,   \* validRevisions: id and journal length, and what was seen then
  nextId,      \* nextRevisionId
  held,        \* the snapshots held by the miner and by the running calls
  finalised    \* how many transactions were finalised

vars == <<trie, stored, objects, dirty, journal, dirties, refund, revisions, nextId, held, finalised>>

Account(b, n, c, s) == [balance |-> b, nonce |-> n, code |-> c, root |-> s]

(* newObject: the account data, the storage value and whether it is still  *)
(* to be written to the storage trie, and the marks.                       *)
Object(d) ==
  [data |-> d, storage |-> d.root, unwritten |-> FALSE, dirtyCode |-> FALSE,
   suicided |-> FALSE, deleted |-> FALSE]

Empty(o) == o.data.balance = 0 /\ o.data.nonce = 0 /\ o.data.code = 0

(* getStateObject: the live object unless it is deleted, else the trie's.  *)
Get(s, a) ==
  IF s.objects[a] # None
  THEN IF s.objects[a].deleted THEN None ELSE s.objects[a]
  ELSE IF s.trie[a] # None THEN Object(s.trie[a]) ELSE None

State == [trie |-> trie, stored |-> stored, objects |-> objects, dirty |-> dirty,
          journal |-> journal, dirties |-> dirties, refund |-> refund]

(* What a contract can see of an account, and of the whole state.          *)
Seen(s, a) ==
  LET o == Get(s, a)
  IN IF o = None THEN None
     ELSE [balance |-> o.data.balance, nonce |-> o.data.nonce, code |-> o.data.code,
           storage |-> o.storage, suicided |-> o.suicided]

View(s) == [accounts |-> [a \in Accounts |-> Seen(s, a)], refund |-> s.refund]

(* A block's state: no account, an empty one, a funded one, a contract.    *)
Init ==
  /\ trie \in [Accounts -> {None, Account(0, 0, 0, 0), Account(1, 0, 0, 0), Account(0, 1, 1, 1)}]
  /\ stored = IF Account(0, 1, 1, 1) \in Range(trie) THEN {"code", "storage"} ELSE {}
  /\ objects = [a \in Accounts |-> None]
  /\ dirty = {} /\ journal = <<>> /\ dirties = [a \in Accounts |-> 0] /\ refund = 0
  /\ revisions = <<>> /\ nextId = 0 /\ held = <<>> /\ finalised = 0

-----------------------------------------------------------------------------
(* journal.append: the account an entry dirties is counted.                *)
Dirtied(e) == IF e.kind \in {"reset", "refund"} THEN {} ELSE {e.account}

Log(s, e) ==
  [s EXCEPT !.journal = Append(@, e),
            !.dirties = [a \in Accounts |-> @[a] + IF a \in Dirtied(e) THEN 1 ELSE 0]]

Put(s, a, o) == [s EXCEPT !.objects[a] = o]

(* createObject: a new object, over an existing one or not.                *)
CreateObject(s, a) ==
  LET prev == Get(s, a)
      e == IF prev = None THEN [kind |-> "create", account |-> a]
                          ELSE [kind |-> "reset", account |-> a, prev |-> prev]
  IN Put(Log(s, e), a, Object(Account(0, 0, 0, 0)))

GetOrNew(s, a) ==
  IF Get(s, a) = None THEN CreateObject(s, a) ELSE Put(s, a, Get(s, a))

(* One field of the account data is set, with its old value journalled.    *)
SetField(s, a, f, v) ==
  LET t == GetOrNew(s, a)
  IN Put(Log(t, [kind |-> f, account |-> a, prev |-> t.objects[a].data[f]]), a,
         [t.objects[a] EXCEPT !.data[f] = v, !.dirtyCode = @ \/ f = "code"])

SetStorage(s, a, v) ==
  LET t == GetOrNew(s, a)
  IN Put(Log(t, [kind |-> "storage", account |-> a, prev |-> t.objects[a].storage]), a,
         [t.objects[a] EXCEPT !.storage = v, !.unwritten = TRUE])

(* AddBalance of nothing touches an empty account; the touch of one        *)
(* precompile is counted twice, so that no revert removes it.              *)
Touch(s, a) ==
  LET t == GetOrNew(s, a)
      u == Log(t, [kind |-> "touch", account |-> a])
  IN IF ~Empty(t.objects[a]) THEN t
     ELSE [u EXCEPT !.dirties[a] = IF a = Ripemd THEN @ + 1 ELSE @]

(* Suicide of an account that exists.                                      *)
Kill(s, a) ==
  LET o == Get(s, a)
  IN Put(Log(s, [kind |-> "suicide", account |-> a, prev |-> o.suicided,
                 balance |-> o.data.balance]), a,
         [o EXCEPT !.suicided = TRUE, !.data.balance = 0])

(* CreateAccount keeps the balance; a creation then sets the nonce.        *)
CreateContract(s, a) ==
  LET prev == Get(s, a)
      t == CreateObject(s, a)
      u == IF prev = None THEN t
           ELSE Put(t, a, [t.objects[a] EXCEPT !.data.balance = prev.data.balance])
  IN SetField(u, a, "nonce", 1)

-----------------------------------------------------------------------------
(* createObjectChange.revert forgets the object and its mark.              *)
ForgetObject(s, a) == [s EXCEPT !.objects[a] = None, !.dirty = @ \ {a}]

UndoStorage(s, e) ==
  Put(s, e.account, [Get(s, e.account) EXCEPT !.storage = e.prev, !.unwritten = TRUE])

(* The revert of one entry.                                                *)
Undo(s, e) ==
  CASE e.kind = "create" -> ForgetObject(s, e.account)
    [] e.kind = "reset" -> Put(s, e.account, e.prev)
    [] e.kind = "suicide" ->
         Put(s, e.account, [Get(s, e.account) EXCEPT !.suicided = e.prev, !.data.balance = e.balance])
    [] e.kind \in {"balance", "nonce", "code"} ->
         Put(s, e.account, [Get(s, e.account) EXCEPT !.data[e.kind] = e.prev,
                                                     !.dirtyCode = @ \/ e.kind = "code"])
    [] e.kind = "storage" -> UndoStorage(s, e)
    [] e.kind = "refund" -> [s EXCEPT !.refund = e.prev]
    [] e.kind = "touch" -> s

(* Mutant of Undone: the count of changes is left.                         *)
UndoneStaysDirty(s, e) == [Undo(s, e) EXCEPT !.journal = Front(@)]

Undone(s, e) ==
  [Undo(s, e) EXCEPT !.journal = Front(@),
                     !.dirties = [a \in Accounts |-> @[a] - IF a \in Dirtied(e) THEN 1 ELSE 0]]

(* journal.revert: the entries above the snapshot, the last one first.     *)
RECURSIVE RevertTo(_, _)
RevertTo(s, length) ==
  IF Len(s.journal) = length THEN s ELSE RevertTo(Undone(s, Last(s.journal)), length)

-----------------------------------------------------------------------------
(* What Finalise does with an object the journal counts: suicided and      *)
(* empty ones leave the trie, the others are written with their storage.   *)
Gone(o) == o.suicided \/ Empty(o)

Deleted(o) == [o EXCEPT !.deleted = TRUE]

(* updateRoot: the storage goes to the storage trie, whose hash is set.    *)
Flushed(o) == [o EXCEPT !.data.root = o.storage, !.unwritten = FALSE]

Cleared(s) == [s EXCEPT !.journal = <<>>, !.dirties = [a \in Accounts |-> 0], !.refund = 0]

Counted(s) == {a \in Accounts : s.dirties[a] > 0}

(* Finalise of the accounts the journal counts; one it counts may have no  *)
(* object, when the precompile's touch was reverted with its creation.     *)
FinalisedState(s) ==
  LET now == {a \in Counted(s) : s.objects[a] # None}
      Final(a) == IF Gone(s.objects[a]) THEN Deleted(s.objects[a]) ELSE Flushed(s.objects[a])
  IN Cleared([s EXCEPT
       !.objects = [a \in Accounts |-> IF a \in now THEN Final(a) ELSE @[a]],
       !.trie = [a \in Accounts |-> IF a \notin now THEN @[a]
                                    ELSE IF Gone(s.objects[a]) THEN None ELSE Final(a).data],
       !.dirty = @ \cup now])

(* Commit: the objects marked dirty, or counted by the journal, are        *)
(* written with their codes and storage tries; suicided ones leave.        *)
CommittedState(s) ==
  LET marked == s.dirty \cup Counted(s)
      live == {a \in Accounts : s.objects[a] # None}
      gone == {a \in live : s.objects[a].suicided \/ (a \in marked /\ Empty(s.objects[a]))}
      written == (live \cap marked) \ gone
      Final(a) == [Flushed(s.objects[a]) EXCEPT !.dirtyCode = FALSE]
  IN Cleared([s EXCEPT
       !.objects = [a \in Accounts |-> IF a \in gone THEN Deleted(@[a])
                                       ELSE IF a \in written THEN Final(a) ELSE @[a]],
       !.trie = [a \in Accounts |-> IF a \in gone THEN None
                                    ELSE IF a \in written THEN Final(a).data ELSE @[a]],
       !.stored = @ \cup {k \in {"code"} : \E a \in written : s.objects[a].dirtyCode
                                                            /\ s.objects[a].data.code = 1}
                   \cup {k \in {"storage"} : \E a \in written : s.objects[a].storage = 1},
       !.dirty = marked \ live])

(* Mutant of Copied: only what the journal counts is copied.               *)
CopiedJournal(s) ==
  LET kept == {a \in Counted(s) : s.objects[a] # None}
  IN [s EXCEPT !.objects = [a \in Accounts |-> IF a \in kept THEN @[a] ELSE None],
               !.dirty = kept, !.journal = <<>>, !.dirties = [a \in Accounts |-> 0]]

(* Copy: the dirty objects, the trie and the refund, without the journal.  *)
(* Copied storage that is not dirty is read from the storage trie again.   *)
Copied(s) ==
  LET kept == {a \in Counted(s) : s.objects[a] # None} \cup s.dirty
      Deep(o) == [o EXCEPT !.storage = IF o.unwritten THEN @ ELSE o.data.root]
  IN [s EXCEPT !.objects = [a \in Accounts |-> IF a \in kept THEN Deep(@[a]) ELSE None],
               !.dirty = kept, !.journal = <<>>, !.dirties = [a \in Accounts |-> 0]]

-----------------------------------------------------------------------------
Become(s) ==
  /\ trie' = s.trie /\ stored' = s.stored /\ objects' = s.objects /\ dirty' = s.dirty
  /\ journal' = s.journal /\ dirties' = s.dirties /\ refund' = s.refund

(* A change made by the running transaction.                               *)
Change(s) ==
  /\ held # <<>>
  /\ Len(s.journal) <= MaxJournal[finalised + 1]
  /\ Become(s)
  /\ UNCHANGED <<revisions, nextId, held, finalised>>

Balance(a) == IF Get(State, a) = None THEN 0 ELSE Get(State, a).data.balance

IsContract(a) == Get(State, a) # None /\ Get(State, a).data.nonce = 1

AddBalance(a) ==
  \/ Balance(a) < MaxBalance /\ Change(SetField(State, a, "balance", Balance(a) + 1))
  \/ Change(Touch(State, a))

(* The virtual machine checks the balance before it transfers.             *)
SubBalance(a) == Balance(a) > 0 /\ Change(SetField(State, a, "balance", Balance(a) - 1))

(* A contract is only created where there is no nonce and no code.         *)
Create(a) ==
  /\ Get(State, a) # None => (Get(State, a).data.nonce = 0 /\ Get(State, a).data.code = 0)
  /\ Change(CreateContract(State, a))

SetCode(a) ==
  IsContract(a) /\ Get(State, a).data.code = 0 /\ Change(SetField(State, a, "code", 1))

SetState(a, v) == IsContract(a) /\ Get(State, a).storage # v /\ Change(SetStorage(State, a, v))

Suicide(a) == IsContract(a) /\ Change(Kill(State, a))

AddRefund ==
  /\ refund < MaxRefund
  /\ Change([Log(State, [kind |-> "refund", prev |-> refund]) EXCEPT !.refund = @ + 1])

(* The miner takes a snapshot before a transaction, the virtual machine    *)
(* one before a call.                                                      *)
Snapshot ==
  /\ Len(held) < MaxHeld /\ Len(revisions) < MaxRevisions
  /\ held = <<>> => finalised < Len(MaxJournal)
  /\ revisions' = Append(revisions, [id |-> nextId, length |-> Len(journal), view |-> View(State)])
  /\ held' = Append(held, nextId)
  /\ nextId' = nextId + 1
  /\ UNCHANGED <<trie, stored, objects, dirty, journal, dirties, refund, finalised>>

(* A call that succeeds forgets its snapshot; the revision stays.          *)
Return ==
  /\ Len(held) > 1
  /\ held' = Front(held)
  /\ UNCHANGED <<trie, stored, objects, dirty, journal, dirties, refund, revisions, nextId, finalised>>

(* The revisions below the one reverted to stay valid.                     *)
Kept(i) == SubSeq(revisions, 1, i - 1)

(* RevertToSnapshot of a failed call or transaction.                       *)
Revert ==
  /\ held # <<>>
  /\ \E i \in DOMAIN revisions :
       /\ revisions[i].id = Last(held)
       /\ Become(RevertTo(State, revisions[i].length))
       /\ revisions' = Kept(i)
  /\ held' = Front(held)
  /\ UNCHANGED <<nextId, finalised>>

(* The transaction is over: its calls have returned.                       *)
Finalise ==
  /\ Len(held) = 1
  /\ Become(FinalisedState(State))
  /\ revisions' = <<>> /\ held' = <<>> /\ finalised' = finalised + 1
  /\ UNCHANGED nextId

(* The block is over: its root is computed, which finalises, and committed.*)
Commit ==
  /\ held = <<>> /\ finalised > 0
  /\ Become(CommittedState(FinalisedState(State)))
  /\ revisions' = <<>>
  /\ UNCHANGED <<nextId, held, finalised>>

(* The miner goes on with a copy, as it does for every sealing task.       *)
Copy ==
  /\ held = <<>> /\ finalised > 0
  /\ Become(Copied(State))
  /\ revisions' = <<>>
  /\ UNCHANGED <<nextId, held, finalised>>

Next ==
  \/ \E a \in Accounts : \/ AddBalance(a) \/ SubBalance(a) \/ Create(a) \/ SetCode(a) \/ Suicide(a)
                          \/ \E v \in 0 .. 1 : SetState(a, v)
  \/ AddRefund \/ Snapshot \/ Return \/ Revert \/ Finalise \/ Commit \/ Copy

Spec == Init /\ [][Next]_vars

-----------------------------------------------------------------------------
Data == [balance : 0 .. MaxBalance, nonce : 0 .. 1, code : 0 .. 1, root : 0 .. 1]

(* The state holds accounts with small fields, counts that are not         *)
(* negative and objects for all its dirty marks, so that Copy (statedb.go) *)
(* never copies a missing object.                                          *)
TypeOK ==
  /\ trie \in [Accounts -> Data \cup {None}]
  /\ stored \subseteq {"code", "storage"}
  /\ \A a \in Accounts : objects[a] = None \/ objects[a].data \in Data
  /\ \A a \in dirty : objects[a] # None
  /\ dirties \in [Accounts -> Nat]
  /\ refund \in 0 .. MaxRefund

(* RevertToSnapshot returns, from any later moment of the transaction, to  *)
(* exactly what was seen when the snapshot was taken, whatever was         *)
(* created, overwritten, killed or reverted since.                         *)
SnapshotsHold ==
  \A i \in DOMAIN revisions : View(RevertTo(State, revisions[i].length)) = revisions[i].view

(* A snapshot a caller still holds can be reverted to: inner reverts and   *)
(* inner calls that returned leave it valid, so RevertToSnapshot never     *)
(* panics with "revision id cannot be reverted".                           *)
HeldAreValid == \A i \in DOMAIN held : \E j \in DOMAIN revisions : revisions[j].id = held[i]

(* Finalise leaves in the trie what the transaction ended with: every      *)
(* account as it is seen, without the suicided ones and the empty ones the *)
(* journal counts.                                                         *)
FinaliseWritesView ==
  Finalise =>
       \A a \in Accounts :
         LET v == Seen(State, a)
         IN trie'[a] = IF v = None THEN None
                       ELSE IF v.suicided \/ (dirties[a] > 0 /\ Empty(Get(State, a))) THEN None
                       ELSE Account(v.balance, v.nonce, v.code, v.storage)

(* An account that only reverted calls touched is not deleted for being    *)
(* empty, except the precompile the journal never forgets.                 *)
RevertedTouchKeeps ==
  Finalise =>
       \A a \in Accounts \ {Ripemd} :
         (trie[a] # None /\ trie'[a] = None) =>
            \E i \in DOMAIN journal : a \in Dirtied(journal[i])

(* Whenever Commit may be called, the database then has the code and the   *)
(* storage trie of every account of the committed trie, through copies and *)
(* earlier commits.                                                        *)
CommitStoresAll ==
  LET c == CommittedState(FinalisedState(State))
  IN (held = <<>> /\ finalised > 0) =>
       \A a \in Accounts : c.trie[a] # None =>
         /\ c.trie[a].code = 1 => "code" \in c.stored
         /\ c.trie[a].root = 1 => "storage" \in c.stored

(* A copy taken at any moment shows the same accounts, and committing the  *)
(* copy gives the trie and the database that committing the original does. *)
CopyAgrees ==
  LET c == Copied(State)
  IN /\ View(c) = View(State)
     /\ CommittedState(c).trie = CommittedState(State).trie
     /\ CommittedState(c).stored = CommittedState(State).stored

-----------------------------------------------------------------------------
(* Revision ids only matter by their order, and so do counts beyond the    *)
(* entries, which only the precompile's have: the state with the ids       *)
(* replaced by their places in validRevisions.                             *)
Beyond ==
  {a \in Accounts : dirties[a] > Cardinality({i \in DOMAIN journal : a \in Dirtied(journal[i])})}

Placed ==
  <<trie, stored, objects, dirty, journal, Beyond, refund, finalised,
    [i \in DOMAIN revisions |-> <<revisions[i].length, revisions[i].view>>],
    [i \in DOMAIN held |-> {j \in DOMAIN revisions : revisions[j].id = held[i]}]>>
=============================================================================
