---------------------------- MODULE TrieDatabase ----------------------------
(***************************************************************************)
(* The in-memory trie node cache (trie/database.go): nodes are inserted    *)
(* when a state is committed, counted by the nodes that refer to them,     *)
(* dropped when the last reference goes, flushed to disk oldest first when *)
(* memory is short, and written out with everything below them when a      *)
(* state is persisted.  A node is known by the hash of its contents, so    *)
(* its children never change; Meta is the zero hash, under which the cache *)
(* keeps its root references and the end of its flush list.                *)
(***************************************************************************)
EXTENDS Integers, Sequences, FiniteSets, SequencesExt

CONSTANTS
  Order,       \* all nodes, every node after its children
  Kids,        \* the hashes in each node, a sequence
  Storage,     \* the storage tries and codes of the accounts in each node, a set
  Roots,       \* the nodes that are roots of states
  Meta,
  MaxStates    \* bound: the states committed to the cache

Nodes == ToSet(Order)

RECURSIVE Reach(_)
Reach(n) == {n} \cup UNION {Reach(m) : m \in ToSet(Kids[n]) \cup Storage[n]}

VARIABLES
  db,        \* the cache: nodes, counts, explicit children and the flush list
  disk,      \* the nodes on disk
  live,      \* the root references of the chain (triegc), oldest first
  latest,    \* the state the next block builds upon
  states     \* how many states were committed

vars == <<db, disk, live, latest, states>>

Empty == [nodes |-> {}, parents |-> [n \in Nodes |-> 0],
          children |-> [n \in Nodes \cup {Meta} |-> [m \in Nodes |-> 0]],
          prev |-> [n \in Nodes \cup {Meta} |-> Meta],
          next |-> [n \in Nodes \cup {Meta} |-> Meta],
          oldest |-> Meta, newest |-> Meta]

(* The genesis state is on disk.                                           *)
Init ==
  /\ db = Empty
  /\ \E r \in Roots : latest = r /\ disk = Reach(r)
  /\ live = <<>> /\ states = 0

-----------------------------------------------------------------------------
(* The children of a cached node: the explicit references, then the hashes *)
(* in it.                                                                  *)
Childs(s, n) ==
  SelectSeq(Order, LAMBDA m : s.children[n][m] > 0) \o Kids[n]

(* insert: a node already cached is left alone.  Its cached children gain  *)
(* a reference, and it becomes the newest of the flush list.               *)
Insert(s, n) ==
  IF n \in s.nodes THEN s
  ELSE LET count(m) == Cardinality({i \in 1 .. Len(Kids[n]) : Kids[n][i] = m})
           linked == IF s.oldest = Meta THEN s.next ELSE [s.next EXCEPT ![s.newest] = n]
       IN [s EXCEPT !.nodes = @ \cup {n},
                    !.parents = [m \in Nodes |-> IF m = n THEN 0
                                                 ELSE IF m \in s.nodes THEN @[m] + count(m)
                                                 ELSE @[m]],
                    !.children[n] = [m \in Nodes |-> 0],
                    !.prev[n] = s.newest,
                    !.next = [linked EXCEPT ![n] = Meta],
                    !.oldest = IF @ = Meta THEN n ELSE @,
                    !.newest = n]

(* reference: only the meta root may refer to a node more than once.       *)
Reference(s, child, parent) ==
  IF child \notin s.nodes \/ (s.children[parent][child] > 0 /\ parent # Meta) THEN s
  ELSE [s EXCEPT !.parents[child] = @ + 1, !.children[parent][child] = @ + 1]

(* A node leaves the flush list.                                           *)
Unlink(s, n) ==
  IF n = s.oldest
  THEN [s EXCEPT !.oldest = s.next[n], !.prev[s.next[n]] = Meta]
  ELSE IF n = s.newest
  THEN [s EXCEPT !.newest = s.prev[n], !.next[s.prev[n]] = Meta]
  ELSE [s EXCEPT !.next[s.prev[n]] = s.next[n], !.prev[s.next[n]] = s.prev[n]]

(* Entries are deleted with all they hold.                                 *)
Forget(s, gone) ==
  LET Keep(f, x) == [n \in DOMAIN f |-> IF n \in gone THEN x ELSE f[n]]
  IN [s EXCEPT !.nodes = @ \ gone, !.parents = Keep(@, 0), !.prev = Keep(@, Meta),
               !.next = Keep(@, Meta), !.children = Keep(@, [m \in Nodes |-> 0])]

(* Mutant of Released: all references are given up.                        *)
ReleasedAll(s, child) == [s EXCEPT !.parents[child] = 0]

(* One reference less; a node put back into the cache may have none.       *)
Released(s, child) == [s EXCEPT !.parents[child] = IF @ > 0 THEN @ - 1 ELSE 0]

(* dereference: a node without references goes, and releases its children, *)
(* one after the other.                                                    *)
RECURSIVE Dereference(_, _, _), DereferenceEach(_, _, _)
Dereference(s, child, parent) ==
  LET t == IF s.children[parent][child] > 0
           THEN [s EXCEPT !.children[parent][child] = @ - 1] ELSE s
      u == Released(t, child)
  IN IF child \notin s.nodes THEN t
     ELSE IF u.parents[child] > 0 THEN u
     ELSE Forget(DereferenceEach(Unlink(u, child), Childs(u, child), child), {child})
DereferenceEach(s, list, parent) ==
  IF list = <<>> THEN s
  ELSE DereferenceEach(Dereference(s, Head(list), parent), Tail(list), parent)

(* uncache: a persisted node and everything below it leave the cache.      *)
RECURSIVE Uncache(_, _), UncacheEach(_, _)
Uncache(s, n) ==
  IF n \notin s.nodes THEN s ELSE Forget(UncacheEach(Unlink(s, n), Childs(s, n)), {n})
UncacheEach(s, list) ==
  IF list = <<>> THEN s ELSE UncacheEach(Uncache(s, Head(list)), Tail(list))

(* commit: the order in which a cached node and those below it are written.*)
RECURSIVE Writes(_, _), WritesEach(_, _)

Writes(s, n) == IF n \notin s.nodes THEN <<>> ELSE Append(WritesEach(s, Childs(s, n)), n)
WritesEach(s, list) ==
  IF list = <<>> THEN <<>> ELSE Writes(s, Head(list)) \o WritesEach(s, Tail(list))

(* The first k nodes of the flush list.                                    *)
RECURSIVE Oldest(_, _, _)
Oldest(s, n, k) == IF k = 0 \/ n = Meta THEN <<>> ELSE <<n>> \o Oldest(s, s.next[n], k - 1)

-----------------------------------------------------------------------------
Available == db.nodes \cup disk

(* The nodes of state r that are stored when it is committed upon the      *)
(* latest one: those that differ, and perhaps others that were changed and *)
(* changed back.  A change is made in a node without hashes and reaches    *)
(* all nodes above it.                                                     *)
Dirty(r, D) ==
  /\ Reach(r) \ Reach(latest) \subseteq D
  /\ \A n \in D \ {r} : \E m \in D : n \in ToSet(Kids[m]) \cup Storage[m]
  /\ \A n \in D : Kids[n] # <<>> => \E m \in ToSet(Kids[n]) : m \in D

RECURSIVE ReferenceEach(_, _, _), StoreEach(_, _)
ReferenceEach(s, list, parent) ==
  IF list = <<>> THEN s
  ELSE ReferenceEach(Reference(s, Head(list), parent), Tail(list), parent)
StoreEach(s, list) ==
  IF list = <<>> THEN s
  ELSE LET n == Head(list)
       IN StoreEach(ReferenceEach(Insert(s, n), SelectSeq(Order, LAMBDA m : m \in Storage[n]), n),
                    Tail(list))

(* StateDB.Commit: each of them is stored after its children, with the     *)
(* accounts' storage and code referred to; then the chain refers to the    *)
(* root.                                                                   *)
CommitState ==
  /\ states < MaxStates
  /\ Reach(latest) \subseteq Available
  /\ \E r \in Roots : \E D \in SUBSET Reach(r) :
       /\ Dirty(r, D)
       /\ db' = Reference(StoreEach(db, SelectSeq(Order, LAMBDA n : n \in D)), r, Meta)
       /\ live' = Append(live, r)
       /\ latest' = r
  /\ states' = states + 1
  /\ UNCHANGED disk

(* Cap: the k oldest nodes are written and dropped.                        *)
Cap ==
  /\ \E k \in 1 .. Cardinality(db.nodes) :
       LET flushed == Oldest(db, db.oldest, k)
           rest == db.next[flushed[k]]
       IN /\ disk' = disk \cup ToSet(flushed)
          /\ db' = Forget([db EXCEPT !.oldest = rest, !.prev[rest] = Meta], ToSet(flushed))
  /\ UNCHANGED <<live, latest, states>>

(* Commit of a state the chain refers to.                                  *)
Commit ==
  /\ \E r \in ToSet(live) :
       /\ disk' = disk \cup ToSet(Writes(db, r))
       /\ db' = Uncache(db, r)
  /\ UNCHANGED <<live, latest, states>>

(* The chain gives up its oldest state, not the one it builds upon.        *)
DereferenceOldest ==
  /\ Len(live) > 1
  /\ db' = Dereference(db, live[1], Meta)
  /\ live' = Tail(live)
  /\ UNCHANGED <<disk, latest, states>>

(* The chain stops: the head state is persisted, all references are given  *)
(* up.                                                                     *)
Stop ==
  /\ live # <<>>
  /\ disk' = disk \cup ToSet(Writes(db, latest))
  /\ db' = DereferenceEach(Uncache(db, latest), live, Meta)
  /\ live' = <<>>
  /\ UNCHANGED <<latest, states>>

(* The process dies with a prefix of the writes of Cap or Commit on disk   *)
(* and restarts on a state whose root it finds there.                      *)
Crash ==
  /\ states > 0
  /\ \E w \in {Oldest(db, db.oldest, Cardinality(db.nodes))} \cup {Writes(db, r) : r \in ToSet(live)} :
       \E k \in 0 .. Len(w) : disk' = disk \cup ToSet(SubSeq(w, 1, k))
  /\ db' = Empty /\ live' = <<>>
  /\ latest' \in Roots \cap disk'
  /\ UNCHANGED states

Next == CommitState \/ Cap \/ Commit \/ DereferenceOldest \/ Stop \/ Crash

Spec == Init /\ [][Next]_vars

-----------------------------------------------------------------------------
(* Every variable has its type; in particular the counts stay natural.     *)
TypeOK ==
  /\ db.nodes \subseteq Nodes /\ disk \subseteq Nodes
  /\ db.parents \in [Nodes -> 0 .. 2 * MaxStates + Len(Order)]
  /\ db.prev \in [Nodes \cup {Meta} -> Nodes \cup {Meta}]
  /\ db.next \in [Nodes \cup {Meta} -> Nodes \cup {Meta}]
  /\ {db.oldest, db.newest} \subseteq Nodes \cup {Meta}
  /\ ToSet(live) \subseteq Roots /\ latest \in Roots /\ states \in 0 .. MaxStates

(* No state the chain still refers to ever loses a node, whatever was      *)
(* flushed, persisted, put back or dropped with other states.              *)
LiveStatesComplete == \A r \in ToSet(live) \cup {latest} : Reach(r) \subseteq Available

(* A node on disk has everything below it on disk, so that a state whose   *)
(* root is found there can be read, after a crash too.                     *)
DiskClosed == \A n \in disk : Reach(n) \subseteq disk

(* The flush list holds exactly the cached nodes, and is linked both ways. *)
FlushListSound ==
  LET list == Oldest(db, db.oldest, Cardinality(db.nodes) + 1)
  IN /\ Len(list) = Cardinality(db.nodes) /\ ToSet(list) = db.nodes
     /\ \A i \in 2 .. Len(list) : db.prev[list[i]] = list[i - 1]
     /\ list # <<>> => db.newest = Last(list)

=============================================================================
