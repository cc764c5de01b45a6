---------------------------- MODULE VerifyProofs ----------------------------
(***************************************************************************)
(* Proofs about Verify, for any trees, any number of workers, of writes by *)
(* others and of read errors.                                              *)
(***************************************************************************)
EXTENDS Verify, FiniteSetTheorems, WellFoundedInduction, TLAPS

\* A set of paths that is not empty has a least one.
LEMMA LeastFacts ==
  ASSUME NEW S, S \subseteq Nat, S # {}
  PROVE  Least(S) \in S
<1> DEFINE R == {ab \in Nat \X Nat : ab[1] < ab[2]}
<1>1. OpToRel(<, Nat) = R
  BY DEF OpToRel
<1>2. IsWellFoundedOn(R, Nat)
  BY <1>1, NatLessThanWellFounded
<1>3. PICK a \in S : \A b \in S : <<b, a>> \notin R
  BY <1>2, WFMin
<1>4. ASSUME NEW b \in S
      PROVE  a <= b
  <2>1. <<b, a>> \in Nat \X Nat /\ ~(<<b, a>>[1] < <<b, a>>[2])
    BY <1>3
  <2>2. <<b, a>>[1] = b /\ <<b, a>>[2] = a
    OBVIOUS
  <2> HIDE DEF R
  <2> QED
    BY <2>1, <2>2
<1> QED
  BY <1>3, <1>4 DEF Least

-----------------------------------------------------------------------------
(* Types *)

\* An entry has the type of what it was made from.
LEMMA ScanFacts ==
  ASSUME NEW n \in Nodes
  PROVE  /\ Scan(n) \in Entries
         /\ Scan(n).type = n.type
<1>1. CASE n \in Files
  <2>1. n.type = "file" /\ n.content \in Contents /\ n.meta \in Metas
    BY <1>1 DEF Files
  <2>2. SizeOf[n.content] \in Nat
    BY <2>1, DataAssumption
  <2> QED
    BY <2>1, <2>2 DEF Scan, Entries
<1>2. CASE n \in {Absent, Directory, Symlink}
  BY <1>2 DEF Scan, Entries, Absent, Directory, Symlink
<1> QED
  BY <1>1, <1>2 DEF Nodes

\* The differences between two inventories are of known kinds.
LEMMA DifferencesTyped == InventoryDifferences \subseteq Paths \X Kinds
<1>1. \A p \in Paths : Mismatch(p) \in Kinds
  BY DEF Mismatch, Kinds
<1>2. "size_mismatch" \in Kinds /\ "metadata_mismatch" \in Kinds
  BY DEF Kinds
<1>3. Listed \subseteq Paths /\ Pairs \subseteq Paths
  BY DEF Listed, Pairs
<1>4. MetadataDifferences \subseteq Paths \X Kinds
  BY <1>2, <1>3 DEF MetadataDifferences
<1> QED
  BY <1>1, <1>2, <1>3, <1>4 DEF InventoryDifferences

LEMMA TypeInit == Init => TypeOK
<1> SUFFICES ASSUME Init PROVE TypeOK
  OBVIOUS
<1>1. tree \in [Sides -> [Paths -> Nodes]]
  BY DataAssumption DEF Init
<1>2. "source" \in Sides
  BY DEF Sides
<1>3. Absent \in Entries
  BY DEF Entries
<1>4. writes \in 0..MaxWrites /\ faults \in 0..MaxFaults
  BY BoundsAssumption DEF Init
<1> QED
  BY <1>1, <1>2, <1>3, <1>4 DEF Init, TypeOK

\* The steps of the walk.
LEMMA TypeWalk ==
  ASSUME TypeOK, WalkRoot \/ ListDir \/ Visit \/ ScanDone
  PROVE  TypeOK'
<1> USE DEF treeVars, options, poolVars
<1>1. CASE WalkRoot
  BY <1>1 DEF TypeOK, WalkRoot
<1>2. CASE ListDir
  <2>1. ahead' \subseteq Paths /\ dirs' \subseteq ahead'
    BY <1>2 DEF TypeOK, ListDir
  <2>2. pc' \in {"visit", "failed"}
    BY <1>2 DEF ListDir
  <2> QED
    BY <1>2, <2>1, <2>2 DEF TypeOK, ListDir
<1>3. CASE Visit
  <2> DEFINE p == Least(ahead)
  <2>1. p \in ahead /\ p \in Paths
    BY <1>3, LeastFacts, PathsAssumption DEF Visit, TypeOK
  <2>2. tree[side][p] \in Nodes
    BY <2>1 DEF TypeOK
  <2>3. Scan(tree[side][p]) \in Entries
    BY <2>2, ScanFacts
  <2>4. entries' \in [Sides -> [Paths -> Entries]]
    <3>1. \/ entries' = entries
          \/ entries' = [entries EXCEPT ![side] = [entries[side] EXCEPT ![p] = Scan(tree[side][p])]]
      BY <1>3 DEF Visit
    <3>2. entries[side] \in [Paths -> Entries] /\ side \in Sides
      BY DEF TypeOK
    <3>3. [entries[side] EXCEPT ![p] = Scan(tree[side][p])] \in [Paths -> Entries]
      BY <2>1, <2>3, <3>2
    <3> QED
      BY <3>1, <3>2, <3>3 DEF TypeOK
  <2>5. /\ pc' \in {"visit", "list", "failed"}
        /\ at' \in Paths \cup {0}
    BY <1>3, <2>1 DEF Visit, TypeOK
  <2>6. ahead' \subseteq Paths /\ dirs' \subseteq ahead'
    BY <1>3 DEF Visit, TypeOK
  <2> QED
    BY <1>3, <2>4, <2>5, <2>6 DEF TypeOK, Visit
<1>4. CASE ScanDone
  BY <1>4 DEF TypeOK, ScanDone, Sides
<1> QED
  BY <1>1, <1>2, <1>3, <1>4

\* The steps of the dispatcher.
LEMMA TypeDispatch ==
  ASSUME TypeOK, Compare \/ CloseChannel \/ GiveUp \/ Collect \/ (\E w \in Ids : Send(w))
  PROVE  TypeOK'
<1> USE DEF treeVars, options, poolVars, walkVars
<1>1. CASE Compare
  <2>1. found' \subseteq Paths \X Kinds
    BY <1>1, DifferencesTyped DEF Compare
  <2>2. unsent' \subseteq Paths
    BY <1>1 DEF Compare, Tasks, Pairs
  <2>3. state' \in [Ids -> {"receive", "check", "source", "destination", "ended"}]
    BY <1>1 DEF Compare
  <2>4. pc' \in {"done", "send"}
    BY <1>1 DEF Compare
  <2> QED
    BY <1>1, <2>1, <2>2, <2>3, <2>4 DEF TypeOK, Compare
<1>2. CASE CloseChannel
  BY <1>2 DEF TypeOK, CloseChannel
<1>3. CASE GiveUp
  BY <1>3 DEF TypeOK, GiveUp
<1>4. CASE Collect
  <2>1. found' \subseteq Paths \X Kinds
    BY <1>4 DEF TypeOK, Collect, Collected, Kinds
  <2>2. pc' \in {"done", "failed"}
    BY <1>4 DEF Collect
  <2> QED
    BY <1>4, <2>1, <2>2 DEF TypeOK, Collect
<1>5. CASE \E w \in Ids : Send(w)
  <2>1. PICK w \in Ids : Send(w)
    BY <1>5
  <2>2. Least(unsent) \in Paths
    BY <2>1, LeastFacts, PathsAssumption DEF Send, TypeOK
  <2> QED
    BY <2>1, <2>2 DEF TypeOK, Send
<1> QED
  BY <1>1, <1>2, <1>3, <1>4, <1>5

Busy(w) == state[w] \in {"check", "source", "destination"}

\* The steps of a worker, which has a task while it works.
LEMMA TypeWorker ==
  ASSUME TypeOK, \A v \in Ids : Busy(v) => job[v] \in Paths, NEW w \in Ids, Worker(w) \/ ReadFails(w)
  PROVE  TypeOK'
<1> USE DEF treeVars, options, walkVars
<1>1. CASE Leave(w)
  BY <1>1 DEF TypeOK, Leave
<1>2. CASE Start(w)
  BY <1>2 DEF TypeOK, Start, Fail
<1>3. CASE HashSource(w)
  <2>1. CASE tree["source"][job[w]].type # "file"
    BY <1>3, <2>1 DEF TypeOK, HashSource, Fail
  <2>2. CASE tree["source"][job[w]].type = "file" /\ job[w] \in Paths
    <3>1. tree["source"][job[w]] \in Nodes
      BY <2>2 DEF TypeOK, Sides
    <3>2. tree["source"][job[w]].content \in Contents
      BY <2>2, <3>1 DEF Nodes, Files, Absent, Directory, Symlink
    <3> QED
      BY <1>3, <2>2, <3>2 DEF TypeOK, HashSource
  <2> QED
    BY <1>3, <2>1, <2>2 DEF Busy, HashSource
<1>4. CASE HashDestination(w)
  <2>1. CASE tree["destination"][job[w]].type # "file"
    BY <1>4, <2>1 DEF TypeOK, HashDestination, Fail
  <2>2. CASE tree["destination"][job[w]].type = "file"
    BY <1>4, <2>2 DEF TypeOK, HashDestination
  <2> QED
    BY <2>1, <2>2
<1>5. CASE ReadFails(w)
  BY <1>5, BoundsAssumption DEF TypeOK, ReadFails, Fail
<1> QED
  BY <1>1, <1>2, <1>3, <1>4, <1>5 DEF Worker

\* The walk stops on an error, and somebody writes to a tree.
LEMMA TypeOthers ==
  ASSUME TypeOK, ScanFails \/ (\E s \in Sides, p \in Paths : Write(s, p))
  PROVE  TypeOK'
<1> USE DEF options, walkVars, poolVars
<1>1. CASE ScanFails
  BY <1>1, BoundsAssumption DEF TypeOK, ScanFails, treeVars
<1>2. CASE \E s \in Sides, p \in Paths : Write(s, p)
  <2>1. PICK s \in Sides, p \in Paths : Write(s, p)
    BY <1>2
  <2>2. PICK n \in Nodes : tree' = [tree EXCEPT ![s][p] = n]
    BY <2>1 DEF Write, Nodes
  <2>3. [tree[s] EXCEPT ![p] = n] \in [Paths -> Nodes]
    BY DEF TypeOK
  <2>4. tree' = [tree EXCEPT ![s] = [tree[s] EXCEPT ![p] = n]]
    BY <2>2
  <2>5. tree' \in [Sides -> [Paths -> Nodes]]
    BY <2>3, <2>4 DEF TypeOK
  <2>6. changed' \subseteq Paths /\ writes' \in 0..MaxWrites
    BY <2>1, BoundsAssumption DEF TypeOK, Write
  <2> QED
    BY <2>1, <2>5, <2>6 DEF TypeOK, Write
<1> QED
  BY <1>1, <1>2

-----------------------------------------------------------------------------
(* The invariant *)

\* While the trees are walked and compared there is nothing in the pool.
Early == pc \in {"root", "list", "visit", "compare"}
Idle == \A w \in Ids : state[w] = "ended"
PoolEmpty == unsent = {} /\ ~groupDone /\ Idle /\ (\A p \in Paths : results[p] = "none")

\* Nobody is given, and nobody works on, anything but a task.
TasksOnly ==
    /\ unsent \subseteq Tasks
    /\ \A w \in Ids : Busy(w) => job[w] \in Tasks
    /\ \A p \in Paths : results[p] # "none" => p \in Tasks

\* Until somebody fails no task is lost.
Held(p) == p \in unsent \/ results[p] # "none" \/ \E w \in Ids : Busy(w) /\ job[w] = p
NoTaskLost == pc \in {"send", "wait"} /\ ~groupDone => \A p \in Tasks : Held(p)

\* At the end there is nothing on the way any more.
Settled ==
    /\ pc = "wait" => unsent = {}
    /\ pc = "failed" => groupDone \/ Idle
    /\ pc = "done" => Idle /\ \A p \in Tasks : results[p] # "none"

Different == {<<p, "content_mismatch">> : p \in {q \in Paths : results[q] = "different"}}
FoundSoFar ==
    /\ pc \in {"send", "wait"} => found = InventoryDifferences
    /\ pc = "done" => found = InventoryDifferences \cup Different

\* As long as nobody writes, what was seen of a tree is what it is.
Seen ==
    changed = {} =>
        /\ \A p \in ahead : tree[side][p] # Absent
        /\ \A p \in dirs : tree[side][p] = Directory
        /\ pc = "list" => ~Gone
        /\ \A s \in Sides, p \in Paths : entries[s][p].type = "file" => tree[s][p].type = "file"

Blamed == pc = "failed" \/ groupDone => faults > 0 \/ changed # {}

PoolInv == (Early => PoolEmpty) /\ TasksOnly /\ NoTaskLost /\ Settled
IInv == TypeOK /\ PoolInv /\ FoundSoFar /\ Seen /\ Blamed

\* What is derived from the inventories changes with them only.
LEMMA SameInventory ==
  ASSUME entries' = entries, metadata' = metadata
  PROVE  /\ Tasks' = Tasks
         /\ InventoryDifferences' = InventoryDifferences
<1>1. Tasks' = Tasks /\ Pairs' = Pairs /\ Listed' = Listed /\ MatchedDirectories' = MatchedDirectories
  BY DEF Tasks, Pairs, Listed, MatchedDirectories, Source, Destination
<1>2. \A p \in Paths : Mismatch(p)' = Mismatch(p)
  BY DEF Mismatch, Source, Destination
<1>3. MetadataDifferences' = MetadataDifferences
  BY <1>1 DEF MetadataDifferences, Source, Destination
<1>4. Listed \subseteq Paths
  BY DEF Listed
<1>5. {<<p, Mismatch(p)>> : p \in Listed \ (Pairs \cup MatchedDirectories)}'
        = {<<p, Mismatch(p)>> : p \in Listed \ (Pairs \cup MatchedDirectories)}
  BY <1>1, <1>2, <1>4
<1> QED
  BY <1>1, <1>3, <1>5 DEF InventoryDifferences

LEMMA SeenKept ==
  ASSUME Seen, pc' = "list" => pc = "list",
         UNCHANGED <<tree, changed, side, ahead, dirs, at, entries>>
  PROVE  Seen'
BY DEF Seen, Gone

LEMMA InvInit == Init => IInv
<1> SUFFICES ASSUME Init PROVE IInv
  OBVIOUS
<1>1. TypeOK
  BY TypeInit
<1>2. PoolInv
  BY DEF Init, PoolInv, Early, PoolEmpty, Idle, TasksOnly, Busy, NoTaskLost, Settled
<1>3. FoundSoFar /\ Blamed
  BY DEF Init, FoundSoFar, Blamed
<1>4. Seen
  BY DEF Init, Seen, Absent, Sides
<1> QED
  BY <1>1, <1>2, <1>3, <1>4 DEF IInv

\* The walk leaves the pool empty, whether it goes on or stops.
LEMMA PoolWalk ==
  ASSUME PoolInv, Early, pc' \in {"root", "list", "visit", "compare", "failed"},
         UNCHANGED poolVars
  PROVE  PoolInv' /\ FoundSoFar'
<1>1. PoolEmpty'
  BY DEF PoolInv, PoolEmpty, Idle, poolVars
<1>2. TasksOnly'
  BY <1>1 DEF PoolEmpty, Idle, TasksOnly, Busy
<1>3. NoTaskLost' /\ Settled' /\ FoundSoFar'
  BY <1>1 DEF PoolEmpty, NoTaskLost, Settled, FoundSoFar
<1> QED
  BY <1>1, <1>2, <1>3 DEF PoolInv

LEMMA InvWalk ==
  ASSUME IInv, WalkRoot \/ ListDir \/ Visit \/ ScanDone \/ ScanFails
  PROVE  IInv'
<1>1. TypeOK'
  BY TypeWalk, TypeOthers DEF IInv
<1>2. PoolInv' /\ FoundSoFar'
  <2>1. /\ Early /\ UNCHANGED poolVars
        /\ pc' \in {"root", "list", "visit", "compare", "failed"}
    BY DEF WalkRoot, ListDir, Visit, ScanDone, ScanFails, Early
  <2> QED
    BY <2>1, PoolWalk DEF IInv
<1> USE DEF treeVars, options, walkVars, poolVars
<1>3. CASE WalkRoot
  <2>1. Seen'
    BY <1>3 DEF IInv, Seen, WalkRoot, Gone
  <2>2. Blamed'
    BY <1>3 DEF IInv, Blamed, WalkRoot
  <2> QED
    BY <1>1, <1>2, <2>1, <2>2 DEF IInv
<1>4. CASE ListDir
  <2>1. Seen'
    BY <1>4 DEF IInv, Seen, ListDir
  <2>2. Blamed'
    BY <1>4 DEF IInv, Blamed, Seen, ListDir
  <2> QED
    BY <1>1, <1>2, <2>1, <2>2 DEF IInv
<1>5. CASE Visit
  <2> DEFINE p == Least(ahead)
  <2>1. p \in ahead /\ p \in Paths
    BY <1>5, LeastFacts, PathsAssumption DEF Visit, TypeOK, IInv
  <2>2. Blamed'
    BY <1>5, <2>1 DEF IInv, Blamed, Seen, Visit
  <2>3. ASSUME changed' = {}
        PROVE  /\ \A q \in ahead' : tree'[side'][q] # Absent
               /\ \A q \in dirs' : tree'[side'][q] = Directory
               /\ pc' = "list" => ~Gone'
    <3>1. Seen /\ changed = {}
      BY <1>5, <2>3 DEF IInv, Visit
    <3> QED
      BY <1>5, <2>1, <3>1 DEF Seen, Visit, Gone
  <2>4. ASSUME changed' = {}, NEW s \in Sides, NEW q \in Paths, entries'[s][q].type = "file"
        PROVE  tree'[s][q].type = "file"
    <3>1. changed = {} /\ UNCHANGED tree
      BY <1>5, <2>4 DEF Visit
    <3>2. CASE entries'[s][q] = entries[s][q]
      BY <2>4, <3>1, <3>2 DEF IInv, Seen
    <3>3. CASE entries'[s][q] # entries[s][q]
      <4>1. entries' = [entries EXCEPT ![side] = [entries[side] EXCEPT ![p] = Scan(tree[side][p])]]
        BY <1>5, <3>3 DEF Visit
      <4>2. entries \in [Sides -> [Paths -> Entries]] /\ side \in Sides /\ tree[side][p] \in Nodes
        BY <2>1 DEF IInv, TypeOK
      <4>3. s = side /\ q = p /\ entries'[s][q] = Scan(tree[side][p])
        BY <3>3, <4>1, <4>2, <2>1
      <4> QED
        BY <2>4, <3>1, <4>2, <4>3, ScanFacts
    <3> QED
      BY <3>2, <3>3
  <2>5. Seen'
    BY <2>3, <2>4 DEF Seen
  <2> QED
    BY <1>1, <1>2, <2>2, <2>5 DEF IInv
<1>6. CASE ScanDone
  <2>1. dirs = {}
    BY <1>6 DEF IInv, TypeOK, ScanDone
  <2>2. Seen'
    BY <1>6, <2>1 DEF IInv, Seen, ScanDone
  <2>3. Blamed'
    BY <1>6 DEF IInv, Blamed, ScanDone
  <2> QED
    BY <1>1, <1>2, <2>2, <2>3 DEF IInv
<1>7. CASE ScanFails
  <2>1. Seen'
    BY <1>7, SeenKept DEF IInv, ScanFails
  <2>2. Blamed'
    BY <1>7 DEF IInv, TypeOK, Blamed, ScanFails
  <2> QED
    BY <1>1, <1>2, <2>1, <2>2 DEF IInv
<1> QED
  BY <1>3, <1>4, <1>5, <1>6, <1>7

\* The comparison fills the pool, or finds nothing to do.
LEMMA InvCompare ==
  ASSUME IInv, Compare
  PROVE  IInv'
<1> USE DEF treeVars, options, walkVars
<1>1. TypeOK'
  BY TypeDispatch DEF IInv
<1>2. Tasks' = Tasks /\ InventoryDifferences' = InventoryDifferences
  BY SameInventory DEF Compare
<1>3. PoolEmpty /\ ~groupDone'
  BY DEF IInv, PoolInv, PoolEmpty, Early, Compare
<1>4. TasksOnly'
  BY <1>2, <1>3 DEF TasksOnly, PoolEmpty, Busy, Compare
<1>5. NoTaskLost'
  BY <1>2 DEF NoTaskLost, Held, Compare
<1>6. PoolInv' /\ FoundSoFar'
  <2>1. CASE Tasks = {}
    <3>1. Cardinality(Tasks) = 0
      BY <2>1, FS_EmptySet
    <3>2. \A w \in Ids : ~(w <= Cardinality(Tasks))
      BY <3>1, BoundsAssumption DEF Ids
    <3>3. Idle'
      BY <3>2 DEF Idle, Compare
    <3>4. Settled' /\ ~Early'
      BY <1>2, <2>1, <3>3 DEF Settled, Compare, Early
    <3>5. Different' = {}
      BY <1>3 DEF Different, PoolEmpty, Compare
    <3>6. FoundSoFar'
      BY <1>2, <3>5 DEF FoundSoFar, Compare
    <3>7. PoolInv'
      BY <1>4, <1>5, <3>4 DEF PoolInv
    <3> QED
      BY <3>6, <3>7
  <2>2. CASE Tasks # {}
    <3>1. PoolInv'
      BY <1>4, <1>5, <2>2 DEF PoolInv, Early, Settled, Compare
    <3>2. FoundSoFar'
      BY <1>2, <2>2 DEF FoundSoFar, Compare
    <3> QED
      BY <3>1, <3>2
  <2> QED
    BY <2>1, <2>2
<1>7. Seen'
  BY SeenKept DEF IInv, Compare
<1>8. Blamed'
  BY <1>3 DEF Blamed, Compare
<1> QED
  BY <1>1, <1>6, <1>7, <1>8 DEF IInv

\* The dispatcher's other steps.
LEMMA InvDispatch ==
  ASSUME IInv, CloseChannel \/ GiveUp \/ Collect \/ (\E w \in Ids : Send(w))
  PROVE  IInv'
<1> USE DEF treeVars, options, walkVars
<1>1. TypeOK'
  BY TypeDispatch DEF IInv
<1>2. Tasks' = Tasks /\ InventoryDifferences' = InventoryDifferences
  BY SameInventory DEF CloseChannel, GiveUp, Collect, Send
<1>3. Seen'
  BY SeenKept DEF IInv, CloseChannel, GiveUp, Collect, Send
<1>4. CASE CloseChannel
  <2> USE DEF poolVars
  <2>1. TasksOnly'
    BY <1>2, <1>4 DEF IInv, PoolInv, TasksOnly, Busy, CloseChannel
  <2>2. NoTaskLost'
    BY <1>2, <1>4 DEF IInv, PoolInv, NoTaskLost, Held, Busy, CloseChannel
  <2>3. Settled' /\ ~Early'
    BY <1>4 DEF Settled, Early, CloseChannel
  <2>4. FoundSoFar' /\ Blamed'
    BY <1>2, <1>4 DEF IInv, FoundSoFar, Blamed, CloseChannel
  <2> QED
    BY <1>1, <1>3, <2>1, <2>2, <2>3, <2>4 DEF IInv, PoolInv
<1>5. CASE GiveUp
  <2> USE DEF poolVars
  <2>1. TasksOnly'
    BY <1>2, <1>5 DEF IInv, PoolInv, TasksOnly, Busy, GiveUp
  <2>2. NoTaskLost' /\ Settled' /\ ~Early'
    BY <1>5 DEF NoTaskLost, Settled, Early, GiveUp
  <2>3. FoundSoFar' /\ Blamed'
    BY <1>5 DEF IInv, FoundSoFar, Blamed, GiveUp
  <2> QED
    BY <1>1, <1>3, <2>1, <2>2, <2>3 DEF IInv, PoolInv
<1>6. CASE Collect
  <2> USE DEF poolVars
  <2>1. TasksOnly'
    BY <1>2, <1>6 DEF IInv, PoolInv, TasksOnly, Busy, Collect
  <2>2. NoTaskLost' /\ ~Early'
    BY <1>6 DEF NoTaskLost, Early, Collect
  <2>3. Idle'
    BY <1>6 DEF Idle, Collect
  <2>4. ASSUME pc' = "done", NEW p \in Tasks
        PROVE  results'[p] # "none"
    <3>1. ~groupDone /\ pc = "wait" /\ unsent = {} /\ UNCHANGED results
      BY <1>6, <2>4 DEF Collect, IInv, PoolInv, Settled
    <3>2. Held(p)
      BY <3>1 DEF IInv, PoolInv, NoTaskLost
    <3> QED
      BY <1>6, <3>1, <3>2 DEF Held, Busy, Collect
  <2>5. Settled'
    BY <1>2, <1>6, <2>3, <2>4 DEF Settled, Collect
  <2>6. FoundSoFar'
    BY <1>2, <1>6 DEF IInv, FoundSoFar, Different, Collected, Collect
  <2>7. Blamed'
    BY <1>6 DEF IInv, Blamed, Collect
  <2> QED
    BY <1>1, <1>3, <2>1, <2>2, <2>5, <2>6, <2>7 DEF IInv, PoolInv
<1>7. CASE \E w \in Ids : Send(w)
  <2>1. PICK w \in Ids : Send(w)
    BY <1>7
  <2> DEFINE n == Least(unsent)
  <2>2. n \in unsent /\ n \in Tasks
    BY <2>1, LeastFacts, PathsAssumption DEF Send, IInv, TypeOK, PoolInv, TasksOnly
  <2>3. /\ state' = [state EXCEPT ![w] = "check"] /\ job' = [job EXCEPT ![w] = n]
        /\ state[w] = "receive" /\ unsent' = unsent \ {n} /\ pc = "send" /\ pc' = "send"
        /\ UNCHANGED <<results, groupDone, found, faults, changed>>
    BY <2>1 DEF Send
  <2>4. state \in [Ids -> {"receive", "check", "source", "destination", "ended"}] /\ job \in [Ids -> Paths \cup {0}]
    BY DEF IInv, TypeOK
  <2> HIDE DEF n
  <2>5. TasksOnly'
    BY <1>2, <2>2, <2>3, <2>4 DEF IInv, PoolInv, TasksOnly, Busy
  <2>6. ASSUME ~groupDone', NEW p \in Tasks
        PROVE  Held(p)'
    <3>1. Held(p)
      BY <2>3, <2>6 DEF IInv, PoolInv, NoTaskLost
    <3>2. CASE p = n
      BY <2>3, <2>4, <3>2 DEF Held, Busy
    <3>3. CASE p # n
      BY <2>3, <2>4, <3>1, <3>3 DEF Held, Busy
    <3> QED
      BY <3>2, <3>3
  <2>7. NoTaskLost'
    BY <1>2, <2>6 DEF NoTaskLost
  <2>8. Settled' /\ ~Early'
    BY <2>3 DEF Settled, Early
  <2>9. FoundSoFar' /\ Blamed'
    BY <1>2, <2>3 DEF IInv, FoundSoFar, Blamed
  <2> QED
    BY <1>1, <1>3, <2>5, <2>7, <2>8, <2>9 DEF IInv, PoolInv
<1> QED
  BY <1>4, <1>5, <1>6, <1>7

\* A worker's steps: it leaves, starts, hashes, and stops on an error.
LEMMA InvWorker ==
  ASSUME IInv, NEW w \in Ids, Worker(w) \/ ReadFails(w)
  PROVE  IInv'
<1> USE DEF treeVars, options, walkVars
<1>1. TypeOK'
  <2>1. \A v \in Ids : Busy(v) => job[v] \in Paths
    BY DEF IInv, PoolInv, TasksOnly, Tasks, Pairs
  <2> QED
    BY <2>1, TypeWorker DEF IInv
<1>2. Tasks' = Tasks /\ InventoryDifferences' = InventoryDifferences
  BY SameInventory DEF Worker, Leave, Start, HashSource, HashDestination, ReadFails
<1>3. Seen'
  BY SeenKept DEF IInv, Worker, Leave, Start, HashSource, HashDestination, ReadFails
<1>4. state[w] # "ended" /\ ~Idle /\ pc \in {"send", "wait", "failed"}
  <2>1. state[w] # "ended"
    BY DEF Worker, Leave, Start, HashSource, HashDestination, ReadFails
  <2>2. ~Idle
    BY <2>1 DEF Idle
  <2> QED
    BY <2>1, <2>2 DEF IInv, TypeOK, PoolInv, Early, PoolEmpty, Settled
<1>5. /\ UNCHANGED <<pc, found, unsent, job, changed>>
      /\ state \in [Ids -> {"receive", "check", "source", "destination", "ended"}]
  BY DEF IInv, TypeOK, Worker, Leave, Start, HashSource, HashDestination, ReadFails
<1>6. ~Early'
  BY <1>4, <1>5 DEF Early
<1>7. FoundSoFar'
  BY <1>2, <1>4, <1>5 DEF IInv, FoundSoFar
<1>8. Settled'
  <2>1. groupDone => groupDone'
    BY DEF Worker, Leave, Start, HashSource, HashDestination, ReadFails, Fail
  <2> QED
    BY <1>4, <1>5, <2>1 DEF IInv, PoolInv, Settled
<1>9. CASE Leave(w)
  <2>1. state' = [state EXCEPT ![w] = "ended"] /\ state[w] = "receive" /\ UNCHANGED <<results, groupDone, faults>>
    BY <1>9 DEF Leave
  <2>2. TasksOnly'
    BY <1>2, <1>5, <2>1 DEF IInv, PoolInv, TasksOnly, Busy
  <2>3. NoTaskLost'
    BY <1>2, <1>5, <2>1 DEF IInv, PoolInv, NoTaskLost, Held, Busy
  <2>4. Blamed'
    BY <1>5, <2>1 DEF IInv, Blamed
  <2> QED
    BY <1>1, <1>3, <1>6, <1>7, <1>8, <2>2, <2>3, <2>4 DEF IInv, PoolInv
\* A failing worker: no task need be kept, but the failure has to be explained.
<1>10. ASSUME Fail(w), UNCHANGED results, faults' > 0 \/ changed' # {}
       PROVE  IInv'
  <2>1. TasksOnly'
    BY <1>2, <1>5, <1>10 DEF IInv, PoolInv, TasksOnly, Busy, Fail
  <2>2. NoTaskLost' /\ Blamed'
    BY <1>10 DEF NoTaskLost, Blamed, Fail
  <2> QED
    BY <1>1, <1>3, <1>6, <1>7, <1>8, <2>1, <2>2 DEF IInv, PoolInv
\* A worker that goes on with its task.
<1>11. ASSUME NEW next \in {"source", "destination"}, Busy(w), state' = [state EXCEPT ![w] = next],
              UNCHANGED <<results, groupDone, faults>>
       PROVE  IInv'
  <2>1. TasksOnly'
    BY <1>2, <1>5, <1>11 DEF IInv, PoolInv, TasksOnly, Busy
  <2>2. NoTaskLost'
    BY <1>2, <1>5, <1>11 DEF IInv, PoolInv, NoTaskLost, Held, Busy
  <2>3. Blamed'
    BY <1>5, <1>11 DEF IInv, Blamed
  <2> QED
    BY <1>1, <1>3, <1>6, <1>7, <1>8, <2>1, <2>2, <2>3 DEF IInv, PoolInv
\* What was a file when it was listed is none any more only if somebody wrote.
<1>12. ASSUME NEW s \in Sides, Busy(w), tree[s][job[w]].type # "file"
       PROVE  changed # {}
  <2>1. job[w] \in Paths /\ entries[s][job[w]].type = "file"
    BY <1>12 DEF IInv, PoolInv, TasksOnly, Tasks, Pairs, Source, Destination, Sides
  <2> QED
    BY <1>12, <2>1 DEF IInv, Seen
<1>13. CASE Start(w)
  <2>1. Busy(w) /\ UNCHANGED <<results, faults>>
    BY <1>13 DEF Busy, Start
  <2>2. CASE groupDone
    BY <1>5, <1>10, <1>13, <2>1, <2>2 DEF Start, IInv, Blamed
  <2>3. CASE ~groupDone
    BY <1>11, <1>13, <2>1, <2>3 DEF Start
  <2> QED
    BY <2>2, <2>3
<1>14. CASE HashSource(w)
  <2>1. Busy(w) /\ UNCHANGED <<results, faults>>
    BY <1>14 DEF Busy, HashSource
  <2>2. CASE tree["source"][job[w]].type # "file"
    BY <1>5, <1>10, <1>12, <1>14, <2>1, <2>2 DEF HashSource, Sides
  <2>3. CASE tree["source"][job[w]].type = "file"
    BY <1>11, <1>14, <2>1, <2>3 DEF HashSource
  <2> QED
    BY <2>2, <2>3
<1>15. CASE HashDestination(w)
  <2>1. Busy(w) /\ UNCHANGED faults
    BY <1>15 DEF Busy, HashDestination
  <2>2. CASE tree["destination"][job[w]].type # "file"
    BY <1>5, <1>10, <1>12, <1>15, <2>1, <2>2 DEF HashDestination, Sides
  <2>3. CASE tree["destination"][job[w]].type = "file"
    <3> DEFINE verdict == IF tree["destination"][job[w]].content = hash[w] THEN "equal" ELSE "different"
    <3>1. /\ results' = [results EXCEPT ![job[w]] = verdict]
          /\ state' = [state EXCEPT ![w] = "receive"]
          /\ UNCHANGED groupDone
      BY <1>15, <2>3 DEF HashDestination
    <3>2. verdict # "none" /\ job[w] \in Tasks /\ results \in [Paths -> {"none", "equal", "different"}]
      BY <2>1 DEF IInv, TypeOK, PoolInv, TasksOnly
    <3> HIDE DEF verdict
    <3>3. TasksOnly'
      BY <1>2, <1>5, <3>1, <3>2 DEF IInv, PoolInv, TasksOnly, Busy
    <3>4. ASSUME pc \in {"send", "wait"}, ~groupDone, NEW p \in Tasks
          PROVE  Held(p)'
      <4>1. Held(p) /\ p \in Paths
        BY <3>4 DEF IInv, PoolInv, NoTaskLost, Tasks, Pairs
      <4>2. CASE p = job[w]
        BY <3>1, <3>2, <4>1, <4>2 DEF Held
      <4>3. CASE p # job[w]
        BY <1>5, <3>1, <3>2, <4>1, <4>3 DEF Held, Busy
      <4> QED
        BY <4>2, <4>3
    <3>5. NoTaskLost'
      BY <1>2, <1>5, <3>1, <3>4 DEF NoTaskLost
    <3>6. Blamed'
      BY <1>5, <2>1, <3>1 DEF IInv, Blamed
    <3> QED
      BY <1>1, <1>3, <1>6, <1>7, <1>8, <3>3, <3>5, <3>6 DEF IInv, PoolInv
  <2> QED
    BY <2>2, <2>3
<1>16. CASE ReadFails(w)
  <2>1. Fail(w) /\ UNCHANGED results /\ faults' = faults + 1 /\ faults \in Nat
    BY <1>16 DEF ReadFails, IInv, TypeOK
  <2>2. faults' > 0
    BY <2>1
  <2> QED
    BY <1>10, <2>1, <2>2
<1> QED
  BY <1>9, <1>13, <1>14, <1>15, <1>16 DEF Worker

LEMMA InvWrite ==
  ASSUME IInv, NEW s \in Sides, NEW p \in Paths, Write(s, p)
  PROVE  IInv'
<1> USE DEF options, walkVars, poolVars
<1>1. TypeOK'
  BY TypeOthers DEF IInv
<1>2. Tasks' = Tasks /\ InventoryDifferences' = InventoryDifferences
  BY SameInventory DEF Write
<1>3. PoolInv'
  <2>1. TasksOnly'
    BY <1>2 DEF IInv, PoolInv, TasksOnly, Busy, Write
  <2>2. NoTaskLost'
    BY <1>2 DEF IInv, PoolInv, NoTaskLost, Held, Busy, Write
  <2>3. Settled' /\ (Early' => PoolEmpty')
    BY <1>2 DEF IInv, PoolInv, Settled, Early, PoolEmpty, Idle, Write
  <2> QED
    BY <2>1, <2>2, <2>3 DEF PoolInv
<1>4. FoundSoFar'
  BY <1>2 DEF IInv, FoundSoFar, Write
<1>5. p \in changed'
  BY DEF Write
<1> QED
  BY <1>1, <1>3, <1>4, <1>5 DEF IInv, Seen, Blamed

LEMMA InvStep == IInv /\ [Next]_vars => IInv'
<1> SUFFICES ASSUME IInv, [Next]_vars PROVE IInv'
  OBVIOUS
<1>1. CASE WalkRoot \/ ListDir \/ Visit \/ ScanDone \/ ScanFails
  BY <1>1, InvWalk
<1>2. CASE Compare
  BY <1>2, InvCompare
<1>3. CASE CloseChannel \/ GiveUp \/ Collect \/ (\E w \in Ids : Send(w))
  BY <1>3, InvDispatch
<1>4. CASE \E w \in Ids : Worker(w) \/ ReadFails(w)
  BY <1>4, InvWorker
<1>5. CASE \E s \in Sides, p \in Paths : Write(s, p)
  BY <1>5, InvWrite
<1>6. CASE UNCHANGED vars
  <2> USE <1>6 DEF vars, treeVars, options, walkVars, poolVars
  <2>1. Tasks' = Tasks /\ InventoryDifferences' = InventoryDifferences
    BY SameInventory
  <2>2. TypeOK'
    BY DEF IInv, TypeOK
  <2>3. PoolInv'
    BY <2>1 DEF IInv, PoolInv, TasksOnly, NoTaskLost, Settled, Held, Busy, Early, PoolEmpty, Idle
  <2>4. FoundSoFar'
    BY <2>1 DEF IInv, FoundSoFar, Different
  <2>5. Seen'
    BY SeenKept DEF IInv
  <2>6. Blamed'
    BY DEF IInv, Blamed
  <2> QED
    BY <2>2, <2>3, <2>4, <2>5, <2>6 DEF IInv
<1> QED
  BY <1>1, <1>2, <1>3, <1>4, <1>5, <1>6 DEF Next, Main

-----------------------------------------------------------------------------
(* Theorems *)

\* The invariant of VerifyDir: what the pool holds are tasks, no task is lost
\* until somebody fails, and what was seen of a tree is still there unless
\* somebody wrote to it.
THEOREM Inductive == Spec => []IInv
<1>1. Init => IInv
  BY InvInit
<1>2. IInv /\ [Next]_vars => IInv'
  BY InvStep
<1> QED
  BY <1>1, <1>2, PTL DEF Spec

\* Every variable of VerifyDir keeps its type, in particular every entry that
\* the callback of WalkDir keeps is a scannedEntry of a known type.
THEOREM TypeCorrect == Spec => []TypeOK
<1>1. IInv => TypeOK
  BY DEF IInv
<1> QED
  BY <1>1, Inductive, PTL

\* VerifyDir fails only by a read that failed or by somebody's write while it
\* ran, whatever the trees, the roots, the options and the number of workers.
THEOREM FailureExplained == Spec => []FailureHasCause
<1>1. IInv => FailureHasCause
  BY DEF IInv, Blamed, FailureHasCause
<1> QED
  BY <1>1, Inductive, PTL

\* When runParallel has given up, no worker begins another pair.
THEOREM FailureEndsWork == Spec => NoNewWorkAfterFailure
<1>1. ASSUME IInv, [Next]_vars, pc = "failed", NEW w \in Ids, state'[w] = "source"
      PROVE  state[w] = "source"
  <2>1. state \in [Ids -> {"receive", "check", "source", "destination", "ended"}]
    BY <1>1 DEF IInv, TypeOK
  <2>2. groupDone \/ Idle
    BY <1>1 DEF IInv, PoolInv, Settled
  <2>3. CASE \E v \in Ids : Start(v)
    BY <1>1, <2>1, <2>2, <2>3 DEF Start, Fail, Idle
  <2>4. CASE \E v \in Ids : Leave(v) \/ HashSource(v) \/ HashDestination(v) \/ ReadFails(v)
    BY <1>1, <2>1, <2>4 DEF Leave, HashSource, HashDestination, ReadFails, Fail
  <2>5. CASE UNCHANGED state
    BY <1>1, <2>5
  <2>6. \/ \E v \in Ids : Start(v) \/ Leave(v) \/ HashSource(v) \/ HashDestination(v) \/ ReadFails(v)
        \/ UNCHANGED state
    BY <1>1 DEF Next, Main, Worker, WalkRoot, ListDir, Visit, ScanDone, ScanFails, Compare, CloseChannel,
                GiveUp, Collect, Send, Write, poolVars, vars
  <2> QED
    BY <2>3, <2>4, <2>5, <2>6
<1>2. IInv /\ [Next]_vars =>
        [pc = "failed" => \A w \in Ids : state'[w] = "source" => state[w] = "source"]_vars
  BY <1>1
<1> QED
  BY <1>2, Inductive, PTL DEF Spec, NoNewWorkAfterFailure

\* The reasons to report a path: what is there is not of one kind, or is a pair with other
\* metadata or other contents.
Unlike == Listed \ (Pairs \cup MatchedDirectories)
Stale == {p \in Pairs : metadata /\ Source(p).meta # Destination(p).meta}
Unequal == {p \in Paths : results[p] = "different"}

\* At the end a path is reported for one of these reasons, and a pair for which
\* there is none has matched.
LEMMA ReportedAre ==
  ASSUME IInv, pc = "done"
  PROVE  /\ Reported = Unlike \cup (Pairs \ Tasks) \cup Stale \cup Unequal
         /\ MatchedFiles = Tasks \ (Stale \cup Unequal)
         /\ Unequal \subseteq Tasks
<1>1. /\ found = InventoryDifferences \cup Different
      /\ \A p \in Tasks : results[p] # "none"
      /\ results \in [Paths -> {"none", "equal", "different"}]
      /\ \A p \in Paths : results[p] # "none" => p \in Tasks
  BY DEF IInv, TypeOK, PoolInv, Settled, TasksOnly, FoundSoFar
<1>2. /\ Tasks \subseteq Pairs /\ Pairs \subseteq Listed /\ Listed \subseteq Paths
      /\ MatchedDirectories \subseteq Listed /\ MatchedDirectories \cap Pairs = {}
  BY DEF Tasks, Pairs, Listed, MatchedDirectories, Absent, Directory
<1>3. \A p \in Paths : Mismatch(p) \in Kinds /\ Mismatch(p) # "metadata_mismatch"
  BY DEF Mismatch, Kinds
<1>4. \A p \in Paths, k \in Kinds :
         <<p, k>> \in found <=>
            \/ p \in Unlike /\ k = Mismatch(p)
            \/ p \in Pairs \ Tasks /\ k = "size_mismatch"
            \/ p \in Stale /\ k = "metadata_mismatch"
            \/ p \in Unequal /\ k = "content_mismatch"
  <2> TAKE p \in Paths, k \in Kinds
  <2> DEFINE A == {<<q, Mismatch(q)>> : q \in Unlike}
             B == {<<q, "size_mismatch">> : q \in Pairs \ Tasks}
             C == IF metadata THEN MetadataDifferences ELSE {}
  <2>1. <<p, k>> \in A <=> p \in Unlike /\ k = Mismatch(p)
    OBVIOUS
  <2>2. <<p, k>> \in B <=> p \in Pairs \ Tasks /\ k = "size_mismatch"
    OBVIOUS
  <2>3. <<p, k>> \in C <=> p \in Stale /\ k = "metadata_mismatch"
    BY DEF MetadataDifferences, Stale
  <2>4. <<p, k>> \in Different <=> p \in Unequal /\ k = "content_mismatch"
    BY DEF Different, Unequal
  <2>5. found = A \cup B \cup C \cup Different
    BY <1>1 DEF InventoryDifferences, Unlike
  <2> HIDE DEF A, B, C
  <2>6. <<p, k>> \in found <=> <<p, k>> \in A \/ <<p, k>> \in B \/ <<p, k>> \in C \/ <<p, k>> \in Different
    BY <2>5
  <2> QED
    BY <2>1, <2>2, <2>3, <2>4, <2>6
<1>5. {"size_mismatch", "metadata_mismatch", "content_mismatch"} \subseteq Kinds
  BY DEF Kinds
<1>6. Stale \subseteq Pairs /\ Unequal \subseteq Tasks /\ Unlike = Listed \ (Pairs \cup MatchedDirectories)
  BY <1>1 DEF Unlike, Stale, Unequal
<1>7. \A p \in Tasks : results[p] = "equal" <=> p \notin Unequal
  BY <1>1, <1>2 DEF Unequal
<1>8. Reported = Unlike \cup (Pairs \ Tasks) \cup Stale \cup Unequal
  <2>1. \A p \in Paths : (\E k \in Kinds : <<p, k>> \in found)
           <=> p \in Unlike \/ p \in Pairs \ Tasks \/ p \in Stale \/ p \in Unequal
    <3> TAKE p \in Paths
    <3>1. Mismatch(p) \in Kinds
      BY <1>3
    <3> QED
      BY <1>4, <1>5, <3>1
  <2> QED
    BY <1>2, <1>6, <2>1 DEF Reported
<1>9. MatchedFiles = Tasks \ (Stale \cup Unequal)
  <2>1. \A p \in Tasks : <<p, "metadata_mismatch">> \in found <=> p \in Stale
    <3> TAKE p \in Tasks
    <3>1. p \in Paths /\ p \notin Unlike /\ p \notin Pairs \ Tasks
      BY <1>2, <1>6
    <3>2. "metadata_mismatch" \in Kinds
      BY <1>5
    <3> QED
      BY <1>4, <3>1, <3>2
  <2> QED
    BY <1>7, <2>1 DEF MatchedFiles
<1> QED
  BY <1>6, <1>8, <1>9

\* At the end the reported paths, the matched directories and the matched files
\* are apart and are together what was listed.
LEMMA Partition ==
  ASSUME IInv, pc = "done"
  PROVE  /\ Listed = MatchedDirectories \cup (MatchedFiles \cup Reported)
         /\ MatchedDirectories \cap (MatchedFiles \cup Reported) = {}
         /\ MatchedFiles \cap Reported = {}
<1>1. /\ Tasks \subseteq Pairs /\ Pairs \subseteq Listed
      /\ MatchedDirectories \subseteq Listed /\ MatchedDirectories \cap Pairs = {}
      /\ Stale \subseteq Pairs /\ Unlike = Listed \ (Pairs \cup MatchedDirectories)
  BY DEF Tasks, Pairs, Listed, MatchedDirectories, Absent, Directory, Stale, Unlike
<1> QED
  BY <1>1, ReportedAre

\* Every listed entry is counted once, as a matched directory, a matched file or
\* a reported path, whatever others write while the command runs.
THEOREM CountsAddUp == Spec => []EveryEntryOnce
<1>1. ASSUME IInv, pc = "done"
      PROVE  Cardinality(MatchedDirectories) + Cardinality(MatchedFiles) + Cardinality(Reported)
               = Cardinality(Listed)
  <2> DEFINE Compared == MatchedFiles \cup Reported
  <2>1. MatchedDirectories \subseteq Paths /\ MatchedFiles \subseteq Paths /\ Reported \subseteq Paths
    BY DEF MatchedDirectories, MatchedFiles, Tasks, Pairs, Reported
  <2>2. \A S : S \subseteq Paths => IsFiniteSet(S) /\ Cardinality(S) \in Nat
    BY PathsAssumption, FS_Subset, FS_CardinalityType
  <2>3. Listed = MatchedDirectories \cup Compared /\ MatchedDirectories \cap Compared = {}
        /\ MatchedFiles \cap Reported = {}
    BY <1>1, Partition
  <2>4. Cardinality(Compared) = Cardinality(MatchedFiles) + Cardinality(Reported)
    <3>1. Cardinality(Compared)
            = Cardinality(MatchedFiles) + Cardinality(Reported) - Cardinality(MatchedFiles \cap Reported)
      BY <2>1, <2>2, FS_Union
    <3> QED
      BY <2>1, <2>2, <2>3, <3>1, FS_EmptySet
  <2>5. Compared \subseteq Paths
    BY <2>1
  <2> HIDE DEF Compared
  <2>6. Cardinality(Listed) = Cardinality(MatchedDirectories) + Cardinality(Compared)
    <3>1. Cardinality(MatchedDirectories \cup Compared)
            = Cardinality(MatchedDirectories) + Cardinality(Compared) - Cardinality(MatchedDirectories \cap Compared)
      BY <2>1, <2>2, <2>5, FS_Union
    <3> QED
      BY <2>1, <2>2, <2>3, <2>5, <3>1, FS_EmptySet
  <2> QED
    BY <2>1, <2>2, <2>4, <2>6
<1>2. IInv => EveryEntryOnce
  BY <1>1 DEF EveryEntryOnce
<1> QED
  BY <1>2, Inductive, PTL

-----------------------------------------------------------------------------
(* What the walks know of the trees *)

\* The recursive definition of Up has a solution: what every set that holds p and is closed
\* under Parent holds.
LEMMA UpFacts ==
  ASSUME NEW p \in Paths
  PROVE  /\ Up[p] = {p} \cup (IF Parent[p] = 0 THEN {} ELSE Up[Parent[p]])
         /\ Parent[p] # 0 => Parent[p] \in Paths /\ Parent[p] < p /\ Parent[p] \in Up[p]
<1> DEFINE UpClosed(S) == \A x \in S : Parent[x] # 0 => Parent[x] \in S
           Above(q) == {x \in Paths : \A S \in SUBSET Paths : q \in S /\ UpClosed(S) => x \in S}
           Eq(f) == f = [q \in Paths |-> {q} \cup (IF Parent[q] = 0 THEN {} ELSE f[Parent[q]])]
           g == [q \in Paths |-> Above(q)]
<1>1. \A q \in Paths : Parent[q] \in Paths \cup {0} /\ Parent[q] < q
  BY PathsAssumption
<1>2. \A q \in Paths : UpClosed(Above(q)) /\ q \in Above(q)
  BY <1>1
<1>3. \A q \in Paths : Above(q) = {q} \cup (IF Parent[q] = 0 THEN {} ELSE Above(Parent[q]))
  <2> SUFFICES ASSUME NEW q \in Paths
               PROVE  Above(q) = {q} \cup (IF Parent[q] = 0 THEN {} ELSE Above(Parent[q]))
    OBVIOUS
  <2> DEFINE S == {q} \cup (IF Parent[q] = 0 THEN {} ELSE Above(Parent[q]))
  <2>1. S \in SUBSET Paths /\ q \in S
    OBVIOUS
  <2>2. UpClosed(S)
    BY <1>1, <1>2
  <2>3. Above(q) \subseteq S
    <3> HIDE DEF S, Closed
    <3> QED
      BY <2>1, <2>2
  <2>4. S \subseteq Above(q)
    <3>1. CASE Parent[q] = 0
      BY <1>2, <3>1
    <3>2. CASE Parent[q] # 0
      <4>1. Parent[q] \in Paths
        BY <1>1, <3>2
      <4>2. \A T \in SUBSET Paths : q \in T /\ UpClosed(T) => Parent[q] \in T
        BY <3>2
      <4>3. Above(Parent[q]) \subseteq Above(q)
        <5> HIDE DEF UpClosed
        <5> QED
          BY <4>2
      <4> QED
        BY <1>2, <3>2, <4>3
    <3> QED
      BY <3>1, <3>2
  <2> QED
    BY <2>3, <2>4
<1>4. Eq(g)
  <2> HIDE DEF Above
  <2>1. \A q \in Paths : Parent[q] # 0 => g[Parent[q]] = Above(Parent[q])
    BY <1>1
  <2> QED
    BY <1>3, <2>1
<1>5. Up = CHOOSE f : Eq(f)
  BY DEF Up
<1>6. Eq(Up)
  <2> HIDE DEF g, Eq
  <2> QED
    BY <1>4, <1>5
<1>7. \A q \in Paths : Up[q] = {q} \cup (IF Parent[q] = 0 THEN {} ELSE Up[Parent[q]])
  BY <1>6
<1>8. \A q \in Paths : q \in Up[q]
  BY <1>7
<1> QED
  BY <1>1, <1>7, <1>8

\* What holds of a path whenever it holds of its directory holds of all.
LEMMA Downwards ==
  ASSUME NEW G, \A p \in Paths : (Parent[p] # 0 => Parent[p] \in G) => p \in G
  PROVE  Paths \subseteq G
<1> SUFFICES ASSUME Paths \ G # {} PROVE FALSE
  OBVIOUS
<1> DEFINE B == Paths \ G
<1>1. B \subseteq Nat /\ B # {}
  BY PathsAssumption
<1>2. \E x \in B : \A y \in B : ~ (<<y, x>> \in OpToRel(<, Nat))
  <2> HIDE DEF B
  <2> QED
    BY <1>1, NatLessThanWellFounded, WFMin
<1>3. PICK x \in B : \A y \in B : ~ (y < x)
  <2> HIDE DEF B
  <2> QED
    BY <1>1, <1>2 DEF OpToRel
<1>4. Parent[x] # 0 => Parent[x] \in Paths /\ Parent[x] < x
  BY UpFacts
<1> QED
  BY <1>3, <1>4

\* Only a directory is scanned as a directory, and only nothing as nothing.
LEMMA ScanInjective ==
  ASSUME NEW n \in Nodes
  PROVE  /\ Scan(n) = Directory <=> n = Directory
         /\ Scan(n) = Absent <=> n = Absent
         /\ Scan(n) = Symlink <=> n = Symlink
<1>1. CASE n \in Files
  BY <1>1 DEF Files, Scan, Absent, Directory, Symlink
<1>2. CASE n \in {Absent, Directory, Symlink}
  BY <1>2 DEF Scan, Absent, Directory, Symlink
<1> QED
  BY <1>1, <1>2 DEF Nodes
\* What is still ahead of the walk of tree s.
Ahead(s) == IF s = side THEN ahead ELSE {}
Listing(s, d) == s = side /\ pc = "list" /\ at = d
RootListed(s) ==
    /\ roots[s] = "directory"
    /\ s = "destination" => side = s
    /\ s = side => pc # "root" /\ ~Listing(s, 0)
\* The walk has been at p, will be, or has skipped it.
Dealt(s, p) == p \in Ahead(s) \/ p \in excluded \/ entries[s][p] = Scan(tree[s][p])

\* The walk goes on from where it is: it leaves a tree when nothing of it is ahead, and has not
\* been in the other.
Onward ==
    /\ pc \notin {"list", "visit"} => ahead = {}
    /\ pc \notin {"root", "list", "visit"} => side = "destination"
    /\ side = "source" => \A p \in Paths : entries["destination"][p] = Absent
    /\ pc = "list" /\ at # 0 => entries[side][at] # Absent

\* Whatever is in the root, or in a directory of the inventory, has been dealt with, once the
\* directory is listed.
Downward ==
    /\ \A s \in Sides, p \in Paths : RootListed(s) /\ Parent[p] = 0 /\ p \notin changed => Dealt(s, p)
    /\ \A s \in Sides, p \in Paths :
          /\ Parent[p] # 0 /\ entries[s][Parent[p]] = Directory /\ ~Listing(s, Parent[p])
          /\ {p, Parent[p]} \cap changed = {}
          => Dealt(s, p)

\* Nothing comes into the inventory but from a directory that is in it, and nothing excluded.
Upward ==
    \A s \in Sides, p \in Paths :
       /\ Parent[p] # 0 /\ (p \in Ahead(s) \/ entries[s][p] # Absent) =>
             /\ entries[s][Parent[p]] # Absent
             /\ Parent[p] \notin changed => entries[s][Parent[p]] = Directory
       /\ entries[s][p] # Absent => p \notin excluded

\* What the walk knows of a path that nobody has written since the start is so.
Known ==
    /\ \A p \in ahead \ changed : tree[side][p] # Absent /\ (p \in dirs <=> tree[side][p] = Directory)
    /\ \A s \in Sides, p \in Paths \ changed :
          entries[s][p] # Absent => entries[s][p] = Scan(tree[s][p])

\* A verdict about such a pair is about what is in both files.
Hashed ==
    /\ \A w \in Ids : state[w] = "destination" /\ job[w] \notin changed =>
          hash[w] = tree["source"][job[w]].content
    /\ \A p \in Paths \ changed : results[p] # "none" =>
          (results[p] = "equal" <=> tree["source"][p].content = tree["destination"][p].content)

Rooted == \A s \in Sides : WellFormed(tree[s])

WalkInv == pc # "failed" => Onward /\ Downward /\ Upward /\ Known

-----------------------------------------------------------------------------
(* The walk *)

LEMMA WalkInit == Init => WalkInv /\ Hashed /\ Rooted
<1> SUFFICES ASSUME Init PROVE WalkInv /\ Hashed /\ Rooted
  OBVIOUS
<1>1. /\ pc = "root" /\ side = "source" /\ ahead = {} /\ changed = {}
      /\ \A s \in Sides, p \in Paths : entries[s][p] = Absent
      /\ \A w \in Ids : state[w] = "ended"
      /\ \A p \in Paths : results[p] = "none"
      /\ tree \in Trees
  BY DEF Init
<1>2. "destination" \in Sides /\ Absent # Directory
  BY DEF Sides, Absent, Directory
<1>3. \A p \in Paths : Parent[p] # 0 => Parent[p] \in Paths
  BY UpFacts
<1>4. Onward
  BY <1>1, <1>2 DEF Onward
<1>5. Downward
  <2>1. \A s \in Sides : ~ RootListed(s)
    BY <1>1 DEF RootListed, Sides
  <2> QED
    BY <1>1, <1>2, <1>3, <2>1 DEF Downward
<1>6. Upward /\ Known
  BY <1>1, <1>3 DEF Upward, Known, Ahead
<1>7. Hashed
  BY <1>1 DEF Hashed
<1>8. Rooted
  BY <1>1, DataAssumption DEF Rooted
<1> QED
  BY <1>4, <1>5, <1>6, <1>7, <1>8 DEF WalkInv

\* The walk of a tree begins.
LEMMA WalkRootInv == ASSUME IInv, WalkInv, WalkRoot PROVE WalkInv'
<1> USE DEF treeVars, options
<1>1. /\ pc = "root" /\ at' = 0 /\ ahead = {}
      /\ pc' = IF roots[side] = "directory" THEN "list" ELSE "visit"
      /\ UNCHANGED <<tree, changed, roots, excluded, side, ahead, dirs, entries>>
  BY DEF WalkRoot, WalkInv, Onward
<1>2. Onward /\ Downward /\ Upward /\ Known
  BY <1>1 DEF WalkInv
<1>3. Onward'
  BY <1>1, <1>2 DEF Onward
<1>4. Downward'
  <2>1. \A s \in Sides : RootListed(s)' => RootListed(s)
    BY <1>1 DEF RootListed, Listing
  <2>2. \A s \in Sides, p \in Paths : Dealt(s, p)' <=> Dealt(s, p)
    BY <1>1 DEF Dealt, Ahead
  <2>3. \A s \in Sides, d \in Paths : ~ Listing(s, d)
    BY <1>1 DEF Listing
  <2>4. \A p \in Paths : Parent[p] # 0 => Parent[p] \in Paths
    BY UpFacts
  <2> QED
    BY <1>1, <1>2, <2>1, <2>2, <2>3, <2>4 DEF Downward
<1>5. Upward' /\ Known'
  BY <1>1, <1>2 DEF Upward, Known, Ahead
<1> QED
  BY <1>3, <1>4, <1>5 DEF WalkInv

\* A directory is listed.
LEMMA ListDirInv == ASSUME IInv, WalkInv, ListDir PROVE WalkInv'
<1> USE DEF treeVars, options
<1> DEFINE names == {p \in Paths : Parent[p] = at /\ tree[side][p] # Absent}
<1>1. /\ pc = "list" /\ pc' \in {"visit", "failed"}
      /\ UNCHANGED <<tree, changed, roots, excluded, side, at, entries>>
  BY DEF ListDir
<1>2. Onward /\ Downward /\ Upward /\ Known
  BY <1>1 DEF WalkInv
<1>3. CASE pc' = "failed"
  BY <1>3 DEF WalkInv
<1>4. CASE pc' = "visit"
  <2>1. /\ at # 0 => tree[side][at] = Directory
        /\ ahead' = ahead \cup names
        /\ dirs' = dirs \cup {p \in names : tree[side][p] = Directory}
    BY <1>4 DEF ListDir, Gone
  <2>2. side \in Sides /\ dirs \subseteq ahead /\ at \in Paths \cup {0}
        /\ \A s \in Sides, p \in Paths : tree[s][p] \in Nodes
    BY DEF IInv, TypeOK
  <2>3. at # 0 => /\ entries[side][at] # Absent
                  /\ at \notin changed => entries[side][at] = Directory
    <3> SUFFICES ASSUME at # 0 PROVE /\ entries[side][at] # Absent
                                     /\ at \notin changed => entries[side][at] = Directory
      OBVIOUS
    <3>1. entries[side][at] # Absent
      BY <1>1, <1>2 DEF Onward
    <3>2. at \notin changed => entries[side][at] = Scan(tree[side][at])
      BY <1>2, <2>2, <3>1 DEF Known
    <3> QED
      BY <2>1, <2>2, <3>1, <3>2, ScanInjective
  <2>4. Onward'
    BY <1>1, <1>2, <1>4 DEF Onward
  <2>5. \A s \in Sides, p \in Paths : Dealt(s, p) => Dealt(s, p)'
    BY <1>1, <2>1 DEF Dealt, Ahead
  <2>6. ASSUME NEW p \in Paths \ changed, Parent[p] = at PROVE Dealt(side, p)'
    <3>1. CASE p \in names
      BY <1>1, <2>1, <3>1 DEF Dealt, Ahead
    <3>2. CASE tree[side][p] = Absent
      <4>1. Scan(tree[side][p]) = Absent
        BY <2>2, <3>2, ScanInjective
      <4>2. entries[side][p] = Scan(tree[side][p])
        BY <1>2, <2>2, <4>1 DEF Known
      <4> QED
        BY <1>1, <4>2 DEF Dealt
    <3> QED
      BY <2>6, <3>1, <3>2
  <2>7. Downward'
    <3>1. ASSUME NEW s \in Sides, NEW p \in Paths \ changed, RootListed(s)', Parent[p] = 0
          PROVE  Dealt(s, p)'
      <4>1. CASE Listing(s, 0)
        <5>1. s = side /\ Parent[p] = at
          BY <3>1, <4>1 DEF Listing
        <5>2. Dealt(side, p)'
          BY <2>6, <5>1
        <5>3. UNCHANGED side
          BY <1>1
        <5> QED
          BY <5>1, <5>2, <5>3
      <4>2. CASE ~ Listing(s, 0)
        <5>1. RootListed(s)
          BY <1>1, <3>1, <4>2 DEF RootListed
        <5> QED
          BY <1>2, <2>5, <3>1, <5>1 DEF Downward
      <4> QED
        BY <4>1, <4>2
    <3>2. ASSUME NEW s \in Sides, NEW p \in Paths, Parent[p] # 0, entries[s][Parent[p]] = Directory,
                 {p, Parent[p]} \cap changed = {}
          PROVE  Dealt(s, p)'
      <4>1. CASE Listing(s, Parent[p])
        <5>1. s = side /\ Parent[p] = at /\ p \in Paths \ changed
          BY <3>2, <4>1 DEF Listing
        <5>2. Dealt(side, p)'
          BY <2>6, <5>1
        <5>3. UNCHANGED side
          BY <1>1
        <5> QED
          BY <5>1, <5>2, <5>3
      <4>2. CASE ~ Listing(s, Parent[p])
        BY <1>2, <2>5, <3>2, <4>2 DEF Downward
      <4> QED
        BY <4>1, <4>2
    <3> QED
      BY <1>1, <3>1, <3>2 DEF Downward
  <2>8. Upward'
    <3>1. \A s \in Sides, p \in Paths : p \in Ahead(s)' => p \in Ahead(s) \/ (s = side /\ Parent[p] = at)
      BY <1>1, <2>1 DEF Ahead
    <3> QED
      BY <1>1, <1>2, <2>3, <3>1 DEF Upward
  <2>9. Known'
    BY <1>1, <1>2, <2>1, <2>2 DEF Known
  <2> QED
    BY <2>4, <2>7, <2>8, <2>9 DEF WalkInv
<1> QED
  BY <1>1, <1>3, <1>4

\* A path is visited, or skipped.
LEMMA VisitInv == ASSUME IInv, WalkInv, Visit PROVE WalkInv'
<1> USE DEF treeVars, options
<1> DEFINE v == Least(ahead)
<1>1. /\ pc = "visit" /\ v \in ahead /\ v \in Paths /\ side \in Sides
      /\ v # 0
      /\ entries \in [Sides -> [Paths -> Entries]]
      /\ \A s \in Sides, p \in Paths : tree[s][p] \in Nodes
      /\ ahead' = ahead \ {v} /\ dirs' = dirs \ {v}
      /\ UNCHANGED <<tree, changed, roots, excluded, side>>
  <2>1. /\ pc = "visit" /\ ahead # {}
        /\ ahead' = ahead \ {v} /\ dirs' = dirs \ {v}
        /\ UNCHANGED <<tree, changed, roots, excluded, side>>
    BY DEF Visit
  <2>2. /\ ahead \subseteq Paths /\ side \in Sides
        /\ entries \in [Sides -> [Paths -> Entries]]
        /\ tree \in [Sides -> [Paths -> Nodes]]
    BY DEF IInv, TypeOK
  <2>3. ahead \subseteq Nat /\ Paths \subseteq Nat \ {0}
    BY <2>2, PathsAssumption
  <2>4. v \in ahead
    BY <2>1, <2>3, LeastFacts
  <2> HIDE DEF v
  <2> QED
    BY <2>1, <2>2, <2>3, <2>4
<1>2. Onward /\ Downward /\ Upward /\ Known
  BY <1>1 DEF WalkInv
<1>3. \/ v \in excluded /\ UNCHANGED <<pc, entries, at>>
      \/ pc' = "failed"
      \/ /\ v \notin excluded /\ tree[side][v] # Absent
         /\ entries' = [entries EXCEPT ![side][v] = Scan(tree[side][v])]
         /\ pc' = IF v \in dirs THEN "list" ELSE "visit"
         /\ at' = IF v \in dirs THEN v ELSE at
  BY DEF Visit, Skipped
<1> HIDE DEF v
<1>4. CASE pc' = "failed"
  BY <1>4 DEF WalkInv
<1>5. CASE v \in excluded /\ UNCHANGED <<pc, entries, at>>
  <2>1. \A s \in Sides, p \in Paths : Dealt(s, p) => Dealt(s, p)'
    BY <1>1, <1>5 DEF Dealt, Ahead
  <2>2. Onward'
    BY <1>1, <1>2, <1>5 DEF Onward
  <2>3. Downward'
    BY <1>1, <1>2, <1>5, <2>1 DEF Downward, RootListed, Listing
  <2>4. Upward'
    BY <1>1, <1>2, <1>5 DEF Upward, Ahead
  <2>5. Known'
    BY <1>1, <1>2, <1>5 DEF Known
  <2> QED
    BY <2>2, <2>3, <2>4, <2>5 DEF WalkInv
<1>6. CASE /\ v \notin excluded /\ tree[side][v] # Absent
           /\ entries' = [entries EXCEPT ![side][v] = Scan(tree[side][v])]
           /\ pc' = IF v \in dirs THEN "list" ELSE "visit"
           /\ at' = IF v \in dirs THEN v ELSE at
  <2>1. /\ entries'[side][v] = Scan(tree[side][v])
        /\ \A s \in Sides, p \in Paths : s # side \/ p # v => entries'[s][p] = entries[s][p]
    BY <1>1, <1>6
  <2>2. entries'[side][v] # Absent /\ (entries'[side][v] = Directory <=> tree[side][v] = Directory)
    BY <1>1, <1>6, <2>1, ScanInjective
  <2>3. \A s \in Sides, p \in Paths : Dealt(s, p) \/ (s = side /\ p = v) => Dealt(s, p)'
    BY <1>1, <2>1 DEF Dealt, Ahead
  <2>4. Onward'
    <3>1. side = "source" => \A p \in Paths : entries'["destination"][p] = Absent
      BY <1>2, <2>1 DEF Onward, Sides
    <3>2. pc' = "list" => entries'[side][at'] # Absent
      BY <1>6, <2>2
    <3> QED
      BY <1>1, <1>2, <1>6, <3>1, <3>2 DEF Onward
  <2>5. \A p \in Paths : Parent[p] # 0 => Parent[p] \in Paths
    BY UpFacts
  <2>6. Downward'
    <3>1. ASSUME NEW s \in Sides, NEW p \in Paths \ changed, RootListed(s)', Parent[p] = 0
          PROVE  Dealt(s, p)'
      <4>1. RootListed(s)
        BY <1>1, <1>6, <3>1 DEF RootListed, Listing
      <4> QED
        BY <1>2, <2>3, <3>1, <4>1 DEF Downward
    <3>2. ASSUME NEW s \in Sides, NEW p \in Paths, Parent[p] # 0, entries'[s][Parent[p]] = Directory,
                 ~ Listing(s, Parent[p])', {p, Parent[p]} \cap changed = {}
          PROVE  Dealt(s, p)'
      <4>1. ~ Listing(s, Parent[p])
        BY <1>1 DEF Listing
      <4>2. CASE s = side /\ Parent[p] = v
        <5>1. tree[side][v] = Directory /\ v \notin changed
          BY <2>2, <3>2, <4>2
        <5>2. v \in dirs
          BY <1>1, <1>2, <5>1 DEF Known
        <5> QED
          BY <1>1, <1>6, <3>2, <4>2, <5>2 DEF Listing
      <4>3. CASE ~ (s = side /\ Parent[p] = v)
        <5>1. entries[s][Parent[p]] = Directory
          BY <2>1, <2>5, <3>2, <4>3
        <5> QED
          BY <1>2, <2>3, <3>2, <4>1, <5>1 DEF Downward
      <4> QED
        BY <4>2, <4>3
    <3> QED
      BY <1>1, <3>1, <3>2 DEF Downward
  <2>7. Upward'
    <3>1. ASSUME NEW s \in Sides, NEW p \in Paths, Parent[p] # 0, p \in Ahead(s)' \/ entries'[s][p] # Absent
          PROVE  /\ entries'[s][Parent[p]] # Absent
                 /\ Parent[p] \notin changed => entries'[s][Parent[p]] = Directory
      <4>1. p \in Ahead(s) \/ entries[s][p] # Absent
        BY <1>1, <2>1, <3>1 DEF Ahead
      <4>2. /\ entries[s][Parent[p]] # Absent
            /\ Parent[p] \notin changed => entries[s][Parent[p]] = Directory
        BY <1>2, <3>1, <4>1 DEF Upward
      <4>3. CASE s = side /\ Parent[p] = v
        <5>1. v \notin changed => entries[side][v] = Scan(tree[side][v])
          BY <1>1, <1>2, <4>2, <4>3 DEF Known
        <5> QED
          BY <2>1, <2>2, <4>2, <4>3, <5>1
      <4>4. CASE ~ (s = side /\ Parent[p] = v)
        BY <2>1, <2>5, <3>1, <4>2, <4>4
      <4> QED
        BY <4>3, <4>4
    <3>2. \A s \in Sides, p \in Paths : entries'[s][p] # Absent => p \notin excluded
      BY <1>2, <1>6, <2>1 DEF Upward
    <3> QED
      BY <1>1, <3>1, <3>2 DEF Upward
  <2>8. Known'
    BY <1>1, <1>2, <2>1 DEF Known
  <2> QED
    BY <2>4, <2>6, <2>7, <2>8 DEF WalkInv
<1> QED
  BY <1>3, <1>4, <1>5, <1>6

\* A tree has been walked.
LEMMA ScanDoneInv == ASSUME IInv, WalkInv, ScanDone PROVE WalkInv'
<1> USE DEF treeVars, options
<1>1. /\ pc = "visit" /\ ahead = {} /\ dirs = {} /\ side \in Sides
      /\ IF side = "source" THEN pc' = "root" /\ side' = "destination"
                            ELSE pc' = "compare" /\ side' = side
      /\ UNCHANGED <<tree, changed, roots, excluded, ahead, dirs, at, entries>>
  BY DEF ScanDone, IInv, TypeOK
<1>2. Onward /\ Downward /\ Upward /\ Known
  BY <1>1 DEF WalkInv
<1>3. side' = "destination" /\ pc' \in {"root", "compare"} /\ Absent # Directory
  BY <1>1 DEF Sides, Absent, Directory
<1>4. Onward'
  BY <1>1, <1>3 DEF Onward
<1>5. \A p \in Paths : Parent[p] # 0 => Parent[p] \in Paths
  BY UpFacts
<1>6. \A s \in Sides, p \in Paths : Ahead(s)' = {} /\ Ahead(s) = {} /\ (Dealt(s, p)' <=> Dealt(s, p))
  BY <1>1 DEF Dealt, Ahead
<1>7. Downward'
  <2>1. \A s \in Sides : RootListed(s)' => RootListed(s)
    BY <1>1, <1>3 DEF RootListed, Listing, Sides
  <2>2. \A s \in Sides, d \in Paths : ~ Listing(s, d)
    BY <1>1 DEF Listing
  <2> QED
    BY <1>1, <1>2, <1>5, <1>6, <2>1, <2>2 DEF Downward
<1>8. Upward'
  BY <1>1, <1>2, <1>6 DEF Upward
<1>9. Known'
  BY <1>1, <1>2 DEF Known
<1> QED
  BY <1>4, <1>7, <1>8, <1>9 DEF WalkInv

\* After the walks nothing of them changes.
LEMMA WalkKept ==
  ASSUME WalkInv, pc # "failed" \/ pc' = "failed", pc \notin {"root", "list", "visit"} \/ pc' = pc,
         pc' \notin {"root", "list", "visit"} \/ pc' = pc,
         UNCHANGED <<tree, changed, roots, excluded, walkVars>>
  PROVE  WalkInv'
<1> USE DEF walkVars
<1>1. CASE pc' = "failed"
  BY <1>1 DEF WalkInv
<1>2. CASE pc' # "failed"
  <2>1. Onward /\ Downward /\ Upward /\ Known
    BY <1>2 DEF WalkInv
  <2>2. Onward'
    BY <2>1 DEF Onward
  <2>3. \A s \in Sides : (RootListed(s)' <=> RootListed(s)) /\ \A d : Listing(s, d)' <=> Listing(s, d)
    BY DEF RootListed, Listing
  <2>4. \A s \in Sides, p \in Paths : Dealt(s, p)' <=> Dealt(s, p)
    BY DEF Dealt, Ahead
  <2>5. Downward'
    BY <2>1, <2>3, <2>4 DEF Downward
  <2>6. Upward' /\ Known'
    BY <2>1 DEF Upward, Known, Ahead
  <2> QED
    BY <2>2, <2>5, <2>6 DEF WalkInv
<1> QED
  BY <1>1, <1>2

\* What others write is no longer promised.
LEMMA WriteInv == ASSUME IInv, WalkInv, Rooted, NEW t \in Sides, NEW q \in Paths, Write(t, q)
                  PROVE  WalkInv' /\ Rooted'
<1> USE DEF options, walkVars
<1>1. /\ pc # "failed" /\ changed' = changed \cup {q}
      /\ UNCHANGED <<pc, roots, excluded, side, ahead, dirs, at, entries>>
  BY DEF Write
<1>2. PICK n \in Files \cup {Absent, Directory} :
        tree' = [tree EXCEPT ![t][q] = n] /\ WellFormed(tree'[t])
  BY DEF Write
<1>3. \A s \in Sides : s # t => tree'[s] = tree[s]
  BY <1>2 DEF IInv, TypeOK
<1>4. \A s \in Sides, p \in Paths : p # q => tree'[s][p] = tree[s][p]
  BY <1>2 DEF IInv, TypeOK
<1>5. Onward /\ Downward /\ Upward /\ Known
  BY <1>1 DEF WalkInv
<1>6. Onward'
  BY <1>1, <1>5 DEF Onward
<1>7. \A s \in Sides, p \in Paths : p # q /\ Dealt(s, p) => Dealt(s, p)'
  BY <1>1, <1>4 DEF Dealt, Ahead
<1>8. \A s \in Sides : (RootListed(s)' <=> RootListed(s)) /\ \A d : Listing(s, d)' <=> Listing(s, d)
  BY <1>1 DEF RootListed, Listing
<1>9. Downward'
  BY <1>1, <1>5, <1>7, <1>8 DEF Downward
<1>10. Upward'
  BY <1>1, <1>5 DEF Upward, Ahead
<1>11. Known'
  <2>1. side \in Sides /\ ahead \subseteq Paths
    BY DEF IInv, TypeOK
  <2> QED
    BY <1>1, <1>4, <1>5, <2>1 DEF Known
<1>12. Rooted'
  BY <1>2, <1>3 DEF Rooted
<1> QED
  BY <1>6, <1>9, <1>10, <1>11, <1>12 DEF WalkInv

LEMMA WalkStep == ASSUME IInv, WalkInv, Rooted, [Next]_vars PROVE WalkInv' /\ Rooted'
<1>1. CASE \E s \in Sides, p \in Paths : Write(s, p)
  BY <1>1, WriteInv
<1>2. CASE WalkRoot \/ ListDir \/ Visit \/ ScanDone
  <2>1. WalkInv'
    BY <1>2, WalkRootInv, ListDirInv, VisitInv, ScanDoneInv
  <2>2. UNCHANGED tree
    BY <1>2 DEF WalkRoot, ListDir, Visit, ScanDone, treeVars
  <2> QED
    BY <2>1, <2>2 DEF Rooted
<1>3. CASE \/ ScanFails \/ Compare \/ CloseChannel \/ GiveUp \/ Collect
           \/ \E w \in Ids : Send(w) \/ Worker(w) \/ ReadFails(w)
           \/ UNCHANGED vars
  <2>1. UNCHANGED <<tree, changed, roots, excluded, walkVars>>
    BY <1>3 DEF ScanFails, Compare, CloseChannel, GiveUp, Collect, Send, Worker, Leave, Start, HashSource,
                HashDestination, ReadFails, treeVars, options, vars
  <2>2. /\ pc # "failed" \/ pc' = "failed"
        /\ pc \notin {"root", "list", "visit"} \/ pc' = pc \/ pc' = "failed"
        /\ pc' \notin {"root", "list", "visit"} \/ pc' = pc
    BY <1>3 DEF ScanFails, Compare, CloseChannel, GiveUp, Collect, Send, Worker, Leave, Start, HashSource,
                HashDestination, ReadFails, vars
  <2>3. WalkInv'
    BY <2>1, <2>2, WalkKept DEF WalkInv
  <2> QED
    BY <2>1, <2>3 DEF Rooted
<1> QED
  BY <1>1, <1>2, <1>3 DEF Next, Main

-----------------------------------------------------------------------------
(* The hashes *)

\* A verdict is about the contents of both files: neither was written to since it was hashed.
LEMMA HashStep == ASSUME IInv, Hashed, [Next]_vars PROVE Hashed'
<1> USE DEF Hashed
<1>1. ASSUME NEW w \in Ids, Busy(w) PROVE job[w] \in Paths
  BY <1>1 DEF IInv, PoolInv, TasksOnly, Tasks, Pairs
<1>2. /\ state \in [Ids -> {"receive", "check", "source", "destination", "ended"}]
      /\ hash \in [Ids -> Contents \cup {Absent}]
      /\ results \in [Paths -> {"none", "equal", "different"}]
      /\ job \in [Ids -> Paths \cup {0}]
  BY DEF IInv, TypeOK
<1>3. ASSUME NEW s \in Sides, NEW q \in Paths, Write(s, q) PROVE Hashed'
  <2>1. /\ UNCHANGED <<state, job, hash, results>> /\ changed' = changed \cup {q}
        /\ \E n : tree' = [tree EXCEPT ![s][q] = n]
    BY <1>3 DEF Write, poolVars
  <2>2. \A p \in Paths, t \in Sides : p # q => tree'[t][p] = tree[t][p]
    BY <2>1 DEF IInv, TypeOK
  <2>3. \A w \in Ids : state[w] = "destination" => job[w] \in Paths
    BY <1>1 DEF Busy
  <2> QED
    BY <2>1, <2>2, <2>3 DEF Sides
<1>4. ASSUME NEW v \in Ids, HashSource(v) PROVE Hashed'
  <2>1. UNCHANGED <<tree, changed, job, results>>
    BY <1>4 DEF HashSource, treeVars
  <2>2. \A w \in Ids : w # v => state'[w] = state[w] /\ hash'[w] = hash[w]
    BY <1>2, <1>4 DEF HashSource, Fail
  <2>3. state'[v] = "destination" => hash'[v] = tree["source"][job[v]].content
    BY <1>2, <1>4 DEF HashSource, Fail
  <2> QED
    BY <2>1, <2>2, <2>3
<1>5. ASSUME NEW v \in Ids, HashDestination(v) PROVE Hashed'
  <2>1. /\ UNCHANGED <<tree, changed, job, hash>>
        /\ state[v] = "destination" /\ job[v] \in Paths
    BY <1>1, <1>5 DEF HashDestination, treeVars, Busy
  <2>2. \A w \in Ids : state'[w] = "destination" => state[w] = "destination"
    BY <1>2, <1>5 DEF HashDestination, Fail
  <2>3. \A p \in Paths : p # job[v] => results'[p] = results[p]
    BY <1>2, <1>5 DEF HashDestination, Fail
  <2>4. \/ results' = results
        \/ results'[job[v]] = IF tree["destination"][job[v]].content = hash[v] THEN "equal" ELSE "different"
    BY <1>2, <1>5, <2>1 DEF HashDestination
  <2>5. job[v] \notin changed => hash[v] = tree["source"][job[v]].content
    BY <2>1
  <2>6. \A p \in Paths \ changed' : results'[p] # "none" =>
          (results'[p] = "equal" <=> tree'["source"][p].content = tree'["destination"][p].content)
    <3> TAKE p \in Paths \ changed'
    <3>1. CASE p = job[v]
      BY <2>1, <2>4, <2>5, <3>1
    <3>2. CASE p # job[v]
      BY <2>1, <2>3, <3>2
    <3> QED
      BY <3>1, <3>2
  <2> QED
    BY <2>1, <2>2, <2>6
<1>6. CASE /\ UNCHANGED <<tree, changed, hash, results>>
           /\ \A w \in Ids : state'[w] = "destination" => state[w] = "destination" /\ job'[w] = job[w]
  BY <1>6
<1>7. ASSUME NEW w \in Ids, Send(w) \/ Leave(w) \/ Start(w) \/ ReadFails(w) PROVE Hashed'
  <2>1. UNCHANGED <<tree, changed, hash, results>>
    BY <1>7 DEF Send, Leave, Start, ReadFails, treeVars
  <2>2. \A v \in Ids : state'[v] = "destination" => state[v] = "destination" /\ job'[v] = job[v]
    BY <1>2, <1>7 DEF Send, Leave, Start, ReadFails, Fail
  <2> QED
    BY <1>6, <2>1, <2>2
<1>8. CASE Compare
  <2>1. UNCHANGED <<tree, changed, hash, results>>
    BY <1>8 DEF Compare, treeVars
  <2>2. \A v \in Ids : state'[v] # "destination"
    BY <1>8 DEF Compare
  <2> QED
    BY <1>6, <2>1, <2>2
<1>9. CASE \/ WalkRoot \/ ListDir \/ Visit \/ ScanDone \/ ScanFails \/ CloseChannel \/ GiveUp \/ Collect
           \/ UNCHANGED vars
  <2>1. UNCHANGED <<tree, changed, hash, results, state, job>>
    BY <1>9 DEF WalkRoot, ListDir, Visit, ScanDone, ScanFails, CloseChannel, GiveUp, Collect, vars, treeVars,
                poolVars
  <2> QED
    BY <1>6, <2>1
<1> QED
  BY <1>3, <1>4, <1>5, <1>7, <1>8, <1>9 DEF Next, Main, Worker

-----------------------------------------------------------------------------
(* The verdict *)

\* When both trees have been walked, the inventories hold what is not excluded, and all of it
\* that nobody has written.
LEMMA InventoryIsRight ==
  ASSUME IInv, WalkInv, Rooted, pc = "done", \A s \in Sides : roots[s] = "directory", NEW s \in Sides
  PROVE  \A p \in Paths : /\ entries[s][p] # Absent => Kept(p)
                          /\ Kept(p) /\ Stable(p) => entries[s][p] = Scan(tree[s][p])
<1>1. /\ Onward /\ Downward /\ Upward /\ Known
      /\ RootListed(s) /\ Ahead(s) = {}
      /\ \A d : ~ Listing(s, d)
  BY DEF WalkInv, Onward, RootListed, Listing, Ahead
<1>2. \A p \in Paths : tree[s][p] \in Nodes
  BY DEF IInv, TypeOK
<1>3. ASSUME NEW p \in Paths, Parent[p] # 0
      PROVE  /\ Parent[p] \in Paths
             /\ Kept(p) <=> p \notin excluded /\ Kept(Parent[p])
             /\ Stable(p) <=> p \notin changed /\ Stable(Parent[p])
             /\ Stable(p) => Parent[p] \notin changed
  <2>1. Parent[p] \in Paths /\ Up[p] = {p} \cup Up[Parent[p]]
    BY <1>3, UpFacts
  <2>2. Parent[p] \in Up[Parent[p]]
    BY <2>1, UpFacts
  <2> QED
    BY <2>1, <2>2 DEF Kept, Stable
<1>4. ASSUME NEW p \in Paths, Parent[p] = 0
      PROVE  /\ Kept(p) <=> p \notin excluded
             /\ Stable(p) <=> p \notin changed
  BY <1>4, UpFacts DEF Kept, Stable
<1>5. \A p \in Paths : entries[s][p] # Absent => Kept(p)
  <2> DEFINE G == {p \in Paths : entries[s][p] # Absent => Kept(p)}
  <2>1. ASSUME NEW p \in Paths, Parent[p] # 0 => Parent[p] \in G, entries[s][p] # Absent
        PROVE  Kept(p)
    <3>1. p \notin excluded /\ (Parent[p] # 0 => entries[s][Parent[p]] # Absent)
      BY <1>1, <2>1 DEF Upward
    <3> QED
      BY <1>3, <1>4, <2>1, <3>1
  <2>2. \A p \in Paths : (Parent[p] # 0 => Parent[p] \in G) => p \in G
    BY <2>1
  <2>3. Paths \subseteq G
    <3> HIDE DEF G
    <3> QED
      BY <2>2, Downwards
  <2> QED
    BY <2>3
<1>6. \A p \in Paths : Kept(p) /\ Stable(p) => entries[s][p] = Scan(tree[s][p])
  <2> DEFINE G == {p \in Paths : Kept(p) /\ Stable(p) => entries[s][p] = Scan(tree[s][p])}
  <2>1. ASSUME NEW p \in Paths, Parent[p] # 0 => Parent[p] \in G, Kept(p), Stable(p)
        PROVE  entries[s][p] = Scan(tree[s][p])
    <3>1. CASE Parent[p] = 0
      <4>1. p \notin changed /\ p \notin excluded
        BY <1>4, <2>1, <3>1
      <4>2. Dealt(s, p)
        BY <1>1, <3>1, <4>1 DEF Downward
      <4> QED
        BY <1>1, <4>1, <4>2 DEF Dealt
    <3>2. CASE Parent[p] # 0
      <4>1. /\ p \notin changed /\ p \notin excluded
            /\ Parent[p] \in Paths /\ Parent[p] \notin changed
            /\ Kept(Parent[p]) /\ Stable(Parent[p])
        BY <1>3, <2>1, <3>2
      <4>2. entries[s][Parent[p]] = Scan(tree[s][Parent[p]])
        BY <2>1, <3>2, <4>1
      <4>3. CASE tree[s][Parent[p]] = Directory
        <5>1. entries[s][Parent[p]] = Directory
          BY <1>2, <4>1, <4>2, <4>3, ScanInjective
        <5>2. Dealt(s, p)
          BY <1>1, <3>2, <4>1, <5>1 DEF Downward
        <5> QED
          BY <1>1, <4>1, <5>2 DEF Dealt
      <4>4. CASE tree[s][Parent[p]] # Directory
        <5>1. tree[s][p] = Absent
          BY <3>2, <4>4 DEF Rooted, WellFormed
        <5>2. Scan(tree[s][p]) = Absent
          BY <1>2, <5>1, ScanInjective
        <5> QED
          BY <1>1, <4>1, <5>2 DEF Known
      <4> QED
        BY <4>3, <4>4
    <3> QED
      BY <3>1, <3>2
  <2>2. \A p \in Paths : (Parent[p] # 0 => Parent[p] \in G) => p \in G
    BY <2>1
  <2>3. Paths \subseteq G
    <3> HIDE DEF G
    <3> QED
      BY <2>2, Downwards
  <2> QED
    BY <2>3
<1> QED
  BY <1>5, <1>6

\* Two things are unlike, or are found unequal, exactly if they differ.
LEMMA ReportIsRight ==
  ASSUME IInv, Hashed, pc = "done", NEW p \in Paths \ changed,
         \A s \in Sides : entries[s][p] = Scan(tree[s][p])
  PROVE  p \in Reported <=> Differs(p)
<1> DEFINE a == tree["source"][p]
           b == tree["destination"][p]
<1>1. /\ a \in Nodes /\ b \in Nodes
      /\ Source(p) = Scan(a) /\ Destination(p) = Scan(b)
  BY DEF IInv, TypeOK, Sides, Source, Destination
<1>2. /\ p \in Tasks => results[p] # "none"
      /\ p \notin Tasks => results[p] = "none"
      /\ results[p] \in {"none", "equal", "different"}
      /\ results[p] # "none" => (results[p] = "equal" <=> a.content = b.content)
  BY DEF IInv, TypeOK, PoolInv, Settled, TasksOnly, Hashed
<1>3. Differs(p) <=> \/ a.type # b.type
                     \/ a = Symlink
                     \/ a.type = "file" /\ (a.content # b.content \/ (metadata /\ a.meta # b.meta))
  BY DEF Differs
<1>4. p \in Reported <=> \/ p \in Unlike \/ p \in Pairs \ Tasks \/ p \in Stale \/ p \in Unequal
  BY ReportedAre
<1>5. Scan(a).type = a.type /\ Scan(b).type = b.type
  BY <1>1, ScanFacts
<1> HIDE DEF a, b
<1>6. p \in Pairs <=> a.type = "file" /\ b.type = "file"
  BY <1>1, <1>5 DEF Pairs
<1>7. CASE p \in Pairs
  <2>1. a.type = "file" /\ b.type = "file" /\ a # Symlink
    BY <1>6, <1>7 DEF Symlink
  <2>2. /\ Scan(a).size = SizeOf[a.content] /\ Scan(a).meta = a.meta
        /\ Scan(b).size = SizeOf[b.content] /\ Scan(b).meta = b.meta
    BY <2>1 DEF Scan
  <2>3. p \in Tasks <=> SizeOf[a.content] = SizeOf[b.content]
    BY <1>1, <1>7, <2>2 DEF Tasks
  <2>4. p \in Stale <=> metadata /\ a.meta # b.meta
    BY <1>1, <1>7, <2>2 DEF Stale
  <2>5. p \in Unequal <=> results[p] = "different"
    BY DEF Unequal
  <2>6. p \notin Unlike
    BY <1>7 DEF Unlike
  <2> QED
    BY <1>2, <1>3, <1>4, <1>7, <2>1, <2>3, <2>4, <2>5, <2>6
<1>8. CASE p \notin Pairs
  <2>1. p \notin Tasks /\ p \notin Stale /\ p \notin Unequal
    BY <1>2, <1>8 DEF Tasks, Stale, Unequal
  <2>2. p \in Reported <=> p \in Unlike
    BY <1>4, <1>8, <2>1
  <2>3. p \in Unlike <=> /\ Scan(a) # Absent \/ Scan(b) # Absent
                         /\ ~ (Scan(a) = Directory /\ Scan(b) = Directory)
    BY <1>1, <1>8 DEF Unlike, Listed, MatchedDirectories
  <2>4. p \in Unlike <=> /\ a # Absent \/ b # Absent
                         /\ ~ (a = Directory /\ b = Directory)
    BY <1>1, <2>3, ScanInjective
  <2>5. /\ a.type = "file" \/ a \in {Absent, Directory, Symlink}
        /\ b.type = "file" \/ b \in {Absent, Directory, Symlink}
    BY <1>1 DEF Nodes, Files
  <2>6. /\ Absent.type = "absent" /\ Directory.type = "directory" /\ Symlink.type = "symlink"
        /\ Absent # Directory /\ Absent # Symlink /\ Directory # Symlink
    BY DEF Absent, Directory, Symlink
  <2>7. ~ (a.type = "file" /\ b.type = "file")
    BY <1>6, <1>8
  <2>8. Differs(p) <=> a.type # b.type \/ a = Symlink
    BY <1>3, <2>7
  <2> QED
    BY <2>2, <2>4, <2>5, <2>6, <2>7, <2>8
<1> QED
  BY <1>7, <1>8

\* Exactly the paths that differ are reported, of those that nobody wrote while
\* VerifyDir ran, and no excluded one, for any trees, patterns and writes.
THEOREM VerdictHolds == Spec => []VerdictIsRight
<1> DEFINE J == IInv /\ WalkInv /\ Hashed /\ Rooted
<1>1. Init => J
  BY InvInit, WalkInit
<1>2. J /\ [Next]_vars => J'
  BY InvStep, WalkStep, HashStep
<1>3. J => VerdictIsRight
  <2> SUFFICES ASSUME J, pc = "done", \A s \in Sides : roots[s] = "directory"
               PROVE  /\ \A p \in Reported : Kept(p)
                      /\ \A p \in Paths : Kept(p) /\ Stable(p) => (p \in Reported <=> Differs(p))
    BY DEF VerdictIsRight
  <2>1. \A s \in Sides, p \in Paths : /\ entries[s][p] # Absent => Kept(p)
                                      /\ Kept(p) /\ Stable(p) => entries[s][p] = Scan(tree[s][p])
    BY InventoryIsRight
  <2>2. \A p \in Reported : p \in Listed
    BY Partition
  <2>3. \A p \in Listed : p \in Paths /\ \E s \in Sides : entries[s][p] # Absent
    BY DEF Listed, Source, Destination, Sides
  <2>4. ASSUME NEW p \in Paths, Kept(p), Stable(p)
        PROVE  p \in Reported <=> Differs(p)
    <3>1. p \in Up[p]
      BY UpFacts
    <3>2. p \in Paths \ changed
      BY <2>4, <3>1 DEF Stable
    <3> QED
      BY <2>1, <2>4, <3>2, ReportIsRight
  <2> QED
    BY <2>1, <2>2, <2>3, <2>4
<1> HIDE DEF J
<1>4. Spec => []J
  BY <1>1, <1>2, PTL DEF Spec
<1> QED
  BY <1>3, <1>4, PTL
=============================================================================
