------------------------------- MODULE Verify -------------------------------
(***************************************************************************)
(* VerifyDir of internal/verify/service.go: it walks the source tree, then *)
(* the destination tree, compares the two inventories, and has a pool of   *)
(* goroutines hash the pairs of files of equal size.  Others may write to  *)
(* both trees all the while.                                               *)
(*                                                                         *)
(* Paths are numbers in the order in which WalkDir visits them: a          *)
(* directory before what is below it, siblings by name.  The context is    *)
(* never cancelled from outside: the command runs with the background      *)
(* context.                                                                *)
(***************************************************************************)
EXTENDS Naturals, FiniteSets

CONSTANTS
    Paths,      \* relative paths, numbered
    Parent,     \* Parent[p]: the directory of p, 0 for the root
    Contents,   \* what a file may contain
    SizeOf,     \* SizeOf[c]: the size of a content
    Metas,      \* mode and mtime, normalised
    Excludes,   \* for each use of --exclude, the paths that match a pattern
    Trees,      \* the pairs of trees verified
    RootTypes,  \* what a root given to the command is
    Workers,    \* normalizeWorkerCount before it is bounded by the tasks
    MaxWrites,  \* bound on the writes of others
    MaxFaults   \* bound on read errors

Kinds == {"missing_from_destination", "extra_in_destination", "entry_type_mismatch",
          "unsupported_entry_type", "size_mismatch", "content_mismatch", "metadata_mismatch"}

Sides == {"source", "destination"}
Absent == [type |-> "absent"]
Directory == [type |-> "directory"]
Symlink == [type |-> "symlink"]
Files == [type : {"file"}, content : Contents, meta : Metas]
Nodes == Files \cup {Absent, Directory, Symlink}
\* scannedEntry; an Absent one is a path that the inventory does not have.
Entries == [type : {"file"}, size : Nat, meta : Metas] \cup {Absent, Directory, Symlink}

\* Faulty variant: a directory keeps the size that the filesystem gives it.
ScanWithSize(n) ==
    IF n.type = "file" THEN [type |-> "file", size |-> SizeOf[n.content], meta |-> n.meta]
    ELSE [type |-> n.type, size |-> 1]

Scan(n) ==
    IF n.type = "file" THEN [type |-> "file", size |-> SizeOf[n.content], meta |-> n.meta]
    ELSE n

\* Whatever is there is in a directory.
WellFormed(t) ==
    \A p \in Paths : t[p] # Absent /\ Parent[p] # 0 => t[Parent[p]] = Directory

ASSUME PathsAssumption ==
    /\ Paths \subseteq Nat \ {0}
    /\ IsFiniteSet(Paths)
    /\ Parent \in [Paths -> Paths \cup {0}]
    /\ \A p \in Paths : Parent[p] < p
ASSUME DataAssumption ==
    /\ SizeOf \in [Contents -> Nat]
    /\ Excludes \subseteq SUBSET Paths
    /\ Trees \subseteq [Sides -> [Paths -> Nodes]]
    /\ \A t \in Trees : \A s \in Sides : WellFormed(t[s])
    /\ RootTypes \subseteq {"directory", "symlink"}
ASSUME BoundsAssumption == Workers \in Nat \ {0} /\ MaxWrites \in Nat /\ MaxFaults \in Nat

VARIABLES
    tree,      \* tree[s][p]: what is at p
    roots,     \* roots[s]: whether the root given is a directory or a link to one
    changed,   \* the paths others have written since the start
    metadata,  \* the --metadata option
    excluded,  \* the paths that the excludeMatcher matches
    pc,        \* where VerifyDir is
    side,      \* the tree being walked
    ahead,     \* paths listed and not yet visited
    dirs,      \* those of them that were directories when listed
    at,        \* the directory to be listed next
    entries,   \* the two inventories
    found,     \* the differences so far, as <<path, kind>>
    unsent,    \* the tasks not yet sent to the workers
    state,     \* state[w]: where worker w is
    job,       \* job[w]: its task
    hash,      \* hash[w]: the source's hash
    results,   \* results[p]: what a worker found about a task
    groupDone, \* the group's context is cancelled
    writes, faults

treeVars == <<tree, changed, writes>>
walkVars == <<side, ahead, dirs, at, entries>>
poolVars == <<unsent, state, job, hash, results, groupDone>>
options == <<roots, metadata, excluded>>
vars == <<treeVars, options, pc, walkVars, found, poolVars, faults>>

Least(S) == CHOOSE p \in S : \A q \in S : p <= q
Ids == 1..Workers

Init ==
    /\ tree \in Trees
    /\ roots \in [Sides -> RootTypes]
    /\ changed = {}
    /\ metadata \in BOOLEAN
    /\ excluded \in Excludes
    /\ pc = "root"
    /\ side = "source"
    /\ ahead = {}
    /\ dirs = {}
    /\ at = 0
    /\ entries = [s \in Sides |-> [p \in Paths |-> Absent]]
    /\ found = {}
    /\ unsent = {}
    /\ state = [w \in Ids |-> "ended"]
    /\ job = [w \in Ids |-> 0]
    /\ hash = [w \in Ids |-> Absent]
    /\ results = [p \in Paths |-> "none"]
    /\ groupDone = FALSE
    /\ writes = 0
    /\ faults = 0

-----------------------------------------------------------------------------
(* scanDirectory *)

\* WalkDir looks at the root without following it.
WalkRoot ==
    /\ pc = "root"
    /\ pc' = IF roots[side] = "directory" THEN "list" ELSE "visit"
    /\ at' = 0
    /\ UNCHANGED <<treeVars, options, side, ahead, dirs, entries, found, poolVars, faults>>

\* The directory to be listed is none any more.
Gone == at # 0 /\ tree[side][at] # Directory

\* ReadDir.
ListDir ==
    /\ pc = "list"
    /\ \/ /\ Gone
          /\ pc' = "failed"
          /\ UNCHANGED <<ahead, dirs>>
       \/ /\ ~Gone
          /\ LET names == {p \in Paths : Parent[p] = at /\ tree[side][p] # Absent} IN
                /\ ahead' = ahead \cup names
                /\ dirs' = dirs \cup {p \in names : tree[side][p] = Directory}
          /\ pc' = "visit"
    /\ UNCHANGED <<treeVars, options, side, at, entries, found, poolVars, faults>>

\* excludeMatcher.Match.
Skipped(p) == p \in excluded

\* Faulty variant: an excluded directory is left out, what is below it is not.
VisitWithoutSkipDir ==
    /\ pc = "visit"
    /\ ahead # {}
    /\ LET p == Least(ahead) IN
          /\ ahead' = ahead \ {p}
          /\ dirs' = dirs \ {p}
          /\ \/ /\ Skipped(p)
                /\ pc' = IF p \in dirs THEN "list" ELSE "visit"
                /\ at' = IF p \in dirs THEN p ELSE at
                /\ UNCHANGED entries
             \/ /\ ~Skipped(p)
                /\ tree[side][p] = Absent
                /\ pc' = "failed"
                /\ UNCHANGED <<entries, at>>
             \/ /\ ~Skipped(p)
                /\ tree[side][p] # Absent
                /\ entries' = [entries EXCEPT ![side][p] = Scan(tree[side][p])]
                /\ pc' = IF p \in dirs THEN "list" ELSE "visit"
                /\ at' = IF p \in dirs THEN p ELSE at
    /\ UNCHANGED <<treeVars, options, side, found, poolVars, faults>>

\* The callback of WalkDir.  An excluded path is skipped, with what is below it;
\* the entry is looked up again, and may be gone.
Visit ==
    /\ pc = "visit"
    /\ ahead # {}
    /\ LET p == Least(ahead) IN
          /\ ahead' = ahead \ {p}
          /\ dirs' = dirs \ {p}
          /\ \/ /\ Skipped(p)
                /\ UNCHANGED <<pc, entries, at>>
             \/ /\ ~Skipped(p)
                /\ tree[side][p] = Absent
                /\ pc' = "failed"
                /\ UNCHANGED <<entries, at>>
             \/ /\ ~Skipped(p)
                /\ tree[side][p] # Absent
                /\ entries' = [entries EXCEPT ![side][p] = Scan(tree[side][p])]
                /\ pc' = IF p \in dirs THEN "list" ELSE "visit"
                /\ at' = IF p \in dirs THEN p ELSE at
    /\ UNCHANGED <<treeVars, options, side, found, poolVars, faults>>

ScanDone ==
    /\ pc = "visit"
    /\ ahead = {}
    /\ IF side = "source" THEN pc' = "root" /\ side' = "destination"
                          ELSE pc' = "compare" /\ UNCHANGED side
    /\ UNCHANGED <<treeVars, options, ahead, dirs, at, entries, found, poolVars, faults>>

-----------------------------------------------------------------------------
(* The comparison of the inventories *)

Source(p) == entries["source"][p]
Destination(p) == entries["destination"][p]
Listed == {p \in Paths : Source(p) # Absent \/ Destination(p) # Absent}
Pairs == {p \in Paths : Source(p).type = "file" /\ Destination(p).type = "file"}
\* Faulty variant: directories are hashed like files.
TasksOfAnyType ==
    {p \in Paths : Source(p) # Absent /\ Source(p).type = Destination(p).type /\ Source(p) # Symlink
                   /\ (Source(p) # Directory => Source(p).size = Destination(p).size)}

\* Pairs whose sizes agree are hashed, the others are different anyway.
Tasks == {p \in Pairs : Source(p).size = Destination(p).size}
MatchedDirectories == {p \in Paths : Source(p) = Directory /\ Destination(p) = Directory}

\* The reason for which two entries are not compared any further.
Mismatch(p) ==
    CASE Destination(p) = Absent -> "missing_from_destination"
      [] Source(p) = Absent -> "extra_in_destination"
      [] Source(p).type # Destination(p).type -> "entry_type_mismatch"
      [] OTHER -> "unsupported_entry_type"

\* mode_mismatch and modified_time_mismatch are one kind here.
MetadataDifferences ==
    {<<p, "metadata_mismatch">> : p \in {q \in Pairs : Source(q).meta # Destination(q).meta}}

InventoryDifferences ==
    {<<p, Mismatch(p)>> : p \in Listed \ (Pairs \cup MatchedDirectories)} \cup
    {<<p, "size_mismatch">> : p \in Pairs \ Tasks} \cup
    (IF metadata THEN MetadataDifferences ELSE {})

\* Nothing to hash ends the command; otherwise the workers are started.
Compare ==
    /\ pc = "compare"
    /\ found' = InventoryDifferences
    /\ unsent' = Tasks
    /\ pc' = IF Tasks = {} THEN "done" ELSE "send"
    /\ state' = [w \in Ids |-> IF w <= Cardinality(Tasks) THEN "receive" ELSE "ended"]
    /\ UNCHANGED <<treeVars, options, walkVars, job, hash, results, groupDone, faults>>

-----------------------------------------------------------------------------
(* runParallel and compareFiles: the dispatcher *)

\* The channel has no buffer: a worker that receives takes the index at once.
Send(w) ==
    /\ pc = "send"
    /\ unsent # {}
    /\ state[w] = "receive"
    /\ state' = [state EXCEPT ![w] = "check"]
    /\ job' = [job EXCEPT ![w] = Least(unsent)]
    /\ unsent' = unsent \ {Least(unsent)}
    /\ UNCHANGED <<treeVars, options, pc, walkVars, found, hash, results, groupDone, faults>>

CloseChannel ==
    /\ pc = "send"
    /\ unsent = {}
    /\ pc' = "wait"
    /\ UNCHANGED <<treeVars, options, walkVars, found, poolVars, faults>>

\* The context is done: the channel is closed, and nobody waits for the workers.
GiveUp ==
    /\ pc = "send"
    /\ unsent # {}
    /\ groupDone
    /\ pc' = "failed"
    /\ UNCHANGED <<treeVars, options, walkVars, found, poolVars, faults>>

\* What compareFiles counts as matched: equal content, and no difference before.
MatchedFiles == {p \in Tasks : results[p] = "equal" /\ <<p, "metadata_mismatch">> \notin found}

Collected == found \cup {<<p, "content_mismatch">> : p \in {q \in Paths : results[q] = "different"}}

\* Faulty variant: runParallel returns when the last index is sent.
CollectEarly ==
    /\ pc = "wait"
    /\ IF groupDone THEN pc' = "failed" /\ UNCHANGED found
                    ELSE pc' = "done" /\ found' = Collected
    /\ UNCHANGED <<treeVars, options, walkVars, poolVars, faults>>

\* group.Wait: an error of any worker is the command's.
Collect ==
    /\ pc = "wait"
    /\ \A w \in Ids : state[w] = "ended"
    /\ IF groupDone THEN pc' = "failed" /\ UNCHANGED found
                    ELSE pc' = "done" /\ found' = Collected
    /\ UNCHANGED <<treeVars, options, walkVars, poolVars, faults>>

-----------------------------------------------------------------------------
(* A worker *)

Closed == pc \in {"wait", "done", "failed"}

\* Faulty variant: a worker whose task failed leaves its loop without an error.
FailSilently(w) == state' = [state EXCEPT ![w] = "ended"] /\ UNCHANGED groupDone

\* The group keeps the error, cancels its context and forgets the goroutine.
Fail(w) == state' = [state EXCEPT ![w] = "ended"] /\ groupDone' = TRUE

\* The range over the closed channel ends.
Leave(w) ==
    /\ state[w] = "receive"
    /\ Closed
    /\ state' = [state EXCEPT ![w] = "ended"]
    /\ UNCHANGED <<treeVars, options, pc, walkVars, found, unsent, job, hash, results, groupDone, faults>>

\* Faulty variant: the worker does not look at the group's context.
StartUnchecked(w) ==
    /\ state[w] = "check"
    /\ state' = [state EXCEPT ![w] = "source"]
    /\ UNCHANGED <<treeVars, options, pc, walkVars, found, unsent, job, hash, results, groupDone, faults>>

Start(w) ==
    /\ state[w] = "check"
    /\ IF groupDone THEN Fail(w)
                    ELSE state' = [state EXCEPT ![w] = "source"] /\ UNCHANGED groupDone
    /\ UNCHANGED <<treeVars, options, pc, walkVars, found, unsent, job, hash, results, faults>>

\* checksumFile: the path may have stopped to be a file.
HashSource(w) ==
    /\ state[w] = "source"
    /\ LET n == tree["source"][job[w]] IN
          \/ n.type # "file" /\ Fail(w) /\ UNCHANGED hash
          \/ /\ n.type = "file"
             /\ hash' = [hash EXCEPT ![w] = n.content]
             /\ state' = [state EXCEPT ![w] = "destination"]
             /\ UNCHANGED groupDone
    /\ UNCHANGED <<treeVars, options, pc, walkVars, found, unsent, job, results, faults>>

\* The second hash, the verdict on the pair, and back to the channel.
HashDestination(w) ==
    /\ state[w] = "destination"
    /\ LET n == tree["destination"][job[w]] IN
          \/ n.type # "file" /\ Fail(w) /\ UNCHANGED results
          \/ /\ n.type = "file"
             /\ results' = [results EXCEPT ![job[w]] =
                               IF n.content = hash[w] THEN "equal" ELSE "different"]
             /\ state' = [state EXCEPT ![w] = "receive"]
             /\ UNCHANGED groupDone
    /\ UNCHANGED <<treeVars, options, pc, walkVars, found, unsent, job, hash, faults>>

\* Opening or reading a file fails.
ReadFails(w) ==
    /\ state[w] \in {"source", "destination"}
    /\ faults < MaxFaults
    /\ Fail(w)
    /\ faults' = faults + 1
    /\ UNCHANGED <<treeVars, options, pc, walkVars, found, unsent, job, hash, results>>

-----------------------------------------------------------------------------

\* Reading a directory or an entry fails.
ScanFails ==
    /\ \/ pc \in {"root", "list"}
       \/ pc = "visit" /\ ahead # {}
    /\ faults < MaxFaults
    /\ pc' = "failed"
    /\ faults' = faults + 1
    /\ UNCHANGED <<treeVars, options, walkVars, found, poolVars>>

\* Somebody else makes, writes, replaces or removes a file or an empty directory.
Write(s, p) ==
    /\ writes < MaxWrites
    /\ pc \notin {"done", "failed"}
    /\ \E n \in Files \cup {Absent, Directory} :
          /\ n # tree[s][p]
          /\ tree' = [tree EXCEPT ![s][p] = n]
          /\ WellFormed(tree'[s])
    /\ changed' = changed \cup {p}
    /\ writes' = writes + 1
    /\ UNCHANGED <<options, pc, walkVars, found, poolVars, faults>>

Main == WalkRoot \/ ListDir \/ Visit \/ ScanDone \/ Compare \/ CloseChannel \/ GiveUp \/ Collect
Worker(w) == Leave(w) \/ Start(w) \/ HashSource(w) \/ HashDestination(w)

Next ==
    \/ Main
    \/ \E w \in Ids : Send(w) \/ Worker(w) \/ ReadFails(w)
    \/ ScanFails
    \/ \E s \in Sides, p \in Paths : Write(s, p)

Spec == Init /\ [][Next]_vars

\* Every goroutine that can run goes on running.
Fairness ==
    /\ WF_vars(Main \/ \E w \in Ids : Send(w))
    /\ \A w \in Ids : WF_vars(Worker(w))

FairSpec == Spec /\ Fairness

-----------------------------------------------------------------------------
(* Properties *)

TypeOK ==
    /\ tree \in [Sides -> [Paths -> Nodes]]
    /\ roots \in [Sides -> RootTypes]
    /\ changed \subseteq Paths
    /\ metadata \in BOOLEAN
    /\ excluded \in Excludes
    /\ pc \in {"root", "list", "visit", "compare", "send", "wait", "done", "failed"}
    /\ side \in Sides
    /\ ahead \subseteq Paths
    /\ dirs \subseteq ahead
    /\ at \in Paths \cup {0}
    /\ entries \in [Sides -> [Paths -> Entries]]
    /\ found \subseteq Paths \X Kinds
    /\ unsent \subseteq Paths
    /\ state \in [Ids -> {"receive", "check", "source", "destination", "ended"}]
    /\ job \in [Ids -> Paths \cup {0}]
    /\ hash \in [Ids -> Contents \cup {Absent}]
    /\ results \in [Paths -> {"none", "equal", "different"}]
    /\ groupDone \in BOOLEAN
    /\ writes \in 0..MaxWrites
    /\ faults \in 0..MaxFaults

\* p and the directories it is in.
Up[p \in Paths] == {p} \cup (IF Parent[p] = 0 THEN {} ELSE Up[Parent[p]])
Kept(p) == Up[p] \cap excluded = {}
Stable(p) == Up[p] \cap changed = {}
Reported == {p \in Paths : \E k \in Kinds : <<p, k>> \in found}

\* What a difference at p is, by the trees themselves.
Differs(p) ==
    LET a == tree["source"][p]
        b == tree["destination"][p]
    IN  \/ a.type # b.type
        \/ a = Symlink
        \/ a.type = "file" /\ (a.content # b.content \/ (metadata /\ a.meta # b.meta))

\* "Relative paths, entry types, file sizes, content hashes, and, by default,
\* mode and modified time": a difference is reported for exactly those paths that
\* differ, among those that nobody wrote while the command ran, and for none
\* that is excluded or below an excluded directory.  A root that is a symbolic
\* link is not promised anything: WalkDir finds no tree there.
VerdictIsRight ==
    pc = "done" /\ (\A s \in Sides : roots[s] = "directory") =>
        /\ \A p \in Reported : Kept(p)
        /\ \A p \in Paths : Kept(p) /\ Stable(p) => (p \in Reported <=> Differs(p))

\* The counts add up, whatever others write meanwhile: every listed entry is a
\* matched directory, a matched file or a reported path, and only one of them.
EveryEntryOnce ==
    pc = "done" =>
        Cardinality(MatchedDirectories) + Cardinality(MatchedFiles) + Cardinality(Reported)
            = Cardinality(Listed)

\* VerifyDir fails only because something could not be read or was written to
\* while it ran, never because of what the trees are.
FailureHasCause == pc = "failed" => faults > 0 \/ changed # {}

\* After an early return, files being hashed may still be read to their end, but
\* no further pair is begun.
NoNewWorkAfterFailure ==
    [][pc = "failed" => \A w \in Ids : state'[w] = "source" => state[w] = "source"]_vars

\* The command ends, and every worker with it, whoever fails: the dispatcher
\* never waits for a worker that is gone, nor a worker for an index.
Ends == <>(pc \in {"done", "failed"} /\ \A w \in Ids : state[w] = "ended")
=============================================================================
