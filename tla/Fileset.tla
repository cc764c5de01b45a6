------------------------------ MODULE Fileset ------------------------------
(***************************************************************************)
(* Lifecycle on a local root: the calls of the local target of target.go,   *)
(* which work on files in place, and the manifest store of                  *)
(* internal/manifest/store.go.  The process can fail, be interrupted, or    *)
(* die at any step, and any operation may follow on what it left behind.    *)
(***************************************************************************)
EXTENDS Lifecycle

CONSTANTS
    Dirs,       \* directories below the root
    DirsOf,     \* DirsOf[p]: the directories p lies in
    UserDirs,   \* directories of the user's
    Privileged  \* datasim runs as root: modes do not stop it

ASSUME DirAssumption ==
    /\ DirsOf \in [Paths -> SUBSET Dirs]
    /\ UserDirs \subseteq Dirs
    /\ Privileged \in BOOLEAN

VARIABLES
    dirs,     \* directories below the root
    tmp,      \* the file at .cirrusdata-datasim.tmp
    left,     \* left[p]: cells the worker of p has yet to write
    chmod     \* chmod[p]: the mode the worker of p will put back

diskVars == <<stored, dirs>>
storeVars == <<manifest, tmp>>
jobVars == <<left, chmod>>
localVars == <<dirs, tmp, jobVars>>
vars == <<lifeVars, localVars>>

\* os.Truncate: cuts the content or extends it with zeros.
Resize(body, n) == [i \in 1..n |-> IF i <= Len(body) THEN body[i] ELSE Zero]

NoCells == [p \in Paths |-> 0]
NoModes == [p \in Paths |-> "rw"]

Init ==
    /\ LifeInit
    /\ dirs = UserDirs \cup UNION {DirsOf[p] : p \in UserFiles}
    /\ tmp = "none"
    /\ left = NoCells
    /\ chmod = NoModes

\* What the workers knew is gone with the process.
ForgetJobs == left' = NoCells /\ chmod' = NoModes

-----------------------------------------------------------------------------
(* The workers *)

\* Faulty variant: a file that is gone already is an error.
DeletePresentFile(p) ==
    /\ Free("delete", p)
    /\ SetWork(p, IF stored[p] = None THEN "failed" ELSE "done")
    /\ stored' = [stored EXCEPT ![p] = None]
    /\ touched' = touched \cup {p}
    /\ UNCHANGED <<dirs, storeVars, cmdVars, phase, records, jobVars, faults, doubtful>>

\* os.Remove; a file that is gone already is no error.
DeleteFile(p) ==
    /\ Free("delete", p)
    /\ SetWork(p, "done")
    /\ stored' = [stored EXCEPT ![p] = None]
    /\ touched' = touched \cup {p}
    /\ UNCHANGED <<dirs, storeVars, cmdVars, phase, records, jobVars, faults, doubtful>>

\* What the mutation of p leaves before anything is written, and how many
\* cells it will write.
Opened(p) ==
    CASE plan.mutations[p] = "rewrite" -> <<>>
      [] plan.mutations[p] = "append" -> stored[p].body
      [] plan.mutations[p] = "truncate" ->
            Resize(stored[p].body, NewSize("truncate", records[p].size))

ToWrite(p) ==
    CASE plan.mutations[p] = "rewrite" -> NewSize("rewrite", records[p].size)
      [] plan.mutations[p] = "append" -> NewSize("append", records[p].size) - records[p].size
      [] plan.mutations[p] = "truncate" -> 0

\* mutateSpec up to the first write: the mode is noted and made writable, the
\* file opened or truncated.
MutateOpen(p) ==
    /\ Free("mutate", p)
    /\ stored[p] # None
    /\ stored' = [stored EXCEPT ![p] =
                  [body |-> Opened(p), mode |-> "rw",
                   mtime |-> IF plan.mutations[p] = "append" THEN @.mtime ELSE Now]]
    /\ left' = [left EXCEPT ![p] = ToWrite(p)]
    /\ chmod' = [chmod EXCEPT ![p] = stored[p].mode]
    /\ SetWork(p, "writing")
    /\ touched' = touched \cup {p}
    /\ UNCHANGED <<dirs, storeVars, cmdVars, phase, records, faults, doubtful>>

\* os.Stat fails: the file is not there.
MutateMissing(p) ==
    /\ Free("mutate", p)
    /\ stored[p] = None
    /\ SetWork(p, "failed")
    /\ UNCHANGED <<diskVars, storeVars, cmdVars, phase, records, jobVars, faults, touched, doubtful>>

\* A read-only file is there, which os.OpenFile may not open for writing.
Denied(p) == stored[p] # None /\ stored[p].mode = "ro" /\ ~Privileged

\* writeSpec up to the first write: the directories are made, the file is
\* created or truncated.
CreateOpen(p) ==
    /\ Free("create", p)
    /\ ~Denied(p)
    /\ dirs' = dirs \cup DirsOf[p]
    /\ stored' = [stored EXCEPT ![p] =
                  [body |-> <<>>, mode |-> IF @ = None THEN "rw" ELSE @.mode, mtime |-> Now]]
    /\ left' = [left EXCEPT ![p] = plan.creates[p]]
    /\ SetWork(p, "writing")
    /\ touched' = touched \cup {p}
    /\ UNCHANGED <<storeVars, cmdVars, phase, records, chmod, faults, doubtful>>

\* writeSpec fails, after it made the directories.
CreateDenied(p) ==
    /\ Free("create", p)
    /\ Denied(p)
    /\ dirs' = dirs \cup DirsOf[p]
    /\ SetWork(p, "failed")
    /\ UNCHANGED <<stored, storeVars, cmdVars, phase, records, jobVars, faults, touched, doubtful>>

\* Faulty variant: the loop of writePattern does not look at what is left.
WriteCellUnbounded(p) ==
    /\ work[p] = "writing"
    /\ stored' = [stored EXCEPT ![p].body = Append(@, plan.seed), ![p].mtime = Now]
    /\ left' = [left EXCEPT ![p] = @ - 1]
    /\ UNCHANGED <<dirs, storeVars, cmdVars, phase, records, work, chmod, faults, touched, doubtful>>

\* writePattern writes a block.
WriteCell(p) ==
    /\ work[p] = "writing"
    /\ left[p] > 0
    /\ stored' = [stored EXCEPT ![p].body = Append(@, plan.seed), ![p].mtime = Now]
    /\ left' = [left EXCEPT ![p] = @ - 1]
    /\ UNCHANGED <<dirs, storeVars, cmdVars, phase, records, work, chmod, faults, touched, doubtful>>

Stamp(p, mode) == stored' = [stored EXCEPT ![p].mode = mode, ![p].mtime = plan.seed]

\* Faulty variant: the record keeps the checksum from before the mutation.
FinishMutateStaleSum(p) ==
    /\ phase = "mutate" /\ work[p] = "writing" /\ left[p] = 0
    /\ Stamp(p, chmod[p])
    /\ records' = [records EXCEPT
                     ![p].size = NewSize(plan.mutations[p], @),
                     ![p].mtime = plan.seed]
    /\ SetWork(p, "done")
    /\ UNCHANGED <<dirs, storeVars, cmdVars, phase, jobVars, faults, touched, doubtful>>

\* The rest of mutateSpec: the file is hashed, its mtime set, its mode put
\* back; the record gets the planned size, whatever the file's size is.
FinishMutate(p) ==
    /\ phase = "mutate" /\ work[p] = "writing" /\ left[p] = 0
    /\ Stamp(p, chmod[p])
    /\ records' = [records EXCEPT
                     ![p].size = NewSize(plan.mutations[p], @),
                     ![p].sum = stored[p].body,
                     ![p].mtime = plan.seed]
    /\ SetWork(p, "done")
    /\ UNCHANGED <<dirs, storeVars, cmdVars, phase, jobVars, faults, touched, doubtful>>

\* The rest of writeSpec: mode and mtime are set, the record is made.
FinishCreate(p) ==
    /\ phase = "create" /\ work[p] = "writing" /\ left[p] = 0
    /\ Stamp(p, ModeOf[p])
    /\ records' = [records EXCEPT ![p] =
                     [size |-> plan.creates[p], sum |-> stored[p].body,
                      mode |-> ModeOf[p], mtime |-> plan.seed]]
    /\ SetWork(p, "done")
    /\ UNCHANGED <<dirs, storeVars, cmdVars, phase, jobVars, faults, touched, doubtful>>

\* A system call of the worker fails.  mutateSpec puts the mode back.
WorkerFails(p) ==
    /\ faults < MaxFaults
    /\ \/ Free(phase, p) /\ UNCHANGED stored
       \/ work[p] = "writing" /\ phase = "create" /\ UNCHANGED stored
       \/ /\ work[p] = "writing" /\ phase = "mutate"
          /\ stored' = [stored EXCEPT ![p].mode = chmod[p]]
    /\ dirs' \in IF phase = "create" THEN {dirs, dirs \cup DirsOf[p]} ELSE {dirs}
    /\ SetWork(p, "failed")
    /\ faults' = faults + 1
    /\ UNCHANGED <<storeVars, cmdVars, phase, records, jobVars, touched, doubtful>>

Worker(p) ==
    \/ DeleteFile(p)
    \/ MutateOpen(p) \/ MutateMissing(p) \/ FinishMutate(p)
    \/ CreateOpen(p) \/ CreateDenied(p) \/ FinishCreate(p)
    \/ WriteCell(p)

-----------------------------------------------------------------------------
(* The manifest store, and the end of the process *)

\* Store.Save: the document goes to the temporary file first.
WriteTmp ==
    /\ phase = "save"
    /\ ~gaveUp
    /\ tmp' = "whole"
    /\ EnterPhase("publish", {})
    /\ UNCHANGED <<diskVars, manifest, cmdVars, records, jobVars, faults, touched, doubtful>>

\* Store.Save: the rename replaces the manifest, and the operation succeeds.
Publish ==
    /\ phase = "publish"
    /\ ~gaveUp
    /\ Replace
    /\ tmp' = "none"
    /\ ForgetJobs
    /\ UNCHANGED <<diskVars, ops, faults>>

\* Directories below the root in which no file is left, in any depth.
EmptyDirs == {d \in dirs : \A p \in Paths : stored[p] # None => d \notin DirsOf[p]}

\* Faulty variant: a directory that holds a file is removed with the file.
CleanupTree ==
    /\ phase = "cleanup"
    /\ ~gaveUp
    /\ dirs' = {}
    /\ stored' = [p \in Paths |-> IF DirsOf[p] = {} THEN stored[p] ELSE None]
    /\ EnterPhase("forget", {})
    /\ UNCHANGED <<storeVars, cmdVars, records, jobVars, faults, touched, doubtful>>

\* Destroy tries to remove every directory, the longest path first and twice
\* over: those that hold no file go.
Cleanup ==
    /\ phase = "cleanup"
    /\ ~gaveUp
    /\ dirs' = dirs \ EmptyDirs
    /\ EnterPhase("forget", {})
    /\ UNCHANGED <<stored, storeVars, cmdVars, records, jobVars, faults, touched, doubtful>>

\* Store.Delete: the manifest is the last thing Destroy removes.
Forget ==
    /\ phase = "forget"
    /\ ~gaveUp
    /\ Remove
    /\ ForgetJobs
    /\ UNCHANGED <<diskVars, tmp, ops, faults>>

\* Writing, renaming or removing a manifest file fails.
StoreFails ==
    /\ faults < MaxFaults
    /\ ~gaveUp
    /\ \/ phase = "save" /\ tmp' \in {tmp, "torn"}
       \/ phase \in {"publish", "forget"} /\ UNCHANGED tmp
    /\ gaveUp' = TRUE
    /\ faults' = faults + 1
    /\ UNCHANGED <<diskVars, manifest, op, phase, plan, records, work, jobVars, ops, touched, doubtful>>

\* The command returned the error and main calls os.Exit.
Exit ==
    /\ gaveUp
    /\ Abandon
    /\ ForgetJobs
    /\ UNCHANGED <<diskVars, storeVars, ops, faults>>

\* The process is killed, or the machine stops, between any two steps.
Crash ==
    /\ faults < MaxFaults
    /\ op # "idle"
    /\ tmp' \in IF phase = "save" THEN {tmp, "torn"} ELSE {tmp}
    /\ Abandon
    /\ ForgetJobs
    /\ faults' = faults + 1
    /\ UNCHANGED <<diskVars, manifest, ops>>

Step ==
    \/ \E p \in Paths : Worker(p)
    \/ Advance /\ UNCHANGED localVars
    \/ WriteTmp \/ Publish
    \/ Cleanup \/ Forget
    \/ Exit

Next ==
    \/ (Begin \/ Interrupt) /\ UNCHANGED localVars
    \/ Step
    \/ \E p \in Paths : WorkerFails(p)
    \/ StoreFails \/ Crash

Spec == Init /\ [][Next]_vars

-----------------------------------------------------------------------------
(* Correctness *)

TypeOK ==
    /\ LifeTypeOK
    /\ dirs \subseteq Dirs
    /\ tmp \in {"none", "torn", "whole"}
    /\ left \in [Paths -> Nat]
    /\ chmod \in [Paths -> Modes]
=============================================================================
