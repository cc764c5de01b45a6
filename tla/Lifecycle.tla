----------------------------- MODULE Lifecycle -----------------------------
(***************************************************************************)
(* What Init, Rotate and Destroy of internal/fileset/service.go do on any   *)
(* target: they load the manifest, plan, run each phase of the plan as one  *)
(* batch of calls on the target, merge what the calls return, and save or   *)
(* delete the manifest last.  Fileset adds the calls of a local root,       *)
(* S3Fileset those of an object store.  One datasim process runs at a time. *)
(*                                                                          *)
(* A content is a sequence of cells, each named after the seed that wrote   *)
(* it; an MD5 checksum is the content itself.  A cell stands for a block of *)
(* bytes.  The batches of runParallel obey Batch, which ParallelRun is      *)
(* proved to implement.                                                     *)
(***************************************************************************)
EXTENDS Naturals, Sequences, FiniteSets

CONSTANTS
    Names,      \* relative paths PlanInit can choose
    Paths,      \* every path below the root that the model tells apart
    Rename,     \* Rename[n]: the "rotated-<seed>-" path of n
    UserFiles,  \* paths that hold something of the user's before datasim runs
    ModeOf,     \* ModeOf[p]: the mode pickMode chooses for p
    Seeds, User, Zero, \* what wrote a cell: a seed, the user, os.Truncate
    SeedsFor,   \* SeedsFor[n]: the seeds the n-th operation may be given
    Now,        \* the mtime of a file being written
    None,       \* nothing stored, no record, nothing planned
    Sizes,      \* sizes of planned files, in cells
    MaxSize,    \* bound on planned sizes
    Floor,      \* a truncation plans no less than this: 512 bytes
    MaxRotations, \* bound on the manifest's history
    MaxOps,     \* bound on the operations begun
    MaxFaults,  \* bound on failures, interrupts and crashes
    Workers     \* --concurrent

Cells == Seeds \cup {User, Zero}
Modes == {"rw", "ro"}
\* A file, or an object with the mode and the mtime in its metadata.
Files == [body : Seq(Cells), mode : Modes, mtime : Seeds \cup {Now}]
Records == [size : Nat, sum : Seq(Cells), mode : Modes, mtime : Seeds]
Inventory == [Paths -> Records \cup {None}]
Entries == [created : Nat, deleted : Nat, modified : Nat]
Documents == [files : Inventory, history : Seq(Entries)]
Actions == {"rewrite", "append", "truncate"}
Plans == [seed : Seeds \cup {None}, deletes : SUBSET Paths,
          mutations : [Paths -> Actions \cup {None}], creates : [Paths -> Nat \cup {None}]]
NoFiles == [p \in Paths |-> None]

ASSUME NameAssumption ==
    /\ Names \subseteq Paths
    /\ Rename \in [Names -> Paths]
    /\ UserFiles \subseteq Paths
    /\ ModeOf \in [Paths -> Modes]
ASSUME PathsFinite == IsFiniteSet(Paths)
ASSUME BoundAssumption ==
    /\ Sizes \subseteq 1..MaxSize
    /\ MaxSize \in Nat
    /\ Floor \in Nat
    /\ MaxRotations \in Nat
    /\ MaxOps \in Nat
    /\ MaxFaults \in Nat
    /\ Workers \in Nat \ {0}
    /\ SeedsFor \in [0..MaxOps -> SUBSET Seeds]
ASSUME NoneAssumption ==
    /\ None \notin Files
    /\ None \notin Records
    /\ None \notin Actions
    /\ None \notin Nat
    /\ None \notin Documents
    /\ Now \notin Seeds
    /\ User \notin Seeds \cup {Zero}

VARIABLES
    \* what outlives the process
    stored,   \* stored[p]: what the target holds at p
    manifest, \* the manifest that can be loaded, or None
    \* what the running process knows
    op,       \* the operation, "idle" if no process runs
    phase,    \* how far it is
    plan,     \* the InitPlan or RotatePlan; for destroy, what it deletes
    records,  \* the records it will save
    work,     \* work[p]: the phase's work item for p
    gaveUp,   \* the operation has returned an error
    \* bookkeeping of the model
    ops,      \* operations begun so far
    faults,   \* failures, interrupts and crashes so far
    touched,  \* paths the running operation has changed
    doubtful  \* paths changed by operations that never saved, or disowned

cmdVars == <<op, plan, gaveUp, ops>>
lifeVars == <<stored, manifest, cmdVars, phase, records, work, faults, touched, doubtful>>

-----------------------------------------------------------------------------
(* Records, files and plans *)

Tracked(files) == {p \in Paths : files[p] # None}

\* A file is the user's: datasim has not written it.
OfUser(file) == file # None /\ file.body # <<>> /\ file.body[1] = User

\* A file is what the record says.
Describes(r, file) ==
    /\ file # None
    /\ r.size = Len(file.body)
    /\ r.sum = file.body
    /\ r.mode = file.mode
    /\ r.mtime = file.mtime

IsUsers(p) == OfUser(stored[p])
Matches(p, r) == Describes(r, stored[p])

\* NewSize of a planned mutation.
NewSize(action, size) ==
    CASE action = "rewrite" -> size
      [] action = "append" -> size + 1
      [] action = "truncate" -> IF size > Floor THEN size - 1 ELSE Floor

NoPlan == [seed |-> None, deletes |-> {}, mutations |-> NoFiles, creates |-> NoFiles]
NoWork == [p \in Paths |-> "none"]

LifeInit ==
    /\ stored = [p \in Paths |->
                   IF p \in UserFiles
                   THEN [body |-> <<User>>, mode |-> "rw", mtime |-> Now]
                   ELSE None]
    /\ manifest = None
    /\ op = "idle"
    /\ phase = "idle"
    /\ plan = NoPlan
    /\ records = NoFiles
    /\ work = NoWork
    /\ gaveUp = FALSE
    /\ ops = 0
    /\ faults = 0
    /\ touched = {}
    /\ doubtful = {}

-----------------------------------------------------------------------------
(* Beginning an operation *)

EnterPhase(ph, items) ==
    /\ phase' = ph
    /\ work' = [p \in Paths |-> IF p \in items THEN "todo" ELSE "none"]

\* A command is started while no other datasim process runs.
Launch(name) ==
    /\ op = "idle"
    /\ ops < MaxOps
    /\ op' = name
    /\ ops' = ops + 1

\* Init plans new files.  It does not look for a manifest that is there already.
BeginInit ==
    /\ Launch("init")
    /\ \E chosen \in (SUBSET Names) \ {{}}, seed \in SeedsFor[ops] : \E size \in [chosen -> Sizes] :
          /\ plan' = [NoPlan EXCEPT
                        !.seed = seed,
                        !.creates = [p \in Paths |-> IF p \in chosen THEN size[p] ELSE None]]
          /\ EnterPhase("create", chosen)
    /\ UNCHANGED <<stored, manifest, records, gaveUp, faults, touched, doubtful>>

\* PlanRotate gives a new file whose name is taken its "rotated-" path.
RotatedName(n, files) == IF n \in Tracked(files) THEN Rename[n] ELSE n

\* The chosen name that p is the path of.
NameOf(p, chosen, files) == CHOOSE n \in chosen : RotatedName(n, files) = p

\* Rotate loads the manifest and plans deletions and mutations of different
\* tracked files, and at least one new file.
BeginRotate ==
    /\ Launch("rotate")
    /\ manifest # None
    /\ Len(manifest.history) < MaxRotations
    /\ LET files == manifest.files IN
       \E deletes \in SUBSET Tracked(files), chosen \in (SUBSET Names) \ {{}}, seed \in SeedsFor[ops] :
       \E mutations \in [Tracked(files) \ deletes -> Actions \cup {None}],
          size \in [chosen -> Sizes] :
          /\ \A p \in DOMAIN mutations :
                mutations[p] # None => NewSize(mutations[p], files[p].size) <= MaxSize
          /\ plan' = [seed |-> seed,
                      deletes |-> deletes,
                      mutations |-> [p \in Paths |->
                         IF p \in DOMAIN mutations THEN mutations[p] ELSE None],
                      creates |-> [p \in Paths |->
                         IF \E n \in chosen : RotatedName(n, files) = p
                         THEN size[NameOf(p, chosen, files)] ELSE None]]
          /\ EnterPhase("delete", deletes)
    /\ records' = manifest.files
    /\ UNCHANGED <<stored, manifest, gaveUp, faults, touched, doubtful>>

\* Destroy loads the manifest and deletes every file it lists.
BeginDestroy ==
    /\ Launch("destroy")
    /\ manifest # None
    /\ plan' = [NoPlan EXCEPT !.deletes = Tracked(manifest.files)]
    /\ EnterPhase("delete", Tracked(manifest.files))
    /\ UNCHANGED <<stored, manifest, records, gaveUp, faults, touched, doubtful>>

-----------------------------------------------------------------------------
(* Batches of calls on the target *)

Busy == {p \in Paths : work[p] = "writing"}

\* A worker of the phase may take up p.  Destroy deletes in a loop that stops
\* at the first error.
Free(ph, p) ==
    /\ phase = ph
    /\ ~gaveUp
    /\ work[p] = "todo"
    /\ op = "destroy" => \A q \in Paths : work[q] # "failed"
    /\ Cardinality(Busy) < Workers

SetWork(p, s) == work' = [work EXCEPT ![p] = s]

\* Faulty variant: runParallel returns nil when it has begun the last item.
PhaseDoneEarly(ph) ==
    /\ phase = ph
    /\ ~gaveUp
    /\ \A p \in Paths : work[p] \in {"none", "done", "writing", "failed"}

\* Faulty variant: the errors of the items are not looked at.
PhaseDoneDespiteErrors(ph) ==
    /\ phase = ph
    /\ ~gaveUp
    /\ \A p \in Paths : work[p] \in {"none", "done", "failed"}

\* Faulty variant: runParallel waits for an item even when there is none.
PhaseDoneNonEmpty(ph) ==
    /\ phase = ph
    /\ ~gaveUp
    /\ \A p \in Paths : work[p] \in {"none", "done"}
    /\ \E p \in Paths : work[p] = "done"

\* The phase's runParallel returned nil: Batch's Succeed.
PhaseDone(ph) ==
    /\ phase = ph
    /\ ~gaveUp
    /\ \A p \in Paths : work[p] \in {"none", "done"}

\* Faulty variant: the records of deleted files are kept.
EndDeleteKeepsRecords ==
    /\ PhaseDone("delete")
    /\ \/ op = "rotate" /\ EnterPhase("mutate", Tracked(plan.mutations))
       \/ op = "destroy" /\ EnterPhase("cleanup", {})
    /\ UNCHANGED <<stored, manifest, cmdVars, records, faults, touched, doubtful>>

EndDelete ==
    /\ PhaseDone("delete")
    /\ \/ /\ op = "rotate"
          /\ records' = [p \in Paths |-> IF p \in plan.deletes THEN None ELSE records[p]]
          /\ EnterPhase("mutate", Tracked(plan.mutations))
       \/ /\ op = "destroy"
          /\ EnterPhase("cleanup", {})
          /\ UNCHANGED records
    /\ UNCHANGED <<stored, manifest, cmdVars, faults, touched, doubtful>>

EndMutate ==
    /\ PhaseDone("mutate")
    /\ EnterPhase("create", Tracked(plan.creates))
    /\ UNCHANGED <<stored, manifest, cmdVars, records, faults, touched, doubtful>>

EndCreate ==
    /\ PhaseDone("create")
    /\ EnterPhase("save", {})
    /\ UNCHANGED <<stored, manifest, cmdVars, records, faults, touched, doubtful>>

\* runParallel returned an error, and so does the operation: a worker failed.
\* Workers that are writing go on until the process exits.
GiveUp ==
    /\ ~gaveUp
    /\ \E p \in Paths : work[p] = "failed"
    /\ gaveUp' = TRUE
    /\ UNCHANGED <<stored, manifest, op, phase, plan, records, work, ops, faults, touched, doubtful>>

\* runParallel sees that the rotate loop's context is cancelled, and begins no
\* further item.  A batch whose items have all begun does not look at it again;
\* the next batch then gives up.
SeeCancel ==
    /\ ~gaveUp
    /\ op = "rotate"
    /\ \E p \in Paths : work[p] = "todo"
    /\ gaveUp' = TRUE
    /\ UNCHANGED <<stored, manifest, op, phase, plan, records, work, ops, touched, doubtful>>

\* SIGINT cancels the context.
Interrupt ==
    /\ faults < MaxFaults
    /\ SeeCancel
    /\ faults' = faults + 1

Begin == BeginInit \/ BeginRotate \/ BeginDestroy
Advance == EndDelete \/ EndMutate \/ EndCreate \/ GiveUp

-----------------------------------------------------------------------------
(* Ending an operation *)

\* The process is gone; the target is what it is.
EndCommand ==
    /\ op' = "idle"
    /\ phase' = "idle"
    /\ plan' = NoPlan
    /\ records' = NoFiles
    /\ work' = NoWork
    /\ gaveUp' = FALSE
    /\ touched' = {}

Document ==
    [files |-> records,
     history |->
        IF op = "init" THEN <<>>
        ELSE Append(manifest.history,
                    [created |-> Cardinality(Tracked(plan.creates)),
                     deleted |-> Cardinality(plan.deletes),
                     modified |-> Cardinality(Tracked(plan.mutations))])]

\* The manifest is replaced.  Paths that Init wrote over a manifest without
\* listing them are disowned.
Replace ==
    /\ manifest' = Document
    /\ LET renewed == Tracked(plan.creates) IN
       doubtful' = (doubtful \ (renewed \cup plan.deletes)) \cup
                   (IF op = "init" /\ manifest # None
                    THEN Tracked(manifest.files) \ renewed ELSE {})
    /\ EndCommand

\* The manifest is deleted, as the last thing of Destroy.
Remove ==
    /\ manifest' = None
    /\ doubtful' = doubtful \ plan.deletes
    /\ EndCommand

\* The process ends without saving: what it touched is in doubt.
Abandon ==
    /\ doubtful' = doubtful \cup touched
    /\ EndCommand

-----------------------------------------------------------------------------
(* Correctness *)

LifeTypeOK ==
    /\ stored \in [Paths -> Files \cup {None}]
    /\ manifest \in Documents \cup {None}
    /\ op \in {"idle", "init", "rotate", "destroy"}
    /\ phase \in {"idle", "delete", "mutate", "create", "save", "publish", "cleanup", "forget"}
    /\ plan \in Plans
    /\ records \in Inventory
    /\ work \in [Paths -> {"none", "todo", "writing", "done", "failed"}]
    /\ gaveUp \in BOOLEAN
    /\ ops \in 0..MaxOps
    /\ faults \in 0..MaxFaults
    /\ touched \subseteq Paths
    /\ doubtful \subseteq Paths

\* What the manifest says of p.
Listed(p) == IF manifest = None THEN None ELSE manifest.files[p]

\* A path holds what is listed of it, or nothing of datasim's.
Agrees(file, r) ==
    IF r = None THEN file = None \/ OfUser(file) ELSE Describes(r, file)

\* Between operations the manifest and the target agree about every path that no
\* failed, interrupted or dead operation changed and no second Init disowned: a
\* listed file is there with the recorded size, checksum, mode and mtime, and
\* an unlisted one is not there or is the user's.
InStep == op = "idle" => \A p \in Paths \ doubtful : Agrees(stored[p], Listed(p))

\* The manifest goes away only when every file it lists is gone: whenever
\* Destroy stops half-way, what is left can still be found and destroyed.
ManifestOutlivesFiles ==
    [][manifest # None /\ manifest' = None =>
         \A p \in Tracked(manifest.files) : stored[p] = None]_lifeVars

\* A file of the user's that no plan names survives every operation.
UserFilesUntouched == [][\A p \in Paths : IsUsers(p) => stored'[p] = stored[p]]_lifeVars

\* Destroy can be repeated after a crash: it meets no error of its own making.
DestroyFailsOnlyOnFault ==
    [][\A p \in Paths :
         op = "destroy" /\ work[p] # "failed" /\ work'[p] = "failed" => faults' > faults]_lifeVars

\* Every operation ends, with success or an error.
OperationEnds == op # "idle" ~> op = "idle"

\* The manifest is saved only with what the target holds, as far as the operation
\* that saves it has written it, even if it went on from what an interrupted
\* rotation had left.
SavedRecordsMatch ==
    [][manifest' # manifest /\ manifest' # None =>
         \A p \in touched : manifest'.files[p] # None => Matches(p, manifest'.files[p])]_lifeVars

\* On either target the operations change contents one path at a time and the
\* inventory at once, when they succeed.
Promise == INSTANCE Dataset WITH
    Empty <- None,
    contents <- stored,
    inventory <- [p \in Paths |-> Listed(p)],
    running <- op # "idle",
    changed <- touched

ImplementsDataset == Promise!Spec
=============================================================================
