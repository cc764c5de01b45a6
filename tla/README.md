# datasim in TLA+

This directory holds the formal model of datasim, the tool that generates and
rotates synthetic file trees: TLA+ modules translated from the Go sources, TLC
configurations that check them on small instances, and proofs checked by TLAPS.
Paths are relative to the repository; line numbers are those of the commit the
model was written from. `PROJECT.json` maps every definition to the lines it
stands for, lists the runs, the hazards they are aimed at, and the theorems.

To check a module: `tlc -config Fileset.cfg MCFileset`. To check its proofs:
`tlapm FilesetProofs.tla`.

## Inventory

| Component | Source | State | Operations |
| --- | --- | --- | --- |
| Batch runner | `internal/fileset/service.go` (`runParallel`, `normalizeWorkerCount`) | loop index, errgroup (slots, first error, context) | run an indexed batch with a bounded number of goroutines |
| Fileset lifecycle | `internal/fileset/service.go`, `target.go` | files and directories below the root, the running plan, the records to save | Init, Rotate, Destroy; Status reads |
| Manifest store | `internal/manifest` | the manifest file and its `.tmp` | Load, Save (write and rename), Delete |
| Planner | `internal/fileset/types.go`, `profile_*.go`, `catalog.go` | a seeded random source | PlanInit, PlanRotate, size allocation, naming |
| Deterministic clock | `internal/fileset/determinism.go` | none | planning and rotation times from seed and manifest |
| S3 target | `internal/fileset/s3_target.go` | objects below a prefix, the manifest object | the lifecycle's operations over PUT, GET and DELETE of whole objects |
| Rotate loop | `internal/cli/fileset_rotate_loop.go` | iteration, limit, signal context | Rotate again and again until the limit, a failure or an interrupt |
| Directory verifier | `internal/verify/service.go` | two scanned trees, results per file, differences | scan, exclude, match, compare, checksum |
| Verifier's worker pool | `internal/verify/service.go` (`runParallel`) | index channel, workers, group error | hash files concurrently |
| Block devices | `internal/filesystem/manager.go` | mounts and filesystems of the machine | Format, Destroy on Linux and Windows |
| Block-device state | `internal/filesystem/state_store.go` | `state.json` and its `.tmp` | Get, GetByBlockDevice, Put, DeleteByBlockDevice, Delete |
| Update | `internal/update/service.go` | the installed binary | look for a release and install it |
| Shell | `cmd`, `internal/app`, `internal/cli`, `internal/config`, `internal/storage`, `pkg/bytefmt` | flags, terminal | parse, wire, print |

### How they interact

The CLI calls one operation of one service and exits; nothing stays resident
but the rotate loop. The fileset service plans (planner, clock), runs each phase
of the plan as one batch (batch runner) of calls on a target (local or S3), and
saves the manifest once at the end. Only the files and the manifest connect one
invocation to the next: that is where crashes, failures and interrupts of one
command meet the assumptions of the following one. `datasim block-device`
commands share the machine's mount table and `state.json` with every other such
process, without a lock. The verifier reads two trees that others may write.

### What is hard about it

* *Saved once, at the end.* Rotate deletes, mutates and creates files, and only
  then saves what it did. Whatever ends it before leaves a manifest of the state
  before and a disk of something in between, and Destroy or the next Rotate work
  from that manifest.
* *Early return.* `runParallel` may return while its goroutines still run: its
  callers handle an error while items are still being worked on.
* *Lost answers.* On an object store a request may be carried out and its answer
  lost: the worker reports a failure for an object that has changed.
* *A loop among commands.* Between two rounds of the rotate loop any other command
  may run on the same root, and an interrupt may arrive at any moment, also between
  the timer and the next round.
* *Mutation in place.* A mutation makes a read-only file writable, changes it,
  restores mode and mtime, and merges a record it computed from the manifest.
* *Two places for one fact.* A block device's mount is recorded after it is
  made, in a document that outlives reboots, and Destroy trusts the document.
* *Shared documents.* Two processes load, edit, write and rename the same
  `state.json` over the same temporary name.
* *Phases of commands on the machine.* Format looks up what is mounted, unmounts,
  makes a filesystem, mounts and records, each of which can fail, and a lookup can
  fail without Format noticing. Others may mount between lookup and use.

### What makes each component correct

* Batch runner: success means that every item was done; cancellation has a
  reason; no item begins after the return; no more than the workers allowed;
  every batch ends.
* Lifecycle and manifest: between commands the manifest and the disk agree about
  every path that no failed command changed; the manifest goes last; the user's
  files are left alone; Destroy can be repeated; every operation ends.
* Block devices: a record was earned by a mount; records are one-to-one; the
  document is never half-written; nothing that its lookups could tell Format to be
  mounted is overwritten without being unmounted, and nothing at all without
  `--force`; Destroy wipes what it unmounted; until something fails, document and
  mount table agree.
* Planner: sizes add up to the budget, a mutation can be seen from outside, a
  balanced rotation replaces what it deletes, what is created is new.
* Verifier: for what nobody writes meanwhile a difference is reported exactly
  where there is one; every entry is accounted for once; it fails only for a
  cause; it ends.
* S3: a manifest is saved only with what its operation has stored, even when it
  works from what a lost answer left behind; it goes last here too.
* Both targets: contents change one path at a time, the inventory at once and only
  when an operation succeeds, and it is then right about every path not in doubt.
* Loop: it makes the rounds it was asked for, fails only for a cause, and an
  interrupt between two rounds ends it and leaves the fileset alone.

## The modules

| Module | Models | Extends or uses |
| --- | --- | --- |
| `Batch` | what a caller of `runParallel` may rely on (abstract) | |
| `ParallelRun` | `runParallel`, step by step | `Batch` by refinement |
| `ParallelRunProofs` | proofs | `ParallelRun` |
| `Dataset` | what the fileset commands promise on any target (abstract) | |
| `Lifecycle` | what Init, Rotate and Destroy do on any target | `Dataset` by refinement; phases shaped by `Batch` |
| `Fileset` | the calls of a local root, with the manifest store | `Lifecycle` |
| `S3Fileset` | the calls of an object store | `Lifecycle` |
| `RotateLoop` | `fileset rotate loop` and the commands it runs among | `Fileset` |
| `MCFileset`, `MCS3Fileset`, `MCRotateLoop` | instances for TLC | the three above |
| `LifecycleProofs` | the lemmas that both targets share | `Lifecycle` |
| `FilesetProofs`, `S3FilesetProofs` | proofs | the modules they name, `LifecycleProofs` |
| `RotateLoopProofs` | proofs | `RotateLoop`, `FilesetProofs` |
| `StateStore` | `state.json`, its temporary file, the copies in memory, the open files | |
| `BlockDevice` | Format and Destroy on Linux and Windows | `StateStore` |
| `MCBlockDevice` | instances for TLC | `BlockDevice` |
| `BlockDeviceProofs` | proofs | `BlockDevice` |
| `Allocation` | `allocateSizes` and `reconcileSizes` | |
| `Plan` | `PlanInit` and `PlanRotate`, over several rotations that succeed | `Allocation` |
| `PlanProofs` | proofs | `Plan` |
| `MCPlan` | instance for TLC | `Plan` |
| `Verify` | `VerifyDir` with its worker pool | |
| `VerifyProofs` | proofs | `Verify` |
| `MCVerify` | instance for TLC | `Verify` |

Operators whose comment begins with "Faulty variant" are plausible mistakes in
the operator they precede. They are used by no specification: putting one in
the place of its correct counterpart shows that a property would notice.

### ParallelRun and Batch

`ParallelRun` has a dispatcher (`Enter`, `Check`, `Spawn`, `Wait`) and one
goroutine per item (`Start`, `Finish`). The errgroup is modelled from its use:
`held` are the slots of `SetLimit`, `KeepError` keeps the first error and
cancels the group's context, `Release` gives a slot back afterwards. `Check` is
the `select` on the context before each item; it returns at once, without
waiting. `Interrupt` cancels the caller's context, as SIGINT does in the rotate
loop. `Batch` says the same with three outcomes and no goroutines; the refinement
mapping is at the end of `ParallelRun`.

### Lifecycle and Dataset

`Lifecycle` is what the service does whatever the target is. `BeginInit`,
`BeginRotate` and `BeginDestroy` load the manifest and plan; `EndDelete`,
`EndMutate` and `EndCreate` are the nil returns of `runParallel` with the merge of
the records that follows each; `GiveUp` is its error, `Interrupt` and `SeeCancel`
the loop's context; `Replace`, `Remove` and `Abandon` are the three ends of a
command. A worker takes up an item when it is `Free`: at most `Workers` at a time,
none after the phase has given up, and in Destroy's loop none after a failure.
What a worker then does is the target's.

A content is a sequence of cells, each named after the seed that wrote it; its
checksum is the content itself; a cell stands for a block of 512 bytes or more.
Sizes count cells: an append plans one more, a truncation one less but never less
than `Floor`.

Two variables only serve the properties: `touched`, the paths the running
operation has changed, and `doubtful`, those changed by operations that never
saved, or disowned by a second Init.

`Dataset` says what a user may rely on, without phases, workers or plans: an
operation begins; contents change path by path; it commits, and then the inventory
is right about every path not in doubt; or it is abandoned, the inventory is what
it was, and what has changed is in doubt. The refinement mapping is at the end of
`Lifecycle`.

Abstractions: one datasim process at a time on a root; what PlanInit and
PlanRotate choose is any choice they could make (disjoint deletions and mutations
of tracked files, at least one new file); the records of a phase are merged at
its end, as the code does, since nobody reads them before; the order of Destroy's
deletions is any order in which it stops at the first failure. Left out: the branch
of Rotate for a mutation of a file missing from the map (its plan is made from
that map), the profile and template content, progress reports, and `Status`.

### Fileset

`mutateSpec` is `MutateOpen` (make writable, resize or open), `WriteCell` per
block, `FinishMutate` (chmod, chtimes, record); `writeSpec` is `CreateOpen`,
`WriteCell`, `FinishCreate`. The chmod that puts a widened mode back is deferred and
its error dropped (service.go:635-637): it is taken to succeed, as a chmod of a file
whose mode the process has just changed does, while a kill before it is modelled.
`WriteTmp` and `Publish` are `Store.Save`; `Forget` is
`Store.Delete`; `Cleanup` removes the directories that are empty, and ignores
errors, as the code does. `WorkerFails`, `StoreFails` and `Crash` are the failures;
after `GiveUp` goroutines still running go on until `Exit`.

### S3Fileset

One request is one step: `DeleteObject`, `Mutate`, `Create`, `SaveManifest`,
`DeleteManifest`. `Stream` is what `mutationReader` yields: the pattern, or the old
object with the pattern behind it, or the head of the old object; `Planned` is the
size that is announced with it. `MutateRefused` is a mutation whose old object is
not there or whose stream has another length than announced, which happens when
the object is not what its record says. `RequestFails` is a request that is not
carried out, `AnswerLost` one that is.

The object store and its client library are external. What is assumed of them: a
request replaces or removes a whole object; an upload of which fewer bytes come
than announced stores nothing and fails; one of which more come may store what
was announced, with success or not; no request is carried out after its process
has ended; removing an object that is not there succeeds. A save whose answer is lost ends the command with an error after
the manifest was replaced: the model does not tell it from a success, since the
next command finds the same. Left out: the URL of the root, the environment's
credentials and the check of the bucket.

### RotateLoop

The loop's process is `loop` (how far it is, or how it ended), `limit` and `round`
(`--iterations` and `i`) and `canceled` (its context); `StartLoop`, `RoundDone`,
`NextRound`, `Stop`, `RoundFails` and `NextRoundFails` are its own steps, and `Work`
are those of the Rotate it runs. While it waits, `OthersBegin` lets any other
command begin on the same root, and the next round works from what that has left.
`Cancel` is SIGINT at any moment: while a round runs, items that have not begun do
not begin (`Begins`); while the loop waits, its select takes the context, or the
timer if that is ready too, as with an interval of zero (`Hasty`).

`saved` and `calm` only serve the properties. Abstractions: a SIGINT while the loop
waits for another command's end is the loop's alone, commands outside the loop are
not interrupted here (they may be killed); a round begins when no other command
runs.

### StateStore and BlockDevice

`StateStore` has the document, the temporary file, each process's copy and what
each has open. `Load` is `load` with the edit of `Put` or a Delete; `save` is
`Open`, `Write` and `Rename`, because `os.WriteFile` truncates first. A process
that has the temporary file open goes on writing to it after another has renamed
it over the document, and a file written by two may be torn.

`BlockDevice` runs the commands. Linux Format is `FindSource`, `FindTargets`,
`Unmount` per mount point, `Mkfs`, `Mount`, then the document twice
(`DeleteByBlockDevice`, `Put`); Windows Format is `CheckMount`, `CheckDevice`,
`FormatVolume`, `AddPath`; Destroy is `Get`, `Lookup`, `Umount`, `Wipe`, and the
document once. `Edit`, `SaveOpen`, `SaveWrite`, `SaveRename` are the document's
steps. `Stop` is a failed command or a kill at any step: a system call, a findmnt
that cannot be started or fails with a message, a mkfs that may have destroyed the
old filesystem and has or has not found its directory made. `Reboot` empties the
mount table.

Three failures a command carries on from. `LookupFails` is any failure of Destroy's
findmnt. `FindSourceFails` and `FindTargetsFails` are a findmnt of Format's that ends
badly without a word, because it was killed, say: `findmntNotFound` (manager.go:379)
takes it for one that has found nothing, so Format goes on as if nothing were
mounted there. `Decide` is what `prepareLinuxFormat` makes of the two answers.
`MountByHand` is somebody else who mounts a device, also between Format's lookups
and its mkfs.

`formatted` and `unseen` only serve the properties. `unseen` holds the mount points
where more may be mounted than a process's lookups have told it: a lookup that died
adds the mount points it should have named, a mount under another is in it because
findmnt names the top one, and so is every mount that someone else, a user or
another datasim, makes after the lookup.

The machine is external, modelled from how the code uses it: `findmnt --target`
names the top mount of the path or, for a directory that is no mount point, the
filesystem around it (`Enclosing`; with `Enclosing = NoDevice` it names nothing);
`mkfs -f` and `wipefs` may refuse a mounted device or go ahead;
`Add-PartitionAccessPath` refuses a path in use. Abstractions: a device or mount
point has one spelling; a PowerShell script that outlives a killed datasim is a
script that ended first; a reboot keeps what was written (`save` does not sync,
so a power loss may keep less). Left out: the choice of filesystem type.

### Allocation and Plan

`Allocation` is the loop that divides a budget: `Allocate` bounds the number of
files, `Sample` gives one file a size and keeps room for the rest, `SampleLast`
gives the last file what is left, twice as the code does, and `Reconcile` is one
iteration of the loop that takes the excess back. Which tier and which size of
it `rand` yields is any choice.

`Plan` keeps the records (`files`: size and mtime of each path) and plans over
them. `PlanInit` and `PlanRotate` choose counts, deletions, mutations and the
budget and start an allocation; `NameFiles` is the rest of the plan (names,
mtimes, `dedupeFiles`, the renaming of tracked paths); `Apply` is what Init or
Rotate saves when nothing fails, which is where the next rotation starts.
`Fileset` assumes of plans only what the types of `InitPlan` and `RotatePlan`
say; `Plan` looks at the numbers in them.

Abstractions: sizes are in units of which the smallest tier has one, and 512 and
4096 bytes are constants; percentages are natural numbers; a path is a stem, the
number that `dedupeFiles` appends and the seed of its renaming. Two stems never
differ by such a number only: in the built-in profiles a category that may repeat
a name does not end it in a small number, and the one that does (`doc`) numbers
each file differently. Modes and labels are left out. The random source and
the clocks are any choice in their windows, so that two plans may agree whatever
their seeds; with one seed and one file count they do agree in their names, since
as many random numbers are drawn before each name.

### Verify

`Verify` follows `VerifyDir`: `WalkRoot`, `ListDir`, `Visit` and `ScanDone` are
the two walks as `filepath.WalkDir` makes them (a directory is listed as a whole,
its entries are looked up one after another, an excluded directory is skipped
with what is below it); `Compare` is the comparison of the two inventories;
`Send`, `CloseChannel`, `GiveUp` and `Collect` are the dispatcher of the hash
phase and `Leave`, `Start`, `HashSource`, `HashDestination` a worker of it. Unlike
the pool of the filesets this one hands indexes over a channel without buffer,
and a worker that fails leaves its loop. `Write` is another program that makes,
changes, replaces or removes something in either tree at any moment; `ScanFails`
and `ReadFails` are errors of reading.

Abstractions: a pattern of `--exclude` stands for the paths it matches; mode and
mtime are one kind of metadata; a file is hashed at one moment, since the
properties promise nothing about a path that is written meanwhile. The context is
never cancelled, because the command runs with the background context. Left out:
the validation of the options, progress reports, the layout of the result.

## The runs

| Run | Checks | Instance |
| --- | --- | --- |
| `parallel_run` | `TypeOK`, `SuccessMeansAllDone`, `CanceledIsExplained`, `NoNewWorkAfterReturn`, `Ends`, `ImplementsBatch` | 4 items, 2 workers |
| `fileset` | `TypeOK`, `InStep`, `ManifestOutlivesFiles`, `UserFilesUntouched`, `DestroyFailsOnlyOnFault`, `ImplementsDataset` | 2 names and their renamed forms, a user's file, nested directories, 2 workers, 4 operations, 1 fault |
| `s3` | `LifeTypeOK`, `SavedRecordsMatch`, `ManifestOutlivesFiles`, `ImplementsDataset` | 2 names and their renamed forms, 2 workers, 4 operations, 2 faults |
| `rotate_loop` | `InStep`, `OutcomeIsRight`, `InterruptLeavesAlone`, `OperationEnds`, `LoopEnds` | 1 name, limits 0, 1 and 2, a zero interval, 3 operations, 2 faults and an interrupt, as root |
| `block_device` | `OneRecordEach`, `StateReadable`, `StateAgrees`, `RecordsKept` | Linux, 1 process, 2 devices, 2 mount points, at most one mount at each at first, 5 commands, 2 faults |
| `block_device_shared` | `TypeOK`, `RecordsAreFormatted`, `UnforcedLeavesMounts`, `ForcedUnmountsFirst` | Linux, 2 processes, 2 devices, 2 mount points, nothing or one device over the other at first, 3 commands, 1 fault, symmetric in devices and in processes |
| `block_device_windows` | `TrackedIsSafe` | Windows, 4 commands, 1 fault |
| `plan` | `TypeOK`, `AllocationIsExact`, `MutationsShow`, `BalancedIsSteady` | a first plan and 2 rotations, both strategies, 4 kinds of request |
| `verify` | `TypeOK`, `VerdictIsRight`, `EveryEntryOnce`, `FailureHasCause`, `NoNewWorkAfterFailure`, `Ends` | 4 paths in 2 levels, 64 pairs of trees, 3 sets of excluded paths, 2 workers, 1 write, 1 read error |

Why the bounds are enough: the hazards need an interrupted operation, what it
left, and the operations that work from that: two faults and the operations
around them (a rotation that dies, one that resumes, a destroy that dies, a
destroy again; an answer that is lost, an append over what it left, and a save).
Three operations are two rounds of the loop and one command before or between
them, or one of another's that destroys the fileset under the loop. Two workers and three items are the least with which a batch
gives up while one item runs and another has not begun; four items add one that
is never begun. Two devices and two mount points give every way a command can
conflict with a record or a mount: same device elsewhere, other device here,
both. Three commands of two processes are two that overlap and one before or after
them; the fault is a findmnt that dies, a mount by hand, a kill or a reboot. That run
takes states that differ in the names of devices or of processes for one: nothing in
the module tells two devices or two processes apart, the initial states are the same
after renaming, and its properties are invariants and properties of single steps.
Two rotations are enough for sizes that a mutation changed to become the budget
of the next plan, and for a name to be renamed twice. The pairs of trees of
`verify` hold every kind of difference, alone and together, and up to three files
to hash: one more than the workers, so that one is sent when another has failed.

Deadlock is not checked where a run's bound on operations lets the model stop
between commands; `parallel_run` stops because its batch has ended.

### Runs that fail, and what they show

Each checks one sentence of the repository's documents that the code does not
keep; the counterexamples are the findings in `PROJECT.json`.

| Run | Claim | What happens |
| --- | --- | --- |
| `s3_truncate` | docs/design.md:52, truncating rotations rewrite objects | an object of fewer than 512 bytes is announced with 512, and the rotation fails |
| `block_device_stale` | manager.go:235, Destroy unmounts and wipes a filesystem | a Format killed before it records makes Destroy wipe the old device |
| `plan_again` | README.md:101, a rotation creates new files | with the seed of an earlier rotation the renamed paths are tracked already, and are overwritten while they are counted as created |

`plan_again` is what a rotate loop with `--seed` meets from its third iteration
on: the first creates the files of that seed, the second their renamed forms, the
third those again, while each deletes its share.

More were met while modelling, visible in a few actions, and have no run of
their own:

* `BeginInit`: Init does not look for a manifest that is there. Its own replaces
  it, and what the new plan does not name again stays when Destroy "removes"
  everything (README.md:173). Such paths are `doubtful` in the model.
* `WriteTmp`: the manifest is saved once, after every file, so that an Init that
  dies leaves files without a manifest (README.md:47 says that it tracks every
  file).
* `FinishMutate`: on a local root an append or truncation that goes on from what an
  interrupted rotation has left saves the size it had planned, not the file's
  (service.go:668; docs/design.md:84 calls the manifest the source of truth). The
  path stays in doubt until the next rewrite; `S3Fileset` cannot do that, because
  an upload announces its size (`SavedRecordsMatch`).
* `FindSourceFails`, `FindTargetsFails`: a findmnt that is killed, or ends badly
  without a word, counts as one that has found nothing. Format without `--force` then
  makes its filesystem and mounts over what is there (README.md:239: it "refuses to
  touch a device or mount point that is already mounted"; manager.go:378 speaks of "no
  matching rows"), and with it makes one on a device that it has not unmounted.
* `MountByHand`, `Mount`: the same happens when someone else mounts after the
  lookups; of two Formats of one mount point that both find it free the second mounts
  over the first. `UnforcedLeavesMounts` and `ForcedUnmountsFirst` are about every
  mount but those in `unseen`.
* `Open`, `Write`, `Rename`: two datasim processes share one temporary file; when one
  renames what the other has just truncated, `state.json` is empty, and it may be torn
  (state_store.go:122 says that save is atomic). `StateReadable` is about one process
  at a time.
* `Load`: two processes that update the document at a time lose one of the updates,
  since the later one writes back what it has read before the other's Put
  (state_store.go:61 says only "inserts or replaces"). `RecordsKept` is about one
  process at a time too; what holds for any number is that no record arises that no
  Format has earned (`RecordsAreFormatted`).
* `CheckDevice`: without `--force`, Windows asks only datasim's own document
  whether a device is in use: one that somebody else has mounted is formatted
  (block_device_format.go:23: "refuses to reuse an already-mounted target or block
  device").
* `WalkRoot`: the verifier accepts a root that is a symbolic link to a directory
  (service.go:286-297), but WalkDir does not follow it: it is verified as an empty
  tree, and two such roots always match. `VerdictIsRight` is about directories.
* `NewSize`: a truncation never goes below 512 bytes, so a local file of 64 to 511
  bytes, which the profiles do plan, grows (types.go:111 says "shrinks").
* `CreateDenied`: a loop with `--seed`, unless it runs as root, fails by itself when
  a renamed path that it overwrites is read-only.
* `CreateOpen`: Init truncates a file of the user's that has a planned name, and
  Destroy later deletes it (README.md:173 says it "does not touch anything it did
  not create"). `UserFilesUntouched` is about names no plan chooses.
* `Cleanup`: Destroy removes every empty directory below the root, the user's too.
* `FormatVolume`: on Windows `--force` unmounts nothing before it formats
  (block_device_format.go:23-25 says it does).
* `FindSource`: a mount point that Destroy left as a plain directory is refused as
  mounted, because `findmnt --target` names the filesystem around it; with
  `--force` its umount fails after the device's other mount points were unmounted.

## Fairness

Safety runs assume none. `parallel_run` assumes weak fairness of the dispatcher
and of each goroutine: the Go scheduler runs every runnable goroutine, and the
work of one item ends. `rotate_loop` assumes weak fairness of the operation
that runs (`Work`), of the end of a command (`OthersEnd`, `RoundDone`,
`RoundFails`), and of `Stop`: a process that runs goes on, and a select that finds
its context done takes it sooner or later. No interval need end. `verify` assumes weak
fairness of the main goroutine, which takes part in a hand-over on the channel,
and of each worker. Nothing is assumed about starting commands, and failures and crashes are never fair: they need not
happen, and their number is bounded.

## What is proved

For every value of the constants that satisfies the named assumptions:

* `ParallelRunProofs`: `TypeCorrect`, `SuccessIsComplete`,
  `CancellationIsExplained`, `ReturnEndsWork`, `WorkersAreBounded`, and
  `Implementation` (`Spec => ImplementsBatch`). The invariant divides the items
  into those below and above the loop index (`Slots`), says that a slot is given
  back only after its error is kept (`Errs`), and that a cancelled group has a
  cause (`Reasons`); from these a nil result of `Wait` means no item failed or was
  skipped.
* `LifecycleProofs` has the argument that both targets share, once. `InStep` speaks
  about idle states only and says nothing during an operation. The invariant
  `LifeInv` adds what each phase leaves true of each path: a path whose worker has
  not begun is untouched and still agrees with the manifest, one that is done has
  left what its record describes, and the records are the manifest's except where
  workers are done. Each lemma takes one kind of step; the lemmas named
  `Promise...` show that the same kind of step is one of `Dataset`'s, or none.
* `FilesetProofs`: `TypeCorrect`, `ManifestInStep`, `FilesGoFirst`,
  `DestroyIsRepeatable`, `DatasetImplemented` (`Spec => ImplementsDataset`),
  `InventoryHolds` and `UserFilesSurvive`. To `LifeInv` a local root adds what holds in the middle of a
  file: a worker that writes has as many cells left as its planned size lacks.
  `UserFilesSurvive` has a hypothesis of its own, that no name a plan can choose,
  nor its renamed form, is a path of the user's; without it Init truncates that
  file (see above). `InventoryHolds` is what the promise of `Dataset` is worth: the
  inventory is right about every path that is neither in doubt nor being changed.
* `S3FilesetProofs`: `TypeCorrect`, `ManifestInStep`, `SavedIsStored`,
  `FilesGoFirst`, `DatasetImplemented`, `InventoryHolds`. A request is one step, so
  `LifeInv` needs next to nothing more; `SavedIsStored` needs that a record changes
  only with the object it describes, which is where the announced size enters.
* `RotateLoopProofs`: `LoopInStep`, `LoopDataset`, `LoopOutcome` and
  `InterruptIsHarmless`. Every step of the loop is one of `Fileset` or the look at a
  cancelled context, so the invariant of `FilesetProofs` carries over. `LoopInv` adds
  how the counters stand to each other (`Counting`), that a failed worker of the loop
  has an excuse (`Blaming`: an interrupt, a fault, or a path in doubt), and that a loop
  interrupted between two rounds has nothing begun (`Resting`). `Creating`, that every
  rotation has a file to create and has touched it before it saves, is why such a loop
  never saves.
* `VerifyProofs`: `TypeCorrect`, `FailureExplained`, `FailureEndsWork`,
  `CountsAddUp`, `VerdictHolds`. The invariant says that the pool is empty until the comparison,
  that only tasks are sent, worked on or have results, that until somebody fails
  every task is in one of these places (`NoTaskLost`), and that what was seen of a
  tree is still there unless somebody wrote to it (`Seen`). `CountsAddUp` follows
  because at the end the three counted sets partition the listed paths.
  `VerdictHolds` needs in addition what a walk in progress knows (`WalkInv`): whatever
  is in a directory of the inventory has been visited, is ahead or is excluded
  (`Downward`); nothing is in the inventory whose directory is not (`Upward`); and
  what it says of a path that nobody has written is so (`Known`). `Hashed` is the same
  for hashes. At the end an induction from each directory to what is in it
  (`Downwards`) makes the inventories right for every path that neither the walk
  skips nor others write, itself or above; what is reported of it is then a matter
  of cases (`ReportIsRight`).
* `PlanProofs`: `TypeCorrect`, `BudgetIsDivided`, `MutationsAreLater`,
  `ChurnIsSteady`. While sizes are drawn, what is left is enough for the files still
  without one and nothing of the budget is lost; an excess is all in the last file,
  which has it above the minimum, so one turn of `reconcileSizes` takes it back
  (`Dividing`). `Recording` carries the least size from plan to plan, and `Allotting`
  ties a balanced plan's budget to the sizes of what it deletes. The sums over
  sequences and over the manifest are folds of the community modules; what is needed
  of them (`SumAppend`, `SumExcept`, `SumBound`) is proved first, from their
  definitions.
* `BlockDeviceProofs`. For any number of processes, with others mounting meanwhile:
  `TypeCorrect` and `RecordsAreTrue`, where a record is followed through every copy,
  the temporary file and the document (`Sound`); and on Linux `UnforcedIsHarmless` and
  `ForcedIsClear`, where `MountInv` follows every mount in Format's way from the
  lookups to mkfs: it was found and is yet to be unmounted, or it was missed and is in
  `unseen`. The others are for commands that follow one another, however they end
  (`Alone`; what two processes do to the temporary file they share is told above).
  `SaveIsAtomic` and `RecordsAreDistinct`: `Saving` says where the process stands
  between document, copy and temporary file. `TrackedAreSafe`: what Format has found
  in the records on Windows is still so when it acts on it (`TrackedInv`).
  `OthersAreKept`: the copy that is about to be saved has every record of the document
  but those of the command's own device and mount point (`KeepInv`). `StateIsRight`:
  until something fails a record and the mount table agree, or the command that will
  make them agree is on its way (`AgreeInv`); it also assumes that a mount point
  starts with at most one mount (`OneMountEach`), from which nothing is `unseen`
  (`SingleInv`). The theorems about Format and the document name the platform they
  are about, as their properties do.

The assumptions are the ASSUMEs of the modules (paths and bounds are what their
names say, sentinels are not data), which TLC evaluates in every run.

Only model-checked: liveness (`Ends`, `OperationEnds`, `LoopEnds`), which rests on
fairness and ENABLED, out of the prover's reach. Every other property of a passing
run is stated by a theorem. The inductive invariants were model-checked on the
instances of the runs before they were proved. The library's induction theorems
take an operator as a parameter, which no installed prover can instantiate; the
inductions here (over the length of a sequence, the size of a set, the way up from a
path) take a least counterexample of a set instead. The modules with proofs have no
RECURSIVE operators.

## What could follow, and what is not modelled

What is left of the plan: the loop over `Plan`, with the clocks as functions of seed
and manifest, so that replaying seeds replays a history (docs/design.md:50); and that
the plans of `Plan` are among those that `Lifecycle` assumes (`InitPlan`,
`RotatePlan`).

Not modelled: `Status` (it reads the manifest and the free space and changes
nothing), `internal/update` (downloads and replaces the binary by a library call),
the CLI's rendering, flags and configuration, the wiring in `internal/app`,
`internal/storage` (one statfs call) and `pkg/bytefmt` (formatting): they keep no
state that another component depends on. The spelling of names, file modes and the
word lists of the profiles are left out of the planner. Progress reports are left
out everywhere.
