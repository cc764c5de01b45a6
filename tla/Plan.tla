-------------------------------- MODULE Plan --------------------------------
(***************************************************************************)
(* PlanInit and PlanRotate of internal/fileset/types.go, with the clocks   *)
(* of determinism.go: what the files of a dataset are to be, from the      *)
(* first plan through rotations that succeed.  The random source is        *)
(* any choice; two plans made with one seed may make the same ones.        *)
(***************************************************************************)
EXTENDS Allocation

CONSTANTS
    Stems,        \* the paths that the profile may come up with
    LeastAppend,  \* what an append adds at least, 4096 in the code
    AverageSize,  \* averageTierSize
    Targets,      \* the budgets of the first plan
    Requests,     \* what is asked of rotations: percent to create, delete, modify
    Seeds,        \* the seeds of rotations
    Strategies,   \* the strategies asked for
    PlanningSpan, \* deterministicClockSpan
    FileSpan,     \* historicalModifiedAtWindow
    RotationSpan, \* rotationClockSpan
    MaxRotations  \* bound on the rotations

ASSUME PlanAssumption ==
    /\ LeastAppend \in Nat \ {0}
    /\ AverageSize \in Nat \ {0}
    /\ Targets \subseteq Nat \ {0}
    /\ Requests \subseteq Nat \X Nat \X Nat
    /\ Seeds \subseteq Nat \ {0}
    /\ Strategies \subseteq {"balanced", "random"}
    /\ {PlanningSpan, FileSpan, RotationSpan, MaxRotations} \subseteq Nat

VARIABLES
    files,     \* the manifest's records: size and mtime of each path
    pc,        \* where the plan is
    strategy, seed,
    wanted,    \* createCount
    deletes, mutations, creates, \* the plan
    rotations

planVars == <<files, pc, strategy, seed, wanted, deletes, mutations, creates, rotations>>
vars == <<allocation, planVars>>

Actions == {"rewrite", "append", "truncate"}
\* A path: the copy-th of its stem in a plan, renamed for a seed or (0) not.
Path == [stem : Stems, copy : Nat, renamed : Seeds \cup {0}]
NoFiles == [p \in {} |-> 0]

Between(first, last) == IF first < last THEN first..last ELSE {last}
\* randomTimeBetween for a new file; deterministicPlanningClock is any time.
FileTimes(now) == Between(now - FileSpan, now)
PlanningTimes == 0..PlanningSpan

\* percentCount, rounded.
PercentOf(pct, n) == (2 * n * pct + 100) \div 200

\* estimateFileCount, rounded.
EstimateFileCount(bytes) == Larger(1, (2 * bytes + AverageSize) \div (2 * AverageSize))

\* The random strategy has between half and twice as many.
FileCounts(n, s) ==
    IF s = "balanced" THEN {n} ELSE {Larger(1, k) : k \in ((n + 1) \div 2)..(2 * n)}

Init ==
    /\ AllocationInit
    /\ files = NoFiles
    /\ pc = "none"
    /\ strategy \in Strategies
    /\ seed = 0
    /\ wanted = 0
    /\ deletes = {}
    /\ mutations = NoFiles
    /\ creates = <<>>
    /\ rotations = 0

PlanInit(bytes) ==
    /\ pc = "none"
    /\ \E n \in FileCounts(EstimateFileCount(bytes), strategy) : Allocate(bytes, n)
    /\ pc' = "allocate"
    /\ UNCHANGED <<files, strategy, seed, wanted, deletes, mutations, creates, rotations>>

-----------------------------------------------------------------------------
(* PlanRotate *)

\* Faulty variant: a truncated file has no smallest size.
NewSizeUnbounded(action, size) ==
    CASE action = "rewrite" -> size
      [] action = "append" -> size + Larger(LeastAppend, size \div 4)
      [] action = "truncate" -> (3 * size) \div 5

NewSize(action, size) ==
    CASE action = "rewrite" -> size
      [] action = "append" -> size + Larger(LeastAppend, size \div 4)
      [] action = "truncate" -> Larger(SmallestFile, (3 * size) \div 5)

\* deterministicRotationClock.
RotationTimes ==
    LET latest == IF files = NoFiles THEN PlanningTimes
                  ELSE {Max({files[p].mtime : p \in DOMAIN files})}
    IN  {l + 1 + offset : l \in latest, offset \in 0..RotationSpan}

\* Faulty variant: the range of times begins at the file's own.
MutationTimesFromPrevious(previous, now) ==
    IF previous < now THEN Between(previous, now) ELSE {now}

\* randomMutationModifiedAt.
MutationTimes(previous, now) ==
    IF previous < now THEN Between(previous + 1, now) ELSE {now}

Mutated(p, now) ==
    {[size |-> NewSize(a, files[p].size), mtime |-> t] :
        a \in Actions, t \in MutationTimes(files[p].mtime, now)}

\* What is deleted is the budget of what is created, or else a little.
Budget(deleted, s) ==
    LET freed == SumOf([p \in deleted |-> files[p].size])
        bytes == IF freed # 0 THEN freed
                 ELSE Larger(SumOf([p \in DOMAIN files |-> files[p].size]) \div 20, LeastAppend)
    IN  IF s = "random" THEN (6 * bytes) \div 5 ELSE bytes

CreateCount(createPct, deletePct) ==
    LET n == Cardinality(DOMAIN files)
        creating == PercentOf(createPct, n)
        deleting == PercentOf(deletePct, n)
    IN  IF creating > 0 THEN creating
        ELSE IF deleting > 0 THEN deleting
        ELSE Larger(1, n \div 20)

PlanRotate(createPct, deletePct, modifyPct) ==
    /\ pc = "idle"
    /\ rotations < MaxRotations
    /\ seed' \in Seeds
    /\ strategy' \in Strategies
    /\ wanted' = CreateCount(createPct, deletePct)
    /\ LET n == Cardinality(DOMAIN files)
           deleting == Smaller(PercentOf(deletePct, n), n)
           modifying == Smaller(PercentOf(modifyPct, n), n - deleting)
       IN  /\ deletes' \in kSubset(deleting, DOMAIN files)
           /\ \E M \in kSubset(modifying, DOMAIN files \ deletes'), now \in RotationTimes :
                 mutations' \in {f \in [M -> UNION {Mutated(p, now) : p \in M}] :
                                    \A p \in M : f[p] \in Mutated(p, now)}
    /\ \E n \in FileCounts(wanted', strategy') : Allocate(Budget(deletes', strategy'), n)
    /\ pc' = "allocate"
    /\ UNCHANGED <<files, creates, rotations>>

-----------------------------------------------------------------------------
(* The names, and the end of a plan *)

\* What the profile's directories, categories and words may come to for n files.
Names(n) == [1..n -> Stems]

\* dedupeFiles: the second of a path is numbered 2.  No profile comes up with a
\* path and the numbered form of it.
Dedupe(names) ==
    [i \in DOMAIN names |->
        [stem |-> names[i], copy |-> Cardinality({j \in 1..i : names[j] = names[i]}), renamed |-> 0]]

\* A path that is tracked already is renamed; the renamed path is not looked up.
Rename(path) == IF path \in DOMAIN files THEN [path EXCEPT !.renamed = seed] ELSE path

NameFiles ==
    /\ pc = "allocate"
    /\ step = "done"
    /\ \E names \in Names(count), now \in PlanningTimes :
          \E mtimes \in [1..count -> FileTimes(now)] :
             creates' = [i \in 1..count |->
                [path |-> Rename(Dedupe(names)[i]), size |-> sizes[i], mtime |-> mtimes[i]]]
    /\ AllocationEnds
    /\ pc' = "planned"
    /\ UNCHANGED <<files, strategy, seed, wanted, deletes, mutations, rotations>>

\* What Init or Rotate saves when nothing fails.
Apply ==
    /\ pc = "planned"
    /\ LET kept == DOMAIN files \ deletes
           created == {creates[i].path : i \in DOMAIN creates}
       IN  files' = [p \in kept \cup created |->
              IF p \in created
              THEN LET i == CHOOSE j \in DOMAIN creates : creates[j].path = p
                   IN  [size |-> creates[i].size, mtime |-> creates[i].mtime]
              ELSE IF p \in DOMAIN mutations THEN mutations[p] ELSE files[p]]
    /\ pc' = "idle"
    /\ rotations' = IF seed = 0 THEN 0 ELSE rotations + 1
    /\ seed' = 0
    /\ wanted' = 0
    /\ deletes' = {}
    /\ mutations' = NoFiles
    /\ creates' = <<>>
    /\ UNCHANGED <<allocation, strategy>>

Next ==
    \/ \E bytes \in Targets : PlanInit(bytes)
    \/ \E r \in Requests : PlanRotate(r[1], r[2], r[3])
    \/ pc = "allocate" /\ AllocationStep /\ UNCHANGED planVars
    \/ NameFiles
    \/ Apply

Spec == Init /\ [][Next]_vars

-----------------------------------------------------------------------------
(* Properties *)

Records == [size : Nat, mtime : Int]
Partial(S, T) == \A x \in DOMAIN S : S[x] \in T

TypeOK ==
    /\ AllocationTypeOK
    /\ DOMAIN files \subseteq Path /\ Partial(files, Records)
    /\ pc \in {"none", "allocate", "planned", "idle"}
    /\ strategy \in Strategies
    /\ seed \in Seeds \cup {0}
    /\ wanted \in Nat
    /\ deletes \subseteq DOMAIN files
    /\ DOMAIN mutations \subseteq DOMAIN files \ deletes /\ Partial(mutations, Records)
    /\ creates \in Seq([path : Path, size : Nat, mtime : Int])
    /\ rotations \in 0..MaxRotations

\* Every mutation is later than what it changes, "still advances the file
\* clock": a tool that compares size and mtime sees a rewrite, however often the
\* file was changed, or made anew under an older time, before.
MutationsShow == \A p \in DOMAIN mutations : mutations[p].mtime > files[p].mtime

\* "Steady file counts and churn": a balanced rotation that is to create no more
\* files than it deletes creates as many as asked for, and as many bytes as it
\* frees, whatever earlier rotations have made of the sizes; a single file may
\* be rounded up to 512 bytes.
BalancedIsSteady ==
    pc = "planned" /\ strategy = "balanced" /\ deletes # {} /\ wanted <= Cardinality(deletes) =>
        LET freed == SumOf([p \in deletes |-> files[p].size]) IN
            /\ Len(creates) = wanted
            /\ SumOf([i \in 1..Len(creates) |-> creates[i].size])
                  = IF wanted = 1 THEN Larger(SmallestFile, freed) ELSE freed

\* "It creates new files": what a rotation creates is not tracked yet.
CreatesNewFiles ==
    pc = "planned" => \A i \in 1..Len(creates) : creates[i].path \notin DOMAIN files
=============================================================================
