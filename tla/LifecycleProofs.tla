--------------------------- MODULE LifecycleProofs ---------------------------
(***************************************************************************)
(* What can be proved of Lifecycle whatever the target is: the part of the  *)
(* inductive invariant that speaks of the manifest, the plan and what is     *)
(* stored, and what each kind of step does to it.  FilesetProofs and         *)
(* S3FilesetProofs show that the steps of their targets are of these kinds.  *)
(*                                                                          *)
(* The agreement of manifest and target between operations (InStep) is not   *)
(* inductive: what carries it through an operation is what each worker has   *)
(* done to its own path (Results), that nobody else touches that path        *)
(* (Untouched), and that records hold what the workers did.                  *)
(***************************************************************************)
EXTENDS Lifecycle, SequenceTheorems, FiniteSetTheorems, TLAPS

Mutated == Tracked(plan.mutations)
Created == Tracked(plan.creates)

\* The paths of the current phase's work items.
Items ==
    {p \in Paths : \/ phase = "delete" /\ p \in plan.deletes
                   \/ phase = "mutate" /\ p \in Mutated
                   \/ phase = "create" /\ p \in Created}

\* The phases of each operation, and that work belongs to the phase's items.
Phases ==
    /\ op = "idle" => phase = "idle" /\ touched = {} /\ records = NoFiles /\ ~gaveUp
    /\ op = "init" => phase \in {"create", "save", "publish"}
    /\ op = "rotate" => phase \in {"delete", "mutate", "create", "save", "publish"}
    /\ op = "destroy" => phase \in {"delete", "cleanup", "forget"}
    /\ \A p \in Paths : work[p] # "none" <=> p \in Items
    /\ \A p \in Paths : work[p] = "writing" => phase \in {"mutate", "create"}

\* What a plan may name.
PlanOK ==
    /\ op \in {"rotate", "destroy"} => manifest # None
    /\ op \in {"init", "rotate"} => plan.seed \in Seeds
    /\ op = "init" => plan.deletes = {} /\ Mutated = {}
    /\ op = "rotate" => /\ plan.deletes \subseteq Tracked(manifest.files)
                        /\ Mutated \subseteq Tracked(manifest.files) \ plan.deletes
    /\ op = "destroy" => /\ plan.deletes = Tracked(manifest.files)
                         /\ Mutated = {} /\ Created = {}

\* The records of paths that no worker has finished are the manifest's; an
\* Init starts from none, and the deleted ones go with the delete phase.
Base(p) ==
    IF op = "init" \/ (phase # "delete" /\ p \in plan.deletes) THEN None
    ELSE Listed(p)

Unfinished(p) ==
    /\ p \notin Mutated \/ phase = "delete" \/ (phase = "mutate" /\ work[p] # "done")
    /\ p \notin Created \/ phase \in {"delete", "mutate"} \/ (phase = "create" /\ work[p] # "done")

RecordsOK ==
    op \in {"init", "rotate"} =>
        \A p \in Paths : Unfinished(p) => records[p] = Base(p)

\* A path is untouched until a worker of this operation has begun on it.
Untouched(p) ==
    /\ p \notin plan.deletes \/ (phase = "delete" /\ work[p] = "todo")
    /\ p \notin Mutated \/ phase = "delete" \/ (phase = "mutate" /\ work[p] = "todo")
    /\ p \notin Created \/ phase \in {"delete", "mutate"} \/ (phase = "create" /\ work[p] = "todo")

TouchedOK == \A p \in Paths : Untouched(p) => p \notin touched

Agreement == \A p \in Paths \ (doubtful \cup touched) : Agrees(stored[p], Listed(p))

NotYetCreated(p) == p \notin Created \/ phase \in {"delete", "mutate"}

\* What the finished workers of each phase have achieved.
Results ==
    /\ \A p \in plan.deletes :
          NotYetCreated(p) /\ (phase = "delete" => work[p] = "done") => stored[p] = None
    /\ \A p \in Mutated \ doubtful :
          NotYetCreated(p) /\ phase # "delete" /\ (phase = "mutate" => work[p] = "done") =>
              records[p] # None /\ Matches(p, records[p])
    /\ \A p \in Created :
          phase \notin {"delete", "mutate"} /\ (phase = "create" => work[p] = "done") =>
              records[p] # None /\ Matches(p, records[p])

\* What the invariant says beyond types.
Sound ==
    /\ Phases /\ PlanOK
    /\ RecordsOK /\ TouchedOK
    /\ Agreement /\ Results

LifeInv == LifeTypeOK /\ Sound

-----------------------------------------------------------------------------
(* Facts about the state *)

\* A file that is being mutated has an action and the record of the manifest.
LEMMA MutationFacts ==
  ASSUME LifeInv, NEW p \in Paths, phase = "mutate", work[p] \in {"todo", "writing"}
  PROVE  /\ op = "rotate" /\ plan.seed \in Seeds
         /\ p \in Mutated /\ p \notin plan.deletes
         /\ plan.mutations[p] \in Actions
         /\ records[p] \in Records
         /\ records[p] = Listed(p)
         /\ manifest # None
<1> USE DEF LifeInv, Sound
<1>1. op = "rotate"
  BY DEF Phases, LifeTypeOK
<1>2. p \in Mutated
  BY DEF Phases, Items
<1>3. /\ manifest # None /\ plan.seed \in Seeds
      /\ p \in Tracked(manifest.files) /\ p \notin plan.deletes
  BY <1>1, <1>2 DEF PlanOK
<1>4. plan.mutations[p] \in Actions
  BY <1>2 DEF Mutated, Tracked, LifeTypeOK, Plans
<1>5. records[p] = Listed(p)
  BY <1>1, <1>3 DEF RecordsOK, Unfinished, Base
<1>6. Listed(p) \in Records
  BY <1>3 DEF Listed, Tracked, LifeTypeOK, Documents, Inventory
<1> QED
  BY <1>1, <1>2, <1>3, <1>4, <1>5, <1>6

\* A file that is being created has a planned size.
LEMMA CreationFacts ==
  ASSUME LifeInv, NEW p \in Paths, phase = "create", work[p] # "none"
  PROVE  /\ op \in {"init", "rotate"} /\ plan.seed \in Seeds
         /\ p \in Created
         /\ plan.creates[p] \in Nat
<1> USE DEF LifeInv, Sound
<1>1. op \in {"init", "rotate"}
  BY DEF Phases, LifeTypeOK
<1>2. p \in Created
  BY DEF Phases, Items
<1>3. plan.creates[p] \in Nat
  BY <1>2 DEF Created, Tracked, LifeTypeOK, Plans
<1> QED
  BY <1>1, <1>2, <1>3 DEF PlanOK

\* Sizes of mutated files: an append adds, a truncation is written at once.
LEMMA SizeFacts ==
  ASSUME NEW action \in Actions, NEW size \in Nat
  PROVE  /\ NewSize(action, size) \in Nat
         /\ action = "append" => NewSize(action, size) = size + 1
         /\ action = "rewrite" => NewSize(action, size) = size
  BY BoundAssumption DEF Actions, NewSize

\* The document that a save leaves.
LEMMA DocumentType ==
  ASSUME LifeInv, op \in {"init", "rotate"}
  PROVE  Document \in Documents
<1>1. op = "init" \/ (op = "rotate" /\ manifest \in Documents)
  BY DEF LifeInv, Sound, Phases, PlanOK, LifeTypeOK
<1>2. records \in Inventory
  BY DEF LifeInv, LifeTypeOK
<1>3. \A S : S \subseteq Paths => Cardinality(S) \in Nat
  BY PathsFinite, FS_Subset, FS_CardinalityType
<1>4. [created |-> Cardinality(Tracked(plan.creates)), deleted |-> Cardinality(plan.deletes),
       modified |-> Cardinality(Tracked(plan.mutations))] \in Entries
  BY <1>3 DEF Entries, Tracked, LifeInv, LifeTypeOK, Plans
<1>5. Document.history \in Seq(Entries)
  BY <1>1, <1>4 DEF Document, Documents
<1> QED
  BY <1>2, <1>5 DEF Document, Documents

\* The end of a process resets what it knew.
LEMMA EndTypes ==
  ASSUME EndCommand
  PROVE  /\ op' = "idle" /\ phase' = "idle" /\ gaveUp' = FALSE /\ touched' = {}
         /\ plan' \in Plans /\ records' \in Inventory
         /\ work' \in [Paths -> {"none", "todo", "writing", "done", "failed"}]
<1>1. NoPlan \in Plans
  BY DEF NoPlan, Plans, NoFiles
<1>2. NoFiles \in Inventory
  BY DEF NoFiles, Inventory
<1>3. NoWork \in [Paths -> {"none", "todo", "writing", "done", "failed"}]
  BY DEF NoWork
<1> QED
  BY <1>1, <1>2, <1>3 DEF EndCommand

\* What a phase begins with.
LEMMA EnterTypes ==
  ASSUME NEW ph, NEW items, EnterPhase(ph, items)
  PROVE  /\ phase' = ph
         /\ work' \in [Paths -> {"none", "todo", "writing", "done", "failed"}]
  BY DEF EnterPhase

\* PlanRotate's plan is a plan: it deletes and mutates different listed files.
LEMMA RotatePlan ==
  ASSUME LifeInv, BeginRotate
  PROVE  /\ plan' \in Plans
         /\ plan'.seed \in Seeds
         /\ plan'.deletes \subseteq Tracked(manifest.files)
         /\ Tracked(plan'.mutations) \subseteq Tracked(manifest.files) \ plan'.deletes
         /\ EnterPhase("delete", plan'.deletes)
<1>0. ops \in 0..MaxOps
  BY DEF LifeInv, LifeTypeOK
<1>1. PICK deletes \in SUBSET Tracked(manifest.files), chosen \in (SUBSET Names) \ {{}},
          seed \in SeedsFor[ops] :
        \E mutations \in [Tracked(manifest.files) \ deletes -> Actions \cup {None}],
           size \in [chosen -> Sizes] :
        /\ \A p \in DOMAIN mutations :
              mutations[p] # None => NewSize(mutations[p], manifest.files[p].size) <= MaxSize
        /\ plan' = [seed |-> seed,
                    deletes |-> deletes,
                    mutations |-> [p \in Paths |->
                       IF p \in DOMAIN mutations THEN mutations[p] ELSE None],
                    creates |-> [p \in Paths |->
                       IF \E n \in chosen : RotatedName(n, manifest.files) = p
                       THEN size[NameOf(p, chosen, manifest.files)] ELSE None]]
        /\ EnterPhase("delete", deletes)
  BY DEF BeginRotate
<1>2. PICK mutations \in [Tracked(manifest.files) \ deletes -> Actions \cup {None}],
           size \in [chosen -> Sizes] :
        /\ plan' = [seed |-> seed,
                    deletes |-> deletes,
                    mutations |-> [p \in Paths |->
                       IF p \in DOMAIN mutations THEN mutations[p] ELSE None],
                    creates |-> [p \in Paths |->
                       IF \E n \in chosen : RotatedName(n, manifest.files) = p
                       THEN size[NameOf(p, chosen, manifest.files)] ELSE None]]
        /\ EnterPhase("delete", deletes)
  BY <1>1
<1>3. plan'.seed \in Seeds
  BY <1>0, <1>2, BoundAssumption
<1>4. plan'.deletes \subseteq Tracked(manifest.files) /\ plan'.deletes \subseteq Paths
  BY <1>2 DEF Tracked
<1>5. plan'.mutations \in [Paths -> Actions \cup {None}]
  BY <1>2
<1>6. Tracked(plan'.mutations) \subseteq Tracked(manifest.files) \ plan'.deletes
  BY <1>2 DEF Tracked
<1>7. plan'.creates \in [Paths -> Nat \cup {None}]
  <2>1. \A n \in chosen : size[n] \in Nat
    <3>1. Sizes \subseteq Nat
      BY BoundAssumption
    <3>2. \A n \in chosen : size[n] \in Sizes
      OBVIOUS
    <3> QED
      BY <3>1, <3>2
  <2>2. ASSUME NEW p \in Paths
        PROVE  (IF \E n \in chosen : RotatedName(n, manifest.files) = p
                THEN size[NameOf(p, chosen, manifest.files)] ELSE None) \in Nat \cup {None}
    <3>1. CASE \E n \in chosen : RotatedName(n, manifest.files) = p
      <4>1. NameOf(p, chosen, manifest.files) \in chosen
        BY <3>1 DEF NameOf
      <4> QED
        BY <2>1, <3>1, <4>1
    <3> QED
      BY <3>1
  <2>3. plan'.creates = [p \in Paths |->
                           IF \E n \in chosen : RotatedName(n, manifest.files) = p
                           THEN size[NameOf(p, chosen, manifest.files)] ELSE None]
    BY <1>2
  <2> QED
    BY <2>2, <2>3
<1>8. plan' \in Plans
  BY <1>2, <1>3, <1>4, <1>5, <1>7 DEF Plans
<1> QED
  BY <1>2, <1>3, <1>4, <1>6, <1>8

\* The initial states satisfy the invariant.
LEMMA InitLife == LifeInit => LifeInv
<1> SUFFICES ASSUME LifeInit PROVE LifeInv
  OBVIOUS
<1> USE NameAssumption, BoundAssumption, NoneAssumption DEF LifeInit
<1>1. LifeTypeOK
  <2>1. [body |-> <<User>>, mode |-> "rw", mtime |-> Now] \in Files
    BY DEF Files, Cells, Modes
  <2>2. stored \in [Paths -> Files \cup {None}]
    BY <2>1
  <2>3. plan \in Plans
    BY DEF Plans, NoPlan, NoFiles
  <2>4. records \in Inventory
    BY DEF Inventory, NoFiles
  <2>5. work \in [Paths -> {"none", "todo", "writing", "done", "failed"}]
    BY DEF NoWork
  <2>6. ops \in 0..MaxOps /\ faults \in 0..MaxFaults
    OBVIOUS
  <2> QED
    BY <2>2, <2>3, <2>4, <2>5, <2>6 DEF LifeTypeOK
<1>2. Created = {} /\ Mutated = {}
  BY DEF Created, Mutated, Tracked, NoPlan, NoFiles
<1>3. Phases
  BY DEF Phases, Items, NoWork
<1>4. PlanOK
  BY DEF PlanOK
<1>5. RecordsOK /\ TouchedOK
  BY DEF RecordsOK, TouchedOK
<1>6. Agreement
  <2>1. \A p \in Paths : stored[p] = None \/ OfUser(stored[p])
    BY DEF OfUser
  <2> QED
    BY <2>1 DEF Agreement, Agrees, Listed
<1>7. Results
  BY <1>2 DEF Results, NoPlan
<1> QED
  BY <1>1, <1>3, <1>4, <1>5, <1>6, <1>7 DEF LifeInv, Sound

-----------------------------------------------------------------------------
(* Beginning and ending an operation *)

\* Steps that change nothing the invariant speaks of.
LEMMA LifeUnchanged ==
  ASSUME LifeInv,
         UNCHANGED <<stored, manifest, op, phase, plan, records, work, ops, touched, doubtful>>,
         gaveUp' \in BOOLEAN, gaveUp' => op # "idle", faults' \in 0..MaxFaults
  PROVE  LifeInv'
<1> USE DEF LifeInv, Sound
<1>1. Phases' /\ PlanOK'
  BY DEF Phases, PlanOK, Items, Mutated, Created
<1>2. RecordsOK' /\ TouchedOK'
  BY DEF RecordsOK, TouchedOK, Unfinished, Untouched, Base, Listed, Mutated, Created
<1>3. Agreement'
  BY DEF Agreement, Listed
<1>4. Results'
  BY DEF Results, NotYetCreated, Matches, Mutated, Created
<1>5. LifeTypeOK'
  BY DEF LifeTypeOK
<1> QED
  BY <1>1, <1>2, <1>3, <1>4, <1>5

\* When the process has ended, only the agreement remains to be shown.
LEMMA LifeEnd ==
  ASSUME LifeInv, EndCommand, UNCHANGED <<stored, ops>>, faults' \in 0..MaxFaults,
         manifest' \in Documents \cup {None}, doubtful' \subseteq Paths, Agreement'
  PROVE  LifeInv'
<1>1. /\ op' = "idle" /\ phase' = "idle" /\ touched' = {} /\ records' = NoFiles
      /\ work' = NoWork /\ plan' = NoPlan /\ gaveUp' = FALSE
  BY DEF EndCommand
<1>2. plan'.deletes = {} /\ Mutated' = {} /\ Created' = {}
  BY <1>1 DEF NoPlan, NoFiles, Mutated, Created, Tracked
<1>3. Phases' /\ PlanOK'
  BY <1>1, <1>2 DEF Phases, PlanOK, Items, NoWork
<1>4. RecordsOK' /\ TouchedOK'
  BY <1>1 DEF RecordsOK, TouchedOK
<1>5. Results'
  BY <1>1, <1>2 DEF Results, NoWork
<1>6. LifeTypeOK'
  BY <1>1, EndTypes DEF LifeInv, LifeTypeOK
<1> QED
  BY <1>3, <1>4, <1>5, <1>6 DEF LifeInv, Sound

\* A process that dies, or exits with an error, leaves what it touched in doubt.
LEMMA LifeAbandon ==
  ASSUME LifeInv, Abandon, UNCHANGED <<stored, manifest, ops>>, faults' \in 0..MaxFaults
  PROVE  LifeInv'
<1>1. EndCommand /\ doubtful' = doubtful \cup touched /\ touched' = {}
  BY DEF Abandon, EndCommand
<1>2. Agreement'
  BY <1>1 DEF LifeInv, Sound, Agreement, Listed
<1>3. manifest' \in Documents \cup {None} /\ doubtful' \subseteq Paths
  BY <1>1 DEF LifeInv, LifeTypeOK
<1> QED
  BY <1>1, <1>2, <1>3, LifeEnd

\* What the new manifest lists is there.
LEMMA ReplaceFacts ==
  ASSUME LifeInv, Replace, phase \in {"save", "publish"}, UNCHANGED stored
  PROVE  /\ op \in {"init", "rotate"}
         /\ manifest' = Document /\ Document \in Documents /\ manifest' # None
         /\ \A p : Listed(p)' = records[p]
         /\ doubtful' \subseteq Paths
         /\ \A p \in Paths \ doubtful' : Agrees(stored[p], records[p])
         /\ \A p \in doubtful' \ doubtful : Listed(p) # None /\ records[p] = None
<1> USE DEF LifeInv, Sound
<1>1. op \in {"init", "rotate"}
  BY DEF Phases, LifeTypeOK
<1>2. manifest' = Document /\ Document \in Documents /\ manifest' # None
  BY <1>1, DocumentType, NoneAssumption DEF Replace
<1>3. \A p : Listed(p)' = records[p]
  BY <1>2 DEF Listed, Document
<1>4. ASSUME NEW p \in Paths, p \notin doubtful'
      PROVE  Agrees(stored[p], records[p])
  <2>1. /\ p \notin Created \cup plan.deletes => p \notin doubtful
        /\ op = "init" /\ manifest # None => p \notin Tracked(manifest.files) \ Created
    BY <1>4 DEF Replace, Created
  <2>2. CASE p \in Created
    BY <1>1, <2>2 DEF Results, Agrees, Matches
  <2>3. CASE p \notin Created /\ p \in plan.deletes
    <3>1. stored[p] = None
      BY <1>1, <2>3 DEF Results, NotYetCreated
    <3>2. p \notin Mutated
      BY <1>1, <2>3 DEF PlanOK
    <3>3. records[p] = None
      BY <1>1, <2>3, <3>2 DEF RecordsOK, Unfinished, Base
    <3> QED
      BY <3>1, <3>3 DEF Agrees
  <2>4. CASE p \notin Created /\ p \notin plan.deletes /\ p \in Mutated
    BY <1>1, <2>1, <2>4 DEF Results, NotYetCreated, Agrees, Matches
  <2>5. CASE p \notin Created /\ p \notin plan.deletes /\ p \notin Mutated
    <3>1. p \notin touched /\ p \notin doubtful
      BY <2>1, <2>5 DEF TouchedOK, Untouched
    <3>2. Agrees(stored[p], Listed(p))
      BY <3>1 DEF Agreement
    <3>3. records[p] = Base(p)
      BY <1>1, <2>5 DEF RecordsOK, Unfinished
    <3>4. Base(p) = Listed(p)
      BY <1>1, <2>1, <2>5 DEF Base, Listed, Tracked
    <3> QED
      BY <3>2, <3>3, <3>4
  <2> QED
    BY <2>2, <2>3, <2>4, <2>5
<1>5. ASSUME NEW p \in doubtful' \ doubtful
      PROVE  p \in Paths /\ Listed(p) # None /\ records[p] = None
  <2>1. /\ op = "init" /\ manifest # None
        /\ p \in Tracked(manifest.files) /\ p \notin Created
    BY <1>5 DEF Replace, Created
  <2>2. p \in Paths /\ Listed(p) # None
    BY <2>1 DEF Listed, Tracked
  <2>3. records[p] = None
    BY <2>1, <2>2 DEF PlanOK, RecordsOK, Unfinished, Base
  <2> QED
    BY <2>2, <2>3
<1>6. doubtful' \subseteq Paths
  BY <1>5 DEF LifeTypeOK
<1> QED
  BY <1>1, <1>2, <1>3, <1>4, <1>5, <1>6

\* A manifest that is replaced.
LEMMA LifeReplace ==
  ASSUME LifeInv, Replace, phase \in {"save", "publish"}, UNCHANGED <<stored, ops, faults>>
  PROVE  LifeInv'
<1>1. EndCommand /\ touched' = {}
  BY DEF Replace, EndCommand
<1>2. Agreement'
  BY <1>1, ReplaceFacts DEF Agreement
<1>3. manifest' \in Documents \cup {None} /\ doubtful' \subseteq Paths
  BY ReplaceFacts
<1>4. faults' \in 0..MaxFaults
  BY DEF LifeInv, LifeTypeOK
<1> QED
  BY <1>1, <1>2, <1>3, <1>4, LifeEnd

\* Destroy removes the manifest when the files it lists are gone.
LEMMA RemoveFacts ==
  ASSUME LifeInv, Remove, phase \in {"cleanup", "forget"}
  PROVE  /\ manifest # None /\ manifest' = None
         /\ doubtful' \subseteq doubtful
         /\ \A p \in Tracked(manifest.files) : stored[p] = None
         /\ \A p \in Paths \ doubtful' : Agrees(stored[p], None)
<1> USE DEF LifeInv, Sound
<1>1. op = "destroy"
  BY DEF Phases, LifeTypeOK
<1>2. /\ manifest # None /\ plan.deletes = Tracked(manifest.files)
      /\ Mutated = {} /\ Created = {}
  BY <1>1 DEF PlanOK
<1>3. \A p \in plan.deletes : stored[p] = None
  BY <1>1, <1>2 DEF Results, NotYetCreated
<1>4. ASSUME NEW p \in Paths, p \notin doubtful'
      PROVE  Agrees(stored[p], None)
  <2>1. CASE p \in plan.deletes
    BY <1>3, <2>1 DEF Agrees
  <2>2. CASE p \notin plan.deletes
    <3>1. p \notin touched /\ p \notin doubtful
      BY <1>2, <1>4, <2>2 DEF TouchedOK, Untouched, Remove
    <3>2. Listed(p) = None
      BY <1>2, <2>2 DEF Listed, Tracked
    <3> QED
      BY <3>1, <3>2 DEF Agreement
  <2> QED
    BY <2>1, <2>2
<1> QED
  BY <1>2, <1>3, <1>4 DEF Remove

\* A manifest that is removed.
LEMMA LifeRemove ==
  ASSUME LifeInv, Remove, phase \in {"cleanup", "forget"}, UNCHANGED <<stored, ops, faults>>
  PROVE  LifeInv'
<1>1. EndCommand /\ touched' = {}
  BY DEF Remove, EndCommand
<1>2. \A p : Listed(p)' = None
  BY RemoveFacts DEF Listed
<1>3. Agreement'
  BY <1>1, <1>2, RemoveFacts DEF Agreement
<1>4. /\ manifest' \in Documents \cup {None} /\ doubtful' \subseteq Paths
      /\ faults' \in 0..MaxFaults
  BY RemoveFacts DEF LifeInv, LifeTypeOK
<1> QED
  BY <1>1, <1>3, <1>4, LifeEnd

\* An Init that begins keeps the invariant.
LEMMA LifeBeginInit ==
  ASSUME LifeInv, BeginInit
  PROVE  LifeInv'
<1> USE NameAssumption, BoundAssumption, NoneAssumption DEF LifeInv, Sound
<1>1. PICK chosen \in (SUBSET Names) \ {{}}, seed \in SeedsFor[ops] :
        \E size \in [chosen -> Sizes] :
          /\ plan' = [NoPlan EXCEPT
                        !.seed = seed,
                        !.creates = [p \in Paths |-> IF p \in chosen THEN size[p] ELSE None]]
          /\ EnterPhase("create", chosen)
  BY DEF BeginInit
<1>2. PICK size \in [chosen -> Sizes] :
        plan' = [NoPlan EXCEPT
                  !.seed = seed,
                  !.creates = [p \in Paths |-> IF p \in chosen THEN size[p] ELSE None]]
  BY <1>1
<1>3. seed \in Seeds
  BY DEF LifeTypeOK
<1>4. /\ plan'.seed \in Seeds /\ plan'.deletes = {} /\ Mutated' = {}
  BY <1>2, <1>3 DEF NoPlan, NoFiles, Mutated, Tracked
<1>5. Created' = chosen
  <2>1. \A p \in chosen : size[p] \in Nat /\ size[p] # None
    BY <1>2
  <2>2. plan'.creates = [p \in Paths |-> IF p \in chosen THEN size[p] ELSE None]
    BY <1>2 DEF NoPlan
  <2> QED
    BY <2>1, <2>2 DEF Created, Tracked
<1>6. /\ op' = "init" /\ phase' = "create" /\ touched' = {} /\ op = "idle"
      /\ records' = NoFiles /\ UNCHANGED <<stored, manifest, doubtful>>
      /\ work' = [p \in Paths |-> IF p \in chosen THEN "todo" ELSE "none"]
  BY <1>1 DEF BeginInit, Launch, EnterPhase, Phases
<1>7. Phases' /\ PlanOK'
  BY <1>4, <1>5, <1>6 DEF Phases, PlanOK, Items
<1>8. RecordsOK' /\ TouchedOK'
  BY <1>6 DEF RecordsOK, TouchedOK, Base, NoFiles
<1>9. Agreement'
  BY <1>6 DEF Phases, Agreement, Listed
<1>10. Results'
  BY <1>4, <1>5, <1>6 DEF Results
<1>11. LifeTypeOK'
  <2>1. ops' \in 0..MaxOps
    BY DEF BeginInit, Launch, LifeTypeOK
  <2>2. [p \in Paths |-> IF p \in chosen THEN size[p] ELSE None] \in [Paths -> Nat \cup {None}]
    <3>1. \A n \in chosen : size[n] \in Nat
      BY <1>2
    <3> QED
      BY <3>1
  <2>3. plan' \in Plans
    BY <1>2, <1>3, <2>2 DEF Plans, NoPlan, NoFiles
  <2> QED
    BY <1>6, <2>1, <2>3 DEF BeginInit, LifeTypeOK
<1> QED
  BY <1>7, <1>8, <1>9, <1>10, <1>11

\* A Rotate that begins keeps them.
LEMMA LifeBeginRotate ==
  ASSUME LifeInv, BeginRotate
  PROVE  LifeInv'
<1> USE DEF LifeInv, Sound
<1>1. /\ plan' \in Plans /\ plan'.seed \in Seeds
      /\ plan'.deletes \subseteq Tracked(manifest.files)
      /\ Mutated' \subseteq Tracked(manifest.files) \ plan'.deletes
      /\ EnterPhase("delete", plan'.deletes)
  BY RotatePlan DEF Mutated
<1>2. /\ op' = "rotate" /\ phase' = "delete" /\ touched' = {} /\ op = "idle"
      /\ manifest # None /\ records' = manifest.files
      /\ UNCHANGED <<stored, manifest, doubtful>>
      /\ work' = [p \in Paths |-> IF p \in plan'.deletes THEN "todo" ELSE "none"]
  BY <1>1 DEF BeginRotate, Launch, EnterPhase, Phases
<1>3. Phases' /\ PlanOK'
  BY <1>1, <1>2 DEF Phases, PlanOK, Items
<1>4. RecordsOK' /\ TouchedOK'
  BY <1>2 DEF RecordsOK, TouchedOK, Base, Listed
<1>5. Agreement'
  BY <1>2 DEF Phases, Agreement, Listed
<1>6. Results'
  BY <1>1, <1>2 DEF Results, Tracked
<1>7. LifeTypeOK'
  <2>1. ops' \in 0..MaxOps /\ manifest.files \in Inventory
    BY <1>2, BoundAssumption DEF BeginRotate, Launch, LifeTypeOK, Documents
  <2> QED
    BY <1>1, <1>2, <2>1 DEF BeginRotate, LifeTypeOK
<1> QED
  BY <1>3, <1>4, <1>5, <1>6, <1>7

\* A Destroy that begins keeps them.
LEMMA LifeBeginDestroy ==
  ASSUME LifeInv, BeginDestroy
  PROVE  LifeInv'
<1> USE DEF LifeInv, Sound
<1>1. /\ plan'.deletes = Tracked(manifest.files) /\ plan'.deletes \subseteq Paths
      /\ Mutated' = {} /\ Created' = {}
  BY DEF BeginDestroy, NoPlan, NoFiles, Mutated, Created, Tracked
<1>2. /\ op' = "destroy" /\ phase' = "delete" /\ touched' = {} /\ op = "idle"
      /\ manifest # None /\ UNCHANGED <<stored, manifest, doubtful>>
      /\ work' = [p \in Paths |-> IF p \in plan'.deletes THEN "todo" ELSE "none"]
  BY <1>1 DEF BeginDestroy, Launch, EnterPhase, Phases
<1>3. Phases' /\ PlanOK'
  BY <1>1, <1>2 DEF Phases, PlanOK, Items
<1>4. RecordsOK' /\ TouchedOK'
  BY <1>2 DEF RecordsOK, TouchedOK
<1>5. Agreement'
  BY <1>2 DEF Phases, Agreement, Listed
<1>6. Results'
  BY <1>1, <1>2 DEF Results
<1>7. LifeTypeOK'
  <2>1. ops' \in 0..MaxOps
    BY BoundAssumption DEF BeginDestroy, Launch, LifeTypeOK
  <2>2. plan' \in Plans
    BY DEF BeginDestroy, Plans, NoPlan, NoFiles, Tracked
  <2> QED
    BY <1>2, <2>1, <2>2 DEF BeginDestroy, LifeTypeOK
<1> QED
  BY <1>3, <1>4, <1>5, <1>6, <1>7

-----------------------------------------------------------------------------
(* From phase to phase *)

\* A phase that is over has finished every item.
LEMMA DoneFacts ==
  ASSUME LifeInv, NEW ph, PhaseDone(ph)
  PROVE  /\ phase = ph
         /\ \A p \in Items : p \in Paths /\ work[p] = "done"
         /\ \A p \in Paths : work[p] # "writing"
  BY DEF LifeInv, Sound, Phases, PhaseDone, Items

\* So does the end of the deletions.
LEMMA LifeEndDelete ==
  ASSUME LifeInv, EndDelete
  PROVE  LifeInv'
<1> USE DEF LifeInv, Sound
<1>1. /\ phase = "delete" /\ op \in {"rotate", "destroy"}
      /\ UNCHANGED <<stored, manifest, op, plan, touched, doubtful>>
  BY DEF EndDelete, PhaseDone, cmdVars
<1>2. \A p \in plan.deletes : p \in Paths /\ work[p] = "done" /\ stored[p] = None
  <2>1. plan.deletes \subseteq Paths
    BY DEF LifeTypeOK, Plans
  <2>2. \A p \in plan.deletes : p \in Items
    BY <1>1, <2>1 DEF Items
  <2>3. \A p \in plan.deletes : work[p] = "done"
    BY <2>2, DoneFacts DEF EndDelete
  <2> QED
    BY <1>1, <2>1, <2>3 DEF Results, NotYetCreated
<1>3. UNCHANGED <<Mutated, Created>>
  BY <1>1 DEF Mutated, Created
<1>4. Agreement'
  BY <1>1 DEF Agreement, Listed
<1>5. CASE op = "rotate"
  <2>1. /\ records' = [p \in Paths |-> IF p \in plan.deletes THEN None ELSE records[p]]
        /\ phase' = "mutate"
        /\ work' = [p \in Paths |-> IF p \in Mutated THEN "todo" ELSE "none"]
    BY <1>5 DEF EndDelete, EnterPhase, Mutated
  <2>2. Phases' /\ PlanOK'
    BY <1>1, <1>3, <1>5, <2>1 DEF Phases, PlanOK, Items
  <2>3. RecordsOK'
    BY <1>1, <1>3, <1>5, <2>1 DEF RecordsOK, Unfinished, Base, Listed
  <2>4. TouchedOK'
    BY <1>1, <1>3, <2>1 DEF TouchedOK, Untouched
  <2>5. Results'
    BY <1>1, <1>2, <1>3, <2>1 DEF Results, Mutated, Tracked
  <2>6. LifeTypeOK'
    BY <1>1, <2>1 DEF EndDelete, LifeTypeOK, Inventory, cmdVars
  <2> QED
    BY <1>4, <2>2, <2>3, <2>4, <2>5, <2>6
<1>6. CASE op = "destroy"
  <2>1. /\ phase' = "cleanup" /\ work' = [p \in Paths |-> "none"]
        /\ Mutated = {} /\ Created = {}
    BY <1>6 DEF EndDelete, EnterPhase, PlanOK
  <2>2. Phases' /\ PlanOK'
    BY <1>1, <1>3, <1>6, <2>1 DEF Phases, PlanOK, Items
  <2>3. RecordsOK'
    BY <1>1, <1>6 DEF RecordsOK
  <2>4. TouchedOK'
    BY <1>1, <1>3, <2>1 DEF TouchedOK, Untouched
  <2>5. Results'
    BY <1>1, <1>2, <1>3, <2>1 DEF Results
  <2>6. LifeTypeOK'
    BY <1>1, <1>6, <2>1 DEF EndDelete, LifeTypeOK, cmdVars
  <2> QED
    BY <1>4, <2>2, <2>3, <2>4, <2>5, <2>6
<1> QED
  BY <1>1, <1>5, <1>6

\* So does the end of the mutations.
LEMMA LifeEndMutate ==
  ASSUME LifeInv, EndMutate
  PROVE  LifeInv'
<1> USE DEF LifeInv, Sound
<1>1. /\ phase = "mutate" /\ phase' = "create" /\ op = "rotate"
      /\ work' = [p \in Paths |-> IF p \in Created THEN "todo" ELSE "none"]
      /\ UNCHANGED <<stored, manifest, op, plan, records, touched, doubtful>>
  BY DEF EndMutate, PhaseDone, EnterPhase, Phases, LifeTypeOK, Created,
         cmdVars
<1>2. \A p \in Mutated : work[p] = "done"
  <2>1. \A p \in Mutated : p \in Items
    BY <1>1 DEF Items, Mutated, Tracked
  <2> QED
    BY <2>1, DoneFacts DEF EndMutate
<1>3. UNCHANGED <<Mutated, Created>>
  BY <1>1 DEF Mutated, Created
<1>4. Phases' /\ PlanOK'
  BY <1>1, <1>3 DEF Phases, PlanOK, Items
<1>5. RecordsOK'
  BY <1>1, <1>3 DEF RecordsOK, Unfinished, Base, Listed
<1>6. TouchedOK'
  BY <1>1, <1>3 DEF TouchedOK, Untouched
<1>7. Agreement'
  BY <1>1 DEF Agreement, Listed
<1>9. Results'
  BY <1>1, <1>2, <1>3 DEF Results, NotYetCreated, Matches, Created, Tracked
<1>8. LifeTypeOK'
  BY <1>1 DEF LifeTypeOK, EndMutate, cmdVars
<1> QED
  BY <1>4, <1>5, <1>6, <1>7, <1>8, <1>9

\* So does the end of the creations.
LEMMA LifeEndCreate ==
  ASSUME LifeInv, EndCreate
  PROVE  LifeInv'
<1> USE DEF LifeInv, Sound
<1>1. /\ phase = "create" /\ phase' = "save" /\ op \in {"init", "rotate"}
      /\ work' = [p \in Paths |-> "none"]
      /\ UNCHANGED <<stored, manifest, op, plan, records, touched, doubtful>>
  BY DEF EndCreate, PhaseDone, EnterPhase, Phases, LifeTypeOK,
         cmdVars
<1>2. \A p \in Created : work[p] = "done"
  <2>1. \A p \in Created : p \in Items
    BY <1>1 DEF Items, Created, Tracked
  <2> QED
    BY <2>1, DoneFacts DEF EndCreate
<1>3. UNCHANGED <<Mutated, Created>>
  BY <1>1 DEF Mutated, Created
<1>4. Phases' /\ PlanOK'
  BY <1>1, <1>3 DEF Phases, PlanOK, Items
<1>5. RecordsOK'
  BY <1>1, <1>3 DEF RecordsOK, Unfinished, Base, Listed
<1>6. TouchedOK'
  BY <1>1, <1>3 DEF TouchedOK, Untouched
<1>7. Agreement'
  BY <1>1 DEF Agreement, Listed
<1>9. Results'
  BY <1>1, <1>2, <1>3 DEF Results, NotYetCreated, Matches
<1>8. LifeTypeOK'
  BY <1>1 DEF LifeTypeOK, EndCreate, cmdVars
<1> QED
  BY <1>4, <1>5, <1>6, <1>7, <1>8, <1>9

-----------------------------------------------------------------------------
(* Steps of workers *)

\* So does a deletion that succeeds.
LEMMA LifeDeleted ==
  ASSUME LifeInv, NEW p \in Paths, phase = "delete", work[p] = "todo",
         stored' = [stored EXCEPT ![p] = None],
         touched' = touched \cup {p},
         work' = [work EXCEPT ![p] = "done"],
         UNCHANGED <<manifest, op, phase, plan, records, gaveUp, ops, faults, doubtful>>
  PROVE  LifeInv'
<1> USE DEF LifeInv, Sound
<1>1. p \in plan.deletes /\ op # "idle"
  BY DEF Phases, Items
<1>2. Phases' /\ PlanOK'
  BY <1>1 DEF Phases, PlanOK, Items, Mutated, Created, LifeTypeOK
<1>3. RecordsOK'
  BY <1>1 DEF RecordsOK, Unfinished, Base, Listed, Mutated, Created
<1>4. TouchedOK'
  BY <1>1 DEF TouchedOK, Untouched, Mutated, Created, LifeTypeOK
<1>5. Agreement'
  BY <1>1 DEF Agreement, Listed, LifeTypeOK
<1>6. Results'
  <2>1. \A q \in plan.deletes : work'[q] = "done" => stored'[q] = None
    BY DEF Results, NotYetCreated, LifeTypeOK, Plans
  <2> QED
    BY <2>1 DEF Results
<1>7. LifeTypeOK'
  BY DEF LifeTypeOK
<1> QED
  BY <1>2, <1>3, <1>4, <1>5, <1>6, <1>7

\* So does an item that fails and leaves the target as it was.
LEMMA LifeFailed ==
  ASSUME LifeInv, NEW p \in Paths, work[p] \in {"todo", "writing"},
         work' = [work EXCEPT ![p] = "failed"], faults' \in 0..MaxFaults,
         UNCHANGED <<stored, manifest, op, phase, plan, records, gaveUp, ops, touched, doubtful>>
  PROVE  LifeInv'
<1> USE DEF LifeInv, Sound
<1>1. Phases' /\ PlanOK'
  BY DEF Phases, PlanOK, Items, Mutated, Created, LifeTypeOK
<1>2. RecordsOK'
  BY DEF RecordsOK, Unfinished, Base, Listed, Mutated, Created, LifeTypeOK
<1>3. TouchedOK'
  BY DEF TouchedOK, Untouched, Mutated, Created, Phases, LifeTypeOK
<1>4. Agreement'
  BY DEF Agreement, Listed
<1>5. Results'
  BY DEF Results, NotYetCreated, Matches, Mutated, Created, LifeTypeOK
<1>6. LifeTypeOK'
  BY DEF LifeTypeOK
<1> QED
  BY <1>1, <1>2, <1>3, <1>4, <1>5, <1>6

\* A worker that is not done, or fails having changed something, has changed its
\* own path only: what holds of the others still holds.
LEMMA LifeTouched ==
  ASSUME LifeInv, NEW p \in Paths, work[p] \in {"todo", "writing"},
         NEW file \in Files \cup {None}, stored' = [stored EXCEPT ![p] = file],
         NEW state \in {"writing", "failed"}, work' = [work EXCEPT ![p] = state],
         state = "writing" => phase # "delete",
         touched' = touched \cup {p}, faults' \in 0..MaxFaults,
         UNCHANGED <<manifest, op, phase, plan, records, gaveUp, ops, doubtful>>
  PROVE  LifeInv'
<1> USE DEF LifeInv, Sound
<1>1. /\ stored'[p] = file /\ work'[p] = state
      /\ \A q \in Paths \ {p} : stored'[q] = stored[q] /\ work'[q] = work[q]
  BY DEF LifeTypeOK
<1>2. /\ p \in Items /\ op # "idle"
      /\ phase \in {"delete", "mutate", "create"}
  BY DEF Phases, Items
<1>3. /\ phase = "delete" => p \in plan.deletes
      /\ phase = "mutate" => p \in Mutated /\ p \notin plan.deletes
      /\ phase = "create" => p \in Created
  BY <1>2, MutationFacts DEF Items
<1>4. Phases' /\ PlanOK'
  BY <1>1, <1>2 DEF Phases, PlanOK, Items, Mutated, Created
<1>5. RecordsOK'
  BY <1>1 DEF RecordsOK, Unfinished, Base, Listed, Mutated, Created
<1>6. TouchedOK'
  BY <1>1, <1>2, <1>3 DEF TouchedOK, Untouched, Mutated, Created
<1>7. Agreement'
  BY <1>1 DEF Agreement, Listed
<1>8. Results'
  <2>1. \A q \in plan.deletes :
          NotYetCreated(q) /\ (phase = "delete" => work'[q] = "done") => stored'[q] = None
    BY <1>1, <1>2, <1>3 DEF Results, NotYetCreated, LifeTypeOK, Plans
  <2>2. \A q \in Mutated \ doubtful :
          NotYetCreated(q) /\ phase # "delete" /\ (phase = "mutate" => work'[q] = "done") =>
              q # p /\ records[q] # None /\ Matches(q, records[q])
    BY <1>1, <1>2, <1>3 DEF Results, NotYetCreated, Mutated, Tracked
  <2>3. \A q \in Created :
          phase \notin {"delete", "mutate"} /\ (phase = "create" => work'[q] = "done") =>
              q # p /\ records[q] # None /\ Matches(q, records[q])
    BY <1>1, <1>2 DEF Results, Created, Tracked
  <2> QED
    BY <1>1, <2>1, <2>2, <2>3
    DEF Results, NotYetCreated, Matches, Mutated, Created, Tracked
<1>9. LifeTypeOK'
  BY <1>2 DEF LifeTypeOK
<1> QED
  BY <1>4, <1>5, <1>6, <1>7, <1>8, <1>9

\* A worker that finishes leaves what the new record says; in the mutate phase
\* that may need that it found what the old record said.
LEMMA LifeFinish ==
  ASSUME LifeInv, NEW p \in Paths, work[p] \in {"todo", "writing"},
         phase \in {"mutate", "create"},
         work' = [work EXCEPT ![p] = "done"],
         NEW file \in Files, stored' = [stored EXCEPT ![p] = file],
         NEW rec \in Records, records' = [records EXCEPT ![p] = rec],
         touched' = touched \cup {p},
         UNCHANGED <<manifest, op, phase, plan, gaveUp, ops, faults, doubtful>>,
         phase = "create" \/ p \notin doubtful => Describes(rec, file)
  PROVE  LifeInv'
<1> USE DEF LifeInv, Sound
<1>1. /\ stored'[p] = file /\ work'[p] = "done" /\ records'[p] = rec
      /\ \A q \in Paths \ {p} :
           stored'[q] = stored[q] /\ work'[q] = work[q] /\ records'[q] = records[q]
  BY DEF LifeTypeOK, Inventory
<1>2. rec # None
  BY NoneAssumption
<1>3. phase = "mutate" => p \in Mutated /\ p \notin plan.deletes /\ op = "rotate"
  BY MutationFacts
<1>4. phase = "create" => p \in Created /\ op \in {"init", "rotate"}
  BY CreationFacts
<1>5. phase = "create" \/ p \notin doubtful => records'[p] # None /\ Matches(p, records[p])'
  BY <1>1, <1>2 DEF Matches
<1>6. Phases' /\ PlanOK'
  BY <1>1, <1>3, <1>4 DEF Phases, PlanOK, Items, Mutated, Created
<1>7. RecordsOK'
  BY <1>1, <1>3, <1>4 DEF RecordsOK, Unfinished, Base, Listed, Mutated, Created
<1>8. TouchedOK'
  BY <1>1, <1>3, <1>4 DEF TouchedOK, Untouched, Mutated, Created
<1>9. Agreement'
  BY <1>1 DEF Agreement, Listed
<1>11. Results'
  <2>1. \A q \in plan.deletes :
          NotYetCreated(q) /\ (phase = "delete" => work[q] = "done") => stored'[q] = None
    BY <1>1, <1>3, <1>4 DEF Results, NotYetCreated, LifeTypeOK, Plans
  <2>2. \A q \in Mutated \ doubtful :
          NotYetCreated(q) /\ phase # "delete" /\ (phase = "mutate" => work'[q] = "done") =>
              records'[q] # None /\ Matches(q, records[q])'
    <3>1. ASSUME NEW q \in Mutated \ doubtful, NotYetCreated(q), phase # "delete",
                 phase = "mutate" => work'[q] = "done", q # p
          PROVE  records'[q] # None /\ Matches(q, records[q])'
      <4>1. q \in Paths /\ records'[q] = records[q] /\ stored'[q] = stored[q]
        BY <1>1, <3>1 DEF Mutated, Tracked
      <4>2. records[q] # None /\ Matches(q, records[q])
        BY <1>1, <3>1, <4>1 DEF Results
      <4> QED
        BY <4>1, <4>2 DEF Matches
    <3>2. NotYetCreated(p) /\ p \notin doubtful => records'[p] # None /\ Matches(p, records[p])'
      BY <1>5
    <3> QED
      BY <3>1, <3>2
  <2>3. \A q \in Created :
          phase \notin {"delete", "mutate"} /\ (phase = "create" => work'[q] = "done") =>
              records'[q] # None /\ Matches(q, records[q])'
    <3>1. ASSUME NEW q \in Created, phase = "create", work'[q] = "done", q # p
          PROVE  records'[q] # None /\ Matches(q, records[q])'
      <4>1. q \in Paths /\ records'[q] = records[q] /\ stored'[q] = stored[q]
        BY <1>1, <3>1 DEF Created, Tracked
      <4>2. records[q] # None /\ Matches(q, records[q])
        BY <1>1, <3>1, <4>1 DEF Results
      <4> QED
        BY <4>1, <4>2 DEF Matches
    <3> QED
      BY <1>5, <3>1
  <2> QED
    BY <1>1, <2>1, <2>2, <2>3 DEF Results, NotYetCreated, Mutated, Created
<1>12. LifeTypeOK'
  BY DEF LifeTypeOK, Inventory
<1> QED
  BY <1>6, <1>7, <1>8, <1>9, <1>11, <1>12

\* Steps between phases without work: to publishing, and past the directories.
LEMMA LifeNextPhase ==
  ASSUME LifeInv, EnterPhase(IF phase = "save" THEN "publish" ELSE "forget", {}),
         phase \in {"save", "cleanup"},
         UNCHANGED <<stored, manifest, op, plan, records, gaveUp, ops, faults, touched, doubtful>>
  PROVE  LifeInv'
<1> USE DEF LifeInv, Sound
<1>1. /\ \/ phase = "save" /\ phase' = "publish"
         \/ phase = "cleanup" /\ phase' = "forget"
      /\ work' = [p \in Paths |-> "none"]
  BY DEF EnterPhase
<1>2. UNCHANGED <<Mutated, Created>>
  BY DEF Mutated, Created
<1>3. Phases' /\ PlanOK'
  BY <1>1, <1>2 DEF Phases, PlanOK, Items, LifeTypeOK
<1>4. RecordsOK' /\ TouchedOK'
  BY <1>1, <1>2 DEF RecordsOK, Unfinished, Base, Listed, TouchedOK, Untouched
<1>5. Agreement'
  BY DEF Agreement, Listed
<1>6. Results'
  BY <1>1, <1>2 DEF Results, NotYetCreated, Matches
<1>7. LifeTypeOK'
  BY <1>1 DEF LifeTypeOK
<1> QED
  BY <1>3, <1>4, <1>5, <1>6, <1>7

\* What every target has in common: the beginnings, the steps from phase to
\* phase, and giving up.
LEMMA LifeCommon ==
  ASSUME LifeInv, Begin \/ Advance \/ Interrupt
  PROVE  LifeInv'
<1>1. CASE GiveUp
  <2>1. op # "idle"
    BY <1>1 DEF GiveUp, LifeInv, Sound, Phases, Items
  <2> QED
    BY <1>1, <2>1, LifeUnchanged DEF GiveUp, LifeInv, LifeTypeOK
<1>2. CASE Interrupt
  <2>1. faults' \in 0..MaxFaults
    BY <1>2, BoundAssumption DEF Interrupt, LifeInv, LifeTypeOK
  <2> QED
    BY <1>2, <2>1, LifeUnchanged DEF Interrupt, SeeCancel
<1> QED
  BY <1>1, <1>2, LifeBeginInit, LifeBeginRotate, LifeBeginDestroy, LifeEndDelete,
     LifeEndMutate, LifeEndCreate DEF Begin, Advance

-----------------------------------------------------------------------------
(* What the steps are of Dataset *)

\* The first state is one of Dataset's: nothing is listed, and what is there is
\* the user's.
LEMMA PromiseInit == LifeInit => Promise!Init
<1> SUFFICES ASSUME LifeInit PROVE Promise!Init
  OBVIOUS
<1>1. \A p \in Paths : Listed(p) = None /\ Agrees(stored[p], None)
  BY DEF LifeInit, Listed, Agrees, OfUser
<1> QED
  BY <1>1 DEF LifeInit, Promise!Init

\* The inventory changes with the manifest only.
LEMMA PromiseListing ==
  ASSUME UNCHANGED manifest
  PROVE  UNCHANGED [p \in Paths |-> Listed(p)]
  BY DEF Listed

\* A command that starts is the beginning of an operation.
LEMMA PromiseBegin == Begin => Promise!Next
<1> SUFFICES ASSUME Begin PROVE Promise!Begin
  BY DEF Promise!Next
<1>1. /\ op = "idle" /\ op' # "idle"
      /\ UNCHANGED <<stored, manifest, touched, doubtful>>
  BY DEF Begin, BeginInit, BeginRotate, BeginDestroy, Launch
<1> QED
  BY <1>1, PromiseListing DEF Promise!Begin

\* A step inside an operation that leaves target, manifest and bookkeeping alone
\* is none of Dataset's.
LEMMA PromiseStutter ==
  ASSUME UNCHANGED <<stored, manifest, op, touched, doubtful>>
  PROVE  UNCHANGED Promise!vars
  BY PromiseListing DEF Promise!vars

\* A call that changes something changes one path.
LEMMA PromiseChange ==
  ASSUME LifeInv, op # "idle", NEW p \in Paths,
         NEW file, stored' = [stored EXCEPT ![p] = file], touched' = touched \cup {p},
         UNCHANGED <<manifest, op, doubtful>>
  PROVE  Promise!Next
<1>1. Promise!Change(p)
  BY PromiseListing DEF LifeInv, LifeTypeOK, Promise!Change
<1> QED
  BY <1>1 DEF Promise!Next

\* Replacing the manifest commits what the operation has done.
LEMMA PromiseReplace ==
  ASSUME LifeInv, Replace, phase \in {"save", "publish"}, UNCHANGED stored
  PROVE  Promise!Next
<1>1. /\ op # "idle" /\ op' = "idle" /\ touched' = {}
  BY ReplaceFacts DEF Replace, EndCommand
<1>2. /\ \A p \in Paths \ doubtful' : Agrees(stored[p], Listed(p)')
      /\ \A p \in doubtful' \ doubtful : p \in Paths /\ Listed(p) # None /\ Listed(p)' = None
  BY ReplaceFacts
<1>3. Promise!Commit
  BY <1>1, <1>2 DEF Promise!Commit
<1> QED
  BY <1>3 DEF Promise!Next

\* So does removing it.
LEMMA PromiseRemove ==
  ASSUME LifeInv, Remove, phase \in {"cleanup", "forget"}, UNCHANGED stored
  PROVE  Promise!Next
<1>1. /\ op # "idle" /\ op' = "idle" /\ touched' = {}
  BY DEF LifeInv, Sound, Phases, Remove, EndCommand
<1>2. \A p : Listed(p)' = None
  BY RemoveFacts DEF Listed
<1>3. Promise!Commit
  BY <1>1, <1>2, RemoveFacts DEF Promise!Commit
<1> QED
  BY <1>3 DEF Promise!Next

\* An operation that ends otherwise abandons what it has done.
LEMMA PromiseAbandon ==
  ASSUME op # "idle", Abandon, UNCHANGED <<stored, manifest>>
  PROVE  Promise!Next
<1>1. Promise!Abandon
  BY PromiseListing DEF Abandon, EndCommand, Promise!Abandon
<1> QED
  BY <1>1 DEF Promise!Next

\* The steps that every target has in common.
LEMMA PromiseCommon ==
  ASSUME Begin \/ Advance \/ Interrupt
  PROVE  [Promise!Next]_(Promise!vars)
<1>1. CASE Begin
  BY <1>1, PromiseBegin
<1>2. CASE Advance \/ Interrupt
  <2>1. UNCHANGED <<stored, manifest, op, touched, doubtful>>
    BY <1>2 DEF Advance, EndDelete, EndMutate, EndCreate, GiveUp, Interrupt, SeeCancel, cmdVars
  <2> QED
    BY <2>1, PromiseStutter
<1> QED
  BY <1>1, <1>2

\* What the promise is worth: the inventory is right about every path that is neither in doubt
\* nor being changed.
LEMMA PromiseHolds == ImplementsDataset => []Promise!InventoryIsRight
<1>1. Promise!Init => Promise!InventoryIsRight
  BY DEF Promise!Init, Promise!InventoryIsRight
<1>2. Promise!InventoryIsRight /\ [Promise!Next]_(Promise!vars) => Promise!InventoryIsRight'
  <2> SUFFICES ASSUME Promise!InventoryIsRight, [Promise!Next]_(Promise!vars)
               PROVE  Promise!InventoryIsRight'
    OBVIOUS
  <2>1. CASE Promise!Begin \/ UNCHANGED Promise!vars
    BY <2>1 DEF Promise!Begin, Promise!vars, Promise!InventoryIsRight
  <2>2. ASSUME NEW p \in Paths, Promise!Change(p) PROVE Promise!InventoryIsRight'
    BY <2>2 DEF Promise!Change, Promise!InventoryIsRight
  <2>3. CASE Promise!Commit
    BY <2>3 DEF Promise!Commit, Promise!InventoryIsRight
  <2>4. CASE Promise!Abandon
    BY <2>4 DEF Promise!Abandon, Promise!InventoryIsRight
  <2> QED
    BY <2>1, <2>2, <2>3, <2>4 DEF Promise!Next
<1> QED
  BY <1>1, <1>2, PTL DEF ImplementsDataset, Promise!Spec

\* Between operations the invariant says what InStep says.
LEMMA InStepHolds == LifeInv => InStep
<1> SUFFICES ASSUME LifeInv, op = "idle", NEW p \in Paths \ doubtful
             PROVE  Agrees(stored[p], Listed(p))
  BY DEF InStep
<1>1. touched = {}
  BY DEF LifeInv, Sound, Phases
<1> QED
  BY <1>1 DEF LifeInv, Sound, Agreement

\* Of all the common steps none removes the manifest or makes an item fail.
LEMMA CommonFacts ==
  ASSUME Begin \/ Advance \/ Interrupt
  PROVE  /\ manifest' = manifest
         /\ \A p \in Paths : op = "destroy" /\ work'[p] = "failed" => work[p] = "failed"
<1>1. CASE Begin
  BY <1>1 DEF Begin, BeginInit, BeginRotate, BeginDestroy, Launch
<1>2. CASE EndDelete \/ EndMutate \/ EndCreate
  BY <1>2 DEF EndDelete, EndMutate, EndCreate, EnterPhase
<1>3. CASE GiveUp \/ Interrupt
  BY <1>3 DEF GiveUp, Interrupt, SeeCancel
<1> QED
  BY <1>1, <1>2, <1>3 DEF Advance
=============================================================================
