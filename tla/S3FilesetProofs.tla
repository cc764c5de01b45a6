-------------------------- MODULE S3FilesetProofs --------------------------
(***************************************************************************)
(* Proofs about S3Fileset, for any paths, plans, worker count and number of *)
(* faults.  An upload replaces a whole object or does nothing, so that no   *)
(* half-written state has to be described; what is added to LifecycleProofs *)
(* is that a mutation is checked against the announced size, and that its   *)
(* record is right even of an object that was in doubt (Rewritten).         *)
(***************************************************************************)
EXTENDS S3Fileset, LifecycleProofs

\* A finished mutation has a record that describes its object.
RewrittenAt(p) ==
    NotYetCreated(p) /\ phase # "delete" /\ (phase = "mutate" => work[p] = "done") =>
        records[p] # None /\ Matches(p, records[p])

Rewritten == \A p \in Mutated : RewrittenAt(p)

IInv == LifeInv /\ Rewritten

-----------------------------------------------------------------------------
(* What is sent *)

\* The pattern of n cells.
LEMMA WrittenFacts ==
  ASSUME plan.seed \in Seeds, NEW n \in Nat
  PROVE  Written(n) \in Seq(Cells) /\ Len(Written(n)) = n
<1>1. Written(n) \in [1..n -> Cells]
  BY DEF Written, Cells
<1> QED
  BY <1>1

\* At most n cells of a content; n of one that is long enough.
LEMMA CutFacts ==
  ASSUME NEW body \in Seq(Cells), NEW n \in Nat
  PROVE  /\ Cut(body, n) \in Seq(Cells)
         /\ Len(body) >= n => Len(Cut(body, n)) = n
<1> DEFINE m == IF Len(body) < n THEN Len(body) ELSE n
<1>1. m \in Nat /\ m <= Len(body) /\ (Len(body) >= n => m = n)
  OBVIOUS
<1> HIDE DEF m
<1>2. SubSeq(body, 1, m) \in Seq(Cells) /\ Len(SubSeq(body, 1, m)) = m
  BY <1>1
<1>3. Cut(body, n) = SubSeq(body, 1, m)
  BY DEF Cut, m
<1> QED
  BY <1>1, <1>2, <1>3

\* The object that a mutation puts is one, and as long as announced if the
\* stream is.
LEMMA ObjectFacts ==
  ASSUME LifeInv, NEW p \in Paths, phase = "mutate", work[p] = "todo", Readable(p)
  PROVE  /\ NewObject(p) \in Files /\ Planned(p) \in Nat
         /\ LongEnough(p) => Len(NewObject(p).body) = Planned(p)
         /\ NewObject(p).mode = records[p].mode /\ NewObject(p).mtime = plan.seed
<1>1. /\ plan.seed \in Seeds /\ plan.mutations[p] \in Actions /\ records[p] \in Records
  BY MutationFacts
<1>2. /\ Planned(p) \in Nat
      /\ plan.mutations[p] = "append" => Planned(p) - records[p].size \in Nat
  <2>1. records[p].size \in Nat
    BY <1>1 DEF Records
  <2>2. /\ Planned(p) \in Nat
        /\ plan.mutations[p] = "append" => Planned(p) = records[p].size + 1
    BY <1>1, <2>1, SizeFacts DEF Planned
  <2> QED
    BY <2>1, <2>2
<1>3. stored[p] # None => stored[p].body \in Seq(Cells)
  BY DEF LifeInv, LifeTypeOK, Files
<1>4. Stream(p) \in Seq(Cells)
  <2>1. CASE plan.mutations[p] = "rewrite"
    BY <1>1, <1>2, <2>1, WrittenFacts DEF Stream
  <2>2. CASE plan.mutations[p] = "append"
    <3>1. stored[p].body \in Seq(Cells)
      BY <1>3, <2>2 DEF Readable, NeedsOld
    <3>2. Written(Planned(p) - records[p].size) \in Seq(Cells)
      BY <1>1, <1>2, <2>2, WrittenFacts
    <3> QED
      BY <2>2, <3>1, <3>2 DEF Stream
  <2>3. CASE plan.mutations[p] = "truncate"
    BY <1>2, <1>3, <2>3, CutFacts DEF Stream, Readable, NeedsOld
  <2> QED
    BY <1>1, <2>1, <2>2, <2>3 DEF Actions
<1>5. /\ Cut(Stream(p), Planned(p)) \in Seq(Cells)
      /\ LongEnough(p) => Len(Cut(Stream(p), Planned(p))) = Planned(p)
  BY <1>2, <1>4, CutFacts DEF LongEnough
<1>6. /\ NewObject(p).body = Cut(Stream(p), Planned(p)) /\ NewObject(p).mode = records[p].mode
      /\ NewObject(p).mtime = plan.seed
  BY DEF NewObject, Object
<1>7. NewObject(p) \in Files
  BY <1>1, <1>5 DEF NewObject, Object, Files, Records
<1> QED
  BY <1>2, <1>5, <1>6, <1>7

\* So is the object that a creation puts.
LEMMA FreshFacts ==
  ASSUME LifeInv, NEW p \in Paths, phase = "create", work[p] = "todo"
  PROVE  /\ FreshObject(p) \in Files /\ plan.creates[p] \in Nat /\ plan.seed \in Seeds
         /\ Len(FreshObject(p).body) = plan.creates[p]
         /\ FreshObject(p).body \in Seq(Cells)
         /\ FreshObject(p).mode = ModeOf[p] /\ FreshObject(p).mtime = plan.seed
<1>1. plan.seed \in Seeds /\ plan.creates[p] \in Nat /\ ModeOf[p] \in Modes
  BY CreationFacts, NameAssumption
<1>2. /\ Written(plan.creates[p]) \in Seq(Cells)
      /\ Len(Written(plan.creates[p])) = plan.creates[p]
  BY <1>1, WrittenFacts
<1>3. /\ FreshObject(p).body = Written(plan.creates[p])
      /\ FreshObject(p).mode = ModeOf[p] /\ FreshObject(p).mtime = plan.seed
  BY DEF FreshObject, Object
<1>4. FreshObject(p) \in Files
  BY <1>1, <1>2 DEF FreshObject, Object, Files
<1> QED
  BY <1>1, <1>2, <1>3, <1>4

-----------------------------------------------------------------------------
(* Steps that are all the same for finished mutations *)

\* No mutation is planned, or none has finished.
LEMMA NothingRewritten ==
  ASSUME \/ Mutated' = {} \/ phase' = "delete"
         \/ phase' = "mutate" /\ \A p \in Mutated' : work'[p] # "done"
  PROVE  Rewritten'
  BY DEF Rewritten, RewrittenAt

\* A step that leaves objects, workers, records and plan alone.
LEMMA RewrittenStay ==
  ASSUME IInv, UNCHANGED <<stored, phase, plan, records, work>>
  PROVE  Rewritten'
  BY DEF IInv, Rewritten, RewrittenAt, NotYetCreated, Matches, Mutated, Created

\* A worker's step at p disturbs p only; a creation makes its record anew.
LEMMA RewrittenElsewhere ==
  ASSUME IInv, NEW p \in Paths,
         \A q \in Paths \ {p} : /\ stored'[q] = stored[q] /\ work'[q] = work[q]
                                /\ records'[q] = records[q],
         UNCHANGED <<phase, plan>>, phase \in {"delete", "mutate", "create"},
         phase = "create" => p \in Created,
         phase = "mutate" /\ work'[p] = "done" => records'[p] # None /\ Matches(p, records[p])'
  PROVE  Rewritten'
<1> SUFFICES ASSUME NEW q \in Mutated, NotYetCreated(q), phase # "delete",
                    phase = "mutate" => work'[q] = "done"
             PROVE  records'[q] # None /\ Matches(q, records[q])'
  BY DEF Rewritten, RewrittenAt, NotYetCreated, Mutated, Created
<1>1. CASE q = p /\ phase = "mutate"
  BY <1>1
<1>2. CASE q # p
  <2>1. q \in Paths
    BY DEF Mutated, Tracked
  <2>2. records[q] # None /\ Matches(q, records[q])
    BY <1>2, <2>1 DEF IInv, Rewritten, RewrittenAt
  <2> QED
    BY <1>2, <2>1, <2>2 DEF Matches
<1>3. CASE q = p /\ phase # "mutate"
  BY <1>3 DEF NotYetCreated
<1> QED
  BY <1>1, <1>2, <1>3

-----------------------------------------------------------------------------
(* The steps *)

\* Deleting an object keeps the invariant.
LEMMA KeepDelete ==
  ASSUME IInv, NEW p \in Paths, DeleteObject(p)
  PROVE  IInv'
<1>1. /\ phase = "delete" /\ work[p] = "todo"
      /\ stored' = [stored EXCEPT ![p] = None] /\ touched' = touched \cup {p}
      /\ work' = [work EXCEPT ![p] = "done"]
      /\ UNCHANGED <<manifest, op, phase, plan, records, gaveUp, ops, faults, doubtful>>
  BY DEF DeleteObject, Free, Carry, SetWork, cmdVars
<1>2. LifeInv'
  BY <1>1, LifeDeleted DEF IInv
<1>3. Rewritten'
  BY <1>1, NothingRewritten
<1> QED
  BY <1>2, <1>3 DEF IInv

\* So does an upload that succeeds, when the record describes what it put.
LEMMA KeepUpload ==
  ASSUME IInv, NEW p \in Paths, phase \in {"mutate", "create"}, work[p] = "todo",
         NEW file \in Files, NEW rec \in Records, Describes(rec, file),
         Carry(p, file, "done"), records' = [records EXCEPT ![p] = rec],
         UNCHANGED <<manifest, op, phase, plan, gaveUp, ops, faults, doubtful>>
  PROVE  IInv'
<1>1. /\ stored' = [stored EXCEPT ![p] = file] /\ touched' = touched \cup {p}
      /\ work' = [work EXCEPT ![p] = "done"]
  BY DEF Carry, SetWork
<1>2. LifeInv'
  BY <1>1, LifeFinish DEF IInv
<1>3. /\ stored'[p] = file /\ records'[p] = rec
      /\ \A q \in Paths \ {p} : /\ stored'[q] = stored[q] /\ work'[q] = work[q]
                                /\ records'[q] = records[q]
  BY <1>1 DEF IInv, LifeInv, LifeTypeOK, Inventory
<1>4. phase = "create" => p \in Created
  BY CreationFacts DEF IInv
<1>5. Rewritten'
  BY <1>3, <1>4, NoneAssumption, RewrittenElsewhere DEF Matches
<1> QED
  BY <1>2, <1>5 DEF IInv

\* So does a call that changes its path or may not, and fails.
LEMMA KeepFailed ==
  ASSUME IInv, NEW p \in Paths, phase \in {"delete", "mutate", "create"}, work[p] = "todo",
         NEW file \in Files \cup {None},
         \/ Carry(p, file, "failed")
         \/ SetWork(p, "failed") /\ UNCHANGED <<stored, touched>>,
         faults' \in 0..MaxFaults,
         UNCHANGED <<manifest, op, phase, plan, records, gaveUp, ops, doubtful>>
  PROVE  IInv'
<1>1. LifeInv'
  <2>1. CASE SetWork(p, "failed") /\ UNCHANGED <<stored, touched>>
    BY <2>1, LifeFailed DEF IInv, SetWork
  <2>2. CASE Carry(p, file, "failed")
    BY <2>2, LifeTouched DEF IInv, Carry, SetWork
  <2> QED
    BY <2>1, <2>2
<1>2. /\ work'[p] # "done"
      /\ \A q \in Paths \ {p} : stored'[q] = stored[q] /\ work'[q] = work[q]
  BY DEF IInv, LifeInv, LifeTypeOK, Carry, SetWork
<1>3. phase = "create" => p \in Created
  BY CreationFacts DEF IInv
<1>4. Rewritten'
  BY <1>2, <1>3, RewrittenElsewhere
<1> QED
  BY <1>1, <1>4 DEF IInv

\* So does every worker.
LEMMA KeepWorker ==
  ASSUME IInv, NEW p \in Paths, Worker(p)
  PROVE  IInv'
<1>1. CASE Mutate(p)
  <2> DEFINE rec == [records[p] EXCEPT !.size = Planned(p), !.sum = NewObject(p).body,
                                       !.mtime = plan.seed]
  <2>1. /\ phase = "mutate" /\ work[p] = "todo" /\ LongEnough(p) /\ Readable(p)
        /\ Carry(p, NewObject(p), "done") /\ records' = [records EXCEPT ![p] = rec]
        /\ UNCHANGED <<manifest, op, phase, plan, gaveUp, ops, faults, doubtful>>
    BY <1>1 DEF Mutate, Free, LongEnough, Carry, SetWork, cmdVars
  <2>2. /\ NewObject(p) \in Files /\ Planned(p) \in Nat
        /\ Len(NewObject(p).body) = Planned(p)
        /\ NewObject(p).mode = records[p].mode /\ NewObject(p).mtime = plan.seed
        /\ records[p] \in Records /\ plan.seed \in Seeds
    BY <2>1, ObjectFacts, MutationFacts DEF IInv
  <2>3. /\ rec \in Records
        /\ rec.size = Planned(p) /\ rec.sum = NewObject(p).body
        /\ rec.mode = records[p].mode /\ rec.mtime = plan.seed
    BY <2>2 DEF Records, Files
  <2> HIDE DEF rec
  <2>4. Describes(rec, NewObject(p))
    BY <2>2, <2>3, NoneAssumption DEF Describes
  <2> QED
    BY <2>1, <2>2, <2>3, <2>4, KeepUpload
<1>2. CASE Create(p)
  <2> DEFINE rec == [size |-> plan.creates[p], sum |-> FreshObject(p).body,
                     mode |-> ModeOf[p], mtime |-> plan.seed]
  <2>1. /\ phase = "create" /\ work[p] = "todo"
        /\ Carry(p, FreshObject(p), "done") /\ records' = [records EXCEPT ![p] = rec]
        /\ UNCHANGED <<manifest, op, phase, plan, gaveUp, ops, faults, doubtful>>
    BY <1>2 DEF Create, Free, Carry, SetWork, cmdVars
  <2>2. /\ FreshObject(p) \in Files /\ plan.creates[p] \in Nat /\ plan.seed \in Seeds
        /\ Len(FreshObject(p).body) = plan.creates[p]
        /\ FreshObject(p).body \in Seq(Cells)
        /\ FreshObject(p).mode = ModeOf[p] /\ FreshObject(p).mtime = plan.seed
        /\ ModeOf[p] \in Modes
    BY <2>1, FreshFacts, NameAssumption DEF IInv
  <2>3. rec \in Records
    BY <2>2 DEF Records
  <2>4. Describes(rec, FreshObject(p))
    BY <2>2, NoneAssumption DEF Describes
  <2> HIDE DEF rec
  <2> QED
    BY <2>1, <2>2, <2>3, <2>4, KeepUpload
<1>3. CASE MutateRefused(p)
  <2>1. /\ phase = "mutate" /\ work[p] = "todo"
        /\ faults' \in 0..MaxFaults
        /\ UNCHANGED <<manifest, op, phase, plan, records, gaveUp, ops, doubtful>>
    BY <1>3 DEF MutateRefused, Free, cmdVars, IInv, LifeInv, LifeTypeOK
  <2>2. CASE SetWork(p, "failed") /\ UNCHANGED <<stored, touched>>
    BY <2>1, <2>2, KeepFailed
  <2>3. CASE Readable(p) /\ Carry(p, NewObject(p), "failed")
    <3>1. NewObject(p) \in Files
      BY <2>1, <2>3, ObjectFacts DEF IInv
    <3> QED
      BY <2>1, <2>3, <3>1, KeepFailed
  <2> QED
    BY <1>3, <2>2, <2>3 DEF MutateRefused
<1> QED
  BY <1>1, <1>2, <1>3, KeepDelete DEF Worker

\* So does a request that fails, or whose answer is lost.
LEMMA KeepRequest ==
  ASSUME IInv, NEW p \in Paths, RequestFails(p) \/ AnswerLost(p)
  PROVE  IInv'
<1>1. /\ work[p] = "todo" /\ phase \in {"delete", "mutate", "create"}
      /\ UNCHANGED <<manifest, op, phase, plan, records, gaveUp, ops, doubtful>>
  <2>1. /\ work[p] = "todo"
        /\ UNCHANGED <<manifest, op, phase, plan, records, gaveUp, ops, doubtful>>
    BY DEF RequestFails, AnswerLost, Free, cmdVars
  <2> QED
    BY <2>1 DEF IInv, LifeInv, Sound, Phases, Items
<1>2. faults' \in 0..MaxFaults
  BY BoundAssumption DEF RequestFails, AnswerLost, IInv, LifeInv, LifeTypeOK
<1>3. CASE RequestFails(p)
  BY <1>1, <1>2, <1>3, KeepFailed DEF RequestFails
<1>4. ASSUME AnswerLost(p)
      PROVE  \E file \in Files \cup {None} : Carry(p, file, "failed")
  <2>1. CASE phase = "mutate" /\ LongEnough(p) /\ Carry(p, NewObject(p), "failed")
    BY <1>1, <2>1, ObjectFacts DEF IInv, LongEnough
  <2>2. CASE phase = "create" /\ Carry(p, FreshObject(p), "failed")
    BY <1>1, <2>2, FreshFacts DEF IInv
  <2> QED
    BY <1>4, <2>1, <2>2 DEF AnswerLost
<1> QED
  BY <1>1, <1>2, <1>3, <1>4, KeepFailed

\* So does the end of a process, however it comes.
LEMMA KeepEnd ==
  ASSUME IInv, SaveManifest \/ DeleteManifest \/ Exit \/ Crash
  PROVE  IInv'
<1>1. faults' \in 0..MaxFaults
  BY BoundAssumption DEF SaveManifest, DeleteManifest, Exit, Crash, IInv, LifeInv, LifeTypeOK
<1>2. LifeInv'
  BY <1>1, LifeReplace, LifeRemove, LifeAbandon
  DEF SaveManifest, DeleteManifest, Exit, Crash, IInv
<1>3. plan' = NoPlan
  BY DEF SaveManifest, DeleteManifest, Exit, Crash, Replace, Remove, Abandon, EndCommand
<1>4. Mutated' = {}
  BY <1>3 DEF Mutated, NoPlan, NoFiles, Tracked
<1> QED
  BY <1>2, <1>4, NothingRewritten DEF IInv

\* So do the steps that all targets have in common.
LEMMA KeepCommon ==
  ASSUME IInv, Begin \/ Advance \/ Interrupt
  PROVE  IInv'
<1>1. LifeInv'
  BY LifeCommon DEF IInv
<1>2. CASE BeginInit
  <2>1. Mutated' = {}
    BY <1>2 DEF BeginInit, NoPlan, NoFiles, Mutated, Tracked
  <2> QED
    BY <1>1, <2>1, NothingRewritten DEF IInv
<1>3. CASE BeginRotate \/ BeginDestroy
  <2>1. phase' = "delete"
    BY <1>3 DEF BeginRotate, BeginDestroy, EnterPhase
  <2> QED
    BY <1>1, <2>1, NothingRewritten DEF IInv
<1>4. CASE EndDelete
  <2>1. CASE op = "rotate"
    <3>1. /\ phase' = "mutate" /\ Mutated' = Mutated
          /\ \A p \in Paths : work'[p] # "done"
      BY <1>4, <2>1 DEF EndDelete, EnterPhase, Mutated, cmdVars
    <3> QED
      BY <1>1, <3>1, NothingRewritten DEF IInv, Mutated, Tracked
  <2>2. CASE op = "destroy"
    <3>1. Mutated' = {}
      BY <1>4, <2>2 DEF EndDelete, IInv, LifeInv, Sound, PlanOK, Mutated, cmdVars
    <3> QED
      BY <1>1, <3>1, NothingRewritten DEF IInv
  <2> QED
    BY <1>4, <2>1, <2>2 DEF EndDelete
<1>5. CASE EndMutate
  <2>1. /\ phase = "mutate" /\ phase' = "create"
        /\ UNCHANGED <<stored, plan, records>>
    BY <1>5 DEF EndMutate, PhaseDone, EnterPhase, cmdVars
  <2>2. \A p \in Mutated : work[p] = "done"
    <3>1. \A p \in Mutated : p \in Items
      BY <2>1 DEF Items, Mutated, Tracked
    <3> QED
      BY <1>5, <3>1, DoneFacts DEF EndMutate, IInv
  <2>3. Rewritten'
    BY <2>1, <2>2 DEF IInv, Rewritten, RewrittenAt, NotYetCreated, Matches, Mutated, Created
  <2> QED
    BY <1>1, <2>3 DEF IInv
<1>6. CASE EndCreate
  <2>1. /\ phase = "create" /\ phase' = "save"
        /\ UNCHANGED <<stored, plan, records>>
    BY <1>6 DEF EndCreate, PhaseDone, EnterPhase, cmdVars
  <2>2. Rewritten'
    BY <2>1 DEF IInv, Rewritten, RewrittenAt, NotYetCreated, Matches, Mutated, Created
  <2> QED
    BY <1>1, <2>2 DEF IInv
<1>7. CASE GiveUp \/ Interrupt
  <2>1. Rewritten'
    BY <1>7, RewrittenStay DEF GiveUp, Interrupt, SeeCancel
  <2> QED
    BY <1>1, <2>1 DEF IInv
<1> QED
  BY <1>2, <1>3, <1>4, <1>5, <1>6, <1>7 DEF Begin, Advance

\* Every step keeps the invariant.
LEMMA InvStep == IInv /\ [Next]_vars => IInv'
<1> SUFFICES ASSUME IInv, [Next]_vars PROVE IInv'
  OBVIOUS
<1>1. CASE Begin \/ Advance \/ Interrupt
  BY <1>1, KeepCommon
<1>2. CASE \E p \in Paths : Worker(p) \/ RequestFails(p) \/ AnswerLost(p)
  BY <1>2, KeepWorker, KeepRequest
<1>3. CASE SaveManifest \/ DeleteManifest \/ Exit \/ Crash
  BY <1>3, KeepEnd
<1>4. CASE ManifestFails \/ UNCHANGED vars
  <2>1. /\ UNCHANGED <<stored, manifest, op, phase, plan, records, work, ops, touched, doubtful>>
        /\ gaveUp' \in BOOLEAN /\ (gaveUp' => op # "idle")
    <3>1. /\ gaveUp \in BOOLEAN
          /\ op = "idle" => ~gaveUp /\ phase = "idle"
      BY DEF IInv, LifeInv, LifeTypeOK, Sound, Phases
    <3>2. CASE ManifestFails
      BY <3>1, <3>2 DEF ManifestFails
    <3>3. CASE UNCHANGED vars
      BY <3>1, <3>3 DEF vars, lifeVars, cmdVars
    <3> QED
      BY <1>4, <3>2, <3>3
  <2>2. faults' \in 0..MaxFaults
    BY <1>4, BoundAssumption DEF ManifestFails, vars, lifeVars, IInv, LifeInv, LifeTypeOK
  <2>3. LifeInv'
    BY <2>1, <2>2, LifeUnchanged DEF IInv
  <2>4. Rewritten'
    BY <2>1, RewrittenStay
  <2> QED
    BY <2>3, <2>4 DEF IInv
<1> QED
  BY <1>1, <1>2, <1>3, <1>4 DEF Next, Step

-----------------------------------------------------------------------------
(* The theorems *)

\* The strengthened invariant holds throughout.
THEOREM Inductive == Spec => []IInv
<1>1. LifeInit => IInv
  BY InitLife DEF LifeInit, NoPlan, NoFiles, Mutated, Tracked, IInv, Rewritten
<1>2. IInv /\ [Next]_vars => IInv'
  BY InvStep
<1> QED
  BY <1>1, <1>2, PTL DEF Spec

\* Every variable keeps its type: whatever is put is an object, whatever is
\* recorded a record.
THEOREM TypeCorrect == Spec => []LifeTypeOK
<1>1. IInv => LifeTypeOK
  BY DEF IInv, LifeInv
<1> QED
  BY <1>1, Inductive, PTL

\* Between operations manifest and bucket agree about every object that is not
\* in doubt, whatever requests failed and answers were lost.
THEOREM ManifestInStep == Spec => []InStep
<1>1. IInv => InStep
  BY InStepHolds DEF IInv
<1> QED
  BY <1>1, Inductive, PTL

\* SaveManifest replaces the manifest with what the operation has put, also where
\* it has rewritten an object that was in doubt: what is recorded is what was
\* announced, and an upload of any other length fails.
THEOREM SavedIsStored == Spec => SavedRecordsMatch
<1> DEFINE Match == manifest' # manifest /\ manifest' # None =>
              \A p \in touched : manifest'.files[p] # None => Matches(p, manifest'.files[p])
<1>1. IInv /\ [Next]_vars => Match
  <2> SUFFICES ASSUME IInv, [Next]_vars, manifest' # manifest, manifest' # None,
                      NEW p \in touched, manifest'.files[p] # None
               PROVE  Matches(p, manifest'.files[p])
    OBVIOUS
  <2> USE DEF IInv, LifeInv, Sound
  <2>1. SaveManifest
    <3>1. ~(Begin \/ Advance \/ Interrupt)
      BY CommonFacts
    <3>2. ~\E q \in Paths : Worker(q) \/ RequestFails(q) \/ AnswerLost(q)
      BY DEF Worker, DeleteObject, Mutate, MutateRefused, Create, RequestFails, AnswerLost
    <3>3. ~(DeleteManifest \/ ManifestFails \/ Exit \/ Crash \/ UNCHANGED vars)
      BY DEF DeleteManifest, Remove, ManifestFails, Exit, Crash, vars, lifeVars
    <3> QED
      BY <3>1, <3>2, <3>3 DEF Next, Step
  <2>2. /\ phase = "save" /\ op \in {"init", "rotate"} /\ p \in Paths
        /\ manifest'.files[p] = records[p]
    <3>1. phase = "save" /\ Replace /\ UNCHANGED stored
      BY <2>1 DEF SaveManifest
    <3>2. manifest' # None /\ Listed(p)' = records[p] /\ op \in {"init", "rotate"}
      BY <3>1, ReplaceFacts
    <3> QED
      BY <3>1, <3>2 DEF Listed, LifeTypeOK
  <2>3. p \in plan.deletes \/ p \in Mutated \/ p \in Created
    BY <2>2 DEF TouchedOK, Untouched
  <2>4. CASE p \in Created
    BY <2>2, <2>4 DEF Results
  <2>5. CASE p \in Mutated /\ p \notin Created
    BY <2>2, <2>5 DEF Rewritten, RewrittenAt, NotYetCreated
  <2>6. CASE p \in plan.deletes /\ p \notin Mutated /\ p \notin Created
    BY <2>2, <2>6 DEF RecordsOK, Unfinished, Base
  <2> QED
    BY <2>3, <2>4, <2>5, <2>6
<1> QED
  BY <1>1, Inductive, PTL DEF Spec, SavedRecordsMatch

\* The manifest object is removed only when every object that it lists is gone, also where
\* an answer to a removal was lost and Destroy was run again.
THEOREM FilesGoFirst == Spec => ManifestOutlivesFiles
<1> DEFINE Kept == manifest # None /\ manifest' = None =>
                     \A p \in Tracked(manifest.files) : stored[p] = None
<1>1. IInv /\ [Next]_vars => Kept
  <2> SUFFICES ASSUME IInv, [Next]_vars, manifest # None, manifest' = None
               PROVE  \A p \in Tracked(manifest.files) : stored[p] = None
    OBVIOUS
  <2>1. CASE DeleteManifest
    BY <2>1, RemoveFacts DEF DeleteManifest, IInv
  <2>2. CASE SaveManifest
    BY <2>2, ReplaceFacts DEF SaveManifest, IInv
  <2>3. CASE Begin \/ Advance \/ Interrupt
    BY <2>3, CommonFacts DEF IInv
  <2>4. CASE \E p \in Paths : Worker(p) \/ RequestFails(p) \/ AnswerLost(p)
    BY <2>4 DEF Worker, DeleteObject, Mutate, MutateRefused, Create, RequestFails, AnswerLost
  <2>5. CASE ManifestFails \/ Exit \/ Crash \/ UNCHANGED vars
    BY <2>5 DEF ManifestFails, Exit, Crash, vars, lifeVars
  <2> QED
    BY <2>1, <2>2, <2>3, <2>4, <2>5 DEF Next, Step
<1> QED
  BY <1>1, Inductive, PTL DEF Spec, ManifestOutlivesFiles

\* The fileset commands on an object store keep what Dataset promises.
THEOREM DatasetImplemented == Spec => ImplementsDataset
<1>1. LifeInit => Promise!Init
  BY PromiseInit
<1>2. IInv /\ [Next]_vars => [Promise!Next]_(Promise!vars)
  <2> SUFFICES ASSUME IInv, [Next]_vars PROVE [Promise!Next]_(Promise!vars)
    OBVIOUS
  <2>1. LifeInv
    BY DEF IInv
  <2>2. CASE Begin \/ Advance \/ Interrupt
    BY <2>2, PromiseCommon
  <2>3. ASSUME NEW p \in Paths, Worker(p) \/ RequestFails(p) \/ AnswerLost(p)
        PROVE  [Promise!Next]_(Promise!vars)
    <3>1. work[p] = "todo" /\ UNCHANGED <<manifest, op, doubtful>>
      BY <2>3 DEF Worker, DeleteObject, Mutate, MutateRefused, Create, RequestFails, AnswerLost,
         Free, cmdVars
    <3>2. op # "idle"
      BY <3>1 DEF IInv, LifeInv, Sound, Phases, Items
    <3>3. \/ UNCHANGED <<stored, touched>>
          \/ \E file, w : Carry(p, file, w)
      BY <2>3 DEF Worker, DeleteObject, Mutate, MutateRefused, Create, RequestFails, AnswerLost
    <3>4. CASE UNCHANGED <<stored, touched>>
      BY <3>1, <3>4, PromiseStutter
    <3>5. CASE \E file, w : Carry(p, file, w)
      BY <2>1, <3>1, <3>2, <3>5, PromiseChange DEF Carry
    <3> QED
      BY <3>3, <3>4, <3>5
  <2>4. CASE SaveManifest
    BY <2>1, <2>4, PromiseReplace DEF SaveManifest
  <2>5. CASE DeleteManifest
    BY <2>1, <2>5, PromiseRemove DEF DeleteManifest
  <2>6. CASE Exit \/ Crash
    <3>1. op # "idle"
      BY <2>1, <2>6 DEF Exit, Crash, LifeInv, Sound, Phases
    <3> QED
      BY <2>6, <3>1, PromiseAbandon DEF Exit, Crash
  <2>7. CASE ManifestFails \/ UNCHANGED vars
    BY <2>7, PromiseStutter DEF ManifestFails, vars, lifeVars, cmdVars
  <2> QED
    BY <2>2, <2>3, <2>4, <2>5, <2>6, <2>7 DEF Next, Step
<1> QED
  BY <1>1, <1>2, Inductive, PTL DEF Spec, ImplementsDataset, Promise!Spec

\* At any time what Verify and Rotate read in the manifest is so, of every object that is neither
\* in doubt nor being changed.
THEOREM InventoryHolds == Spec => []Promise!InventoryIsRight
BY DatasetImplemented, PromiseHolds, PTL
=============================================================================
