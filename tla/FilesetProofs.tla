--------------------------- MODULE FilesetProofs ---------------------------
(***************************************************************************)
(* Proofs about Fileset, for any paths, plans, worker count and number of  *)
(* faults.  LifecycleProofs carries most of the invariant; what a local     *)
(* root adds is that its workers write in place: half-written files, and    *)
(* what the worker still has to do to complete them (Writing).              *)
(***************************************************************************)
EXTENDS Fileset, LifecycleProofs

\* What a worker has left to write completes the planned size; the mode that
\* mutateSpec will put back is the recorded one.
Writing ==
    \A p \in Paths : work[p] = "writing" =>
        /\ stored[p] # None
        /\ p \in touched
        /\ phase = "create" => Len(stored[p].body) + left[p] = plan.creates[p]
        /\ phase = "mutate" /\ p \notin doubtful =>
             /\ Len(stored[p].body) + left[p] = NewSize(plan.mutations[p], records[p].size)
             /\ chmod[p] = records[p].mode

IInv == TypeOK /\ Sound /\ Writing

\* The invariant by its layers: types, what all targets share, what workers have yet to write.
LEMMA Parts == IInv <=> TypeOK /\ LifeInv /\ Writing
  BY DEF IInv, LifeInv, TypeOK

-----------------------------------------------------------------------------
(* Facts about the state *)

\* Init establishes the invariant.
LEMMA InitInv == Init => IInv
<1> SUFFICES ASSUME Init PROVE IInv
  OBVIOUS
<1>1. LifeInv
  BY InitLife DEF Init
<1>2. Writing
  BY DEF Init, LifeInit, NoWork, Writing
<1>3. dirs \subseteq Dirs /\ tmp = "none"
  BY NameAssumption, DirAssumption DEF Init
<1>4. left \in [Paths -> Nat] /\ chmod \in [Paths -> Modes]
  BY DEF Init, NoCells, NoModes, Modes
<1> QED
  BY <1>1, <1>2, <1>3, <1>4 DEF IInv, LifeInv, TypeOK

\* os.Truncate leaves n cells.
LEMMA ResizeFacts ==
  ASSUME NEW body \in Seq(Cells), NEW n \in Nat
  PROVE  /\ Resize(body, n) \in Seq(Cells)
         /\ Len(Resize(body, n)) = n
<1>1. \A i \in 1..n : (IF i <= Len(body) THEN body[i] ELSE Zero) \in Cells
  BY DEF Cells
<1>2. Resize(body, n) \in [1..n -> Cells]
  BY <1>1 DEF Resize
<1> QED
  BY <1>2

\* What a writing worker has at hand.
LEMMA WriterFacts ==
  ASSUME IInv, NEW p \in Paths, work[p] = "writing"
  PROVE  /\ phase \in {"mutate", "create"} /\ op # "idle"
         /\ stored[p] \in Files /\ plan.seed \in Seeds
         /\ p \in touched /\ touched = touched \cup {p}
         /\ left[p] \in Nat /\ chmod[p] \in Modes
         /\ phase = "create" => Len(stored[p].body) + left[p] = plan.creates[p]
         /\ phase = "mutate" /\ p \notin doubtful =>
              /\ Len(stored[p].body) + left[p] = NewSize(plan.mutations[p], records[p].size)
              /\ chmod[p] = records[p].mode
<1>1. phase \in {"mutate", "create"} /\ LifeInv
  BY Parts DEF IInv, Sound, Phases
<1>2. plan.seed \in Seeds /\ op # "idle"
  BY <1>1, MutationFacts, CreationFacts
<1> QED
  BY <1>1, <1>2 DEF IInv, Writing, TypeOK, LifeTypeOK

\* What a mutation leaves when it has opened the file, and has left to write.
LEMMA OpenedTypes ==
  ASSUME IInv, NEW p \in Paths, phase = "mutate", work[p] = "todo", stored[p] # None
  PROVE  /\ Opened(p) \in Seq(Cells)
         /\ ToWrite(p) \in Nat
<1>1. plan.mutations[p] \in Actions /\ records[p].size \in Nat /\ stored[p] \in Files
  BY Parts, MutationFacts DEF Records, IInv, TypeOK, LifeTypeOK
<1>2. /\ NewSize(plan.mutations[p], records[p].size) \in Nat
      /\ plan.mutations[p] = "append" =>
           NewSize(plan.mutations[p], records[p].size) = records[p].size + 1
  BY <1>1, SizeFacts
<1>3. Opened(p) \in Seq(Cells)
  BY <1>1, <1>2, ResizeFacts DEF Opened, Actions, Files
<1>4. ToWrite(p) \in Nat
  BY <1>1, <1>2 DEF ToWrite, Actions
<1> QED
  BY <1>3, <1>4

\* Where the old record was right, the opened file is what the rest of the
\* mutation completes to the planned size.
LEMMA OpenedFacts ==
  ASSUME IInv, NEW p \in Paths, MutateOpen(p), p \notin doubtful
  PROVE  /\ Len(Opened(p)) + ToWrite(p) = NewSize(plan.mutations[p], records[p].size)
         /\ stored[p].mode = records[p].mode
<1>1. /\ phase = "mutate" /\ work[p] = "todo" /\ stored[p] # None
  BY DEF MutateOpen, Free
<1>2. /\ plan.mutations[p] \in Actions /\ records[p] \in Records /\ records[p] = Listed(p)
      /\ p \in Mutated /\ p \notin plan.deletes
  BY <1>1, Parts, MutationFacts
<1>3. p \notin touched
  BY <1>1, <1>2 DEF IInv, Sound, TouchedOK, Untouched
<1>4. Describes(records[p], stored[p])
  BY <1>2, <1>3, NoneAssumption DEF IInv, Sound, Agreement, Agrees
<1>5. /\ records[p].size = Len(stored[p].body) /\ records[p].size \in Nat
      /\ stored[p].body \in Seq(Cells)
  BY <1>1, <1>2, <1>4 DEF Describes, Records, Files, IInv, TypeOK, LifeTypeOK
<1>6. CASE plan.mutations[p] = "rewrite"
  BY <1>4, <1>5, <1>6 DEF Opened, ToWrite, NewSize, Describes
<1>7. CASE plan.mutations[p] = "append"
  BY <1>4, <1>5, <1>7, SizeFacts DEF Opened, ToWrite, Actions, Describes
<1>8. CASE plan.mutations[p] = "truncate"
  <2>1. NewSize("truncate", records[p].size) \in Nat
    BY <1>5, SizeFacts DEF Actions
  <2> QED
    BY <1>4, <1>5, <1>8, <2>1, ResizeFacts DEF Opened, ToWrite, Describes
<1> QED
  BY <1>2, <1>6, <1>7, <1>8 DEF Actions

-----------------------------------------------------------------------------
(* Steps that are all the same for half-written files *)

\* A step after which nothing is being written.
LEMMA NobodyWrites ==
  ASSUME \A p \in Paths : work'[p] # "writing"
  PROVE  Writing'
  BY DEF Writing

\* A step that leaves the files, the workers and the plan alone.
LEMMA WritersRest ==
  ASSUME IInv, UNCHANGED <<stored, phase, plan, records, work, left, chmod, touched, doubtful>>
  PROVE  Writing'
  BY DEF IInv, Writing

\* A worker changes its own path only.
LEMMA OneWriter ==
  ASSUME IInv, NEW p \in Paths,
         \A q \in Paths \ {p} : /\ stored'[q] = stored[q] /\ work'[q] = work[q]
                                /\ left'[q] = left[q] /\ chmod'[q] = chmod[q]
                                /\ records'[q] = records[q],
         touched' = touched \cup {p},
         UNCHANGED <<phase, plan, doubtful>>,
         work'[p] = "writing" =>
           /\ stored'[p] # None
           /\ phase = "create" => Len(stored'[p].body) + left'[p] = plan.creates[p]
           /\ phase = "mutate" /\ p \notin doubtful =>
                /\ Len(stored'[p].body) + left'[p] = NewSize(plan.mutations[p], records'[p].size)
                /\ chmod'[p] = records'[p].mode
  PROVE  Writing'
  BY DEF IInv, Writing

-----------------------------------------------------------------------------
(* The steps of the workers *)

\* Deleting a file keeps the invariant.
LEMMA KeepDelete ==
  ASSUME IInv, NEW p \in Paths, DeleteFile(p)
  PROVE  IInv'
<1>1. /\ phase = "delete" /\ work[p] = "todo"
      /\ work' = [work EXCEPT ![p] = "done"]
      /\ UNCHANGED <<dirs, manifest, tmp, op, phase, plan, records, gaveUp, ops, left, chmod,
                     faults, doubtful>>
  BY DEF DeleteFile, Free, SetWork, storeVars, cmdVars, jobVars
<1>2. LifeInv'
  BY <1>1, Parts, LifeDeleted DEF DeleteFile
<1>3. Writing'
  BY <1>1, NobodyWrites DEF IInv, Sound, Phases, TypeOK, LifeTypeOK
<1> QED
  BY <1>1, <1>2, <1>3 DEF IInv, LifeInv, TypeOK

\* So does opening a file to mutate.
LEMMA KeepMutateOpen ==
  ASSUME IInv, NEW p \in Paths, MutateOpen(p)
  PROVE  IInv'
<1> DEFINE file == [body |-> Opened(p), mode |-> "rw",
                    mtime |-> IF plan.mutations[p] = "append" THEN stored[p].mtime ELSE Now]
<1>1. /\ phase = "mutate" /\ work[p] = "todo" /\ stored[p] # None
      /\ stored' = [stored EXCEPT ![p] = file]
      /\ work' = [work EXCEPT ![p] = "writing"]
      /\ left' = [left EXCEPT ![p] = ToWrite(p)]
      /\ chmod' = [chmod EXCEPT ![p] = stored[p].mode]
      /\ touched' = touched \cup {p}
      /\ UNCHANGED <<dirs, manifest, tmp, op, phase, plan, records, gaveUp, ops, faults, doubtful>>
  BY DEF MutateOpen, Free, SetWork, storeVars, cmdVars
<1>2. stored[p] \in Files /\ stored[p].mode \in Modes
  BY <1>1 DEF IInv, TypeOK, LifeTypeOK, Files
<1>3. file \in Files /\ ToWrite(p) \in Nat
  <2>1. Opened(p) \in Seq(Cells) /\ ToWrite(p) \in Nat
    BY <1>1, OpenedTypes
  <2> QED
    BY <1>2, <2>1 DEF Files, Modes
<1>4. p \notin doubtful =>
        /\ Len(file.body) + ToWrite(p) = NewSize(plan.mutations[p], records[p].size)
        /\ stored[p].mode = records[p].mode
  BY OpenedFacts
<1> HIDE DEF file
<1>5. LifeInv /\ faults' \in 0..MaxFaults
  BY <1>1, Parts DEF LifeInv, LifeTypeOK
<1>6. LifeInv'
  BY <1>1, <1>3, <1>5, LifeTouched
<1>7. /\ stored'[p] = file /\ left'[p] = ToWrite(p) /\ chmod'[p] = stored[p].mode
      /\ \A q \in Paths \ {p} : /\ stored'[q] = stored[q] /\ work'[q] = work[q]
                                /\ left'[q] = left[q] /\ chmod'[q] = chmod[q]
      /\ left' \in [Paths -> Nat] /\ chmod' \in [Paths -> Modes]
  BY <1>1, <1>2, <1>3 DEF IInv, TypeOK, LifeTypeOK
<1>8. Writing'
  BY <1>1, <1>3, <1>4, <1>7, NoneAssumption, OneWriter
<1> QED
  BY <1>1, <1>6, <1>7, <1>8 DEF IInv, LifeInv, TypeOK

\* So does creating a file.
LEMMA KeepCreateOpen ==
  ASSUME IInv, NEW p \in Paths, CreateOpen(p)
  PROVE  IInv'
<1> DEFINE file == [body |-> <<>>, mode |-> IF stored[p] = None THEN "rw" ELSE stored[p].mode,
                    mtime |-> Now]
<1>1. /\ phase = "create" /\ work[p] = "todo"
      /\ stored' = [stored EXCEPT ![p] = file]
      /\ work' = [work EXCEPT ![p] = "writing"]
      /\ left' = [left EXCEPT ![p] = plan.creates[p]]
      /\ touched' = touched \cup {p} /\ dirs' = dirs \cup DirsOf[p]
      /\ UNCHANGED <<manifest, tmp, op, phase, plan, records, gaveUp, ops, chmod, faults, doubtful>>
  BY DEF CreateOpen, Free, SetWork, storeVars, cmdVars
<1>2. plan.creates[p] \in Nat
  BY <1>1, Parts, CreationFacts
<1>3. file \in Files
  <2>1. stored[p] # None => stored[p].mode \in Modes
    BY DEF IInv, TypeOK, LifeTypeOK, Files
  <2>2. <<>> \in Seq(Cells)
    OBVIOUS
  <2> QED
    BY <2>1, <2>2 DEF Files, Modes
<1>4. Len(file.body) + plan.creates[p] = plan.creates[p]
  BY <1>2
<1> HIDE DEF file
<1>5. LifeInv /\ faults' \in 0..MaxFaults /\ chmod[p] \in Modes
  BY <1>1, Parts DEF LifeInv, LifeTypeOK, IInv, TypeOK
<1>6. LifeInv'
  BY <1>1, <1>3, <1>5, LifeTouched
<1>7. /\ stored'[p] = file /\ left'[p] = plan.creates[p]
      /\ \A q \in Paths \ {p} : /\ stored'[q] = stored[q] /\ work'[q] = work[q]
                                /\ left'[q] = left[q]
      /\ left' \in [Paths -> Nat] /\ chmod' \in [Paths -> Modes]
  BY <1>1, <1>2, <1>3 DEF IInv, TypeOK, LifeTypeOK
<1>8. Writing'
  BY <1>1, <1>3, <1>4, <1>7, NoneAssumption, OneWriter
<1>9. dirs' \subseteq Dirs /\ tmp' \in {"none", "torn", "whole"}
  BY <1>1, DirAssumption DEF IInv, TypeOK
<1> QED
  BY <1>6, <1>7, <1>8, <1>9 DEF IInv, LifeInv, TypeOK

\* So does writing a block.
LEMMA KeepWriteCell ==
  ASSUME IInv, NEW p \in Paths, WriteCell(p)
  PROVE  IInv'
<1> DEFINE file == [stored[p] EXCEPT !.body = Append(@, plan.seed), !.mtime = Now]
<1>1. /\ work[p] = "writing" /\ left[p] > 0
      /\ stored' = [stored EXCEPT ![p] = file]
      /\ left' = [left EXCEPT ![p] = left[p] - 1]
      /\ UNCHANGED <<dirs, manifest, tmp, op, phase, plan, records, work, gaveUp, ops, chmod,
                     faults, touched, doubtful>>
  BY DEF WriteCell, storeVars, cmdVars
<1>2. /\ phase \in {"mutate", "create"} /\ stored[p] \in Files /\ plan.seed \in Cells
      /\ left[p] \in Nat /\ chmod[p] \in Modes /\ touched' = touched \cup {p}
      /\ phase = "create" => Len(stored[p].body) + left[p] = plan.creates[p]
      /\ phase = "mutate" /\ p \notin doubtful =>
           /\ Len(stored[p].body) + left[p] = NewSize(plan.mutations[p], records[p].size)
           /\ chmod[p] = records[p].mode
  BY <1>1, WriterFacts DEF Cells
<1>3. file.body \in Seq(Cells) /\ Len(file.body) = Len(stored[p].body) + 1
      /\ Len(stored[p].body) \in Nat
  BY <1>2 DEF Files
<1>4. file \in Files
  BY <1>2, <1>3 DEF Files
<1>5. left[p] - 1 \in Nat /\ Len(file.body) + (left[p] - 1) = Len(stored[p].body) + left[p]
  BY <1>1, <1>2, <1>3
<1> HIDE DEF file
<1>6. LifeInv /\ faults' \in 0..MaxFaults
  BY <1>1, Parts DEF LifeInv, LifeTypeOK
<1>7. /\ work' = [work EXCEPT ![p] = "writing"]
      /\ stored'[p] = file /\ left'[p] = left[p] - 1
      /\ \A q \in Paths \ {p} : stored'[q] = stored[q] /\ left'[q] = left[q]
      /\ left' \in [Paths -> Nat] /\ chmod' \in [Paths -> Modes]
  BY <1>1, <1>4, <1>5 DEF IInv, TypeOK, LifeTypeOK
<1>8. LifeInv'
  BY <1>1, <1>2, <1>4, <1>6, <1>7, LifeTouched
<1>9. Writing'
  BY <1>1, <1>2, <1>4, <1>5, <1>7, NoneAssumption, OneWriter
<1> QED
  BY <1>1, <1>7, <1>8, <1>9 DEF IInv, LifeInv, TypeOK

\* So does the end of a mutation.
LEMMA KeepFinishMutate ==
  ASSUME IInv, NEW p \in Paths, FinishMutate(p)
  PROVE  IInv'
<1> DEFINE size == NewSize(plan.mutations[p], records[p].size)
           file == [stored[p] EXCEPT !.mode = chmod[p], !.mtime = plan.seed]
           rec == [records[p] EXCEPT !.size = size, !.sum = stored[p].body, !.mtime = plan.seed]
<1>1. /\ phase = "mutate" /\ work[p] = "writing" /\ left[p] = 0
      /\ stored' = [stored EXCEPT ![p] = file] /\ records' = [records EXCEPT ![p] = rec]
      /\ work' = [work EXCEPT ![p] = "done"]
      /\ UNCHANGED <<dirs, manifest, tmp, op, phase, plan, gaveUp, ops, left, chmod,
                     faults, touched, doubtful>>
  BY DEF FinishMutate, Stamp, SetWork, storeVars, cmdVars, jobVars
<1>2. /\ stored[p] \in Files /\ chmod[p] \in Modes /\ plan.seed \in Seeds
      /\ records[p] \in Records /\ plan.mutations[p] \in Actions
      /\ touched' = touched \cup {p}
      /\ p \notin doubtful => Len(stored[p].body) + left[p] = size /\ chmod[p] = records[p].mode
  BY <1>1, WriterFacts, MutationFacts, Parts
<1>3. size \in Nat
  BY <1>2, SizeFacts DEF Records
<1> HIDE DEF size
<1>4. rec \in Records /\ file \in Files
  BY <1>2, <1>3 DEF Records, Files
<1>5. p \notin doubtful => /\ rec.size = Len(file.body) /\ rec.sum = file.body
                          /\ rec.mode = file.mode /\ rec.mtime = file.mtime
  BY <1>1, <1>2, <1>3 DEF Records, Files
<1> HIDE DEF file, rec
<1>6. p \notin doubtful => Describes(rec, file)
  BY <1>4, <1>5, NoneAssumption DEF Describes
<1>7. LifeInv'
  BY <1>1, <1>2, <1>4, <1>6, Parts, LifeFinish
<1>8. Writing'
  <2>1. /\ work'[p] # "writing"
        /\ \A q \in Paths \ {p} : /\ stored'[q] = stored[q] /\ work'[q] = work[q]
                                  /\ records'[q] = records[q]
    BY <1>1 DEF IInv, TypeOK, LifeTypeOK, Inventory
  <2> QED
    BY <1>1, <1>2, <2>1, OneWriter
<1> QED
  BY <1>1, <1>7, <1>8 DEF IInv, LifeInv, TypeOK

\* So does the end of a creation.
LEMMA KeepFinishCreate ==
  ASSUME IInv, NEW p \in Paths, FinishCreate(p)
  PROVE  IInv'
<1> DEFINE file == [stored[p] EXCEPT !.mode = ModeOf[p], !.mtime = plan.seed]
           rec == [size |-> plan.creates[p], sum |-> stored[p].body,
                   mode |-> ModeOf[p], mtime |-> plan.seed]
<1>1. /\ phase = "create" /\ work[p] = "writing" /\ left[p] = 0
      /\ stored' = [stored EXCEPT ![p] = file] /\ records' = [records EXCEPT ![p] = rec]
      /\ work' = [work EXCEPT ![p] = "done"]
      /\ UNCHANGED <<dirs, manifest, tmp, op, phase, plan, gaveUp, ops, left, chmod,
                     faults, touched, doubtful>>
  BY DEF FinishCreate, Stamp, SetWork, storeVars, cmdVars, jobVars
<1>2. /\ stored[p] \in Files /\ plan.seed \in Seeds /\ ModeOf[p] \in Modes
      /\ chmod[p] \in Modes /\ touched' = touched \cup {p}
      /\ plan.creates[p] \in Nat /\ Len(stored[p].body) + left[p] = plan.creates[p]
  BY <1>1, WriterFacts, CreationFacts, NameAssumption, Parts
<1>3. rec \in Records /\ file \in Files
  BY <1>2 DEF Records, Files
<1>4. /\ rec.size = Len(file.body) /\ rec.sum = file.body
      /\ rec.mode = file.mode /\ rec.mtime = file.mtime
  BY <1>1, <1>2 DEF Files
<1> HIDE DEF file, rec
<1>5. Describes(rec, file)
  BY <1>3, <1>4, NoneAssumption DEF Describes
<1>6. LifeInv'
  BY <1>1, <1>2, <1>3, <1>5, Parts, LifeFinish
<1>7. Writing'
  <2>1. /\ work'[p] # "writing"
        /\ \A q \in Paths \ {p} : /\ stored'[q] = stored[q] /\ work'[q] = work[q]
                                  /\ records'[q] = records[q]
    BY <1>1 DEF IInv, TypeOK, LifeTypeOK, Inventory
  <2> QED
    BY <1>1, <1>2, <2>1, OneWriter
<1> QED
  BY <1>1, <1>6, <1>7 DEF IInv, LifeInv, TypeOK

\* So does a worker that fails and leaves the files as they were.
LEMMA KeepFailed ==
  ASSUME IInv, NEW p \in Paths, work[p] \in {"todo", "writing"},
         work' = [work EXCEPT ![p] = "failed"], faults' \in 0..MaxFaults,
         dirs' \subseteq Dirs,
         UNCHANGED <<stored, manifest, tmp, op, phase, plan, records, gaveUp, ops, left, chmod,
                     touched, doubtful>>
  PROVE  IInv'
<1>1. LifeInv'
  BY Parts, LifeFailed
<1>2. Writing'
  BY DEF Writing, IInv, TypeOK, LifeTypeOK
<1> QED
  BY <1>1, <1>2 DEF IInv, LifeInv, TypeOK

\* So does a worker that fails in a system call.
LEMMA KeepWorkerFails ==
  ASSUME IInv, NEW p \in Paths, WorkerFails(p)
  PROVE  IInv'
<1> DEFINE file == [stored[p] EXCEPT !.mode = chmod[p]]
<1>1. /\ work' = [work EXCEPT ![p] = "failed"]
      /\ UNCHANGED <<manifest, tmp, op, phase, plan, records, gaveUp, ops, left, chmod,
                     touched, doubtful>>
  BY DEF WorkerFails, SetWork, storeVars, cmdVars, jobVars
<1>2. faults' \in 0..MaxFaults /\ dirs' \subseteq Dirs
  BY BoundAssumption, DirAssumption DEF WorkerFails, IInv, TypeOK, LifeTypeOK
<1>3. CASE Free(phase, p) /\ UNCHANGED stored
  BY <1>1, <1>2, <1>3, KeepFailed DEF Free
<1>4. CASE work[p] = "writing" /\ phase = "create" /\ UNCHANGED stored
  BY <1>1, <1>2, <1>4, KeepFailed
<1>5. CASE /\ work[p] = "writing" /\ phase = "mutate"
           /\ stored' = [stored EXCEPT ![p].mode = chmod[p]]
  <2>1. stored' = [stored EXCEPT ![p] = file]
    BY <1>5
  <2>2. touched' = touched \cup {p} /\ stored[p] \in Files /\ chmod[p] \in Modes
        /\ left[p] \in Nat
    BY <1>1, <1>5, WriterFacts
  <2>3. file \in Files
    BY <2>2 DEF Files
  <2>4. /\ work'[p] # "writing"
        /\ \A q \in Paths \ {p} : stored'[q] = stored[q] /\ work'[q] = work[q]
    BY <1>1, <2>1 DEF IInv, TypeOK, LifeTypeOK
  <2> HIDE DEF file
  <2>5. LifeInv'
    BY <1>1, <1>2, <1>5, <2>1, <2>2, <2>3, Parts, LifeTouched
  <2>6. Writing'
    BY <1>1, <2>2, <2>4, OneWriter
  <2> QED
    BY <1>1, <1>2, <2>5, <2>6 DEF IInv, LifeInv, TypeOK
<1> QED
  BY <1>3, <1>4, <1>5 DEF WorkerFails

\* So does every worker.
LEMMA KeepWorker ==
  ASSUME IInv, NEW p \in Paths, Worker(p)
  PROVE  IInv'
<1>1. CASE MutateMissing(p)
  <2>1. /\ work[p] = "todo" /\ work' = [work EXCEPT ![p] = "failed"] /\ faults' \in 0..MaxFaults
        /\ dirs' \subseteq Dirs
    BY <1>1 DEF MutateMissing, Free, SetWork, diskVars, IInv, TypeOK, LifeTypeOK
  <2> QED
    BY <1>1, <2>1, KeepFailed DEF MutateMissing, diskVars, storeVars, cmdVars, jobVars
<1>2. CASE CreateDenied(p)
  <2>1. /\ work[p] = "todo" /\ work' = [work EXCEPT ![p] = "failed"] /\ faults' \in 0..MaxFaults
        /\ dirs' \subseteq Dirs
    BY <1>2, DirAssumption DEF CreateDenied, Free, SetWork, IInv, TypeOK, LifeTypeOK
  <2> QED
    BY <1>2, <2>1, KeepFailed DEF CreateDenied, storeVars, cmdVars, jobVars
<1> QED
  BY <1>1, <1>2, KeepDelete, KeepMutateOpen, KeepFinishMutate, KeepCreateOpen,
     KeepFinishCreate, KeepWriteCell DEF Worker

-----------------------------------------------------------------------------
(* The other steps *)

\* So does writing the temporary manifest, and removing the directories.
LEMMA KeepNextPhase ==
  ASSUME IInv, WriteTmp \/ Cleanup
  PROVE  IInv'
<1>1. /\ \/ phase = "save" /\ EnterPhase("publish", {})
         \/ phase = "cleanup" /\ EnterPhase("forget", {})
      /\ UNCHANGED <<stored, manifest, op, plan, records, gaveUp, ops, left, chmod, faults,
                     touched, doubtful>>
  BY DEF WriteTmp, Cleanup, diskVars, storeVars, cmdVars, jobVars
<1>2. LifeInv'
  BY <1>1, Parts, LifeNextPhase
<1>3. Writing'
  BY <1>1, NobodyWrites DEF EnterPhase
<1>4. dirs' \subseteq Dirs /\ tmp' \in {"none", "torn", "whole"}
  BY DEF WriteTmp, Cleanup, diskVars, storeVars, IInv, TypeOK
<1> QED
  BY <1>1, <1>2, <1>3, <1>4 DEF IInv, LifeInv, TypeOK

\* So does the end of a process, however it comes.
LEMMA KeepEnd ==
  ASSUME IInv, Publish \/ Forget \/ Exit \/ Crash
  PROVE  IInv'
<1>1. faults' \in 0..MaxFaults
  BY BoundAssumption DEF Publish, Forget, Exit, Crash, IInv, TypeOK, LifeTypeOK
<1>2. LifeInv'
  BY <1>1, Parts, LifeReplace, LifeRemove, LifeAbandon
  DEF Publish, Forget, Exit, Crash, diskVars, storeVars
<1>3. Writing'
  <2>1. work' = NoWork
    BY DEF Publish, Forget, Exit, Crash, Replace, Remove, Abandon, EndCommand
  <2> QED
    BY <2>1, NobodyWrites DEF NoWork
<1>4. left' \in [Paths -> Nat] /\ chmod' \in [Paths -> Modes]
  BY DEF Publish, Forget, Exit, Crash, ForgetJobs, NoCells, NoModes, Modes
<1>5. dirs' = dirs /\ tmp' \in {"none", "torn", "whole"}
  BY DEF Publish, Forget, Exit, Crash, diskVars, storeVars, IInv, TypeOK
<1> QED
  BY <1>2, <1>3, <1>4, <1>5 DEF IInv, LifeInv, TypeOK

\* So does a failure of the manifest store.
LEMMA KeepStoreFails ==
  ASSUME IInv, StoreFails
  PROVE  IInv'
<1>1. /\ UNCHANGED <<stored, dirs, manifest, op, phase, plan, records, work, left, chmod, ops,
                     touched, doubtful>>
      /\ gaveUp' \in BOOLEAN /\ op # "idle" /\ tmp' \in {"none", "torn", "whole"}
  BY DEF StoreFails, diskVars, jobVars, IInv, TypeOK, Sound, Phases
<1>2. faults' \in 0..MaxFaults
  BY BoundAssumption DEF StoreFails, IInv, TypeOK, LifeTypeOK
<1>3. LifeInv'
  BY <1>1, <1>2, Parts, LifeUnchanged
<1>4. Writing'
  BY <1>1, WritersRest
<1> QED
  BY <1>1, <1>3, <1>4 DEF IInv, LifeInv, TypeOK

\* So do the steps that all targets have in common.
LEMMA KeepCommon ==
  ASSUME IInv, Begin \/ Advance \/ Interrupt, UNCHANGED localVars
  PROVE  IInv'
<1>1. LifeInv'
  BY Parts, LifeCommon
<1>2. ASSUME Begin \/ EndDelete \/ EndMutate \/ EndCreate
      PROVE  Writing'
  <2>1. \A p \in Paths : work'[p] # "writing"
    <3>1. CASE BeginInit
      BY <3>1 DEF BeginInit, EnterPhase
    <3>2. CASE BeginRotate
      BY <3>2 DEF BeginRotate, EnterPhase
    <3>3. CASE BeginDestroy
      BY <3>3 DEF BeginDestroy, EnterPhase
    <3> QED
      BY <1>2, <3>1, <3>2, <3>3 DEF Begin, EndDelete, EndMutate, EndCreate, EnterPhase
  <2> QED
    BY <2>1, NobodyWrites
<1>3. ASSUME GiveUp \/ Interrupt
      PROVE  Writing'
  BY <1>3, WritersRest DEF GiveUp, Interrupt, SeeCancel, localVars, jobVars
<1>4. UNCHANGED <<dirs, tmp, left, chmod>>
  BY DEF localVars, jobVars
<1> QED
  BY <1>1, <1>2, <1>3, <1>4 DEF Advance, IInv, LifeInv, TypeOK

\* Every step keeps the invariant.
LEMMA InvStep == IInv /\ [Next]_vars => IInv'
<1> SUFFICES ASSUME IInv, [Next]_vars PROVE IInv'
  OBVIOUS
<1>1. CASE (Begin \/ Advance \/ Interrupt) /\ UNCHANGED localVars
  BY <1>1, KeepCommon
<1>2. CASE \E p \in Paths : Worker(p) \/ WorkerFails(p)
  BY <1>2, KeepWorker, KeepWorkerFails
<1>3. CASE WriteTmp \/ Cleanup
  BY <1>3, KeepNextPhase
<1>4. CASE Publish \/ Forget \/ Exit \/ Crash
  BY <1>4, KeepEnd
<1>5. CASE StoreFails
  BY <1>5, KeepStoreFails
<1>6. CASE UNCHANGED vars
  <2>1. UNCHANGED <<stored, manifest, op, phase, plan, records, work, gaveUp, ops, faults,
                    touched, doubtful, dirs, tmp, left, chmod>>
    BY <1>6 DEF vars, lifeVars, cmdVars, localVars, jobVars
  <2>2. LifeInv'
    BY <2>1, Parts, LifeUnchanged DEF LifeInv, LifeTypeOK, Sound, Phases
  <2>3. Writing'
    BY <2>1, WritersRest
  <2> QED
    BY <2>1, <2>2, <2>3 DEF IInv, LifeInv, TypeOK
<1> QED
  BY <1>1, <1>2, <1>3, <1>4, <1>5, <1>6 DEF Next, Step

-----------------------------------------------------------------------------
(* The theorems *)

\* The strengthened invariant holds throughout.
THEOREM Inductive == Spec => []IInv
<1>1. Init => IInv
  BY InitInv
<1>2. IInv /\ [Next]_vars => IInv'
  BY InvStep
<1> QED
  BY <1>1, <1>2, PTL DEF Spec

\* Every variable keeps its type: a worker never writes more than was planned,
\* no record is made without a file.
THEOREM TypeCorrect == Spec => []TypeOK
<1>1. IInv => TypeOK
  BY DEF IInv
<1> QED
  BY <1>1, Inductive, PTL

\* Between operations manifest and disk agree about every path that is not in
\* doubt, whatever failed, was interrupted or crashed before.
THEOREM ManifestInStep == Spec => []InStep
<1>1. IInv => InStep
  BY Parts, InStepHolds
<1> QED
  BY <1>1, Inductive, PTL

\* Only Forget removes the manifest, and then its files are gone: a Destroy
\* that stops half-way can be repeated.
THEOREM FilesGoFirst == Spec => ManifestOutlivesFiles
<1> DEFINE Kept == manifest # None /\ manifest' = None =>
                     \A p \in Tracked(manifest.files) : stored[p] = None
<1>1. IInv /\ [Next]_vars => Kept
  <2> SUFFICES ASSUME IInv, [Next]_vars, manifest # None, manifest' = None
               PROVE  \A p \in Tracked(manifest.files) : stored[p] = None
    OBVIOUS
  <2>1. CASE Forget
    BY <2>1, Parts, RemoveFacts DEF Forget
  <2>2. CASE Publish
    BY <2>2, Parts, ReplaceFacts DEF Publish, diskVars
  <2>3. CASE (Begin \/ Advance \/ Interrupt) /\ UNCHANGED localVars
    BY <2>3, CommonFacts
  <2>4. CASE WriteTmp \/ Cleanup \/ StoreFails \/ Exit \/ Crash \/ UNCHANGED vars
    BY <2>4 DEF WriteTmp, Cleanup, StoreFails, Exit, Crash, storeVars, vars, lifeVars
  <2>5. CASE \E p \in Paths : Worker(p) \/ WorkerFails(p)
    BY <2>5 DEF Worker, DeleteFile, MutateOpen, MutateMissing, CreateOpen, CreateDenied,
       WriteCell, FinishMutate, FinishCreate, WorkerFails, storeVars
  <2> QED
    BY <2>1, <2>2, <2>3, <2>4, <2>5 DEF Next, Step
<1> QED
  BY <1>1, Inductive, PTL DEF Spec, ManifestOutlivesFiles

\* Destroy meets no error of its own making: an item of it fails only by a fault,
\* however much of its work an earlier Destroy had done.
THEOREM DestroyIsRepeatable == Spec => DestroyFailsOnlyOnFault
<1> DEFINE OnFault == \A p \in Paths :
              op = "destroy" /\ work[p] # "failed" /\ work'[p] = "failed" => faults' > faults
<1>1. IInv /\ [Next]_vars => OnFault
  <2> SUFFICES ASSUME IInv, [Next]_vars, NEW p \in Paths,
                      op = "destroy", work[p] # "failed", work'[p] = "failed"
               PROVE  faults' > faults
    OBVIOUS
  <2>1. phase \in {"delete", "cleanup", "forget"}
    BY DEF IInv, Sound, Phases
  <2>2. \A q \in Paths : work[q] # "writing"
    BY <2>1 DEF IInv, Sound, Phases
  <2>3. CASE \E q \in Paths : WorkerFails(q)
    BY <2>3, BoundAssumption DEF WorkerFails, IInv, TypeOK, LifeTypeOK
  <2>4. CASE \E q \in Paths : Worker(q)
    BY <2>1, <2>2, <2>4 DEF Worker, DeleteFile, MutateOpen, MutateMissing, CreateOpen,
       CreateDenied, WriteCell, FinishMutate, FinishCreate, Free, SetWork, IInv, TypeOK, LifeTypeOK
  <2>5. CASE (Begin \/ Advance \/ Interrupt) /\ UNCHANGED localVars
    BY <2>5, CommonFacts
  <2>6. CASE WriteTmp \/ Cleanup
    BY <2>6 DEF WriteTmp, Cleanup, EnterPhase
  <2>7. CASE Publish \/ Forget \/ Exit \/ Crash
    BY <2>7 DEF Publish, Forget, Exit, Crash, Replace, Remove, Abandon, EndCommand, NoWork
  <2>8. CASE StoreFails \/ UNCHANGED vars
    BY <2>8 DEF StoreFails, vars, lifeVars
  <2> QED
    BY <2>3, <2>4, <2>5, <2>6, <2>7, <2>8 DEF Next, Step
<1> QED
  BY <1>1, Inductive, PTL DEF Spec, DestroyFailsOnlyOnFault

\* A worker's step is a change of its path, or none that Dataset sees.
LEMMA WorkerChanges ==
  ASSUME IInv, NEW p \in Paths, Worker(p) \/ WorkerFails(p)
  PROVE  [Promise!Next]_(Promise!vars)
<1>1. LifeInv /\ op # "idle"
  BY Parts DEF IInv, Sound, Phases, Items, Worker, WorkerFails, DeleteFile, MutateOpen,
     MutateMissing, CreateOpen, CreateDenied, WriteCell, FinishMutate, FinishCreate, Free
<1>2. CASE DeleteFile(p) \/ MutateOpen(p) \/ CreateOpen(p)
  <2>1. UNCHANGED <<manifest, op, doubtful>> /\ touched' = touched \cup {p}
    BY <1>2 DEF DeleteFile, MutateOpen, CreateOpen, storeVars, cmdVars
  <2>2. \E file : stored' = [stored EXCEPT ![p] = file]
    BY <1>2 DEF DeleteFile, MutateOpen, CreateOpen
  <2> QED
    BY <1>1, <2>1, <2>2, PromiseChange
<1>3. CASE WriteCell(p) \/ FinishMutate(p) \/ FinishCreate(p)
  <2>1. UNCHANGED <<manifest, op, doubtful, touched>> /\ work[p] = "writing"
    BY <1>3 DEF WriteCell, FinishMutate, FinishCreate, storeVars, cmdVars
  <2>2. \E file : stored' = [stored EXCEPT ![p] = file]
    BY <1>3 DEF WriteCell, FinishMutate, FinishCreate, Stamp
  <2> QED
    BY <1>1, <2>1, <2>2, WriterFacts, PromiseChange
<1>4. CASE WorkerFails(p)
  <2>1. UNCHANGED <<manifest, op, doubtful, touched>>
    BY <1>4 DEF WorkerFails, storeVars, cmdVars
  <2>2. CASE UNCHANGED stored
    BY <2>1, <2>2, PromiseStutter
  <2>3. CASE work[p] = "writing" /\ stored' = [stored EXCEPT ![p].mode = chmod[p]]
    <3>1. \E file : stored' = [stored EXCEPT ![p] = file]
      BY <2>3
    <3> QED
      BY <1>1, <2>1, <2>3, <3>1, WriterFacts, PromiseChange
  <2> QED
    BY <1>4, <2>2, <2>3 DEF WorkerFails
<1>5. CASE MutateMissing(p) \/ CreateDenied(p)
  BY <1>5, PromiseStutter DEF MutateMissing, CreateDenied, diskVars, storeVars, cmdVars
<1> QED
  BY <1>2, <1>3, <1>4, <1>5 DEF Worker

\* A step of Fileset is one of Dataset's, or none that Dataset sees.
LEMMA PromiseStep ==
  ASSUME IInv, [Next]_vars
  PROVE  [Promise!Next]_(Promise!vars)
<1>1. LifeInv
  BY Parts
<1>2. CASE (Begin \/ Advance \/ Interrupt) /\ UNCHANGED localVars
  BY <1>2, PromiseCommon
<1>3. CASE \E p \in Paths : Worker(p) \/ WorkerFails(p)
  BY <1>3, WorkerChanges
<1>4. CASE Publish
  BY <1>1, <1>4, PromiseReplace DEF Publish, diskVars
<1>5. CASE Forget
  BY <1>1, <1>5, PromiseRemove DEF Forget, diskVars
<1>6. CASE Exit \/ Crash
  <2>1. op # "idle"
    BY <1>1, <1>6 DEF Exit, Crash, LifeInv, Sound, Phases
  <2> QED
    BY <1>6, <2>1, PromiseAbandon DEF Exit, Crash, diskVars, storeVars
<1>7. CASE WriteTmp \/ Cleanup \/ StoreFails \/ UNCHANGED vars
  BY <1>7, PromiseStutter
  DEF WriteTmp, Cleanup, StoreFails, diskVars, storeVars, cmdVars, vars, lifeVars
<1> QED
  BY <1>2, <1>3, <1>4, <1>5, <1>6, <1>7 DEF Next, Step

\* The fileset commands on a local root keep what Dataset promises.
THEOREM DatasetImplemented == Spec => ImplementsDataset
<1>1. Init => Promise!Init
  BY PromiseInit DEF Init
<1>2. IInv /\ [Next]_vars => [Promise!Next]_(Promise!vars)
  BY PromiseStep
<1> QED
  BY <1>1, <1>2, Inductive, PTL DEF Spec, ImplementsDataset, Promise!Spec

\* At any time, also while an operation runs, what Verify and Rotate read in the manifest is so,
\* of every path that is neither in doubt nor being changed.
THEOREM InventoryHolds == Spec => []Promise!InventoryIsRight
BY DatasetImplemented, PromiseHolds, PTL

-----------------------------------------------------------------------------
(* The user's files *)

\* Paths that plans can name.
Ours == Names \cup {Rename[n] : n \in Names}

\* Nothing else is planned, recorded or listed, and what lies at these paths is
\* datasim's.
Owned ==
    /\ manifest # None => Tracked(manifest.files) \subseteq Ours
    /\ Tracked(records) \subseteq Ours
    /\ Created \subseteq Ours
    /\ \A p \in Ours : ~IsUsers(p)

\* A worker works at a path that plans can name.
LEMMA WorkerOwned ==
  ASSUME IInv, Owned, NEW p \in Paths, work[p] # "none"
  PROVE  p \in Ours
<1>1. p \in plan.deletes \/ p \in Mutated \/ p \in Created
  BY DEF IInv, Sound, Phases, Items
<1>2. op \in {"init", "rotate", "destroy"}
  BY DEF IInv, Sound, Phases, Items, TypeOK, LifeTypeOK
<1> QED
  BY <1>1, <1>2 DEF IInv, Sound, PlanOK, Owned

\* A new plan names no other paths.
LEMMA PlanOwned ==
  ASSUME IInv, Owned, BeginInit \/ BeginRotate
  PROVE  Created' \subseteq Ours
<1>1. CASE BeginInit
  <2>1. PICK chosen \in SUBSET Names :
          \E f : plan'.creates = [p \in Paths |-> IF p \in chosen THEN f[p] ELSE None]
    BY <1>1 DEF BeginInit, NoPlan
  <2> QED
    BY <2>1 DEF Created, Tracked, Ours
<1>2. CASE BeginRotate
  <2>1. PICK chosen \in SUBSET Names :
          \E f : plan'.creates = [p \in Paths |->
             IF \E n \in chosen : RotatedName(n, manifest.files) = p THEN f[p] ELSE None]
    <3>1. PICK chosen \in (SUBSET Names) \ {{}} :
            \E size : plan'.creates = [p \in Paths |->
               IF \E n \in chosen : RotatedName(n, manifest.files) = p
               THEN size[NameOf(p, chosen, manifest.files)] ELSE None]
      BY <1>2 DEF BeginRotate
    <3>2. PICK size :
            plan'.creates = [p \in Paths |->
               IF \E n \in chosen : RotatedName(n, manifest.files) = p
               THEN size[NameOf(p, chosen, manifest.files)] ELSE None]
      BY <3>1
    <3> DEFINE f == [p \in Paths |-> size[NameOf(p, chosen, manifest.files)]]
    <3>3. plan'.creates = [p \in Paths |->
            IF \E n \in chosen : RotatedName(n, manifest.files) = p THEN f[p] ELSE None]
      BY <3>2
    <3> QED
      BY <3>3
  <2>2. \A n \in Names : RotatedName(n, manifest.files) \in Ours
    BY DEF RotatedName, Ours
  <2> QED
    BY <2>1, <2>2 DEF Created, Tracked
<1> QED
  BY <1>1, <1>2

\* A worker leaves the files at other paths alone, and puts no file of the user's.
LEMMA WorkerKeepsOwned ==
  ASSUME IInv, Owned, NEW p \in Paths, Worker(p) \/ WorkerFails(p)
  PROVE  /\ Owned'
         /\ \A q \in Paths \ Ours : stored'[q] = stored[q]
<1>1. p \in Ours
  <2>1. work[p] # "none"
    BY DEF Worker, DeleteFile, MutateOpen, MutateMissing, CreateOpen, CreateDenied, WriteCell,
       FinishMutate, FinishCreate, WorkerFails, Free
  <2> QED
    BY <2>1, WorkerOwned
<1>2. \A q \in Paths \ {p} : stored'[q] = stored[q] /\ records'[q] = records[q]
  BY DEF Worker, DeleteFile, MutateOpen, MutateMissing, CreateOpen, CreateDenied, WriteCell,
     FinishMutate, FinishCreate, WorkerFails, Stamp, diskVars, IInv, TypeOK, LifeTypeOK, Inventory
<1>3. ~OfUser(stored'[p])
  <2>1. ~OfUser(stored[p])
    BY <1>1 DEF Owned, IsUsers
  <2>2. stored \in [Paths -> Files \cup {None}]
    BY DEF IInv, TypeOK, LifeTypeOK
  <2>3. CASE DeleteFile(p) \/ CreateOpen(p)
    BY <2>2, <2>3 DEF DeleteFile, CreateOpen, OfUser
  <2>4. CASE MutateOpen(p)
    <3>1. /\ stored[p] # None /\ stored'[p].body = Opened(p)
          /\ phase = "mutate" /\ work[p] = "todo"
      BY <2>2, <2>4 DEF MutateOpen, Free
    <3>2. /\ plan.mutations[p] \in Actions
          /\ stored[p].body = <<>> \/ stored[p].body[1] # User
      BY <2>1, <3>1, Parts, MutationFacts DEF OfUser
    <3>3. CASE plan.mutations[p] = "truncate"
      <4> DEFINE n == NewSize("truncate", records[p].size)
      <4>1. n \in Nat /\ stored[p].body \in Seq(Cells)
        <5>1. records[p].size \in Nat
          BY <3>1, Parts, MutationFacts DEF Records
        <5> QED
          BY <2>2, <3>1, <5>1, SizeFacts DEF Actions, Files
      <4>2. Opened(p) = Resize(stored[p].body, n)
        BY <3>3 DEF Opened
      <4> HIDE DEF n
      <4>3. n > 0 => Resize(stored[p].body, n)[1] # User
        BY <3>2, <4>1, NoneAssumption DEF Resize
      <4>4. n = 0 => Resize(stored[p].body, n) = <<>>
        BY <4>1, ResizeFacts
      <4> QED
        BY <3>1, <4>1, <4>2, <4>3, <4>4 DEF OfUser
    <3> QED
      BY <3>1, <3>2, <3>3 DEF Opened, Actions, OfUser
  <2>5. CASE WriteCell(p)
    <3>1. /\ stored[p].body \in Seq(Cells) /\ plan.seed \in Cells /\ plan.seed # User
          /\ stored'[p].body = Append(stored[p].body, plan.seed)
      BY <2>2, <2>5, WriterFacts, NoneAssumption DEF WriteCell, Files, Cells
    <3>2. stored[p].body = <<>> \/ stored[p].body[1] # User
      BY <2>1, <2>5, WriterFacts, NoneAssumption DEF WriteCell, OfUser
    <3>3. Append(stored[p].body, plan.seed)[1] # User
      BY <3>1, <3>2
    <3> QED
      BY <3>1, <3>3 DEF OfUser
  <2>6. CASE FinishMutate(p) \/ FinishCreate(p) \/ WorkerFails(p)
    <3>1. CASE stored' = stored
      BY <2>1, <3>1
    <3>2. CASE work[p] = "writing" /\ stored' # stored
      <4>1. stored[p] \in Files /\ stored[p] # None
        BY <3>2, WriterFacts, NoneAssumption
      <4>2. stored'[p].body = stored[p].body
        BY <2>2, <2>6, <3>2, <4>1 DEF FinishMutate, FinishCreate, WorkerFails, Stamp, Files
      <4> QED
        BY <2>1, <4>1, <4>2 DEF OfUser
    <3> QED
      BY <2>6, <3>1, <3>2 DEF FinishMutate, FinishCreate, WorkerFails
  <2>7. CASE MutateMissing(p) \/ CreateDenied(p)
    BY <2>1, <2>7 DEF MutateMissing, CreateDenied, diskVars
  <2> QED
    BY <2>3, <2>4, <2>5, <2>6, <2>7 DEF Worker
<1>4. UNCHANGED <<manifest, plan>>
  BY DEF Worker, DeleteFile, MutateOpen, MutateMissing, CreateOpen, CreateDenied, WriteCell,
     FinishMutate, FinishCreate, WorkerFails, storeVars, cmdVars
<1>5. Owned'
  BY <1>1, <1>2, <1>3, <1>4, NameAssumption DEF Owned, Tracked, Created, IsUsers, Ours
<1> QED
  BY <1>1, <1>2, <1>5

\* Every step keeps these paths datasim's, and leaves the others alone.
LEMMA OwnedStep ==
  ASSUME IInv, Owned, [Next]_vars
  PROVE  /\ Owned'
         /\ \A q \in Paths \ Ours : stored'[q] = stored[q]
<1>1. CASE (Begin \/ Advance \/ Interrupt) /\ UNCHANGED localVars
  <2>1. manifest' = manifest /\ stored' = stored
    BY <1>1 DEF Begin, BeginInit, BeginRotate, BeginDestroy, Advance, EndDelete, EndMutate,
       EndCreate, GiveUp, Interrupt, SeeCancel
  <2>2. Tracked(records') \subseteq Ours
    <3>1. CASE BeginRotate
      BY <3>1 DEF BeginRotate, Owned
    <3>2. CASE EndDelete
      BY <3>2 DEF EndDelete, Owned, Tracked
    <3>3. CASE ~BeginRotate /\ ~EndDelete
      BY <1>1, <3>3 DEF Begin, BeginInit, BeginDestroy, Advance, EndMutate, EndCreate, GiveUp,
         Interrupt, SeeCancel, Owned
    <3> QED
      BY <3>1, <3>2, <3>3
  <2>3. Created' \subseteq Ours
    <3>1. CASE BeginDestroy
      BY <3>1 DEF BeginDestroy, NoPlan, NoFiles, Created, Tracked
    <3>2. CASE Advance \/ Interrupt
      BY <3>2 DEF Advance, EndDelete, EndMutate, EndCreate, GiveUp, Interrupt, SeeCancel, cmdVars,
         Owned, Created
    <3> QED
      BY <1>1, <3>1, <3>2, PlanOwned DEF Begin
  <2> QED
    BY <2>1, <2>2, <2>3 DEF Owned, IsUsers
<1>2. CASE \E p \in Paths : Worker(p) \/ WorkerFails(p)
  BY <1>2, WorkerKeepsOwned
<1>3. CASE Publish \/ Forget \/ Exit \/ Crash
  <2>1. plan' = NoPlan /\ records' = NoFiles /\ stored' = stored
    BY <1>3 DEF Publish, Forget, Exit, Crash, Replace, Remove, Abandon, EndCommand, diskVars
  <2>2. Created' = {} /\ Tracked(records') = {}
    BY <2>1 DEF Created, Tracked, NoPlan, NoFiles
  <2>3. manifest' \in {manifest, None} \/ manifest'.files = records
    BY <1>3 DEF Publish, Forget, Exit, Crash, Replace, Remove, Document, storeVars
  <2> QED
    BY <2>1, <2>2, <2>3 DEF Owned, IsUsers
<1>4. CASE WriteTmp \/ Cleanup \/ StoreFails \/ UNCHANGED vars
  <2>1. UNCHANGED <<stored, manifest, plan, records>>
    BY <1>4 DEF WriteTmp, Cleanup, StoreFails, diskVars, storeVars, cmdVars, vars, lifeVars
  <2> QED
    BY <2>1 DEF Owned, IsUsers, Created
<1> QED
  BY <1>1, <1>2, <1>3, <1>4 DEF Next, Step

\* Where no plan can name a file of the user's, every file of the user's survives
\* every operation, failure and crash: Destroy, too, removes what it lists and
\* the directories that are empty, and nothing else.
THEOREM UserFilesSurvive ==
  ASSUME UserFiles \cap Ours = {}
  PROVE  Spec => UserFilesUntouched
<1> DEFINE Kept == \A p \in Paths : IsUsers(p) => stored'[p] = stored[p]
<1>1. Init => Owned
  <2> SUFFICES ASSUME Init PROVE Owned
    OBVIOUS
  <2>1. Created = {} /\ Tracked(records) = {} /\ manifest = None
    BY DEF Init, LifeInit, NoPlan, NoFiles, Created, Tracked
  <2>2. \A p \in Ours : stored[p] = None
    BY NameAssumption DEF Init, LifeInit, Ours
  <2> QED
    BY <2>1, <2>2 DEF Owned, IsUsers, OfUser
<1>2. IInv /\ Owned /\ [Next]_vars => Owned'
  BY OwnedStep
<1>3. IInv /\ Owned /\ [Next]_vars => Kept
  <2> SUFFICES ASSUME IInv, Owned, [Next]_vars PROVE Kept
    OBVIOUS
  <2>1. \A p \in Paths : IsUsers(p) => p \notin Ours
    BY DEF Owned
  <2> QED
    BY <2>1, OwnedStep
<1>4. Spec => []Owned
  BY <1>1, <1>2, Inductive, PTL DEF Spec
<1> QED
  BY <1>3, <1>4, Inductive, PTL DEF Spec, UserFilesUntouched
=============================================================================
