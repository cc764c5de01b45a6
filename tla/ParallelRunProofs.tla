------------------------- MODULE ParallelRunProofs -------------------------
(***************************************************************************)
(* Proofs about ParallelRun, for every plan length and every worker count. *)
(***************************************************************************)
EXTENDS ParallelRun, FiniteSetTheorems, TLAPS

\* The loop index is below Total whenever a goroutine is about to be spawned.
IndexInRange ==
    /\ pc = "go" => next < Total
    /\ pc = "wait" => next = Total

TypeInv == TypeOK /\ IndexInRange

\* Whoever works holds a slot, and the loop index divides the items that have
\* a goroutine from those that have none.
Slots ==
    /\ \A i \in Items : item[i] \in {"spawned", "working"} => i \in held
    /\ \A i \in Items : item[i] = "idle" <=> i >= next

\* No failure is forgotten: a goroutine gives its slot back only once the
\* group has an error, and the group's first error cancels groupCtx.
Errs ==
    /\ \A i \in Items :
          item[i] \in {"failed", "skipped"} /\ i \notin held => groupErr # NoErr
    /\ groupErr # NoErr => groupDone

\* What runParallel returned, and that it leaves a cancelled groupCtx behind.
Returned ==
    /\ pc # "returned" => result = NoErr
    /\ pc = "returned" => groupDone \/ (Total = 0 /\ result = NoErr)
    /\ SuccessMeansAllDone

\* A cancelled group has a reason, unless Wait cancelled it after a success.
Reason == interrupted \/ In("failed") # {}

Reasons ==
    /\ groupDone => Reason \/ (pc = "returned" /\ result = NoErr)
    /\ In("skipped") # {} => Reason

IInv == TypeInv /\ Slots /\ Errs /\ Returned /\ Reasons

-----------------------------------------------------------------------------

\* The types are kept by every step, given that the loop index is in range.
LEMMA TypeInvStep == TypeInv /\ [Next]_vars => TypeInv'
<1> SUFFICES ASSUME TypeInv, [Next]_vars PROVE TypeInv'
  OBVIOUS
<1> USE TotalAssumption DEF TypeInv, IndexInRange, TypeOK, Errors, Items
<1>1. CASE Enter
  BY <1>1 DEF Enter
<1>2. CASE Check
  BY <1>2 DEF Check, Return
<1>3. CASE Spawn
  BY <1>3 DEF Spawn
<1>4. CASE Wait
  BY <1>4 DEF Wait, Return
<1>5. ASSUME NEW i \in Items, Worker(i) PROVE TypeInv'
  BY <1>5 DEF Worker, Start, Finish, KeepError, Release
<1>6. CASE Interrupt
  BY <1>6 DEF Interrupt
<1>7. CASE UNCHANGED vars
  BY <1>7 DEF vars
<1> QED
  BY <1>1, <1>2, <1>3, <1>4, <1>5, <1>6, <1>7 DEF Next, Dispatcher

\* Slots are kept: only the goroutine of an item moves it out of "working",
\* and it holds its slot until then.
LEMMA SlotsStep == TypeInv /\ Slots /\ [Next]_vars => Slots'
<1> SUFFICES ASSUME TypeInv, Slots, [Next]_vars PROVE Slots'
  OBVIOUS
<1> USE TotalAssumption DEF Slots, TypeInv, TypeOK, Items
<1>1. CASE Enter
  BY <1>1 DEF Enter
<1>2. CASE Check
  BY <1>2 DEF Check
<1>3. CASE Spawn
  BY <1>3 DEF Spawn, IndexInRange
<1>4. CASE Wait
  BY <1>4 DEF Wait
<1>5. ASSUME NEW i \in Items, Worker(i) PROVE Slots'
  <2>1. CASE Start(i)
    BY <2>1 DEF Start
  <2>2. CASE Finish(i)
    BY <2>2 DEF Finish
  <2>3. CASE KeepError(i)
    BY <2>3 DEF KeepError
  <2>4. CASE Release(i)
    BY <2>4 DEF Release
  <2> QED
    BY <1>5, <2>1, <2>2, <2>3, <2>4 DEF Worker
<1>6. CASE Interrupt
  BY <1>6 DEF Interrupt
<1>7. CASE UNCHANGED vars
  BY <1>7 DEF vars
<1> QED
  BY <1>1, <1>2, <1>3, <1>4, <1>5, <1>6, <1>7 DEF Next, Dispatcher

\* Errs is kept: errgroup records the error of a goroutine before it frees
\* the slot.
LEMMA ErrsStep == TypeInv /\ Slots /\ Errs /\ [Next]_vars => Errs'
<1> SUFFICES ASSUME TypeInv, Slots, Errs, [Next]_vars PROVE Errs'
  OBVIOUS
<1> USE ErrAssumption DEF Errs, TypeInv, TypeOK
<1>1. CASE Enter
  BY <1>1 DEF Enter
<1>2. CASE Check
  BY <1>2 DEF Check
<1>3. CASE Spawn
  BY <1>3 DEF Spawn
<1>4. CASE Wait
  BY <1>4 DEF Wait
<1>5. ASSUME NEW i \in Items, Worker(i) PROVE Errs'
  <2>1. CASE Start(i)
    BY <2>1 DEF Start, Slots
  <2>2. CASE Finish(i)
    BY <2>2 DEF Finish, Slots
  <2>3. CASE KeepError(i)
    BY <2>3 DEF KeepError
  <2>4. CASE Release(i)
    BY <2>4 DEF Release
  <2> QED
    BY <1>5, <2>1, <2>2, <2>3, <2>4 DEF Worker
<1>6. CASE Interrupt
  BY <1>6 DEF Interrupt
<1>7. CASE UNCHANGED vars
  BY <1>7 DEF vars
<1> QED
  BY <1>1, <1>2, <1>3, <1>4, <1>5, <1>6, <1>7 DEF Next, Dispatcher

\* When Wait finds no error, every item was done.
LEMMA NothingLeft ==
  ASSUME TypeInv, Slots, Errs, pc = "wait", held = {}, groupErr = NoErr
  PROVE  In("done") = Items
<1>1. \A i \in Items : item[i] = "done"
  BY TotalAssumption DEF TypeInv, IndexInRange, TypeOK, Slots, Errs, Items
<1> QED
  BY <1>1 DEF In

\* Returned is kept: no step changes an item that is done, and nobody holds a
\* slot once a success was returned.
LEMMA ReturnedStep ==
  TypeInv /\ Slots /\ Errs /\ Returned /\ [Next]_vars => Returned'
<1> SUFFICES ASSUME TypeInv, Slots, Errs, Returned, [Next]_vars PROVE Returned'
  OBVIOUS
<1> USE TotalAssumption, ErrAssumption DEF Returned, TypeInv, TypeOK, SuccessMeansAllDone
<1>1. CASE Enter
  <2>1. Total = 0 => Items = {} /\ held = {}
    BY DEF Items
  <2> QED
    BY <1>1, <2>1 DEF Enter, In
<1>2. CASE Check
  BY <1>2 DEF Check, Return, In
<1>3. CASE Spawn
  BY <1>3 DEF Spawn
<1>4. CASE Wait
  <2>1. groupErr = NoErr => In("done") = Items
    BY <1>4, NothingLeft DEF Wait
  <2> QED
    BY <1>4, <2>1 DEF Wait, Return, In
<1>5. ASSUME NEW i \in Items, Worker(i) PROVE Returned'
  <2>1. CASE Start(i)
    BY <2>1 DEF Start, In
  <2>2. CASE Finish(i)
    BY <2>2 DEF Finish, In
  <2>3. CASE KeepError(i)
    BY <2>3 DEF KeepError, In
  <2>4. CASE Release(i)
    BY <2>4 DEF Release, In
  <2> QED
    BY <1>5, <2>1, <2>2, <2>3, <2>4 DEF Worker
<1>6. CASE Interrupt
  BY <1>6 DEF Interrupt, In
<1>7. CASE UNCHANGED vars
  BY <1>7 DEF vars, In
<1> QED
  BY <1>1, <1>2, <1>3, <1>4, <1>5, <1>6, <1>7 DEF Next, Dispatcher

\* A failed item stays failed, and an interruption is never undone.
LEMMA ReasonStays == TypeInv /\ Slots /\ [Next]_vars /\ Reason => Reason'
<1> SUFFICES ASSUME TypeInv, Slots, [Next]_vars, Reason PROVE Reason'
  OBVIOUS
<1> USE DEF Reason, In, TypeInv, TypeOK
<1>1. CASE Enter
  BY <1>1 DEF Enter
<1>2. CASE Check
  BY <1>2 DEF Check
<1>3. CASE Spawn
  <2>1. next \in Items /\ item[next] = "idle"
    BY <1>3, TotalAssumption DEF Spawn, IndexInRange, Items, Slots
  <2> QED
    BY <1>3, <2>1 DEF Spawn
<1>4. CASE Wait
  BY <1>4 DEF Wait
<1>5. ASSUME NEW i \in Items, Worker(i) PROVE Reason'
  BY <1>5 DEF Worker, Start, Finish, KeepError, Release
<1>6. CASE Interrupt
  BY <1>6 DEF Interrupt
<1>7. CASE UNCHANGED vars
  BY <1>7 DEF vars
<1> QED
  BY <1>1, <1>2, <1>3, <1>4, <1>5, <1>6, <1>7 DEF Next, Dispatcher

\* Reasons are kept: groupCtx is cancelled by the caller, by the first error,
\* which is a failure or a goroutine that found groupCtx cancelled before, or
\* by Wait.
LEMMA ReasonsStep == IInv /\ [Next]_vars => Reasons'
<1> SUFFICES ASSUME IInv, [Next]_vars PROVE Reasons'
  OBVIOUS
<1>0. Reason => Reason'
  BY ReasonStays DEF IInv
<1> USE ErrAssumption DEF IInv, Reasons
<1>1. CASE Enter
  <2>1. groupDone => Reason
    BY <1>1 DEF Enter
  <2> QED
    BY <1>0, <1>1, <2>1 DEF Enter, In
<1>2. CASE Check
  <2>1. groupDone => Reason
    BY <1>2 DEF Check
  <2> QED
    BY <1>0, <1>2, <2>1 DEF Check, In
<1>3. CASE Spawn
  <2>1. groupDone => Reason
    BY <1>3 DEF Spawn
  <2>2. In("skipped")' \subseteq In("skipped")
    BY <1>3 DEF Spawn, In, TypeInv, TypeOK
  <2> QED
    BY <1>0, <1>3, <2>1, <2>2 DEF Spawn
<1>4. CASE Wait
  <2>1. groupErr # NoErr => Reason
    BY <1>4 DEF Wait, Errs
  <2> QED
    BY <1>0, <1>4, <2>1 DEF Wait, Return, In
<1>5. ASSUME NEW i \in Items, Worker(i) PROVE Reasons'
  <2>1. CASE Start(i)
    <3>1. groupDone => Reason
      BY <2>1 DEF Start, Returned, SuccessMeansAllDone, In
    <3>2. CASE groupDone
      BY <1>0, <2>1, <3>1, <3>2
    <3>3. CASE ~groupDone
      <4>1. In("skipped")' \subseteq In("skipped")
        BY <2>1, <3>3 DEF Start, In, TypeInv, TypeOK
      <4> QED
        BY <1>0, <2>1, <3>3, <4>1 DEF Start
    <3> QED
      BY <3>2, <3>3
  <2>2. CASE Finish(i)
    <3>1. In("skipped")' \subseteq In("skipped")
      BY <2>2 DEF Finish, In, TypeInv, TypeOK
    <3> QED
      BY <1>0, <2>2, <3>1 DEF Finish
  <2>3. CASE KeepError(i)
    <3>1. Reason
      BY <2>3 DEF KeepError, Reason, In
    <3> QED
      BY <1>0, <3>1
  <2>4. CASE Release(i)
    <3>1. In("skipped")' = In("skipped")
      BY <2>4 DEF Release, In
    <3> QED
      BY <1>0, <2>4, <3>1 DEF Release
  <2> QED
    BY <1>5, <2>1, <2>2, <2>3, <2>4 DEF Worker
<1>6. CASE Interrupt
  BY <1>6 DEF Interrupt, Reason
<1>7. CASE UNCHANGED vars
  BY <1>0, <1>7 DEF vars, In
<1> QED
  BY <1>1, <1>2, <1>3, <1>4, <1>5, <1>6, <1>7 DEF Next, Dispatcher

\* The inductive invariant of runParallel: the loop index, the slots, the kept
\* error, the returned error and the reason of a cancellation stay in step.
THEOREM Inductive == Spec => []IInv
<1>1. Init => IInv
  <2> SUFFICES ASSUME Init PROVE IInv
    OBVIOUS
  <2> USE TotalAssumption, ErrAssumption DEF Init
  <2>1. TypeInv
    BY DEF TypeInv, TypeOK, IndexInRange, Errors, Items
  <2>2. Slots
    BY DEF Slots, Items
  <2>3. Errs
    BY DEF Errs
  <2>4. Returned
    BY DEF Returned, SuccessMeansAllDone
  <2>5. Reasons
    BY DEF Reasons, Reason, In
  <2> QED
    BY <2>1, <2>2, <2>3, <2>4, <2>5 DEF IInv
<1>2. IInv /\ [Next]_vars => IInv'
  BY TypeInvStep, SlotsStep, ErrsStep, ReturnedStep, ReasonsStep DEF IInv
<1> QED
  BY <1>1, <1>2, PTL DEF Spec

\* The variables that runParallel keeps stay of their types.
THEOREM TypeCorrect == Spec => []TypeOK
<1>1. IInv => TypeOK
  BY DEF IInv, TypeInv
<1> QED
  BY <1>1, Inductive, PTL

\* A nil error means that every fn ran to its end and none is left running,
\* whatever the plan's length, the worker count and the order of the workers.
THEOREM SuccessIsComplete == Spec => []SuccessMeansAllDone
<1>1. IInv => SuccessMeansAllDone
  BY DEF IInv, Returned
<1> QED
  BY <1>1, Inductive, PTL

\* runParallel never makes a cancellation up.
THEOREM CancellationIsExplained == Spec => []CanceledIsExplained
<1>1. IInv => CanceledIsExplained
  BY ErrAssumption DEF IInv, Returned, Reasons, Reason, CanceledIsExplained
<1> QED
  BY <1>1, Inductive, PTL

\* After runParallel returned nobody starts to work: only a goroutine of an
\* early return is left, and it finds groupCtx cancelled.
THEOREM ReturnEndsWork == Spec => NoNewWorkAfterReturn
<1>1. IInv /\ [Next]_vars =>
        [pc = "returned" => In("working")' \subseteq In("working")]_vars
  <2> SUFFICES ASSUME IInv, Next, pc = "returned"
               PROVE  In("working")' \subseteq In("working")
    BY DEF vars
  <2> USE DEF In, IInv, TypeInv, TypeOK
  <2>1. CASE Dispatcher
    BY <2>1 DEF Dispatcher, Enter, Check, Spawn, Wait
  <2>2. ASSUME NEW i \in Items, Worker(i)
        PROVE  In("working")' \subseteq In("working")
    <3>1. CASE Start(i)
      <4>1. groupDone
        BY TotalAssumption DEF Returned, Items
      <4> QED
        BY <3>1, <4>1 DEF Start
    <3> QED
      BY <2>2, <3>1 DEF Worker, Finish, KeepError, Release
  <2>3. CASE Interrupt
    BY <2>3 DEF Interrupt
  <2> QED
    BY <2>1, <2>2, <2>3 DEF Next
<1> QED
  BY <1>1, Inductive, PTL DEF Spec, NoNewWorkAfterReturn

-----------------------------------------------------------------------------

\* normalizeWorkerCount yields a positive number of workers.
LEMMA WorkerCountPositive == WorkerCount \in Nat \ {0}
  BY TotalAssumption, WorkersAssumption DEF WorkerCount

Bound == IsFiniteSet(held) /\ BoundedWorkers

\* A goroutine is counted from the moment it is spawned to the moment it
\* releases its slot, so the group's limit bounds the slots in use.
LEMMA BoundInductive == Spec => []Bound
<1>1. Init => Bound
  BY FS_EmptySet, WorkerCountPositive DEF Init, Bound, BoundedWorkers
<1>2. Bound /\ [Next]_vars => Bound'
  <2> SUFFICES ASSUME Bound, [Next]_vars PROVE Bound'
    OBVIOUS
  <2> USE WorkerCountPositive DEF Bound, BoundedWorkers
  <2>1. CASE Spawn
    <3>1. Cardinality(held) \in Nat /\ Cardinality(held) < WorkerCount
      BY <2>1, FS_CardinalityType DEF Spawn
    <3>2. held' = held \cup {next}
      BY <2>1 DEF Spawn
    <3>3. IsFiniteSet(held')
      BY <3>2, FS_AddElement
    <3>4. Cardinality(held') <= WorkerCount
      BY <3>1, <3>2, FS_AddElement
    <3> QED
      BY <3>3, <3>4
  <2>2. ASSUME NEW i \in Items, Release(i) PROVE Bound'
    <3>1. IsFiniteSet(held \ {i})
      BY FS_RemoveElement
    <3>2. Cardinality(held \ {i}) <= Cardinality(held)
      BY FS_Subset
    <3>3. Cardinality(held) \in Nat /\ Cardinality(held \ {i}) \in Nat
      BY <3>1, FS_CardinalityType
    <3> QED
      BY <2>2, <3>1, <3>2, <3>3 DEF Release
  <2>3. CASE UNCHANGED held
    BY <2>3
  <2> QED
    BY <2>1, <2>2, <2>3 DEF Next, Dispatcher, Worker, Enter, Check, Wait, Start,
       Finish, KeepError, Interrupt, vars
<1> QED
  BY <1>1, <1>2, PTL DEF Spec

\* The slots in use never exceed the limit.
THEOREM WorkersAreBounded == Spec => []BoundedWorkers
<1>1. Bound => BoundedWorkers
  BY DEF Bound
<1> QED
  BY <1>1, BoundInductive, PTL

-----------------------------------------------------------------------------
(* runParallel implements Batch. *)

\* Who starts to work takes one of the abstract running places.
LEMMA StartHasRoom ==
  ASSUME IInv, Bound, NEW i \in Items, item[i] = "spawned"
  PROVE  Cardinality(In("working")) < WorkerCount
<1>1. In("working") \in SUBSET (held \ {i}) /\ i \in held
  BY DEF IInv, Slots, In
<1>2. IsFiniteSet(held \ {i}) /\ Cardinality(held \ {i}) = Cardinality(held) - 1
  BY <1>1, FS_RemoveElement DEF Bound
<1>3. /\ IsFiniteSet(In("working"))
      /\ Cardinality(In("working")) <= Cardinality(held \ {i})
  BY <1>1, <1>2, FS_Subset
<1>4. Cardinality(held) \in Nat /\ Cardinality(In("working")) \in Nat
  BY <1>3, FS_CardinalityType DEF Bound
<1> QED
  BY <1>2, <1>3, <1>4, WorkerCountPositive DEF Bound, BoundedWorkers

\* runParallel implements Batch, step by step.
THEOREM Implementation == Spec => ImplementsBatch
<1>1. Init => B!Init
  BY DEF Init, B!Init, absWork, absOutcome
<1>2. IInv /\ Bound /\ [Next]_vars => [B!Next]_(B!vars)
  <2> SUFFICES ASSUME IInv, Bound, [Next]_vars PROVE [B!Next]_(B!vars)
    OBVIOUS
  <2> USE ErrAssumption
  <2>0. item \in [Items -> {"idle", "spawned", "working", "done", "failed", "skipped"}]
    BY DEF IInv, TypeInv, TypeOK
  <2>1. CASE Enter
    <3>1. UNCHANGED <<absWork, interrupted>>
      BY <2>1 DEF Enter, absWork
    <3>2. CASE Total = 0
      <4>1. B!In("done") = Items
        BY <3>2 DEF B!In, Items
      <4>2. absOutcome = "none" /\ absOutcome' = "ok"
        BY <2>1, <3>2 DEF Enter, absOutcome, IInv, Returned
      <4> QED
        BY <3>1, <4>1, <4>2 DEF B!Next, B!Succeed
    <3>3. CASE Total # 0
      BY <2>1, <3>1, <3>3 DEF Enter, absOutcome, B!vars
    <3> QED
      BY <3>2, <3>3
  <2>2. CASE Check
    <3>1. UNCHANGED <<absWork, interrupted>>
      BY <2>2 DEF Check, absWork
    <3>2. CASE pc' = "returned"
      <4>1. Reason
        BY <2>2, <3>2 DEF Check, IInv, Reasons
      <4>2. interrupted \/ B!In("failed") # {}
        BY <4>1, <2>0 DEF Reason, In, B!In, absWork
      <4>3. absOutcome = "none" /\ absOutcome' = "err"
        BY <2>2, <3>2 DEF Check, Return, absOutcome
      <4> QED
        BY <3>1, <4>2, <4>3 DEF B!Next, B!GiveUp
    <3>3. CASE pc' # "returned"
      BY <2>2, <3>1, <3>3 DEF Check, absOutcome, B!vars
    <3> QED
      BY <3>2, <3>3
  <2>3. CASE Spawn
    <3>1. next \in Items => item[next] = "idle"
      BY <2>3 DEF IInv, Slots, TypeInv, TypeOK, Items
    <3>2. UNCHANGED <<interrupted, absOutcome>>
      BY <2>3 DEF Spawn, absOutcome
    <3>3. \A i \in Items : absWork'[i] = absWork[i]
      BY <2>0, <2>3, <3>1 DEF Spawn, absWork
    <3>4. UNCHANGED absWork
      BY <3>3 DEF absWork
    <3> QED
      BY <3>2, <3>4 DEF B!vars
  <2>4. CASE Wait
    <3>1. UNCHANGED <<absWork, interrupted>> /\ absOutcome = "none"
      BY <2>4 DEF Wait, absWork, absOutcome
    <3>2. CASE groupErr = NoErr
      <4>1. In("done") = Items
        BY <2>4, <3>2, NothingLeft DEF Wait, IInv
      <4>2. B!In("done") = Items
        BY <2>0, <4>1 DEF In, B!In, absWork
      <4>3. absOutcome' = "ok"
        BY <2>4, <3>2 DEF Wait, Return, absOutcome
      <4> QED
        BY <3>1, <4>2, <4>3 DEF B!Next, B!Succeed
    <3>3. CASE groupErr # NoErr
      <4>1. Reason
        BY <2>4, <3>3 DEF Wait, IInv, Errs, Reasons
      <4>2. interrupted \/ B!In("failed") # {}
        BY <4>1, <2>0 DEF Reason, In, B!In, absWork
      <4>3. absOutcome' = "err"
        BY <2>4, <3>3 DEF Wait, Return, absOutcome
      <4> QED
        BY <3>1, <4>2, <4>3 DEF B!Next, B!GiveUp
    <3> QED
      BY <3>2, <3>3
  <2>5. ASSUME NEW i \in Items, Worker(i) PROVE [B!Next]_(B!vars)
    <3>1. CASE Start(i) /\ groupDone
      BY <2>0, <3>1 DEF Start, absWork, absOutcome, B!vars
    <3>2. CASE Start(i) /\ ~groupDone
      <4>1. B!Cardinality(B!In("running")) < WorkerCount
        <5>1. B!In("running") = In("working")
          BY <2>0 DEF B!In, In, absWork
        <5> QED
          BY <3>2, <5>1, StartHasRoom DEF Start, B!Cardinality, Cardinality
      <4>2. absOutcome = "none"
        BY <3>2, TotalAssumption DEF absOutcome, IInv, Returned, Items
      <4>3. /\ absWork[i] = "todo"
            /\ absWork' = [absWork EXCEPT ![i] = "running"]
            /\ UNCHANGED <<interrupted, absOutcome>>
        BY <2>0, <3>2 DEF Start, absWork, absOutcome
      <4> QED
        BY <4>1, <4>2, <4>3 DEF B!Next, B!Begin
    <3>3. CASE Finish(i)
      <4>1. PICK s \in {"done", "failed"} : item' = [item EXCEPT ![i] = s]
        BY <3>3 DEF Finish
      <4>2. /\ absWork[i] = "running"
            /\ absWork' = [absWork EXCEPT ![i] = s]
            /\ UNCHANGED <<interrupted, absOutcome>>
        BY <2>0, <3>3, <4>1 DEF Finish, absWork, absOutcome
      <4> QED
        BY <4>2 DEF B!Next, B!End
    <3>4. CASE KeepError(i) \/ Release(i)
      BY <3>4 DEF KeepError, Release, absWork, absOutcome, B!vars
    <3> QED
      BY <2>5, <3>1, <3>2, <3>3, <3>4 DEF Worker
  <2>6. CASE Interrupt
    BY <2>6 DEF Interrupt, absWork, absOutcome, B!Next, B!Interrupt
  <2>7. CASE UNCHANGED vars
    BY <2>7 DEF vars, absWork, absOutcome, B!vars
  <2> QED
    BY <2>1, <2>2, <2>3, <2>4, <2>5, <2>6, <2>7 DEF Next, Dispatcher
<1> QED
  BY <1>1, <1>2, Inductive, BoundInductive, PTL DEF Spec, ImplementsBatch, B!Spec
=============================================================================
