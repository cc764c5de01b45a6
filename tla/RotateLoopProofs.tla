-------------------------- MODULE RotateLoopProofs --------------------------
(***************************************************************************)
(* Proofs about RotateLoop, for any limit, interval, number of rotations   *)
(* and faults, and whatever other commands run while the loop waits.       *)
(* The invariant of FilesetProofs carries over: the loop takes the steps   *)
(* of Fileset and one more, the look at its cancelled context.             *)
(***************************************************************************)
EXTENDS RotateLoop, FilesetProofs

\* What the counters of the loop say of each other.
Counting ==
    /\ loop \in {"off", "rotating", "waiting", "finished", "stopped", "failed", "lost", "killed"}
    /\ limit \in Nat /\ round \in Nat /\ saved \in Nat
    /\ limit > 0 => round <= limit
    /\ Own => round = saved + 1
    /\ loop \in {"waiting", "stopped"} => saved = round
    /\ loop = "waiting" /\ limit > 0 => round < limit
    /\ loop = "finished" => saved = limit

\* The loop's rotation is the one that runs.
Owning == Own => op = "rotate"

\* What makes a rotation of the loop fail.
Excuse == canceled \/ faults > 0 \/ doubtful # {}

Blaming ==
    Own /\ Privileged =>
        /\ gaveUp => Excuse
        /\ (\E p \in Paths : work[p] = "failed") => Excuse

\* A rotation creates a file, and has touched what it has begun to create.
Creating ==
    op = "rotate" =>
        /\ Created # {}
        /\ \A p \in Created :
              \/ phase = "create" /\ work[p] \in {"writing", "done"}
              \/ phase \in {"save", "publish"}
              => p \in touched

\* A loop that was interrupted between two rotations begins no item any more.
Resting ==
    /\ canceled \in BOOLEAN /\ calm \in BOOLEAN
    /\ calm => canceled
    /\ calm /\ Own => touched = {} /\ Busy = {}

LoopInv == Counting /\ Owning /\ Blaming /\ Creating /\ Resting

\* A batch of the loop sees that the context is cancelled.
LoopSeesCancel == Held /\ SeeCancel /\ UNCHANGED <<localVars, faults>>

-----------------------------------------------------------------------------
(* The steps of the loop are those of Fileset *)

\* Every step of the loop is one of Fileset, or that look.
LEMMA LoopSteps ==
  ASSUME [LoopNext]_allVars
  PROVE  [Next]_vars \/ LoopSeesCancel
<1>1. CASE StartLoop \/ NextRound \/ OthersBegin
  BY <1>1 DEF StartLoop, NextRound, OthersBegin, Begin, Next
<1>2. CASE RoundDone \/ RoundFails \/ Killed
  BY <1>2 DEF RoundDone, RoundFails, Killed, Next, Step
<1>3. CASE NextRoundFails \/ Stop \/ Cancel
  BY <1>3 DEF NextRoundFails, Stop, Cancel
<1>4. CASE Work
  BY <1>4 DEF Work, LoopSeesCancel, Next, Step
<1>5. CASE OthersEnd \/ Failures \/ StoreFails \/ Crash
  BY <1>5 DEF OthersEnd, Failures, Next, Step
<1>6. CASE UNCHANGED allVars
  BY <1>6 DEF allVars
<1> QED
  BY <1>1, <1>2, <1>3, <1>4, <1>5, <1>6 DEF LoopNext, LoopStep

\* So the loop keeps the invariant of Fileset.
LEMMA LoopKeeps ==
  ASSUME IInv, [LoopNext]_allVars
  PROVE  IInv'
<1>1. CASE LoopSeesCancel
  <2>1. LifeInv'
    BY <1>1, Parts, LifeUnchanged DEF LoopSeesCancel, SeeCancel, LifeInv, LifeTypeOK
  <2>2. Writing'
    BY <1>1, WritersRest DEF LoopSeesCancel, SeeCancel, localVars, jobVars
  <2>3. UNCHANGED <<dirs, tmp, left, chmod>>
    BY <1>1 DEF LoopSeesCancel, localVars, jobVars
  <2> QED
    BY <2>1, <2>2, <2>3 DEF IInv, LifeInv, TypeOK
<1> QED
  BY <1>1, LoopSteps, InvStep

\* A worker that is at work belongs to an operation, and a rotation has no such directory phase.
LEMMA Running ==
  ASSUME IInv
  PROVE  /\ op = "idle" => /\ phase = "idle" /\ touched = {} /\ ~gaveUp
                           /\ \A p \in Paths : work[p] = "none"
         /\ op = "rotate" => phase \in {"delete", "mutate", "create", "save", "publish"}
         /\ faults \in Nat
BY BoundAssumption DEF IInv, Sound, Phases, Items, TypeOK, LifeTypeOK

-----------------------------------------------------------------------------
(* The counters, and whose rotation it is *)

\* Every step keeps what the counters say.
LEMMA CountingStep ==
  ASSUME IInv, Counting, Owning, [LoopNext]_allVars
  PROVE  Counting' /\ Owning'
<1>1. CASE StartLoop
  <2>1. loop' = "rotating" /\ limit' \in Limits /\ round' = 1 /\ saved' = 0 /\ op' = "rotate"
    BY <1>1 DEF StartLoop, Enter, BeginRotate, Launch
  <2> QED
    BY <2>1, LoopAssumption DEF Counting, Owning, Own
<1>2. CASE RoundDone
  BY <1>2 DEF RoundDone, LastRound, Counting, Owning, Own
<1>3. CASE NextRound
  <2>1. op' = "rotate" /\ loop = "waiting"
    BY <1>3 DEF NextRound, TimerWins, BeginRotate, Launch
  <2> QED
    BY <1>3, <2>1 DEF NextRound, Counting, Owning, Own
<1>4. CASE NextRoundFails \/ Stop \/ RoundFails \/ Killed
  BY <1>4 DEF NextRoundFails, TimerWins, Stop, RoundFails, Killed, Counting, Owning, Own
<1>5. CASE Cancel \/ UNCHANGED allVars
  BY <1>5 DEF Cancel, Counting, Owning, Own, allVars, loopVars, vars, lifeVars, cmdVars
<1>6. CASE OthersBegin
  <2>1. op = "idle"
    BY <1>6 DEF OthersBegin, Begin, BeginInit, BeginRotate, BeginDestroy, Launch
  <2>2. ~Own
    BY <2>1 DEF Owning
  <2> QED
    BY <1>6, <2>2 DEF OthersBegin, Enter, Counting, Owning, Own, Alive, loopVars
<1>7. CASE (Work \/ OthersEnd \/ Failures \/ StoreFails) /\ UNCHANGED loopVars
  <2>1. op' = op \/ ~Own
    BY <1>7 DEF Work, OthersEnd, Failures, StoreFails, Worker, WorkerFails, DeleteFile, MutateOpen,
       MutateMissing, CreateOpen, CreateDenied, WriteCell, FinishMutate, FinishCreate, Advance,
       EndDelete, EndMutate, EndCreate, GiveUp, SeeCancel, WriteTmp, Cleanup, cmdVars
  <2> QED
    BY <1>7, <2>1 DEF Counting, Owning, Own, loopVars
<1>8. CASE ~Own /\ Crash /\ UNCHANGED loopVars
  BY <1>8 DEF Counting, Owning, Own, loopVars
<1> QED
  BY <1>1, <1>2, <1>3, <1>4, <1>5, <1>6, <1>7, <1>8 DEF LoopNext, LoopStep, OthersEnd

-----------------------------------------------------------------------------
(* Why a rotation of the loop fails *)

\* As root, an item of a rotation fails by a fault only, or at a path in doubt.
LEMMA ItemFails ==
  ASSUME IInv, op = "rotate", Privileged, doubtful = {}, NEW p \in Paths, Worker(p),
         NEW q \in Paths, work[q] # "failed"
  PROVE  work'[q] # "failed"
<1>1. ~MutateMissing(p)
  <2> SUFFICES ASSUME MutateMissing(p) PROVE FALSE
    OBVIOUS
  <2>1. work[p] = "todo" /\ phase = "mutate" /\ stored[p] = None
    BY DEF MutateMissing, Free
  <2>2. p \in Mutated /\ p \notin plan.deletes /\ Listed(p) \in Records
    BY <2>1, Parts, MutationFacts
  <2>3. p \notin touched
    BY <2>1, <2>2 DEF IInv, Sound, TouchedOK, Untouched
  <2> QED
    BY <2>1, <2>2, <2>3, NoneAssumption DEF IInv, Sound, Agreement, Agrees, Describes
<1>2. ~CreateDenied(p)
  BY DEF CreateDenied, Denied
<1> QED
  BY <1>1, <1>2 DEF Worker, DeleteFile, MutateOpen, CreateOpen, WriteCell, FinishMutate,
     FinishCreate, SetWork, IInv, TypeOK, LifeTypeOK

\* Every step keeps the reasons.
LEMMA BlamingStep ==
  ASSUME IInv, Owning, Blaming, [LoopNext]_allVars
  PROVE  Blaming'
<1>1. CASE StartLoop \/ NextRound
  <2>1. op = "idle" /\ gaveUp' = gaveUp /\ \A p \in Paths : work'[p] # "failed"
    BY <1>1 DEF StartLoop, NextRound, BeginRotate, Launch, EnterPhase
  <2>2. ~gaveUp'
    BY <2>1, Running
  <2> QED
    BY <2>1, <2>2 DEF Blaming
<1>2. CASE RoundDone \/ NextRoundFails \/ Stop \/ RoundFails \/ Killed
  BY <1>2 DEF RoundDone, NextRoundFails, Stop, RoundFails, Killed, Blaming, Own
<1>3. CASE Cancel
  BY <1>3 DEF Cancel, Blaming, Excuse
<1>4. CASE OthersBegin
  <2>1. op = "idle"
    BY <1>4 DEF OthersBegin, Begin, BeginInit, BeginRotate, BeginDestroy, Launch
  <2>2. ~Own
    BY <2>1 DEF Owning
  <2>3. ~Own'
    BY <1>4, <2>2 DEF OthersBegin, Enter, Own, Alive, loopVars
  <2> QED
    BY <2>3 DEF Blaming
<1>5. CASE Work /\ UNCHANGED loopVars
  <2> SUFFICES ASSUME Own, Privileged, ~Excuse
               PROVE  ~gaveUp' /\ \A p \in Paths : work'[p] # "failed"
    <3>1. UNCHANGED <<loop, canceled>>
      BY <1>5 DEF loopVars
    <3>2. UNCHANGED <<faults, doubtful>>
      BY <1>5 DEF Work, Worker, DeleteFile, MutateOpen, MutateMissing, CreateOpen, CreateDenied,
         WriteCell, FinishMutate, FinishCreate, Advance, EndDelete, EndMutate, EndCreate, GiveUp,
         SeeCancel, WriteTmp, Cleanup
    <3> QED
      BY <3>1, <3>2 DEF Blaming, Excuse, Own
  <2>1. ~gaveUp /\ (\A p \in Paths : work[p] # "failed") /\ doubtful = {} /\ op = "rotate"
    BY DEF Blaming, Excuse, Owning
  <2>2. CASE \E p \in Paths : Worker(p)
    <3>1. gaveUp' = gaveUp
      BY <2>2 DEF Worker, DeleteFile, MutateOpen, MutateMissing, CreateOpen, CreateDenied,
         WriteCell, FinishMutate, FinishCreate, cmdVars
    <3> QED
      BY <2>1, <2>2, <3>1, ItemFails
  <2>3. CASE EndDelete \/ EndMutate \/ EndCreate \/ WriteTmp \/ Cleanup
    BY <2>1, <2>3 DEF EndDelete, EndMutate, EndCreate, WriteTmp, Cleanup, EnterPhase, cmdVars
  <2>4. ~GiveUp /\ ~(Held /\ SeeCancel)
    BY <2>1 DEF GiveUp, Held, Excuse
  <2> QED
    BY <1>5, <2>2, <2>3, <2>4 DEF Work, Advance
<1>6. CASE Failures \/ StoreFails
  <2>1. faults' = faults + 1
    BY <1>6 DEF Failures, WorkerFails, StoreFails
  <2> QED
    BY <2>1, Running DEF Blaming, Excuse
<1>7. CASE ~Own /\ UNCHANGED loopVars
  BY <1>7 DEF Own, loopVars, Blaming
<1>8. CASE UNCHANGED allVars
  BY <1>8 DEF allVars, loopVars, vars, lifeVars, cmdVars, Blaming, Excuse, Own
<1> QED
  BY <1>1, <1>2, <1>3, <1>4, <1>5, <1>6, <1>7, <1>8 DEF LoopNext, LoopStep, OthersEnd

-----------------------------------------------------------------------------
(* What an interrupt between two rotations leaves *)

\* Every rotation has a file to create.
LEMMA RotateCreates ==
  ASSUME IInv, BeginRotate
  PROVE  Created' # {}
<1>1. PICK chosen \in (SUBSET Names) \ {{}} : \E size \in [chosen -> Sizes] :
         plan'.creates = [p \in Paths |->
            IF \E n \in chosen : RotatedName(n, manifest.files) = p
            THEN size[NameOf(p, chosen, manifest.files)] ELSE None]
  BY DEF BeginRotate
<1>2. PICK size \in [chosen -> Sizes] :
         plan'.creates = [p \in Paths |->
            IF \E n \in chosen : RotatedName(n, manifest.files) = p
            THEN size[NameOf(p, chosen, manifest.files)] ELSE None]
  BY <1>1
<1>3. PICK n \in chosen : TRUE
  BY <1>1
<1> DEFINE p == RotatedName(n, manifest.files)
<1>4. p \in Paths
  BY <1>3, NameAssumption DEF RotatedName
<1>5. NameOf(p, chosen, manifest.files) \in chosen
  BY <1>3 DEF NameOf
<1> HIDE DEF p
<1>6. plan'.creates[p] = size[NameOf(p, chosen, manifest.files)]
  BY <1>2, <1>3, <1>4 DEF p
<1>7. plan'.creates[p] \in Nat
  <2>1. Sizes \subseteq Nat
    BY BoundAssumption
  <2>2. size[NameOf(p, chosen, manifest.files)] \in Sizes
    BY <1>2, <1>5
  <2> QED
    BY <1>6, <2>1, <2>2
<1> QED
  BY <1>4, <1>7, NoneAssumption DEF Created, Tracked

\* What a rotation has begun to create it has touched.
LEMMA CreatingStep ==
  ASSUME IInv, Creating, [LoopNext]_allVars
  PROVE  Creating'
<1>1. CASE Begin
  <2>1. CASE BeginRotate
    <3>1. phase' = "delete"
      BY <2>1 DEF BeginRotate, EnterPhase
    <3> QED
      BY <2>1, <3>1, RotateCreates DEF Creating
  <2>2. CASE BeginInit \/ BeginDestroy
    BY <2>2 DEF BeginInit, BeginDestroy, Launch, Creating
  <2> QED
    BY <1>1, <2>1, <2>2 DEF Begin
<1>2. CASE EndDelete \/ EndMutate
  <2>1. /\ UNCHANGED <<op, plan>> /\ phase' \notin {"save", "publish"}
        /\ \A p \in Paths : work'[p] \in {"none", "todo"}
    BY <1>2 DEF EndDelete, EndMutate, EnterPhase, cmdVars
  <2> QED
    BY <2>1 DEF Creating, Created, Tracked
<1>3. CASE EndCreate
  <2>1. \A p \in Created : op = "rotate" => p \in touched
    BY <1>3 DEF EndCreate, PhaseDone, IInv, Sound, Phases, Items, Creating, Created, Tracked
  <2> QED
    BY <1>3, <2>1 DEF EndCreate, cmdVars, Creating, Created
<1>4. CASE WriteTmp \/ Cleanup
  BY <1>4, Running DEF WriteTmp, Cleanup, EnterPhase, cmdVars, Creating, Created
<1>5. CASE Publish \/ Forget \/ Exit \/ Crash
  BY <1>5 DEF Publish, Forget, Exit, Crash, Replace, Remove, Abandon, EndCommand, Creating
<1>6. ASSUME NEW p \in Paths, Worker(p) \/ WorkerFails(p)
      PROVE  Creating'
  <2>1. UNCHANGED <<op, phase, plan>> /\ touched \subseteq touched'
    BY <1>6 DEF Worker, WorkerFails, DeleteFile, MutateOpen, MutateMissing, CreateOpen,
       CreateDenied, WriteCell, FinishMutate, FinishCreate, cmdVars
  <2>2. \A q \in Paths \ {p} : work'[q] = work[q]
    BY <1>6 DEF Worker, WorkerFails, DeleteFile, MutateOpen, MutateMissing, CreateOpen,
       CreateDenied, WriteCell, FinishMutate, FinishCreate, SetWork, IInv, TypeOK, LifeTypeOK
  <2>3. phase = "create" /\ work'[p] \in {"writing", "done"} => p \in touched'
    BY <1>6 DEF Worker, WorkerFails, DeleteFile, MutateOpen, MutateMissing, CreateOpen,
       CreateDenied, WriteCell, FinishMutate, FinishCreate, Free, SetWork, IInv, Writing, TypeOK,
       LifeTypeOK
  <2> QED
    BY <2>1, <2>2, <2>3 DEF Creating, Created, Tracked
<1>7. CASE GiveUp \/ SeeCancel \/ Interrupt \/ StoreFails \/ UNCHANGED vars
  BY <1>7 DEF GiveUp, SeeCancel, Interrupt, StoreFails, vars, lifeVars, cmdVars, Creating, Created
<1> QED
  BY <1>1, <1>2, <1>3, <1>4, <1>5, <1>6, <1>7, LoopSteps
  DEF Next, Step, Advance, LoopSeesCancel

\* No item of a loop that was interrupted between two rotations begins or goes on.
LEMMA NoneBegins ==
  ASSUME Resting, calm, Own, NEW p \in Paths
  PROVE  ~(Worker(p) /\ Begins(p)) /\ ~(WorkerFails(p) /\ Begins(p))
<1>1. Held /\ work[p] # "writing"
  BY DEF Resting, Held, Busy
<1> QED
  BY <1>1 DEF Begins, Worker, WorkerFails, DeleteFile, MutateOpen, MutateMissing, CreateOpen,
     CreateDenied, WriteCell, FinishMutate, FinishCreate, Free

\* Every step keeps it so.
LEMMA RestingStep ==
  ASSUME IInv, Owning, Resting, [LoopNext]_allVars
  PROVE  Resting'
<1>1. CASE StartLoop
  BY <1>1 DEF StartLoop, Enter, Resting
<1>2. CASE NextRound
  <2>1. /\ op = "idle" /\ touched' = touched /\ UNCHANGED <<canceled, calm>>
        /\ \A p \in Paths : work'[p] # "writing"
    BY <1>2 DEF NextRound, BeginRotate, Launch, EnterPhase
  <2> QED
    BY <2>1, Running DEF Resting, Busy
<1>3. CASE RoundDone \/ NextRoundFails \/ Stop \/ RoundFails \/ Killed
  BY <1>3 DEF RoundDone, NextRoundFails, Stop, RoundFails, Killed, Resting, Own
<1>4. CASE Cancel
  <2>1. UNCHANGED <<loop, touched, work>> /\ canceled' = TRUE
    BY <1>4 DEF Cancel, vars, lifeVars
  <2>2. calm' \in BOOLEAN /\ (calm' => loop = "waiting" \/ touched \cup Busy = {})
    BY <1>4 DEF Cancel
  <2> QED
    BY <2>1, <2>2 DEF Resting, Own, Busy
<1>5. CASE OthersBegin
  <2>1. op = "idle"
    BY <1>5 DEF OthersBegin, Begin, BeginInit, BeginRotate, BeginDestroy, Launch
  <2>2. ~Own
    BY <2>1 DEF Owning
  <2> QED
    BY <1>5, <2>2 DEF OthersBegin, Enter, Own, Alive, loopVars, Resting
<1>6. CASE (Work \/ Failures \/ StoreFails) /\ UNCHANGED loopVars
  <2> SUFFICES ASSUME calm, Own PROVE touched' = {} /\ Busy' = {}
    BY <1>6 DEF loopVars, Resting, Own
  <2>1. touched = {} /\ \A p \in Paths : work[p] # "writing"
    BY DEF Resting, Busy
  <2>2. CASE EndDelete \/ EndMutate \/ EndCreate \/ WriteTmp \/ Cleanup
    BY <2>1, <2>2 DEF EndDelete, EndMutate, EndCreate, WriteTmp, Cleanup, EnterPhase, Busy
  <2>3. CASE GiveUp \/ SeeCancel \/ StoreFails
    BY <2>1, <2>3 DEF GiveUp, SeeCancel, StoreFails, Busy
  <2> QED
    BY <1>6, <2>2, <2>3, NoneBegins DEF Work, Advance, Failures
<1>7. CASE ~Own /\ UNCHANGED loopVars
  BY <1>7 DEF Own, loopVars, Resting
<1>8. CASE UNCHANGED allVars
  BY <1>8 DEF allVars, loopVars, vars, lifeVars, Resting, Own, Busy
<1> QED
  BY <1>1, <1>2, <1>3, <1>4, <1>5, <1>6, <1>7, <1>8 DEF LoopNext, LoopStep, OthersEnd

-----------------------------------------------------------------------------
(* The theorems *)

\* The invariant of Fileset and that of the loop hold throughout.
THEOREM LoopInductive == LoopFairSpec => [](IInv /\ LoopInv)
<1>1. LoopInit => IInv /\ LoopInv
  <2> SUFFICES ASSUME LoopInit PROVE IInv /\ LoopInv
    OBVIOUS
  <2>1. IInv
    BY InitInv DEF LoopInit
  <2>2. op = "idle" /\ ~Own
    BY DEF LoopInit, Init, LifeInit, Own
  <2>3. Counting
    BY <2>2 DEF LoopInit, Counting
  <2>4. Resting
    BY <2>2 DEF LoopInit, Resting
  <2> QED
    BY <2>1, <2>2, <2>3, <2>4 DEF LoopInv, Owning, Blaming, Creating
<1>2. IInv /\ LoopInv /\ [LoopNext]_allVars => (IInv /\ LoopInv)'
  BY LoopKeeps, CountingStep, BlamingStep, CreatingStep, RestingStep DEF LoopInv
<1> QED
  BY <1>1, <1>2, PTL DEF LoopFairSpec

\* Between operations manifest and disk agree about every path that is not in doubt, also after
\* a loop that was interrupted, killed, or overtaken by other commands while it waited.
THEOREM LoopInStep == LoopFairSpec => []InStep
<1>1. IInv => InStep
  BY Parts, InStepHolds
<1> QED
  BY <1>1, LoopInductive, PTL

\* The loop, too, keeps what Dataset promises.
THEOREM LoopDataset == LoopFairSpec => ImplementsDataset
<1>1. LoopInit => Promise!Init
  BY PromiseInit DEF LoopInit, Init
<1>2. IInv /\ [LoopNext]_allVars => [Promise!Next]_(Promise!vars)
  <2> SUFFICES ASSUME IInv, [LoopNext]_allVars PROVE [Promise!Next]_(Promise!vars)
    OBVIOUS
  <2>1. CASE LoopSeesCancel
    BY <2>1, PromiseStutter DEF LoopSeesCancel, SeeCancel
  <2> QED
    BY <2>1, LoopSteps, PromiseStep
<1> QED
  BY <1>1, <1>2, LoopInductive, PTL DEF LoopFairSpec, ImplementsDataset, Promise!Spec

\* The loop makes no more iterations than asked for; when it ends with success it has saved
\* every one it began; it fails only for a reason: see OutcomeIsRight.
THEOREM LoopOutcome == LoopFairSpec => []OutcomeIsRight
<1>1. LoopInv => OutcomeIsRight
  BY DEF LoopInv, Counting, Blaming, Excuse, OutcomeIsRight
<1> QED
  BY <1>1, LoopInductive, PTL

\* An interrupt between two rotations leaves the fileset as the last one left it, whether or not
\* the select still takes the timer and begins the next.
THEOREM InterruptIsHarmless == LoopFairSpec => InterruptLeavesAlone
<1>1. IInv /\ LoopInv /\ [LoopNext]_allVars =>
         (calm /\ Own => UNCHANGED <<stored, dirs, manifest>>)
  <2> SUFFICES ASSUME IInv, LoopInv, [LoopNext]_allVars, calm, Own
               PROVE  UNCHANGED <<stored, dirs, manifest>>
    OBVIOUS
  <2>1. op = "rotate" /\ phase \in {"delete", "mutate", "create", "save", "publish"}
    BY Running DEF LoopInv, Owning
  <2>2. phase # "publish"
    BY <2>1 DEF LoopInv, Creating, Resting
  <2>3. ~StartLoop /\ ~NextRound /\ ~NextRoundFails /\ ~Stop /\ ~OthersBegin /\ ~OthersEnd
    BY <2>1 DEF StartLoop, NextRound, NextRoundFails, TimerWins, Stop, OthersBegin, OthersEnd, Own,
       Alive, Begin, BeginInit, BeginRotate, BeginDestroy, Launch
  <2>4. ~RoundDone /\ ~Cleanup
    BY <2>1, <2>2 DEF RoundDone, Publish, Cleanup
  <2>5. CASE RoundFails \/ Killed \/ Cancel \/ UNCHANGED allVars
    BY <2>5 DEF RoundFails, Exit, Killed, Crash, Cancel, diskVars, storeVars, vars, lifeVars,
       localVars, allVars
  <2>6. CASE (Work \/ Failures \/ StoreFails) /\ UNCHANGED loopVars
    <3>1. CASE Advance /\ UNCHANGED localVars
      BY <3>1 DEF Advance, EndDelete, EndMutate, EndCreate, GiveUp, localVars
    <3>2. CASE SeeCancel /\ UNCHANGED <<localVars, faults>>
      BY <3>2 DEF SeeCancel, localVars
    <3>3. CASE WriteTmp \/ StoreFails
      BY <3>3 DEF WriteTmp, StoreFails, diskVars
    <3> QED
      BY <2>4, <2>6, <3>1, <3>2, <3>3, NoneBegins DEF Work, Failures, LoopInv
  <2> QED
    BY <2>3, <2>4, <2>5, <2>6 DEF LoopNext, LoopStep
<1> QED
  BY <1>1, LoopInductive, PTL DEF LoopFairSpec, InterruptLeavesAlone
=============================================================================
