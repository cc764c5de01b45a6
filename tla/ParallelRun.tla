---------------------------- MODULE ParallelRun ----------------------------
(***************************************************************************)
(* runParallel of internal/fileset/service.go: a dispatcher goroutine that *)
(* feeds Total indexed items to an errgroup.Group limited to WorkerCount   *)
(* goroutines.  The errgroup (golang.org/x/sync) is modelled from how      *)
(* runParallel uses it: Go blocks while the limit is reached, the first    *)
(* error is kept and cancels groupCtx, Wait waits for every goroutine.     *)
(***************************************************************************)
EXTENDS Integers, FiniteSets

CONSTANTS
    Total,          \* totalItems: length of the plan
    Requested,      \* the --concurrent option, 0 for the default
    DefaultWorkers, \* DefaultWorkerCount()
    NoErr,          \* the nil error
    Canceled        \* context.Canceled

Items == 0..(Total - 1)

ASSUME TotalAssumption == Total \in Nat
ASSUME WorkersAssumption == Requested \in Nat /\ DefaultWorkers \in Nat \ {0}
ASSUME ErrAssumption ==
    /\ NoErr \notin Items
    /\ Canceled \notin Items
    /\ NoErr # Canceled

\* normalizeWorkerCount
WorkerCount ==
    LET wanted == IF Requested <= 0 THEN DefaultWorkers ELSE Requested
    IN  IF Total <= 0 THEN 1
        ELSE IF wanted > Total THEN Total
        ELSE wanted

VARIABLES
    pc,          \* the dispatcher: where it is in runParallel
    next,        \* the loop index
    item,        \* item[i]: what has become of index i
    held,        \* goroutines that hold a slot of the group and that Wait waits for
    interrupted, \* the caller's ctx is done
    groupDone,   \* groupCtx is done
    groupErr,    \* the group's first error
    result       \* the error runParallel returned

vars == <<pc, next, item, held, interrupted, groupDone, groupErr, result>>

Errors == Items \cup {NoErr, Canceled}

In(s) == {i \in Items : item[i] = s}

TypeOK ==
    /\ pc \in {"enter", "check", "go", "wait", "returned"}
    /\ next \in 0..Total
    /\ item \in [Items -> {"idle", "spawned", "working", "done", "failed", "skipped"}]
    /\ held \in SUBSET Items
    /\ interrupted \in BOOLEAN
    /\ groupDone \in BOOLEAN
    /\ groupErr \in Errors
    /\ result \in Errors

Init ==
    /\ pc = "enter"
    /\ next = 0
    /\ item = [i \in Items |-> "idle"]
    /\ held = {}
    /\ interrupted \in BOOLEAN
    /\ groupDone = interrupted
    /\ groupErr = NoErr
    /\ result = NoErr

-----------------------------------------------------------------------------
(* The dispatcher *)

Return(err) == pc' = "returned" /\ result' = err

\* An empty plan returns nil before any context is looked at.
Enter ==
    /\ pc = "enter"
    /\ pc' = IF Total = 0 THEN "returned" ELSE "check"
    /\ UNCHANGED <<next, item, held, interrupted, groupDone, groupErr, result>>

\* Faulty variant: the loop runs once too often.
CheckOffByOne ==
    /\ pc = "check"
    /\ \/ next <= Total /\ groupDone /\ Return(Canceled)
       \/ next <= Total /\ ~groupDone /\ pc' = "go" /\ UNCHANGED result
       \/ next > Total /\ pc' = "wait" /\ UNCHANGED result
    /\ UNCHANGED <<next, item, held, interrupted, groupDone, groupErr>>

\* The head of the loop.  A cancelled group makes runParallel return
\* groupCtx.Err() at once: it does not call Wait, and the error is
\* context.Canceled whatever made the group fail.
Check ==
    /\ pc = "check"
    /\ \/ next < Total /\ groupDone /\ Return(Canceled)
       \/ next < Total /\ ~groupDone /\ pc' = "go" /\ UNCHANGED result
       \/ next = Total /\ pc' = "wait" /\ UNCHANGED result
    /\ UNCHANGED <<next, item, held, interrupted, groupDone, groupErr>>

\* Faulty variant: SetLimit is never called.
SpawnUnlimited ==
    /\ pc = "go"
    /\ item' = [item EXCEPT ![next] = "spawned"]
    /\ held' = held \cup {next}
    /\ next' = next + 1
    /\ pc' = "check"
    /\ UNCHANGED <<interrupted, groupDone, groupErr, result>>

\* group.Go: blocks until a slot is free.
Spawn ==
    /\ pc = "go"
    /\ Cardinality(held) < WorkerCount
    /\ item' = [item EXCEPT ![next] = "spawned"]
    /\ held' = held \cup {next}
    /\ next' = next + 1
    /\ pc' = "check"
    /\ UNCHANGED <<interrupted, groupDone, groupErr, result>>

\* Faulty variant: the loop's last statement returns without waiting.
WaitNotWaiting ==
    /\ pc = "wait"
    /\ Return(groupErr)
    /\ groupDone' = TRUE
    /\ UNCHANGED <<next, item, held, interrupted, groupErr>>

\* group.Wait: every goroutine has ended; the group's context is cancelled.
Wait ==
    /\ pc = "wait"
    /\ held = {}
    /\ Return(groupErr)
    /\ groupDone' = TRUE
    /\ UNCHANGED <<next, item, held, interrupted, groupErr>>

Dispatcher == Enter \/ Check \/ Spawn \/ Wait

-----------------------------------------------------------------------------
(* The goroutine of item i *)

\* Faulty variant: the goroutine does not look at groupCtx again.
StartUnchecked(i) ==
    /\ item[i] = "spawned"
    /\ item' = [item EXCEPT ![i] = "working"]
    /\ UNCHANGED <<pc, next, held, interrupted, groupDone, groupErr, result>>

\* A goroutine looks at groupCtx once more before it calls fn(index).
Start(i) ==
    /\ item[i] = "spawned"
    /\ item' = [item EXCEPT ![i] = IF groupDone THEN "skipped" ELSE "working"]
    /\ UNCHANGED <<pc, next, held, interrupted, groupDone, groupErr, result>>

\* fn(index) returns, with an error or without.
Finish(i) ==
    /\ item[i] = "working"
    /\ \E s \in {"done", "failed"} : item' = [item EXCEPT ![i] = s]
    /\ UNCHANGED <<pc, next, held, interrupted, groupDone, groupErr, result>>

\* errgroup keeps the first error of any goroutine and cancels groupCtx.
KeepError(i) ==
    /\ i \in held
    /\ item[i] \in {"failed", "skipped"}
    /\ groupErr = NoErr
    /\ groupErr' = IF item[i] = "failed" THEN i ELSE Canceled
    /\ groupDone' = TRUE
    /\ UNCHANGED <<pc, next, item, held, interrupted, result>>

\* Faulty variant: a goroutine that failed never gives its slot back.
ReleaseOnlyDone(i) ==
    /\ i \in held
    /\ item[i] = "done"
    /\ held' = held \ {i}
    /\ UNCHANGED <<pc, next, item, interrupted, groupDone, groupErr, result>>

\* Faulty variant: every goroutine cancels the group when it ends.
ReleaseCancelling(i) ==
    /\ i \in held
    /\ \/ item[i] = "done"
       \/ item[i] \in {"failed", "skipped"} /\ groupErr # NoErr
    /\ held' = held \ {i}
    /\ groupDone' = TRUE
    /\ UNCHANGED <<pc, next, item, interrupted, groupErr, result>>

\* The goroutine's last act: its slot is free and Wait no longer waits for it.
Release(i) ==
    /\ i \in held
    /\ \/ item[i] = "done"
       \/ item[i] \in {"failed", "skipped"} /\ groupErr # NoErr
    /\ held' = held \ {i}
    /\ UNCHANGED <<pc, next, item, interrupted, groupDone, groupErr, result>>

Worker(i) == Start(i) \/ Finish(i) \/ KeepError(i) \/ Release(i)

-----------------------------------------------------------------------------

\* The caller's context is cancelled (SIGINT or SIGTERM in the rotate loop).
Interrupt ==
    /\ ~interrupted
    /\ interrupted' = TRUE
    /\ groupDone' = TRUE
    /\ UNCHANGED <<pc, next, item, held, groupErr, result>>

Next ==
    \/ Dispatcher
    \/ \E i \in Items : Worker(i)
    \/ Interrupt

\* The Go scheduler runs every runnable goroutine, and fn is finite file I/O.
Fairness == WF_vars(Dispatcher) /\ \A i \in Items : WF_vars(Worker(i))

Spec == Init /\ [][Next]_vars
FairSpec == Spec /\ Fairness

-----------------------------------------------------------------------------
(* Correctness *)

\* No more goroutines than --concurrent allows are ever alive, even while an
\* error unwinds the batch (group.SetLimit); Batch's Limit follows from it.
BoundedWorkers == Cardinality(held) <= WorkerCount

\* A nil error means that fn ran to its end without error for every index and
\* that no goroutine is left: Init and Rotate read the result slices and go on
\* to the next phase on the strength of it.
SuccessMeansAllDone ==
    pc = "returned" /\ result = NoErr => In("done") = Items /\ held = {}

\* runParallel reports a cancellation only if the caller cancelled or some fn
\* failed: it never makes one up, although the error it names hides the cause.
CanceledIsExplained ==
    pc = "returned" /\ result = Canceled => interrupted \/ In("failed") # {}

\* Once runParallel has returned, no index is begun any more: what still runs
\* after an early return was running before it.
NoNewWorkAfterReturn ==
    [][pc = "returned" => In("working")' \subseteq In("working")]_vars

\* The batch ends: an early error, a full group or a cancellation never leaves the
\* dispatcher blocked on a slot that nobody gives back, and the goroutines that
\* an early return leaves running end by themselves.
Ends == <>[](pc = "returned" /\ held = {})

\* runParallel implements Batch: what it keeps in the group and its context is
\* the caller's todo, running, done or failed, and its error the outcome.
absWork ==
    [i \in Items |->
        IF item[i] \in {"idle", "spawned", "skipped"} THEN "todo"
        ELSE IF item[i] = "working" THEN "running"
        ELSE item[i]]

absOutcome ==
    IF pc # "returned" THEN "none"
    ELSE IF result = NoErr THEN "ok" ELSE "err"

B == INSTANCE Batch WITH
        Limit <- WorkerCount, work <- absWork, outcome <- absOutcome

ImplementsBatch == B!Spec
=============================================================================
