---------------------------- MODULE RotateLoop ----------------------------
(***************************************************************************)
(* fileset rotate loop (internal/cli/fileset_rotate_loop.go) over the        *)
(* lifecycle of Fileset: one process that rotates, waits, and rotates again  *)
(* with the same options, until it has done --iterations rotations, one      *)
(* fails, or SIGINT arrives.  While it waits, other datasim commands may run *)
(* on the same root.                                                         *)
(***************************************************************************)
EXTENDS Fileset

CONSTANTS
    Limits,  \* values of --iterations; 0 is no limit
    Hasty    \* --interval is zero: a select finds the timer ready at once

ASSUME LoopAssumption == Limits \subseteq Nat /\ Hasty \in BOOLEAN

VARIABLES
    loop,      \* "off", "rotating", "waiting", or how the process ended:
               \* "finished", "stopped", "failed", "lost" or "killed"
    limit,     \* --iterations of this loop
    round,     \* i, the iteration
    canceled,  \* the context of the loop is cancelled
    saved,     \* rotations that this loop has completed
    calm       \* the context was cancelled between two rotations

loopVars == <<loop, limit, round, canceled, saved, calm>>
allVars == <<vars, loopVars>>

LoopInit ==
    /\ Init
    /\ loop = "off"
    /\ limit = 0
    /\ round = 0
    /\ canceled = FALSE
    /\ saved = 0
    /\ calm = FALSE

\* A process of the loop begins, or its end is forgotten.
Enter(l, n, r) ==
    /\ loop' = l
    /\ limit' \in n
    /\ round' = r
    /\ canceled' = FALSE
    /\ saved' = 0
    /\ calm' = FALSE

\* The process of the loop lives.
Alive == loop \in {"rotating", "waiting"}

\* The operation that runs is a rotation of the loop.
Own == loop = "rotating"

\* runParallel begins no item for a loop whose context is cancelled.
Held == Own /\ canceled

-----------------------------------------------------------------------------
(* The process of the loop *)

StartLoop ==
    /\ ~Alive
    /\ BeginRotate
    /\ Enter("rotating", Limits, 1)
    /\ UNCHANGED localVars

\* Faulty variant: the loop makes one iteration more.
LastRoundOffByOne == limit > 0 /\ round > limit

\* The iteration is the last one.
LastRound == limit > 0 /\ round = limit

\* Rotate of the loop saved its manifest: the loop ends, or goes into its select.
RoundDone ==
    /\ Own
    /\ Publish
    /\ saved' = saved + 1
    /\ loop' = IF LastRound THEN "finished" ELSE "waiting"
    /\ UNCHANGED <<limit, round, canceled, calm>>

\* The select may take the timer.
TimerWins == loop = "waiting" /\ (canceled => Hasty)

\* The timer fires and the next rotation begins.
NextRound ==
    /\ TimerWins
    /\ BeginRotate
    /\ loop' = "rotating"
    /\ round' = round + 1
    /\ UNCHANGED <<localVars, limit, canceled, saved, calm>>

\* Another command has destroyed the fileset: the next rotation finds no manifest.
NextRoundFails ==
    /\ TimerWins
    /\ op = "idle"
    /\ manifest = None
    /\ loop' = "lost"
    /\ UNCHANGED <<vars, limit, round, canceled, saved, calm>>

\* Faulty variant: only a loop with --iterations looks at its context.
StopWithLimit ==
    /\ loop = "waiting"
    /\ canceled
    /\ limit > 0
    /\ loop' = "stopped"
    /\ UNCHANGED <<vars, limit, round, canceled, saved, calm>>

\* The select takes the context: the process ends with success.
Stop ==
    /\ loop = "waiting"
    /\ canceled
    /\ loop' = "stopped"
    /\ UNCHANGED <<vars, limit, round, canceled, saved, calm>>

\* Rotate returned an error, and so does the loop.
RoundFails ==
    /\ Own
    /\ Exit
    /\ loop' = "failed"
    /\ UNCHANGED <<limit, round, canceled, saved, calm>>

\* SIGINT.  Between two rotations the loop waits, or has begun the next one and
\* no item of it yet.
Cancel ==
    /\ Alive
    /\ ~canceled
    /\ canceled' = TRUE
    /\ calm' = (loop = "waiting" \/ touched \cup Busy = {})
    /\ UNCHANGED <<vars, loop, limit, round, saved>>

-----------------------------------------------------------------------------
(* The steps of the operation that runs *)

\* Faulty variant: the items do not look at the context.
BeginsAlways(p) == TRUE

\* The worker of p has begun, or may begin.
Begins(p) == work[p] = "todo" => ~Held

Work ==
    \/ \E p \in Paths : Worker(p) /\ Begins(p)
    \/ Advance /\ UNCHANGED localVars
    \/ Held /\ SeeCancel /\ UNCHANGED <<localVars, faults>>
    \/ WriteTmp \/ Cleanup

Failures == \E p \in Paths : WorkerFails(p) /\ Begins(p)

\* Another command ends.
OthersEnd == ~Own /\ (Publish \/ Forget \/ Exit)

\* Another command begins, while the loop waits or when there is none; one that
\* has ended need not be remembered.
OthersBegin ==
    /\ Begin
    /\ UNCHANGED localVars
    /\ IF Alive THEN UNCHANGED loopVars ELSE Enter("off", {0}, 0)

\* The process of the loop is killed while it rotates.  Killed while it waits, it
\* leaves what Stop leaves.
Killed ==
    /\ Own
    /\ Crash
    /\ loop' = "killed"
    /\ UNCHANGED <<limit, round, canceled, saved, calm>>

LoopStep == StartLoop \/ RoundDone \/ NextRound \/ NextRoundFails \/ Stop \/ RoundFails

LoopNext ==
    \/ LoopStep \/ Cancel \/ Killed \/ OthersBegin
    \/ (Work \/ OthersEnd \/ Failures \/ StoreFails) /\ UNCHANGED loopVars
    \/ ~Own /\ Crash /\ UNCHANGED loopVars

\* A process that runs goes on running, and a select that finds something ready
\* takes it.  Nobody has to begin a command or a loop, and no interval ends.
LoopFairSpec ==
    /\ LoopInit
    /\ [][LoopNext]_allVars
    /\ WF_allVars(Work /\ UNCHANGED loopVars)
    /\ WF_allVars(OthersEnd /\ UNCHANGED loopVars)
    /\ WF_allVars(RoundDone \/ RoundFails)
    /\ WF_allVars(Stop)

-----------------------------------------------------------------------------
(* Correctness *)

\* The loop makes no more iterations than asked for.  When it ends with success it
\* has saved every one it began, all of them unless it was interrupted; it fails
\* only when it was interrupted, something failed, or an earlier command had left
\* some path in doubt.  (As root: see Denied.)
OutcomeIsRight ==
    /\ limit > 0 => round <= limit
    /\ loop = "finished" => saved = limit
    /\ loop \in {"waiting", "stopped"} => saved = round
    /\ Own /\ gaveUp /\ Privileged => canceled \/ faults > 0 \/ doubtful # {}

\* An interrupt that arrives between two rotations leaves the fileset as the last
\* one left it, even if the loop has begun, or still begins, the next.
InterruptLeavesAlone ==
    [][calm /\ Own => UNCHANGED <<stored, dirs, manifest>>]_allVars

\* An interrupted loop ends.
LoopEnds == canceled ~> ~Alive
=============================================================================
