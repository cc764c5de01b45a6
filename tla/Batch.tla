------------------------------- MODULE Batch -------------------------------
(***************************************************************************)
(* What a caller of runParallel may rely on: a batch of work items, of     *)
(* which at most Limit are worked on at a time, and one outcome.  Init and *)
(* the three phases of Rotate are each one batch.  "ok" promises that      *)
(* every item was done and that nothing is still running; "err" promises   *)
(* neither: workers that were already running when the batch gave up keep  *)
(* running, but no further item is begun.                                  *)
(***************************************************************************)
EXTENDS Naturals, FiniteSets

CONSTANTS Items, Limit

VARIABLES
    work,        \* work[i]: what has become of item i
    interrupted, \* the caller's context was cancelled
    outcome      \* what the caller was told so far

vars == <<work, interrupted, outcome>>

In(s) == {i \in Items : work[i] = s}

Init ==
    /\ work = [i \in Items |-> "todo"]
    /\ interrupted \in BOOLEAN
    /\ outcome = "none"

Begin(i) ==
    /\ outcome = "none"
    /\ work[i] = "todo"
    /\ Cardinality(In("running")) < Limit
    /\ work' = [work EXCEPT ![i] = "running"]
    /\ UNCHANGED <<interrupted, outcome>>

End(i) ==
    /\ work[i] = "running"
    /\ \E s \in {"done", "failed"} : work' = [work EXCEPT ![i] = s]
    /\ UNCHANGED <<interrupted, outcome>>

Interrupt ==
    /\ ~interrupted
    /\ interrupted' = TRUE
    /\ UNCHANGED <<work, outcome>>

Succeed ==
    /\ outcome = "none"
    /\ In("done") = Items
    /\ outcome' = "ok"
    /\ UNCHANGED <<work, interrupted>>

GiveUp ==
    /\ outcome = "none"
    /\ interrupted \/ In("failed") # {}
    /\ outcome' = "err"
    /\ UNCHANGED <<work, interrupted>>

Next ==
    \/ \E i \in Items : Begin(i) \/ End(i)
    \/ Interrupt
    \/ Succeed
    \/ GiveUp

Spec == Init /\ [][Next]_vars
=============================================================================
