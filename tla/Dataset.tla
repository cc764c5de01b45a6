------------------------------ MODULE Dataset ------------------------------
(***************************************************************************)
(* What the fileset commands promise on any target.  An operation changes   *)
(* contents one path at a time; the inventory (the manifest's files) changes *)
(* once, when the operation succeeds, and then tells the truth about every   *)
(* path not in doubt.  One that fails, is interrupted or dies changes the    *)
(* inventory not at all, and leaves what it has changed in doubt.            *)
(***************************************************************************)
CONSTANTS
    Paths,
    Empty,          \* nothing stored, nothing listed
    Agrees(_, _)    \* Agrees(c, l): content c is what the inventory's l says

VARIABLES
    contents,   \* contents[p]: what the target holds at p
    inventory,  \* inventory[p]: what is listed of p
    running,    \* an operation runs
    changed,    \* paths the running operation has changed
    doubtful    \* paths about which the inventory may be wrong

vars == <<contents, inventory, running, changed, doubtful>>

Init ==
    /\ \A p \in Paths : inventory[p] = Empty /\ Agrees(contents[p], Empty)
    /\ running = FALSE
    /\ changed = {}
    /\ doubtful = {}

Begin ==
    /\ ~running
    /\ running' = TRUE
    /\ UNCHANGED <<contents, inventory, changed, doubtful>>

\* The operation changes, or may have changed, what is stored at p.
Change(p) ==
    /\ running
    /\ \A q \in Paths \ {p} : contents'[q] = contents[q]
    /\ changed' = changed \cup {p}
    /\ UNCHANGED <<inventory, running, doubtful>>

\* The operation succeeds.  Only a path that it drops from the inventory without
\* removing it can be in doubt and was not before.
Commit ==
    /\ running
    /\ running' = FALSE
    /\ changed' = {}
    /\ UNCHANGED contents
    /\ \A p \in doubtful' \ doubtful : inventory[p] # Empty /\ inventory'[p] = Empty
    /\ \A p \in Paths \ doubtful' : Agrees(contents[p], inventory'[p])

\* The operation fails, is interrupted, or dies.
Abandon ==
    /\ running
    /\ running' = FALSE
    /\ changed' = {}
    /\ doubtful' = doubtful \cup changed
    /\ UNCHANGED <<contents, inventory>>

Next ==
    \/ Begin
    \/ \E p \in Paths : Change(p)
    \/ Commit
    \/ Abandon

Spec == Init /\ [][Next]_vars

\* What follows from it: the inventory is right about every path that is neither
\* in doubt nor being changed.
InventoryIsRight ==
    \A p \in Paths \ (doubtful \cup changed) : Agrees(contents[p], inventory[p])
=============================================================================
