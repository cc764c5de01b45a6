----------------------------- MODULE Allocation -----------------------------
(***************************************************************************)
(* allocateSizes and reconcileSizes of internal/fileset/types.go: how a    *)
(* budget of bytes is divided among the files of a plan.  Which tier a     *)
(* file falls in, and which size of the tier it has, is random.            *)
(***************************************************************************)
EXTENDS Integers, Sequences, FiniteSetsExt

CONSTANTS
    Tiers,        \* the profile's tiers, each <<least size, greatest size>>
    SmallestFile  \* what a single or last file has at least, 512 in the code

ASSUME TiersAssumption ==
    /\ Tiers \subseteq (Nat \ {0}) \X Nat
    /\ Tiers # {}
    /\ IsFiniteSet(Tiers)
    /\ \A t \in Tiers : t[1] <= t[2]
ASSUME SmallestFileAssumption == SmallestFile \in Nat /\ \E t \in Tiers : t[1] <= SmallestFile

VARIABLES
    total,     \* the budget
    count,     \* how many files
    sizes,     \* result, so far
    remaining, \* what the files still without a size may have
    over,      \* what reconcileSizes has still to take away
    at,        \* where it is
    step       \* where the allocation is

allocation == <<total, count, sizes, remaining, over, at, step>>

Larger(a, b) == IF a > b THEN a ELSE b
Smaller(a, b) == IF a < b THEN a ELSE b
SumOf(f) == MapThenSumSet(LAMBDA i : f[i], DOMAIN f)

\* minimumTierBytes.
MinTier == CHOOSE m \in {t[1] : t \in Tiers} : \A t \in Tiers : m <= t[1]

\* sampleTier, and the draw of a size in the tier.
Drawn == UNION {t[1]..t[2] : t \in Tiers}

AllocationInit ==
    /\ total = 0
    /\ count = 0
    /\ sizes = <<>>
    /\ remaining = 0
    /\ over = 0
    /\ at = 0
    /\ step = "idle"

\* No more files than the budget has room for; a single one gets all of it.
Allocate(budget, files) ==
    LET n == Smaller(files, Larger(1, budget \div MinTier)) IN
        /\ total' = budget
        /\ count' = n
        /\ sizes' = IF n <= 1 THEN <<Larger(SmallestFile, budget)>> ELSE <<>>
        /\ step' = IF n <= 1 THEN "done" ELSE "sample"
        /\ remaining' = budget
        /\ over' = 0
        /\ at' = 0

\* Faulty variant: no room is left for the files that follow.
SampleGreedy ==
    /\ step = "sample"
    /\ Len(sizes) < count - 1
    /\ \E drawn \in Drawn :
          LET size == Larger(MinTier, Smaller(drawn, Larger(MinTier, remaining))) IN
              /\ sizes' = Append(sizes, size)
              /\ remaining' = remaining - size
    /\ UNCHANGED <<total, count, over, at, step>>

\* A random size of a random tier, that leaves room for the files that follow.
Sample ==
    /\ step = "sample"
    /\ Len(sizes) < count - 1
    /\ LET left == count - Len(sizes)
           maxAllowed == Larger(MinTier, remaining - (left - 1) * MinTier)
       IN  \E drawn \in Drawn :
              LET size == Larger(MinTier, Smaller(drawn, maxAllowed)) IN
                  /\ sizes' = Append(sizes, size)
                  /\ remaining' = remaining - size
    /\ UNCHANGED <<total, count, over, at, step>>

\* Faulty variant: what the last file is given twice is not taken back.
SampleLastOnly ==
    /\ step = "sample"
    /\ Len(sizes) = count - 1
    /\ sizes' = Append(sizes, Larger(SmallestFile, remaining) + remaining)
    /\ step' = "done"
    /\ UNCHANGED <<total, count, remaining, over, at>>

\* The last file is given the rest, and the rest is then added to it once more;
\* reconcileSizes finds out how far the sum is off.
SampleLast ==
    /\ step = "sample"
    /\ Len(sizes) = count - 1
    /\ LET all == Append(sizes, Larger(SmallestFile, remaining) + remaining)
           excess == SumOf(all) - total
       IN  /\ sizes' = IF excess < 0 THEN [all EXCEPT ![count] = @ - excess] ELSE all
           /\ over' = Larger(0, excess)
           /\ step' = IF excess > 0 THEN "reconcile" ELSE "done"
    /\ at' = count
    /\ UNCHANGED <<total, count, remaining>>

\* One iteration of reconcileSizes: a file gives away what it has above the minimum.
Reconcile ==
    /\ step = "reconcile"
    /\ LET delta == Smaller(over, Larger(0, sizes[at] - MinTier)) IN
           /\ sizes' = [sizes EXCEPT ![at] = @ - delta]
           /\ over' = over - delta
           /\ step' = IF over = delta \/ at = 1 THEN "done" ELSE step
    /\ at' = at - 1
    /\ UNCHANGED <<total, count, remaining>>

\* Its variables are locals.
AllocationEnds ==
    /\ step = "done"
    /\ step' = "idle"
    /\ sizes' = <<>>
    /\ total' = 0 /\ count' = 0 /\ remaining' = 0 /\ over' = 0 /\ at' = 0

AllocationStep == Sample \/ SampleLast \/ Reconcile

-----------------------------------------------------------------------------

AllocationTypeOK ==
    /\ total \in Nat
    /\ count \in Nat
    /\ sizes \in Seq(Nat)
    /\ remaining \in Nat
    /\ over \in Nat
    /\ at \in 0..count
    /\ step \in {"idle", "sample", "reconcile", "done"}

\* The sizes of a plan add up to its budget to the byte, whatever was drawn, and
\* each is at least the smallest of any tier; only a single file may have more
\* than the budget, because no file is given less than 512 bytes of its own.
AllocationIsExact ==
    step = "done" =>
        /\ Len(sizes) = count
        /\ SumOf(sizes) = IF count = 1 THEN Larger(SmallestFile, total) ELSE total
        /\ \A i \in 1..count : sizes[i] >= MinTier
=============================================================================
