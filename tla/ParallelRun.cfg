\* Four items on two goroutines: the limit is reached, and an early return can
\* leave one goroutine running while another has failed.
CONSTANTS
    Total = 4
    Requested = 2
    DefaultWorkers = 3
    NoErr = NoErr
    Canceled = Canceled

SPECIFICATION FairSpec

\* The batch ends.
CHECK_DEADLOCK FALSE

INVARIANTS
    TypeOK
    SuccessMeansAllDone
    CanceledIsExplained

PROPERTIES
    NoNewWorkAfterReturn
    Ends
    ImplementsBatch
