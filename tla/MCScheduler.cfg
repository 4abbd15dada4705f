CONSTANTS
    Risk = {r1, r2}
    NoResult = NoResult
    Pending = Pending
    Raised = Raised
    MaxTicks = 3
    MaxGap = 2
SPECIFICATION Spec
\* A replay ends after its last tick, or when it is aborted.
CHECK_DEADLOCK FALSE
INVARIANTS
    TypeOK
    DecaysFromTheLastSuccess
    UpstreamIsPresent
    CompletedTickHasEveryAgent
    AbortsOnlyWithoutHistory
