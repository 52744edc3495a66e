SPECIFICATION FairSpec
CONSTANTS
    Modes = {"boot", "head", "historic", "full"}
    Retries <- MCRetries
    MaxFaults = 3
INVARIANTS
    TypeOK
    RunsOnOneAttempt
    GracefulMeansReleased
PROPERTIES
    BootEnds
    SignalEndsProcess
\* The process ends.
CHECK_DEADLOCK FALSE
