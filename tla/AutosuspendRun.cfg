SPECIFICATION FairSuspendSpec
CONSTANTS
    MaxEvents = 4
INVARIANTS DisabledMeansAwake NoEventSleptOver
PROPERTIES Suspends CallsReturn
CHECK_DEADLOCK FALSE
