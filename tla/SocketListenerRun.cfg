SPECIFICATION FairSpec
CONSTANTS
    Peers = {c1, c2}
    Fds = {5, 6}
    MaxData = 1
    Buffer = 1
    MaxWorkers = 1
    MaxFailed = 1
    QuietStop = TRUE
INVARIANTS ClientsInv NeverBlocksInRead
PROPERTIES Released CommandsRead StopJoins
