SPECIFICATION FairSpec
CONSTANTS
    Threads = {t1}
    PollThread = p
    Handlers = {h1}
    Fds = {f1}
    Timeouts = {0, 1}
    MaxDelay = 5
    MaxTime = 2
    MaxSends = 2
    MaxRegs = 2
INVARIANT NoLostWakeup
PROPERTIES LastCallOnly MessagesHandled FdServed
