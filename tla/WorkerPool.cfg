CONSTANTS
    Tasks = {t1}
    Threads = {w1, w2}
    MinThreads = 1
    Senders = {s1, s2}
    MaxEvents = 2
    MaxJobs = 1
    None = None
SPECIFICATION FairSpec
INVARIANTS OneCarrier DropsBeforeCompletes ShutdownCompletesAll
PROPERTIES AlwaysSettles
CHECK_DEADLOCK FALSE
