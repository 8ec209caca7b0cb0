SPECIFICATION FairSpec
CONSTANTS
    Thread = {t1, t2}
    Caller = {p}
    Main = main
    Job = {once, every}
    Delay <- MCDelay
    Repeating = {every}
    ProcessQueue = processQueue
    MaxTime = 1
    MaxCalls = 2
INVARIANTS
    SerialInOrder
    ThreadsExact
    NeverEarlyAlone
PROPERTIES
    CallbacksRun
    JobsTaken
    ShutsDown
