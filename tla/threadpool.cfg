\* No symmetry: liveness.  Joining a null handle returns an error, or crashes.
SPECIFICATION FairSpec
CONSTANTS
    w1 = w1
    w2 = w2
    c1 = c1
    t1 = t1
    t2 = t2
    Workers <- TwoWorkers
    Clients <- OneClient
    Tasks <- TwoTasks
    Starter = starter
    NoTask = NoTask
    NoThread = NoThread
    NullJoinOutcomes = {"crash", "error"}
INVARIANTS
    TypeOK
    WorkConserving
    NoThreadSurvivesStop
PROPERTIES
    ServesInOrder
    TaskServed
    StartReturns
    StopReturnsUnlessDozing
\* A stopped pool has nothing left to do, and stop() may wait for ever.
CHECK_DEADLOCK FALSE
