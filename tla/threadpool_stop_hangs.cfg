\* No symmetry: liveness. Joining a null handle only returns an error here.
SPECIFICATION FairSpec
CONSTANTS
    w1 = w1
    w2 = w2
    c1 = c1
    t1 = t1
    t2 = t2
    Workers <- TwoWorkers
    Clients <- OneClient
    Tasks <- TwoTasks
    Starter = starter
    NoTask = NoTask
    NoThread = NoThread
    NullJoinOutcomes = {"error"}
PROPERTY StopTerminates
CHECK_DEADLOCK FALSE
