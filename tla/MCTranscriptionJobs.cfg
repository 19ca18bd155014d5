SPECIFICATION SafeSpec
CONSTANTS
    job1 = job1
    job2 = job2
    old = old
    new = new
    w1 = w1
    w2 = w2
    NoJob = NoJob
    Jobs = {job1, job2}
    Processes = {old, new}
    Workers = {w1, w2}
    QueueSize = 1
    PublishAttempts = 2
    RollingDeploy = FALSE
INVARIANTS
    NothingForgotten
    ToldWhenFinished
SYMMETRY Interchangeable
\* A system with no process left and every job submitted stops.
CHECK_DEADLOCK FALSE
