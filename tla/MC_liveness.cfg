\* Liveness of the finalizer protocol under weak fairness, with a restart and no transient errors.
CONSTANTS
    t1 = t1
    t2 = t2
    f1 = f1
    Triggers <- MCTriggers
    Functions <- MCFunctions
    FunctionOf <- MCFunctionOf
    MaxRetries = 5
    MaxFailures = 0
    MaxUserOps = 4
    MaxRestarts = 1
SPECIFICATION FairSpec
PROPERTY TriggerDeletionCompletes
PROPERTY TriggerEventuallyFinalized
CHECK_DEADLOCK FALSE
