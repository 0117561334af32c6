\* Trigger deletion after earlier failed reconciles and one transient error.
CONSTANTS
    t1 = t1
    t2 = t2
    f1 = f1
    Triggers <- MCTriggers
    Functions <- MCFunctions
    FunctionOf <- MCFunctionOf
    MaxRetries = 5
    MaxFailures = 1
    MaxUserOps = 4
    MaxRestarts = 0
SPECIFICATION FairSpec
PROPERTY TriggerDeletionCompletes
CHECK_DEADLOCK FALSE
