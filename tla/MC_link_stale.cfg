\* No transient errors, no restart: the function store lags behind the trigger store.
CONSTANTS
    t1 = t1
    t2 = t2
    f1 = f1
    Triggers <- MCTriggers
    Functions <- MCFunctions
    FunctionOf <- MCFunctionOf
    MaxRetries = 5
    MaxFailures = 0
    MaxUserOps = 2
    MaxRestarts = 0
SPECIFICATION FairSpec
PROPERTY TriggerEventuallyLinked
CHECK_DEADLOCK FALSE
