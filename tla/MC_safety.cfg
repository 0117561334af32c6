\* Safety under stale caches, transient API errors and a controller restart.
CONSTANTS
    t1 = t1
    t2 = t2
    f1 = f1
    Triggers <- MCTriggers
    Functions <- MCFunctions
    FunctionOf <- MCFunctionOf
    MaxRetries = 5
    MaxFailures = 2
    MaxUserOps = 4
    MaxRestarts = 1
SPECIFICATION Spec
INVARIANT TypeOK
PROPERTY FunctionLinkedOnlyForGuardedTrigger
PROPERTY FinalizerRemovedOnlyOnDeletion
PROPERTY ImplementsFinalizerProtocol
\* Once the user's calls are spent and every key is processed the controller
\* blocks in queue.Get(): a state with nothing left to do is not an error.
CHECK_DEADLOCK FALSE
