\* The function-side finalizer against spec 8: GC of a function a live trigger references.
CONSTANTS
    t1 = t1
    t2 = t2
    f1 = f1
    Triggers <- MCTriggers
    Functions <- MCFunctions
    FunctionOf <- MCFunctionOf
    MaxRetries = 5
    MaxFailures = 0
    MaxUserOps = 3
    MaxRestarts = 0
SPECIFICATION Spec
PROPERTY FunctionFinalizerBlocksDeletion
CHECK_DEADLOCK FALSE
