\* The apply layer over two updates of the Function, two replicas and two failing calls.
CONSTANTS
    MaxVersions = 3
    Replicas = 2
    MaxPods = 4
    MaxFailures = 2
SPECIFICATION Spec
INVARIANT TypeOK
INVARIANT EnsuredMeansApplied
\* The updates, the pods and the failures are bounded: a state after the
\* last step is not an error.
CHECK_DEADLOCK FALSE
