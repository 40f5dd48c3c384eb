\* Any sequence of AddService, Start, Stop and calls on one broker whose
\* two services depend on a remote service and on each other.
CONSTANTS
    Svc = {"s1", "s2"}
    Remote = {"r1"}
    Deps <- MCDeps
    MaxWait <- MCMaxWait
SPECIFICATION Spec
INVARIANTS TypeOK LifecycleConsistent
\* A broker that panicked on a call before Start has no step left.
CHECK_DEADLOCK FALSE
