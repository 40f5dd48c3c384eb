\* The same broker, with its goroutine scheduled fairly.
CONSTANTS
    Svc = {"s1", "s2"}
    Remote = {"r1"}
    Deps <- MCDeps
    MaxWait <- MCMaxWait
SPECIFICATION FairSpec
PROPERTIES MethodsReturn
\* A broker that panicked on a call before Start has no step left.
CHECK_DEADLOCK FALSE
