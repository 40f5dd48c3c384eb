\* Does Start wait for the dependencies of the services it starts?
CONSTANTS
    Svc = {"s1", "s2"}
    Remote = {"r1"}
    Deps <- MCDeps
    MaxWait <- MCMaxWait
SPECIFICATION Spec
PROPERTIES DependenciesBeforeStart
CHECK_DEADLOCK FALSE
