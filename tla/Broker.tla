------------------------------- MODULE Broker -------------------------------
(***************************************************************************)
(* The service-lifecycle part of ServiceBroker (src/unnamed/part_000,      *)
(* package broker): AddService, Start, Stop, the per-service startService  *)
(* with its waitForDependencies polling loop, and the started guard of     *)
(* Call/Emit/Broadcast.  The broker's methods run on the user's goroutine, *)
(* one at a time; pc is where that goroutine is.  The registry is a        *)
(* collaborator: it knows the local services added to it (line 387) and   *)
(* discovers remote ones on its own while it runs.  Middleware hooks,     *)
(* logging and the no-op notifyServiceStarted/broadcastLocal leave no     *)
(* state and are omitted; the sleep of the polling loop is one tick.       *)
(***************************************************************************)
EXTENDS Naturals, Sequences

CONSTANTS
    Svc,        \* service instances created by service.FromSchema
    Remote,     \* services offered by other nodes
    Deps,       \* service.Dependencies() of each local service
    MaxWait     \* polling rounds until WaitForDependenciesTimeout passes

ASSUME DepsAssumption == Deps \in [Svc -> SUBSET (Svc \cup Remote)]
ASSUME WaitAssumption == MaxWait \in Nat
ASSUME SvcAssumption == Svc # {}

VARIABLES
    started,     \* broker.started
    services,    \* broker.services, in the order AddService appended them
    svcState,    \* what svc.Start/svc.Stop last did to each instance
    regRunning,  \* registry.Start() called and registry.Stop() not since
    localSvcs,   \* services registered by registry.AddLocalService
    remoteKnown, \* remote services the registry has discovered
    pc,          \* "idle", "starting" (Start's loop), "waiting" (startService), "panicked"
    caller,      \* the method a startService in progress returns to
    idx,         \* index of Start's range loop over broker.services
    cur,         \* service being started
    waited       \* polling rounds slept in waitForDependencies

vars == <<started, services, svcState, regRunning, localSvcs, remoteKnown,
          pc, caller, idx, cur, waited>>

SvcStates == {"new", "running", "stopped"}

Held == {services[i] : i \in DOMAIN services}

\* registry.KnowService: a local service registered, or a discovered remote one.
Known == localSvcs \cup remoteKnown

TypeOK ==
    /\ started \in BOOLEAN
    /\ services \in Seq(Svc)
    /\ svcState \in [Svc -> SvcStates]
    /\ regRunning \in BOOLEAN
    /\ localSvcs \subseteq Svc
    /\ remoteKnown \subseteq Remote
    /\ pc \in {"idle", "starting", "waiting", "panicked"}
    /\ caller \in {"Start", "AddService"}
    /\ idx \in Nat
    /\ cur \in Svc
    /\ waited \in 0..MaxWait

\* FromConfig: mergeConfigs, then init() builds an unstarted broker.
Init ==
    /\ started = FALSE
    /\ services = << >>
    /\ svcState = [s \in Svc |-> "new"]
    /\ regRunning = FALSE
    /\ localSvcs = {}
    /\ remoteKnown = {}
    /\ pc = "idle"
    /\ caller = "Start"
    /\ idx = 0
    /\ cur = CHOOSE s \in Svc : TRUE
    /\ waited = 0

\* startService(s) up to its waitForDependencies loop (lines 377-381).
BeginStartService(s, from) ==
    /\ pc' = "waiting"
    /\ caller' = from
    /\ cur' = s
    /\ waited' = 0

\* Mutant of AddService: the instance is appended but never started.
AddServiceNeverStarts(s) ==
    /\ pc = "idle"
    /\ s \notin Held
    /\ services' = Append(services, s)
    /\ UNCHANGED <<pc, caller, cur, waited>>
    /\ UNCHANGED <<started, svcState, regRunning, localSvcs, remoteKnown,
                   idx>>

\* AddService (lines 465-473): append the instance; on a started broker,
\* start it at once.
AddService(s) ==
    /\ pc = "idle"
    /\ s \notin Held
    /\ services' = Append(services, s)
    /\ IF started
          THEN BeginStartService(s, "AddService")
          ELSE UNCHANGED <<pc, caller, cur, waited>>
    /\ UNCHANGED <<started, svcState, regRunning, localSvcs, remoteKnown,
                   idx>>

\* Start (lines 492-501): a second Start only warns; otherwise the
\* registry starts and the range loop over broker.services begins.
Start ==
    /\ pc = "idle"
    /\ IF started
          THEN UNCHANGED vars
          ELSE /\ regRunning' = TRUE
               /\ pc' = "starting"
               /\ idx' = 1
               /\ UNCHANGED <<started, services, svcState, localSvcs,
                              remoteKnown, caller, cur, waited>>

\* One iteration of Start's loop (lines 503-505).
StartNext ==
    /\ pc = "starting"
    /\ idx <= Len(services)
    /\ BeginStartService(services[idx], "Start")
    /\ UNCHANGED <<started, services, svcState, regRunning, localSvcs,
                   remoteKnown, idx>>

\* After the loop (lines 509-513): started is set, then the deferred
\* brokerStarted hooks and broadcastLocal("$broker.started"), a no-op.
StartDone ==
    /\ pc = "starting"
    /\ idx > Len(services)
    /\ started' = TRUE
    /\ pc' = "idle"
    /\ UNCHANGED <<services, svcState, regRunning, localSvcs, remoteKnown,
                   caller, idx, cur, waited>>

\* One round of waitForDependencies' loop (lines 394-418).  It breaks when
\* the service has no dependency, when all are known, when the timeout
\* has passed, or when the broker is not started; otherwise it sleeps.
WaitOver ==
    \/ Deps[cur] = {}
    \/ Deps[cur] \subseteq Known
    \/ waited >= MaxWait
    \/ ~started

\* Mutant of WaitSleep: the timeout check is dropped from the loop.
WaitSleepNoTimeout ==
    /\ pc = "waiting"
    /\ ~(Deps[cur] = {} \/ Deps[cur] \subseteq Known \/ ~started)
    /\ waited' = waited + 1
    /\ UNCHANGED <<started, services, svcState, regRunning, localSvcs,
                   remoteKnown, pc, caller, idx, cur>>

WaitSleep ==
    /\ pc = "waiting"
    /\ ~WaitOver
    /\ waited' = waited + 1
    /\ UNCHANGED <<started, services, svcState, regRunning, localSvcs,
                   remoteKnown, pc, caller, idx, cur>>

\* Mutant of ServiceStarted: Start's loop index is not advanced.
ServiceStartedNoAdvance ==
    /\ pc = "waiting"
    /\ WaitOver
    /\ svcState' = [svcState EXCEPT ![cur] = "running"]
    /\ localSvcs' = localSvcs \cup {cur}
    /\ pc' = IF caller = "Start" THEN "starting" ELSE "idle"
    /\ UNCHANGED <<started, services, regRunning, remoteKnown, caller, cur,
                   waited, idx>>

\* The rest of startService (lines 383-389): svc.Start(), then the registry
\* learns the local service; control returns to Start's loop or to the user.
ServiceStarted ==
    /\ pc = "waiting"
    /\ WaitOver
    /\ svcState' = [svcState EXCEPT ![cur] = "running"]
    /\ localSvcs' = localSvcs \cup {cur}
    /\ IF caller = "Start"
          THEN pc' = "starting" /\ idx' = idx + 1
          ELSE pc' = "idle" /\ UNCHANGED idx
    /\ UNCHANGED <<started, services, regRunning, remoteKnown, caller, cur,
                   waited>>

\* Stop (lines 475-490): no started guard; every held service is stopped,
\* then the registry, then started is cleared.
Stop ==
    /\ pc = "idle"
    /\ svcState' = [s \in Svc |-> IF s \in Held THEN "stopped" ELSE svcState[s]]
    /\ regRunning' = FALSE
    /\ started' = FALSE
    /\ UNCHANGED <<services, localSvcs, remoteKnown, pc, caller, idx, cur,
                   waited>>

\* Call, Emit and Broadcast (lines 517-542) panic on an unstarted broker;
\* on a started one they hand the context to the registry.
Invoke ==
    /\ pc = "idle"
    /\ IF started
          THEN UNCHANGED vars
          ELSE /\ pc' = "panicked"
               /\ UNCHANGED <<started, services, svcState, regRunning,
                              localSvcs, remoteKnown, caller, idx, cur,
                              waited>>

\* The running registry discovers a service offered by another node.
RemoteDiscovered(r) ==
    /\ regRunning
    /\ r \notin remoteKnown
    /\ remoteKnown' = remoteKnown \cup {r}
    /\ UNCHANGED <<started, services, svcState, regRunning, localSvcs, pc,
                   caller, idx, cur, waited>>

Next ==
    \/ \E s \in Svc : AddService(s)
    \/ Start \/ StartNext \/ StartDone
    \/ WaitSleep \/ ServiceStarted
    \/ Stop \/ Invoke
    \/ \E r \in Remote : RemoteDiscovered(r)

\* The user's goroutine runs the method it is in to its end: the polling
\* loop only sleeps, so the scheduler keeps stepping it.
Fairness ==
    WF_vars(StartNext \/ StartDone \/ WaitSleep \/ ServiceStarted)

Spec == Init /\ [][Next]_vars

FairSpec == Spec /\ Fairness

-----------------------------------------------------------------------------
(* Properties.                                                             *)

\* Whenever the user's goroutine is between broker calls, the services the
\* broker holds are running exactly when it reports started: Start starts
\* each of them before setting started, AddService on a started broker
\* starts the new one, and Stop stops them all before clearing started.
LifecycleConsistent ==
    pc = "idle" => \A s \in Held : svcState[s] = "running" <=> started

\* Every Start and AddService returns to its caller: the dependency wait
\* of each service ends, by its timeout if nothing else.
MethodsReturn == pc \in {"starting", "waiting"} ~> pc = "idle"

\* waitForDependencies' comment (line 392): a service is started only once
\* all its dependencies are discovered, or after waiting out the timeout.
DependenciesBeforeStart ==
    [][\A s \in Svc :
          svcState[s] # "running" /\ svcState'[s] = "running" =>
              Deps[s] \subseteq Known \/ waited >= MaxWait]_vars

=============================================================================
