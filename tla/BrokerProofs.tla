---------------------------- MODULE BrokerProofs ----------------------------
(* Proofs about the broker lifecycle model.                                *)
EXTENDS Broker, TLAPS

\* The services Start's loop has passed are running.
Prefix(k) == \A i \in 1..k : svcState[services[i]] = "running"

\* An instance is started or stopped only once the broker holds it.
UnheldNew == \A s \in Svc \ Held : svcState[s] = "new"

\* Where the user's goroutine is, and what it has done so far.
PcInv ==
    /\ pc = "starting" =>
          /\ ~started /\ idx \in 1..(Len(services) + 1) /\ Prefix(idx - 1)
    /\ pc = "waiting" /\ caller = "Start" =>
          /\ ~started /\ idx \in 1..Len(services) /\ cur = services[idx]
          /\ Prefix(idx - 1)
    /\ pc = "waiting" /\ caller = "AddService" =>
          /\ started /\ Len(services) > 0 /\ cur = services[Len(services)]
          /\ Prefix(Len(services) - 1)

IInv == TypeOK /\ UnheldNew /\ PcInv /\ LifecycleConsistent

-----------------------------------------------------------------------------
LEMMA InitIInv == Init => IInv
<1> SUFFICES ASSUME Init PROVE IInv
  OBVIOUS
<1>1. Held = {}
  BY DEF Init, Held
<1>2. TypeOK
  <2>1. (CHOOSE s \in Svc : TRUE) \in Svc
    BY SvcAssumption
  <2>2. << >> \in Seq(Svc)
    OBVIOUS
  <2>3. [s \in Svc |-> "new"] \in [Svc -> SvcStates]
    BY DEF SvcStates
  <2>4. 0 \in 0..MaxWait
    BY WaitAssumption
  <2> QED
    BY <2>1, <2>2, <2>3, <2>4, Zenon DEF Init, TypeOK
<1> QED
  BY <1>1, <1>2 DEF Init, IInv, UnheldNew, PcInv, LifecycleConsistent

\* Appending a service adds exactly it to the held set.
LEMMA HeldAppend ==
  ASSUME NEW S, NEW seq \in Seq(S), NEW x \in S
  PROVE  {Append(seq, x)[i] : i \in DOMAIN Append(seq, x)}
           = {seq[i] : i \in DOMAIN seq} \cup {x}
<1>1. DOMAIN Append(seq, x) = 1..(Len(seq) + 1)
  OBVIOUS
<1>2. \A i \in 1..Len(seq) : Append(seq, x)[i] = seq[i]
  OBVIOUS
<1>3. Append(seq, x)[Len(seq) + 1] = x
  OBVIOUS
<1>4. DOMAIN seq = 1..Len(seq)
  OBVIOUS
<1> QED
  BY <1>1, <1>2, <1>3, <1>4

\* A step that changes no variable preserves the invariant.
LEMMA UnchangedIInv == IInv /\ UNCHANGED vars => IInv'
BY DEF vars, IInv, TypeOK, SvcStates, UnheldNew, PcInv, Prefix,
       LifecycleConsistent, Held

LEMMA NextIInv == IInv /\ [Next]_vars => IInv'
<1> SUFFICES ASSUME IInv, [Next]_vars PROVE IInv'
  OBVIOUS
<1>0. TypeOK /\ UnheldNew /\ PcInv /\ LifecycleConsistent
  BY DEF IInv
<1>1. ASSUME NEW s \in Svc, AddService(s) PROVE IInv'
  <2>1. pc = "idle" /\ s \notin Held /\ services' = Append(services, s)
    BY <1>1 DEF AddService
  <2>2. UNCHANGED <<started, svcState, regRunning, localSvcs, remoteKnown, idx>>
    BY <1>1 DEF AddService
  <2>3. Held' = Held \cup {s}
    BY <2>1, <1>0, HeldAppend DEF Held, TypeOK
  <2>4. /\ services' \in Seq(Svc)
        /\ Len(services') = Len(services) + 1
        /\ services'[Len(services')] = s
        /\ \A i \in 1..Len(services) : services'[i] = services[i]
    BY <2>1, <1>0 DEF TypeOK
  <2>5. svcState[s] = "new"
    BY <2>1, <1>0 DEF UnheldNew
  <2>6. UnheldNew'
    BY <2>2, <2>3, <1>0 DEF UnheldNew
  <2>7. CASE started
    <3>1. pc' = "waiting" /\ caller' = "AddService" /\ cur' = s /\ waited' = 0
      BY <1>1, <2>7 DEF AddService, BeginStartService
    <3>2. \A i \in 1..Len(services) : svcState[services[i]] = "running"
      <4>1. \A i \in 1..Len(services) : services[i] \in Held
        BY <1>0 DEF Held, TypeOK
      <4> QED
        BY <4>1, <2>1, <2>7, <1>0 DEF LifecycleConsistent
    <3>3. TypeOK'
      BY <3>1, <2>2, <2>4, <1>0, WaitAssumption DEF TypeOK, SvcStates
    <3>4. PcInv'
      <4>1. \A i \in 1..(Len(services') - 1) : svcState'[services'[i]] = "running"
        BY <3>2, <2>2, <2>4
      <4> QED
        BY <4>1, <3>1, <2>2, <2>4, <2>7 DEF PcInv, Prefix
    <3>5. LifecycleConsistent'
      BY <3>1 DEF LifecycleConsistent
    <3> QED
      BY <2>6, <3>3, <3>4, <3>5 DEF IInv
  <2>8. CASE ~started
    <3>1. UNCHANGED <<pc, caller, cur, waited>>
      BY <1>1, <2>8 DEF AddService
    <3>2. TypeOK'
      BY <3>1, <2>2, <2>4, <1>0 DEF TypeOK, SvcStates
    <3>3. PcInv'
      BY <3>1, <2>1 DEF PcInv
    <3>4. LifecycleConsistent'
      <4>1. \A x \in Held : svcState[x] # "running"
        BY <2>1, <2>8, <1>0 DEF LifecycleConsistent
      <4> QED
        BY <4>1, <3>1, <2>1, <2>2, <2>3, <2>5, <2>8 DEF LifecycleConsistent
    <3> QED
      BY <2>6, <3>2, <3>3, <3>4 DEF IInv
  <2> QED
    BY <2>7, <2>8, <1>0 DEF TypeOK
<1>2. CASE Start
  <2>1. CASE started
    <3>1. UNCHANGED vars
      BY <1>2, <2>1 DEF Start
    <3> QED
      BY <3>1, UnchangedIInv
  <2>2. CASE ~started
    <3>1. pc' = "starting" /\ idx' = 1 /\ regRunning' = TRUE
      BY <1>2, <2>2 DEF Start
    <3>2. UNCHANGED <<started, services, svcState, localSvcs, remoteKnown,
                      caller, cur, waited>>
      BY <1>2, <2>2 DEF Start
    <3>3. TypeOK'
      BY <3>1, <3>2, <1>0 DEF TypeOK, SvcStates
    <3>4. PcInv'
      BY <3>1, <3>2, <2>2, <1>0 DEF PcInv, Prefix, TypeOK
    <3>5. UnheldNew'
      BY <3>2, <1>0 DEF UnheldNew, Held
    <3>6. LifecycleConsistent'
      BY <3>1 DEF LifecycleConsistent
    <3> QED
      BY <3>3, <3>4, <3>5, <3>6 DEF IInv
  <2> QED
    BY <2>1, <2>2, <1>0 DEF TypeOK
<1>3. CASE StartNext
  <2>1. /\ pc = "starting" /\ idx <= Len(services)
        /\ pc' = "waiting" /\ caller' = "Start" /\ cur' = services[idx]
        /\ waited' = 0
    BY <1>3 DEF StartNext, BeginStartService
  <2>2. UNCHANGED <<started, services, svcState, regRunning, localSvcs,
                    remoteKnown, idx>>
    BY <1>3 DEF StartNext
  <2>3. ~started /\ idx \in 1..Len(services) /\ Prefix(idx - 1)
    BY <2>1, <1>0 DEF PcInv
  <2>4. TypeOK'
    BY <2>1, <2>2, <2>3, <1>0, WaitAssumption DEF TypeOK, SvcStates
  <2>5. PcInv'
    BY <2>1, <2>2, <2>3 DEF PcInv, Prefix
  <2>6. UnheldNew'
    BY <2>2, <1>0 DEF UnheldNew, Held
  <2>7. LifecycleConsistent'
    BY <2>1 DEF LifecycleConsistent
  <2> QED
    BY <2>4, <2>5, <2>6, <2>7 DEF IInv
<1>4. CASE StartDone
  <2>1. pc = "starting" /\ idx > Len(services) /\ started' = TRUE /\ pc' = "idle"
    BY <1>4 DEF StartDone
  <2>2. UNCHANGED <<services, svcState, regRunning, localSvcs, remoteKnown,
                    caller, idx, cur, waited>>
    BY <1>4 DEF StartDone
  <2>3. idx \in 1..(Len(services) + 1) /\ Prefix(idx - 1)
    BY <2>1, <1>0 DEF PcInv
  <2>4. \A i \in 1..Len(services) : svcState[services[i]] = "running"
    BY <2>1, <2>3, <1>0 DEF Prefix, TypeOK
  <2>5. LifecycleConsistent'
    BY <2>1, <2>2, <2>4, <1>0 DEF LifecycleConsistent, Held, TypeOK
  <2>6. TypeOK'
    BY <2>1, <2>2, <1>0 DEF TypeOK, SvcStates
  <2>7. PcInv'
    BY <2>1 DEF PcInv
  <2>8. UnheldNew'
    BY <2>2, <1>0 DEF UnheldNew, Held
  <2> QED
    BY <2>5, <2>6, <2>7, <2>8 DEF IInv
<1>5. CASE WaitSleep
  <2>1. pc = "waiting" /\ ~WaitOver /\ waited' = waited + 1
    BY <1>5 DEF WaitSleep
  <2>2. UNCHANGED <<started, services, svcState, regRunning, localSvcs,
                    remoteKnown, pc, caller, idx, cur>>
    BY <1>5 DEF WaitSleep
  <2>3. waited < MaxWait
    BY <2>1, <1>0, WaitAssumption DEF WaitOver, TypeOK
  <2>4. TypeOK'
    BY <2>1, <2>2, <2>3, <1>0, WaitAssumption DEF TypeOK, SvcStates
  <2> QED
    BY <2>2, <2>4, <1>0 DEF IInv, UnheldNew, PcInv, Prefix,
                            LifecycleConsistent, Held
<1>6. CASE ServiceStarted
  <2>1. /\ pc = "waiting"
        /\ svcState' = [svcState EXCEPT ![cur] = "running"]
        /\ localSvcs' = localSvcs \cup {cur}
    BY <1>6 DEF ServiceStarted
  <2>2. UNCHANGED <<started, services, regRunning, remoteKnown, caller, cur,
                    waited>>
    BY <1>6 DEF ServiceStarted
  <2>3. cur \in Held
    <3>1. CASE caller = "Start"
      BY <3>1, <2>1, <1>0 DEF PcInv, Held, TypeOK
    <3>2. CASE caller = "AddService"
      BY <3>2, <2>1, <1>0 DEF PcInv, Held, TypeOK
    <3> QED
      BY <3>1, <3>2, <1>0 DEF TypeOK
  <2>4. UnheldNew'
    BY <2>1, <2>2, <2>3, <1>0 DEF UnheldNew, Held, TypeOK
  <2>5. CASE caller = "Start"
    <3>1. pc' = "starting" /\ idx' = idx + 1
      BY <1>6, <2>5 DEF ServiceStarted
    <3>2. ~started /\ idx \in 1..Len(services) /\ cur = services[idx]
          /\ Prefix(idx - 1)
      BY <2>1, <2>5, <1>0 DEF PcInv
    <3>3. \A i \in 1..idx : svcState'[services[i]] = "running"
      BY <3>2, <2>1, <1>0 DEF Prefix, TypeOK
    <3>4. TypeOK'
      BY <3>1, <3>2, <2>1, <2>2, <1>0 DEF TypeOK, SvcStates
    <3>5. PcInv'
      BY <3>1, <3>2, <3>3, <2>2 DEF PcInv, Prefix
    <3>6. LifecycleConsistent'
      BY <3>1 DEF LifecycleConsistent
    <3> QED
      BY <2>4, <3>4, <3>5, <3>6 DEF IInv
  <2>6. CASE caller = "AddService"
    <3>1. pc' = "idle" /\ idx' = idx
      BY <1>6, <2>6 DEF ServiceStarted
    <3>2. started /\ Len(services) > 0 /\ cur = services[Len(services)]
          /\ Prefix(Len(services) - 1)
      BY <2>1, <2>6, <1>0 DEF PcInv
    <3>3. \A i \in 1..Len(services) : svcState'[services[i]] = "running"
      BY <3>2, <2>1, <1>0 DEF Prefix, TypeOK
    <3>4. TypeOK'
      BY <3>1, <2>1, <2>2, <2>3, <1>0 DEF TypeOK, SvcStates, Held
    <3>5. LifecycleConsistent'
      BY <3>1, <3>2, <3>3, <2>2, <1>0 DEF LifecycleConsistent, Held, TypeOK
    <3>6. PcInv'
      BY <3>1 DEF PcInv
    <3> QED
      BY <2>4, <3>4, <3>5, <3>6 DEF IInv
  <2> QED
    BY <2>5, <2>6, <1>0 DEF TypeOK
<1>7. CASE Stop
  <2>1. /\ pc = "idle" /\ started' = FALSE /\ regRunning' = FALSE
        /\ svcState' = [s \in Svc |-> IF s \in Held THEN "stopped" ELSE svcState[s]]
    BY <1>7 DEF Stop
  <2>2. UNCHANGED <<services, localSvcs, remoteKnown, pc, caller, idx, cur,
                    waited>>
    BY <1>7 DEF Stop
  <2>3. Held \subseteq Svc
    BY <1>0 DEF Held, TypeOK
  <2>4. TypeOK'
    BY <2>1, <2>2, <1>0 DEF TypeOK, SvcStates
  <2>5. UnheldNew'
    BY <2>1, <2>2, <1>0 DEF UnheldNew, Held
  <2>6. LifecycleConsistent'
    BY <2>1, <2>2, <2>3 DEF LifecycleConsistent, Held
  <2>7. PcInv'
    BY <2>1, <2>2 DEF PcInv
  <2> QED
    BY <2>4, <2>5, <2>6, <2>7 DEF IInv
<1>8. CASE Invoke
  <2>1. CASE started
    <3>1. UNCHANGED vars
      BY <1>8, <2>1 DEF Invoke
    <3> QED
      BY <3>1, UnchangedIInv
  <2>2. CASE ~started
    <3>1. pc' = "panicked"
      BY <1>8, <2>2 DEF Invoke
    <3>2. UNCHANGED <<started, services, svcState, regRunning, localSvcs,
                      remoteKnown, caller, idx, cur, waited>>
      BY <1>8, <2>2 DEF Invoke
    <3> QED
      BY <3>1, <3>2, <1>0 DEF IInv, TypeOK, SvcStates, UnheldNew, PcInv,
                              LifecycleConsistent, Held
  <2> QED
    BY <2>1, <2>2, <1>0 DEF TypeOK
<1>9. ASSUME NEW r \in Remote, RemoteDiscovered(r) PROVE IInv'
  <2>1. remoteKnown' = remoteKnown \cup {r}
    BY <1>9 DEF RemoteDiscovered
  <2>2. UNCHANGED <<started, services, svcState, regRunning, localSvcs, pc,
                    caller, idx, cur, waited>>
    BY <1>9 DEF RemoteDiscovered
  <2> QED
    BY <2>1, <2>2, <1>0 DEF IInv, TypeOK, SvcStates, UnheldNew, PcInv, Prefix,
                            LifecycleConsistent, Held
<1>10. CASE UNCHANGED vars
  BY <1>10, UnchangedIInv
<1> QED
  BY <1>1, <1>2, <1>3, <1>4, <1>5, <1>6, <1>7, <1>8, <1>9, <1>10 DEF Next

\* Every reachable broker state is well typed.
THEOREM BrokerTypeCorrect == Spec => []TypeOK
<1>1. IInv => TypeOK
  BY DEF IInv
<1> QED
  BY InitIInv, NextIInv, <1>1, PTL DEF Spec

\* Between broker calls, Start, AddService and Stop leave the held services
\* running exactly when the broker reports started.
THEOREM LifecycleConsistentHolds == Spec => []LifecycleConsistent
<1>1. IInv => LifecycleConsistent
  BY DEF IInv
<1> QED
  BY InitIInv, NextIInv, <1>1, PTL DEF Spec

=============================================================================
