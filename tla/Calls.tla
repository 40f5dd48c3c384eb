-------------------------------- MODULE Calls --------------------------------
(***************************************************************************)
(* What the Transit engine promises about each call, stated without nodes, *)
(* messages or handlers.  A call is first unissued, then pending while its *)
(* caller waits, then resolved; it leaves the pending phase only together  *)
(* with the first value sent on its result channel.  A resolved call may   *)
(* be sent further values (a duplicated RES), but a call is never issued   *)
(* twice, and no value is ever sent for a call that is not yet resolved.   *)
(***************************************************************************)
EXTENDS Naturals, TLAPS

CONSTANT CallId

VARIABLES
    phase,    \* "unissued", "pending" or "resolved", per call
    results   \* values sent on the call's result channel

vars == <<phase, results>>

Phases == {"unissued", "pending", "resolved"}

TypeOK ==
    /\ phase \in [CallId -> Phases]
    /\ results \in [CallId -> Nat]

Init ==
    /\ phase = [id \in CallId |-> "unissued"]
    /\ results = [id \in CallId |-> 0]

\* The caller registers the call and waits for its result.
Issue(id) ==
    /\ phase[id] = "unissued"
    /\ phase' = [phase EXCEPT ![id] = "pending"]
    /\ UNCHANGED results

\* The waiting caller is sent its result, and the call is no longer pending.
Resolve(id) ==
    /\ phase[id] = "pending"
    /\ phase' = [phase EXCEPT ![id] = "resolved"]
    /\ results' = [results EXCEPT ![id] = @ + 1]

\* A further value for a call already resolved.
Resend(id) ==
    /\ phase[id] = "resolved"
    /\ results' = [results EXCEPT ![id] = @ + 1]
    /\ UNCHANGED phase

Next == \E id \in CallId : Issue(id) \/ Resolve(id) \/ Resend(id)

Spec == Init /\ [][Next]_vars

\* A call has been sent a value exactly when it is resolved: a waiting
\* caller has received nothing, and a caller no longer waiting has.
ResultIffResolved ==
    \A id \in CallId : results[id] > 0 <=> phase[id] = "resolved"

\* The promise holds in every behaviour of Calls, for every set of calls.
THEOREM ResultIffResolvedHolds == Spec => [](TypeOK /\ ResultIffResolved)
<1> DEFINE Inv == TypeOK /\ ResultIffResolved
<1>1. Init => Inv
  BY DEF Init, Inv, TypeOK, ResultIffResolved, Phases
<1>2. Inv /\ [Next]_vars => Inv'
  <2> SUFFICES ASSUME Inv, [Next]_vars PROVE Inv'
    OBVIOUS
  <2>1. ASSUME NEW id \in CallId, Issue(id) PROVE Inv'
    BY <2>1 DEF Issue, Inv, TypeOK, ResultIffResolved, Phases
  <2>2. ASSUME NEW id \in CallId, Resolve(id) PROVE Inv'
    BY <2>2 DEF Resolve, Inv, TypeOK, ResultIffResolved, Phases
  <2>3. ASSUME NEW id \in CallId, Resend(id) PROVE Inv'
    BY <2>3 DEF Resend, Inv, TypeOK, ResultIffResolved, Phases
  <2>4. CASE UNCHANGED vars
    BY <2>4 DEF vars, Inv, TypeOK, ResultIffResolved
  <2> QED
    BY <2>1, <2>2, <2>3, <2>4 DEF Next
<1> QED
  BY <1>1, <1>2, PTL DEF Spec
=============================================================================
