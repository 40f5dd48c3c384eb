-------------------------- MODULE TransitCallsProofs --------------------------
(***************************************************************************)
(* Transit refines Calls for every value of the constants.  The step      *)
(* simulation rests on IInv2 of TransitProofs: the handler that sends a    *)
(* result runs on the call's caller (ThreadsAtCaller), a handler that      *)
(* found no entry finds none at its delete (UnfoundAbsent), and a call     *)
(* not issued yet has had nothing sent (FreshUnsent).                      *)
(***************************************************************************)
EXTENDS TransitProofs, TransitCalls

\* Steps that keep every call's context and every caller's membership of
\* its call in the table keep every phase.
LEMMA PhaseUnchanged ==
  ASSUME TypeOK, ctx' = ctx,
         \A j \in CallId : ctx[j] # NoCtx =>
             (j \in pending'[ctx[j].from] <=> j \in pending[ctx[j].from])
  PROVE  CallPhase' = CallPhase
BY DEF CallPhase

\* A step that changes one call's phase and keeps the others.
LEMMA PhaseUpdate ==
  ASSUME TypeOK, NEW id \in CallId, NEW p,
         \A j \in CallId \ {id} : ctx'[j] = ctx[j],
         \A j \in CallId \ {id} : ctx[j] # NoCtx =>
             (j \in pending'[ctx[j].from] <=> j \in pending[ctx[j].from]),
         CallPhase'[id] = p
  PROVE  CallPhase' = [CallPhase EXCEPT ![id] = p]
<1>1. ASSUME NEW j \in CallId \ {id} PROVE CallPhase'[j] = CallPhase[j]
  <2>1. ctx'[j] = ctx[j]
    OBVIOUS
  <2>2. CASE ctx[j] = NoCtx
    BY <2>1, <2>2 DEF CallPhase
  <2>3. CASE ctx[j] # NoCtx
    <3>1. j \in pending'[ctx'[j].from] <=> j \in pending[ctx[j].from]
      BY <2>1, <2>3
    <3> QED
      BY <2>1, <2>3, <3>1 DEF CallPhase
  <2> QED
    BY <2>2, <2>3
<1>2. CallPhase'[id] = [CallPhase EXCEPT ![id] = p][id]
  BY DEF CallPhase
<1>3. \A j \in CallId : CallPhase'[j] = [CallPhase EXCEPT ![id] = p][j]
  BY <1>1, <1>2 DEF CallPhase
<1>4. CallPhase' \in [CallId -> Abs!Phases] /\ CallPhase \in [CallId -> Abs!Phases]
  BY DEF CallPhase, Abs!Phases
<1> QED
  BY <1>3, <1>4
\* The initial state is the abstract initial state.
LEMMA InitRefines == Init => Abs!Init
BY DEF Init, Abs!Init, CallPhase

\* Steps that touch neither the contexts, the table nor the results are
\* abstract stutters.
LEMMA FrameStutter ==
  ASSUME TypeOK, UNCHANGED <<ctx, pending, sends>>
  PROVE  UNCHANGED <<CallPhase, sends>>
BY PhaseUnchanged

LEMMA NextRefines == IInv2 /\ [Next]_vars => [Abs!Next]_Abs!vars
<1> SUFFICES ASSUME IInv2, [Next]_vars PROVE [Abs!Next]_Abs!vars
  OBVIOUS
<1>0. TypeOK /\ FreshUnsent /\ ThreadsAtCaller /\ UnfoundAbsent
  BY DEF IInv2, IInv
<1>1. ASSUME NEW n \in Node, NEW id \in CallId, NEW t \in Node, Request(n, id, t)
      PROVE Abs!Issue(id)
  <2>1. /\ ctx[id] = NoCtx
        /\ ctx' = [ctx EXCEPT ![id] = [from |-> n, to |-> t]]
        /\ pending' = [pending EXCEPT ![n] = @ \cup {id}]
        /\ UNCHANGED sends
    BY <1>1 DEF Request, CanCall
  <2>2. CallPhase[id] = "unissued"
    BY <2>1 DEF CallPhase
  <2>3. CallPhase'[id] = "pending"
    BY <2>1, NoCtxHasNoCaller, <1>0 DEF CallPhase, TypeOK
  <2>4. \A j \in CallId \ {id} : ctx[j] # NoCtx =>
            (j \in pending'[ctx[j].from] <=> j \in pending[ctx[j].from])
    BY <2>1, <1>0 DEF TypeOK, Ctx
  <2>5. CallPhase' = [CallPhase EXCEPT ![id] = "pending"]
    BY <2>1, <2>3, <2>4, <1>0, PhaseUpdate DEF TypeOK
  <2> QED
    BY <2>1, <2>2, <2>5 DEF Abs!Issue
<1>2. ASSUME NEW th \in ResThread, ResDeliver(th)
      PROVE [Abs!Next]_Abs!vars
  <2>1. /\ resThreads[th] > 0
        /\ pending' = [pending EXCEPT ![th.node] = @ \ {th.id}]
        /\ UNCHANGED ctx
    BY <1>2 DEF ResDeliver
  <2>2. th.node \in Node /\ th.id \in CallId /\ th.found \in BOOLEAN
    BY DEF ResThread
  <2>3. ctx[th.id].from = th.node
    BY <2>1, <2>2, <1>0 DEF ThreadsAtCaller
  <2>4. ctx[th.id] # NoCtx
    BY <2>2, <2>3, NoCtxHasNoCaller
  <2>5. \A j \in CallId \ {th.id} : ctx[j] # NoCtx =>
            (j \in pending'[ctx[j].from] <=> j \in pending[ctx[j].from])
    BY <2>1, <2>2, <1>0 DEF TypeOK, Ctx
  <2>6. CASE ~th.found
    <3>1. th.id \notin pending[th.node] /\ UNCHANGED sends
      BY <1>2, <2>1, <2>6, <1>0 DEF ResDeliver, UnfoundAbsent
    <3>2. pending' = pending
      BY <2>1, <2>2, <3>1, <1>0 DEF TypeOK
    <3> QED
      BY <2>1, <3>1, <3>2, <1>0, FrameStutter DEF Abs!vars
  <2>7. CASE th.found
    <3>1. sends' = [sends EXCEPT ![th.id] = @ + 1]
      BY <1>2, <2>7 DEF ResDeliver
    <3>2. CallPhase'[th.id] = "resolved"
      BY <2>1, <2>2, <2>3, <2>4, <1>0 DEF CallPhase, TypeOK
    <3>3. CallPhase' = [CallPhase EXCEPT ![th.id] = "resolved"]
      BY <2>1, <2>2, <2>5, <3>2, <1>0, PhaseUpdate
    <3>4. CASE th.id \in pending[th.node]
      <4>1. CallPhase[th.id] = "pending"
        BY <2>2, <2>3, <2>4, <3>4 DEF CallPhase
      <4> QED
        BY <3>1, <3>3, <4>1, <2>2 DEF Abs!Next, Abs!Resolve
    <3>5. CASE th.id \notin pending[th.node]
      <4>1. CallPhase[th.id] = "resolved"
        BY <2>3, <2>4, <3>5, <2>2 DEF CallPhase
      <4>2. CallPhase' = CallPhase
        BY <3>3, <4>1, <2>2, <1>0 DEF CallPhase
      <4> QED
        BY <3>1, <4>1, <4>2, <2>2 DEF Abs!Next, Abs!Resend
    <3> QED
      BY <3>4, <3>5
  <2> QED
    BY <2>2, <2>6, <2>7
<1>3. ASSUME NEW n \in Node, NEW t \in Node, NodeDisconnected(n, t)
      PROVE UNCHANGED <<ctx, pending, sends>>
  <2>1. t \notin pending[n]
    BY <1>0, IdAssumption DEF TypeOK
  <2> QED
    BY <1>3, <2>1 DEF NodeDisconnected
<1>4. ASSUME NEW n \in Node,
             \/ Connect(n)
             \/ \E ok \in BOOLEAN : ConnectDone(n, ok)
             \/ \E id \in CallId, t \in Node : RequestEncodeFails(n, id, t)
             \/ NodeLeave(n)
      PROVE UNCHANGED <<ctx, pending, sends>>
  BY <1>4 DEF Connect, ConnectDone, RequestEncodeFails, NodeLeave
<1>5. ASSUME NEW m \in Msg, ReqHandle(m) \/ ResLookup(m) \/ LoseMsg(m)
      PROVE UNCHANGED <<ctx, pending, sends>>
  BY <1>5 DEF ReqHandle, ResLookup, LoseMsg
<1>6. ASSUME UNCHANGED <<ctx, pending, sends>> PROVE [Abs!Next]_Abs!vars
  BY <1>6, <1>0, FrameStutter DEF Abs!vars
<1>7. CASE UNCHANGED vars
  BY <1>7, <1>6 DEF vars
<1> QED
  BY <1>1, <1>2, <1>3, <1>4, <1>5, <1>6, <1>7 DEF Next, Abs!Next

\* Every behaviour of the engine, with its unlocked RES handlers, duplicate
\* subscriptions, lost messages and panics, is a behaviour of the abstract
\* call lifecycle Calls, for every set of nodes and calls.
THEOREM TransitRefinesCalls == Spec => Refinement
<1>1. Spec => []IInv2
  BY InitIInv2, NextIInv2, PTL DEF Spec
<1>2. Spec => [][Abs!Next]_Abs!vars
  BY <1>1, NextRefines, PTL DEF Spec
<1> QED
  BY <1>2, InitRefines, PTL DEF Spec, Refinement, Abs!Spec

\* Calls' invariant, carried over to the engine through the refinement: a
\* call's result channel has been sent a value exactly when the call was
\* issued and its entry is gone from its caller's pendingRequests.
THEOREM ResolvedIffAnsweredHolds == Spec => []ResolvedIffAnswered
<1>1. Abs!Spec => [](Abs!TypeOK /\ Abs!ResultIffResolved)
  BY Abs!ResultIffResolvedHolds
<1> QED
  BY <1>1, TransitRefinesCalls, PTL DEF Refinement, ResolvedIffAnswered
=============================================================================
