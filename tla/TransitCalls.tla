----------------------------- MODULE TransitCalls -----------------------------
(***************************************************************************)
(* Transit implements Calls.  A call's phase is read off the engine's      *)
(* state: unissued while it has no context, pending while its caller's     *)
(* pendingRequests holds its key, resolved afterwards; the values sent are *)
(* the values sent on its result channel.                                  *)
(***************************************************************************)
EXTENDS Transit

\* The phase of call id in the engine's state.
CallPhase ==
    [id \in CallId |->
        IF ctx[id] = NoCtx THEN "unissued"
        ELSE IF id \in pending[ctx[id].from] THEN "pending"
        ELSE "resolved"]

Abs == INSTANCE Calls WITH phase <- CallPhase, results <- sends

\* Every behaviour of the engine is a behaviour of Calls: Request issues a
\* call, the RES handler's delete-and-send (lines 181-187) resolves it or,
\* for a duplicated RES, sends again, and every other step leaves the
\* phases and the results alone.
Refinement == Abs!Spec

\* Calls' promise read on the engine: a call has been sent a value exactly
\* when its caller's pendingRequests no longer holds it.
ResolvedIffAnswered == Abs!ResultIffResolved
=============================================================================
