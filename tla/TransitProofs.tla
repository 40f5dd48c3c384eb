---------------------------- MODULE TransitProofs ----------------------------
(***************************************************************************)
(* Proofs about Transit for every value of the constants: type            *)
(* correctness, and the inductive invariant IInv2 on which the refinement  *)
(* of Calls (TransitCallsProofs) rests.                                    *)
(***************************************************************************)
EXTENDS Transit, TLAPS

-----------------------------------------------------------------------------
(* Type correctness.                                                       *)

LEMMA InitTypeOK == Init => TypeOK
  BY DEF Init, TypeOK, Status, Ctx, NoCtx

\* A panic leaves status and subs well typed.
LEMMA PanicType ==
  ASSUME TypeOK, NEW n \in Node, NEW c \in Panics, Panic(n, c)
  PROVE  status' \in [Node -> Status] /\ subs' \in [Node -> Nat]
  BY DEF TypeOK, Panic, Status

LEMMA NextTypeOK == TypeOK /\ [Next]_vars => TypeOK'
<1> SUFFICES ASSUME TypeOK, [Next]_vars PROVE TypeOK'
  OBVIOUS
<1>1. ASSUME NEW n \in Node, Connect(n) PROVE TypeOK'
  BY <1>1 DEF Connect, TypeOK
<1>2. ASSUME NEW n \in Node, NEW ok \in BOOLEAN, ConnectDone(n, ok) PROVE TypeOK'
  BY <1>2 DEF ConnectDone, Subscribe, TypeOK
<1>3. ASSUME NEW n \in Node, NEW id \in CallId, NEW t \in Node, Request(n, id, t)
      PROVE TypeOK'
  <2>1. ctx' \in [CallId -> Ctx] /\ pending' \in [Node -> SUBSET CallId]
    BY <1>3 DEF Request, TypeOK, Ctx
  <2>2. CASE hasTransport[n]
    <3> DEFINE r == [cmd |-> "REQ", sender |-> n, to |-> t, id |-> id]
    <3>1. r \in Msg
      BY DEF Msg, ReqMsg
    <3>2. Copies(r) \in Nat
      BY DEF Copies, TypeOK
    <3>3. net' \in [Msg -> Nat]
      BY <1>3, <2>2, <3>1, <3>2 DEF Request, Publish, TypeOK
    <3> QED
      BY <1>3, <2>1, <2>2, <3>3 DEF Request, TypeOK
  <2>3. CASE ~hasTransport[n]
    <3>1. status' \in [Node -> Status] /\ subs' \in [Node -> Nat]
      BY <1>3, <2>3, PanicType DEF Request, Panics
    <3> QED
      BY <1>3, <2>1, <2>3, <3>1 DEF Request, TypeOK
  <2> QED
    BY <2>2, <2>3
<1>4. ASSUME NEW n \in Node, NEW id \in CallId, NEW t \in Node,
             RequestEncodeFails(n, id, t)
      PROVE TypeOK'
  <2>1. status' \in [Node -> Status] /\ subs' \in [Node -> Nat]
    BY <1>4, PanicType DEF RequestEncodeFails, Panics
  <2> QED
    BY <1>4, <2>1 DEF RequestEncodeFails, TypeOK
<1>5. ASSUME NEW n \in Node, NEW t \in Node, NodeDisconnected(n, t) PROVE TypeOK'
  <2>1. t \notin pending[n]
    BY IdAssumption DEF TypeOK
  <2>2. status' \in [Node -> Status] /\ subs' \in [Node -> Nat]
    BY <1>5, <2>1, PanicType DEF NodeDisconnected, Panics
  <2> QED
    BY <1>5, <2>1, <2>2 DEF NodeDisconnected, TypeOK
<1>6. ASSUME NEW n \in Node, NodeLeave(n) PROVE TypeOK'
  BY <1>6 DEF NodeLeave, TypeOK, Status
<1>7. ASSUME NEW m \in Msg, ReqHandle(m) PROVE TypeOK'
  <2> DEFINE res == [cmd |-> "RES", sender |-> m.to, to |-> m.sender, id |-> m.id]
  <2>1. m \in ReqMsg
    BY <1>7 DEF ReqHandle, Msg, ResMsg
  <2>2. res \in Msg /\ res # m
    BY <2>1 DEF Msg, ResMsg, ReqMsg
  <2>3. Copies(res) \in Nat
    BY <2>2 DEF Copies, TypeOK, Msg, ReqMsg, ResMsg
  <2> QED
    BY <1>7, <2>2, <2>3 DEF ReqHandle, TypeOK
<1>8. ASSUME NEW m \in Msg, ResLookup(m) PROVE TypeOK'
  <2> DEFINE th == [node |-> m.to, id |-> m.id, found |-> m.id \in pending[m.to]]
  <2>1. th \in ResThread
    BY <1>8 DEF ResLookup, Msg, ReqMsg, ResMsg, ResThread
  <2> QED
    BY <1>8, <2>1 DEF ResLookup, TypeOK
<1>9. ASSUME NEW m \in Msg, LoseMsg(m) PROVE TypeOK'
  BY <1>9 DEF LoseMsg, TypeOK
<1>10. ASSUME NEW th \in ResThread, ResDeliver(th) PROVE TypeOK'
  <2>1. th.node \in Node /\ th.id \in CallId /\ th.found \in BOOLEAN
    BY DEF ResThread
  <2>2. resThreads' \in [ResThread -> Nat] /\ pending' \in [Node -> SUBSET CallId]
    BY <1>10, <2>1 DEF ResDeliver, TypeOK
  <2>3. sends' \in [CallId -> Nat]
    BY <1>10, <2>1 DEF ResDeliver, TypeOK
  <2>4. status' \in [Node -> Status] /\ subs' \in [Node -> Nat]
    <3>1. CASE th.found
      BY <1>10, <3>1 DEF ResDeliver, TypeOK
    <3>2. CASE ~th.found
      BY <1>10, <2>1, <3>2, PanicType DEF ResDeliver, Panics
    <3> QED
      BY <3>1, <3>2
  <2> QED
    BY <1>10, <2>2, <2>3, <2>4 DEF ResDeliver, TypeOK
<1>11. CASE UNCHANGED vars
  BY <1>11 DEF vars, TypeOK
<1> QED
  BY <1>1, <1>2, <1>3, <1>4, <1>5, <1>6, <1>7, <1>8, <1>9, <1>10, <1>11 DEF Next

\* Transit's variables always have the types TypeOK gives them.
THEOREM TypeCorrect == Spec => []TypeOK
  BY InitTypeOK, NextTypeOK, PTL DEF Spec
-----------------------------------------------------------------------------
(* Where a call's state lives.  A delivery step removes the entry from    *)
(* its own node only, so the refinement needs that every entry, every      *)
(* response in flight and every response handler for a call sit at that   *)
(* call's caller, and that a call not issued yet has had no value sent.    *)

\* Every pending entry belongs to a call its node issued.
PendingAtCaller ==
    \A n \in Node : \A id \in pending[n] : ctx[id].from = n

\* No value was ever sent on the channel of a call not issued yet.
FreshUnsent ==
    \A id \in CallId : ctx[id] = NoCtx => sends[id] = 0

\* Requests in flight come from the call's caller, responses go to it.
MsgsAtCaller ==
    /\ \A m \in ReqMsg : net[m] > 0 => ctx[m.id].from = m.sender
    /\ \A m \in ResMsg : net[m] > 0 => ctx[m.id].from = m.to

\* Response handlers run on the call's caller.
ThreadsAtCaller ==
    \A th \in ResThread : resThreads[th] > 0 => ctx[th.id].from = th.node

\* The pending table never keeps an entry for a call whose result channel
\* has already been sent a value.
NoStaleEntry ==
    \A n \in Node : \A id \in pending[n] : sends[id] = 0

IInv ==
    /\ TypeOK
    /\ PendingAtCaller
    /\ FreshUnsent
    /\ MsgsAtCaller
    /\ ThreadsAtCaller
    /\ NoStaleEntry
\* The caller of a call not issued yet is no node.
LEMMA NoCtxHasNoCaller == NoCtx.from \notin Node
  BY NodeAssumption DEF NoCtx

LEMMA InitIInv == Init => IInv
<1> SUFFICES ASSUME Init PROVE IInv
  OBVIOUS
<1>1. TypeOK
  BY InitTypeOK
<1>2. PendingAtCaller /\ FreshUnsent /\ NoStaleEntry
  BY DEF Init, PendingAtCaller, FreshUnsent, NoStaleEntry
<1>3. MsgsAtCaller
  BY DEF Init, MsgsAtCaller, Msg
<1>4. ThreadsAtCaller
  BY DEF Init, ThreadsAtCaller
<1> QED
  BY <1>1, <1>2, <1>3, <1>4 DEF IInv

LEMMA NextIInv == IInv /\ [Next]_vars => IInv'
<1> SUFFICES ASSUME IInv, [Next]_vars PROVE IInv'
  OBVIOUS
<1> USE DEF IInv
<1>0. TypeOK'
  BY NextTypeOK
<1>1. ASSUME NEW n \in Node, Connect(n) PROVE IInv'
  BY <1>0, <1>1 DEF Connect, PendingAtCaller, FreshUnsent, MsgsAtCaller,
                    ThreadsAtCaller, NoStaleEntry
<1>2. ASSUME NEW n \in Node, NEW ok \in BOOLEAN, ConnectDone(n, ok) PROVE IInv'
  BY <1>0, <1>2 DEF ConnectDone, PendingAtCaller, FreshUnsent, MsgsAtCaller,
                    ThreadsAtCaller, NoStaleEntry
<1>3. ASSUME NEW n \in Node, NEW id \in CallId, NEW t \in Node, Request(n, id, t)
      PROVE IInv'
  <2>1. ctx[id] = NoCtx /\ ctx' = [ctx EXCEPT ![id] = [from |-> n, to |-> t]]
    BY <1>3 DEF Request, CanCall
  <2>2. \A k \in CallId : k # id => ctx'[k] = ctx[k]
    BY <2>1 DEF TypeOK
  \* id was nobody's: no entry, message or handler mentions it yet.
  <2>3. /\ \A k \in Node : id \notin pending[k]
        /\ \A m \in Msg : m.id = id => net[m] = 0
        /\ \A th \in ResThread : th.id = id => resThreads[th] = 0
    <3>1. \A k \in Node : id \notin pending[k]
      BY <2>1, NoCtxHasNoCaller DEF PendingAtCaller
    <3>2. \A m \in ReqMsg : m.id = id => net[m] = 0
      BY <2>1, NoCtxHasNoCaller DEF MsgsAtCaller, TypeOK, ReqMsg, Msg
    <3>3. \A m \in ResMsg : m.id = id => net[m] = 0
      BY <2>1, NoCtxHasNoCaller DEF MsgsAtCaller, TypeOK, ResMsg, Msg
    <3>4. \A th \in ResThread : th.id = id => resThreads[th] = 0
      <4> SUFFICES ASSUME NEW th \in ResThread, th.id = id
                   PROVE resThreads[th] = 0
        OBVIOUS
      <4>1. th.node \in Node /\ ctx[th.id].from \notin Node
        BY <2>1, NoCtxHasNoCaller DEF ResThread
      <4>2. ~(resThreads[th] > 0)
        BY <4>1 DEF ThreadsAtCaller
      <4>3. resThreads[th] \in Nat
        BY DEF TypeOK
      <4> QED
        BY <4>2, <4>3
    <3> QED
      BY <3>1, <3>2, <3>3, <3>4 DEF Msg
  <2>4. sends[id] = 0
    BY <2>1 DEF FreshUnsent
  <2>5. PendingAtCaller'
    BY <1>3, <2>1, <2>2, <2>3 DEF Request, PendingAtCaller, TypeOK
  <2>6. FreshUnsent'
    BY <1>3, <2>1, <2>2 DEF Request, FreshUnsent, NoCtx, TypeOK
  <2>7. MsgsAtCaller'
    <3>1. CASE hasTransport[n]
      BY <1>3, <2>1, <2>2, <2>3, <3>1 DEF Request, Publish, MsgsAtCaller, TypeOK,
                                         Msg, ReqMsg, ResMsg
    <3>2. CASE ~hasTransport[n]
      BY <1>3, <2>1, <2>2, <2>3, <3>2 DEF Request, MsgsAtCaller, TypeOK, Msg
    <3> QED
      BY <3>1, <3>2
  <2>8. ThreadsAtCaller'
    BY <1>3, <2>2, <2>3 DEF Request, ThreadsAtCaller, TypeOK, ResThread
  <2>9. NoStaleEntry'
    BY <1>3, <2>4 DEF Request, NoStaleEntry, TypeOK
  <2> QED
    BY <1>0, <2>5, <2>6, <2>7, <2>8, <2>9
<1>4. ASSUME NEW n \in Node, NEW id \in CallId, NEW t \in Node,
             RequestEncodeFails(n, id, t)
      PROVE IInv'
  BY <1>0, <1>4 DEF RequestEncodeFails, PendingAtCaller, FreshUnsent, MsgsAtCaller,
                    ThreadsAtCaller, NoStaleEntry
<1>5. ASSUME NEW n \in Node, NEW t \in Node, NodeDisconnected(n, t) PROVE IInv'
  <2>1. t \notin pending[n]
    BY IdAssumption DEF TypeOK
  <2>2. UNCHANGED <<pending, sends, ctx, net, resThreads>>
    BY <1>5, <2>1 DEF NodeDisconnected
  <2> QED
    BY <1>0, <2>2 DEF PendingAtCaller, FreshUnsent, MsgsAtCaller,
                      ThreadsAtCaller, NoStaleEntry
<1>6. ASSUME NEW n \in Node, NodeLeave(n) PROVE IInv'
  BY <1>0, <1>6 DEF NodeLeave, PendingAtCaller, FreshUnsent, MsgsAtCaller,
                    ThreadsAtCaller, NoStaleEntry
<1>7. ASSUME NEW m \in Msg, ReqHandle(m) PROVE IInv'
  <2> DEFINE res == [cmd |-> "RES", sender |-> m.to, to |-> m.sender, id |-> m.id]
  <2>1. m \in ReqMsg /\ net[m] > 0
    BY <1>7 DEF ReqHandle, Msg, ResMsg
  <2>2. res \in ResMsg /\ res # m /\ ctx[res.id].from = res.to
    BY <2>1 DEF ResMsg, ReqMsg, MsgsAtCaller
  <2>4. UNCHANGED <<pending, ctx, resThreads, sends>>
    BY <1>7 DEF ReqHandle
  \* Every message other than the reply keeps at most its old count.
  <2>5. net' = [net EXCEPT ![m] = @ - 1, ![res] = @ + Copies(res)]
    BY <1>7 DEF ReqHandle
  <2>6. \A k \in Msg : k # res => (net'[k] > 0 => net[k] > 0)
    BY <2>1, <2>5, <1>0 DEF TypeOK
  <2>7. res \in Msg
    BY <2>2 DEF Msg
  <2>3. MsgsAtCaller'
    <3>1. \A k \in ReqMsg : net'[k] > 0 => ctx'[k.id].from = k.sender
      BY <2>2, <2>4, <2>6 DEF MsgsAtCaller, Msg, ReqMsg, ResMsg
    <3>2. \A k \in ResMsg : net'[k] > 0 => ctx'[k.id].from = k.to
      BY <2>2, <2>4, <2>6 DEF MsgsAtCaller, Msg
    <3> QED
      BY <3>1, <3>2 DEF MsgsAtCaller
  <2> QED
    BY <1>0, <2>3, <2>4 DEF PendingAtCaller, FreshUnsent, ThreadsAtCaller,
                            NoStaleEntry
<1>8. ASSUME NEW m \in Msg, ResLookup(m) PROVE IInv'
  <2> DEFINE th == [node |-> m.to, id |-> m.id, found |-> m.id \in pending[m.to]]
  <2>1. m \in ResMsg /\ net[m] > 0
    BY <1>8 DEF ResLookup, Msg, ReqMsg
  <2>2. th \in ResThread /\ ctx[th.id].from = th.node
    BY <2>1 DEF ResMsg, ResThread, MsgsAtCaller
  <2>3. MsgsAtCaller'
    BY <1>8, <2>1 DEF ResLookup, MsgsAtCaller, TypeOK, Msg
  <2>4. ThreadsAtCaller'
    BY <1>8, <2>2 DEF ResLookup, ThreadsAtCaller, TypeOK
  <2> QED
    BY <1>0, <1>8, <2>3, <2>4 DEF ResLookup, PendingAtCaller, FreshUnsent,
                                  NoStaleEntry
<1>9. ASSUME NEW m \in Msg, LoseMsg(m) PROVE IInv'
  BY <1>0, <1>9 DEF LoseMsg, PendingAtCaller, FreshUnsent, MsgsAtCaller,
                    ThreadsAtCaller, NoStaleEntry, TypeOK
<1>10. ASSUME NEW th \in ResThread, ResDeliver(th) PROVE IInv'
  <2>1. th.node \in Node /\ th.id \in CallId /\ ctx[th.id].from = th.node
    BY <1>10 DEF ResDeliver, ResThread, ThreadsAtCaller
  \* th.id is pending nowhere but at its caller th.node.
  <2>2. \A k \in Node : th.id \in pending[k] => k = th.node
    BY <2>1 DEF PendingAtCaller
  <2>3. ctx[th.id] # NoCtx
    BY <2>1, NoCtxHasNoCaller
  <2>4. PendingAtCaller'
    BY <1>10, <2>1 DEF ResDeliver, PendingAtCaller, TypeOK
  <2>5. ThreadsAtCaller'
    BY <1>10 DEF ResDeliver, ThreadsAtCaller, TypeOK
  <2>6. FreshUnsent'
    BY <1>10, <2>1, <2>3 DEF ResDeliver, FreshUnsent, TypeOK
  <2>7. NoStaleEntry'
    <3>1. CASE th.found
      BY <1>10, <2>1, <2>2, <3>1 DEF ResDeliver, NoStaleEntry, TypeOK
    <3>2. CASE ~th.found
      BY <1>10, <2>1, <3>2 DEF ResDeliver, NoStaleEntry, TypeOK
    <3> QED
      BY <3>1, <3>2
  <2> QED
    BY <1>0, <1>10, <2>4, <2>5, <2>6, <2>7 DEF ResDeliver, MsgsAtCaller
<1>11. CASE UNCHANGED vars
  BY <1>0, <1>11 DEF vars, PendingAtCaller, FreshUnsent, MsgsAtCaller,
                     ThreadsAtCaller, NoStaleEntry
<1> QED
  BY <1>1, <1>2, <1>3, <1>4, <1>5, <1>6, <1>7, <1>8, <1>9, <1>10, <1>11 DEF Next

-----------------------------------------------------------------------------
(* Handlers that found nothing delete nothing.                            *)

\* A handler that found no entry at its read finds none at its delete: the
\* call already had a context, so it cannot be issued again.
UnfoundAbsent ==
    \A th \in ResThread : resThreads[th] > 0 /\ ~th.found =>
        th.id \notin pending[th.node]

IInv2 == IInv /\ UnfoundAbsent

LEMMA InitIInv2 == Init => IInv2
<1> SUFFICES ASSUME Init PROVE IInv2
  OBVIOUS
<1>1. UnfoundAbsent
  BY DEF Init, UnfoundAbsent
<1> QED
  BY <1>1, InitIInv DEF IInv2

\* Steps that leave the table and the handlers alone, or only shrink the
\* table and the handler counts, keep UnfoundAbsent.
LEMMA ShrinkUnfoundAbsent ==
  ASSUME UnfoundAbsent, TypeOK,
         \A k \in Node : pending'[k] \subseteq pending[k],
         \A th \in ResThread : resThreads'[th] > 0 => resThreads[th] > 0
  PROVE  UnfoundAbsent'
BY DEF UnfoundAbsent, TypeOK, ResThread

LEMMA NextIInv2 == IInv2 /\ [Next]_vars => IInv2'
<1> SUFFICES ASSUME IInv2, [Next]_vars PROVE IInv2'
  OBVIOUS
<1>0. IInv /\ UnfoundAbsent /\ TypeOK /\ ThreadsAtCaller
  BY DEF IInv2, IInv
<1>1. IInv'
  BY <1>0, NextIInv
<1>2. TypeOK'
  BY <1>1 DEF IInv
\* Only Request grows the table and only ResLookup adds a handler; every
\* other step keeps both or only shrinks them.
<1>3. ASSUME NEW n \in Node, NEW id \in CallId, NEW t \in Node, Request(n, id, t)
      PROVE UnfoundAbsent'
  <2>1. ctx[id] = NoCtx /\ UNCHANGED resThreads
        /\ pending' = [pending EXCEPT ![n] = @ \cup {id}]
    BY <1>3 DEF Request, CanCall
  <2>2. \A th \in ResThread : resThreads[th] > 0 => th.id # id
    BY <2>1, <1>0, NoCtxHasNoCaller DEF ThreadsAtCaller, ResThread
  <2> QED
    BY <2>1, <2>2, <1>0 DEF UnfoundAbsent, TypeOK
<1>4. ASSUME NEW m \in Msg, ResLookup(m) PROVE UnfoundAbsent'
  <2> DEFINE new == [node |-> m.to, id |-> m.id, found |-> m.id \in pending[m.to]]
  <2>1. resThreads' = [resThreads EXCEPT ![new] = @ + 1] /\ UNCHANGED pending
    BY <1>4 DEF ResLookup
  <2>2. \A th \in ResThread : resThreads'[th] > 0 /\ th # new => resThreads[th] > 0
    BY <2>1, <1>0 DEF TypeOK
  <2>3. ~new.found => new.id \notin pending[new.node]
    OBVIOUS
  <2> QED
    BY <2>1, <2>2, <2>3, <1>0 DEF UnfoundAbsent
<1>5. ASSUME NEW th0 \in ResThread, ResDeliver(th0) PROVE UnfoundAbsent'
  <2>1. \A k \in Node : pending'[k] \subseteq pending[k]
    BY <1>5, <1>0 DEF ResDeliver, TypeOK, ResThread
  <2>2. \A th \in ResThread : resThreads'[th] > 0 => resThreads[th] > 0
    BY <1>5, <1>0 DEF ResDeliver, TypeOK
  <2> QED
    BY <2>1, <2>2, <1>0, ShrinkUnfoundAbsent
<1>6. ASSUME NEW n \in Node, NEW t \in Node, NodeDisconnected(n, t)
      PROVE UnfoundAbsent'
  <2>1. \A k \in Node : pending'[k] \subseteq pending[k]
    BY <1>6, <1>0 DEF NodeDisconnected, TypeOK
  <2>2. UNCHANGED resThreads
    BY <1>6 DEF NodeDisconnected
  <2> QED
    BY <2>1, <2>2, <1>0, ShrinkUnfoundAbsent
<1>7. ASSUME UNCHANGED <<pending, resThreads>> PROVE UnfoundAbsent'
  BY <1>7, <1>0 DEF UnfoundAbsent
<1>8. UnfoundAbsent'
  <2>1. ASSUME NEW n \in Node,
               \/ Connect(n)
               \/ \E ok \in BOOLEAN : ConnectDone(n, ok)
               \/ \E id \in CallId, t \in Node : RequestEncodeFails(n, id, t)
               \/ NodeLeave(n)
        PROVE UNCHANGED <<pending, resThreads>>
    BY <2>1 DEF Connect, ConnectDone, RequestEncodeFails, NodeLeave
  <2>2. ASSUME NEW m \in Msg, ReqHandle(m) \/ LoseMsg(m)
        PROVE UNCHANGED <<pending, resThreads>>
    BY <2>2 DEF ReqHandle, LoseMsg
  <2>3. ASSUME UNCHANGED vars PROVE UNCHANGED <<pending, resThreads>>
    BY <2>3 DEF vars
  <2> QED
    BY <1>3, <1>4, <1>5, <1>6, <1>7, <2>1, <2>2, <2>3 DEF Next
<1> QED
  BY <1>1, <1>8 DEF IInv2
=============================================================================
