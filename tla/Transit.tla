------------------------------- MODULE Transit -------------------------------
(***************************************************************************)
(* The request/response correlation engine of src/transit/transit.go over *)
(* the pub/sub transport it creates.  Every node runs one TransitImpl: a   *)
(* connect goroutine, the caller's Request, and one handler invocation per *)
(* delivered message per live subscription.  The pending-request map is    *)
(* shared between them without a lock; each single map operation is one   *)
(* step, and the response handler's read and delete are two steps.         *)
(*                                                                         *)
(* Payloads are abstracted away: a message is its command, its sender      *)
(* field, the node whose channel it was published on, and its correlation  *)
(* id.  A Go panic is a terminal status of the node, named by its cause.   *)
(***************************************************************************)
EXTENDS Naturals

CONSTANTS
    Node,              \* node IDs, GetLocalNode().GetID()
    CallId,            \* context IDs, used as correlation ids
    None,              \* absent node, for calls not issued yet
    Unencodable,       \* calls whose params MapToMessage cannot encode
    MaxConnects,       \* bound on Connect() calls per node
    Lossy,             \* the transport may drop a published message
    MayLeave,          \* a node process may stop
    CallBeforeConnect  \* a caller may issue Request before its own Connect succeeded

ASSUME NodeAssumption == None \notin Node
\* Context IDs and node IDs are different strings (line 62 confuses them).
ASSUME IdAssumption == Node \cap CallId = {} /\ Unencodable \subseteq CallId
ASSUME BoundAssumption == MaxConnects \in Nat
ASSUME FlagAssumption ==
    /\ Lossy \in BOOLEAN /\ MayLeave \in BOOLEAN /\ CallBeforeConnect \in BOOLEAN

VARIABLES
    status,        \* "up", "left", or the cause of the panic that killed it
    hasTransport,  \* transit.transport # nil (set by Connect, line 319)
    isConnected,   \* transit.self.isConnected (line 321)
    connects,      \* Connect() calls so far (bounded by MaxConnects)
    connecting,    \* connect goroutines waiting on transport.Connect()
    subs,          \* live subscription sets: one per successful subscribe()
    joined,        \* nodes that completed a successful connect (registry knows them)
    pending,       \* keys of *transit.pendingRequests
    ctx,           \* history: caller and target of each issued call
    net,           \* published, undelivered message copies
    resThreads,    \* response handlers between their map read and map delete
    sends,         \* values sent on each call's result channel
    notified       \* nodes whose $node.disconnected this node has handled

vars == <<status, hasTransport, isConnected, connects, connecting, subs,
          joined, pending, ctx, net, resThreads, sends, notified>>

Panics == {"panicEncode", "panicNoTransport", "panicRes", "panicDisconnect"}
Status == {"up", "left"} \cup Panics

NoCtx == [from |-> None, to |-> None]
Ctx == [from : Node, to : Node] \cup {NoCtx}

ReqMsg == [cmd : {"REQ"}, sender : Node, to : Node, id : CallId]
ResMsg == [cmd : {"RES"}, sender : Node, to : Node, id : CallId]
Msg == ReqMsg \cup ResMsg

\* A response handler after line 180: which node, which id, and whether the
\* map read found an entry (otherwise it holds the zero pendingRequest).
ResThread == [node : Node, id : CallId, found : BOOLEAN]

TypeOK ==
    /\ status \in [Node -> Status]
    /\ hasTransport \in [Node -> BOOLEAN]
    /\ isConnected \in [Node -> BOOLEAN]
    /\ connects \in [Node -> Nat]
    /\ connecting \in [Node -> Nat]
    /\ subs \in [Node -> Nat]
    /\ joined \subseteq Node
    /\ pending \in [Node -> SUBSET CallId]
    /\ ctx \in [CallId -> Ctx]
    /\ net \in [Msg -> Nat]
    /\ resThreads \in [ResThread -> Nat]
    /\ sends \in [CallId -> Nat]
    /\ notified \in [Node -> SUBSET Node]

Init ==
    /\ status = [n \in Node |-> "up"]
    /\ hasTransport = [n \in Node |-> FALSE]
    /\ isConnected = [n \in Node |-> FALSE]
    /\ connects = [n \in Node |-> 0]
    /\ connecting = [n \in Node |-> 0]
    /\ subs = [n \in Node |-> 0]
    /\ joined = {}
    /\ pending = [n \in Node |-> {}]
    /\ ctx = [i \in CallId |-> NoCtx]
    /\ net = [m \in Msg |-> 0]
    /\ resThreads = [t \in ResThread |-> 0]
    /\ sends = [i \in CallId |-> 0]
    /\ notified = [n \in Node |-> {}]

-----------------------------------------------------------------------------
(* Transport: Publish hands one copy to each live subscription of the      *)
(* target channel; the transport's accept filter (lines 86-89) drops a     *)
(* message whose sender field is the receiving node itself.                *)
Copies(m) == IF m.sender = m.to THEN 0 ELSE subs[m.to]

Publish(m) == net' = [net EXCEPT ![m] = @ + Copies(m)]

\* A Go panic ends the node's process and with it its subscriptions.
Panic(n, cause) ==
    /\ status' = [status EXCEPT ![n] = cause]
    /\ subs' = [subs EXCEPT ![n] = 0]

-----------------------------------------------------------------------------
(* Connect (lines 312-328).  The early return reads isConnected of the     *)
(* value receiver, a copy of the struct stored in the Transit interface at *)
(* line 55, whose isConnected is never written: the branch is never taken, *)
(* so every call creates a transport and starts a connect goroutine.       *)
Connect(n) ==
    /\ status[n] = "up"
    /\ connects[n] < MaxConnects
    /\ hasTransport' = [hasTransport EXCEPT ![n] = TRUE]
    /\ connects' = [connects EXCEPT ![n] = @ + 1]
    /\ connecting' = [connecting EXCEPT ![n] = @ + 1]
    /\ UNCHANGED <<status, isConnected, subs, joined, pending, ctx, net,
                   resThreads, sends, notified>>

\* Mutant of ConnectDone: the goroutine's step without its guard.
ConnectDoneUnguarded(n, ok) ==
    /\ status[n] = "up"
    /\ connecting' = [connecting EXCEPT ![n] = @ - 1]
    /\ isConnected' = [isConnected EXCEPT ![n] = ok]
    /\ subs' = [subs EXCEPT ![n] = IF ok THEN @ + 1 ELSE @]
    /\ joined' = IF ok THEN joined \cup {n} ELSE joined
    /\ UNCHANGED <<status, hasTransport, connects, pending, ctx, net,
                   resThreads, sends, notified>>

\* subscribe(): one more subscription of node n to every channel it
\* listens on, its own and the broadcast ones.
Subscribe(n) == [subs EXCEPT ![n] = @ + 1]

\* The connect goroutine (lines 320-326): store the outcome, subscribe on
\* success, then signal endChan.
ConnectDone(n, ok) ==
    /\ status[n] = "up"
    /\ connecting[n] > 0
    /\ connecting' = [connecting EXCEPT ![n] = @ - 1]
    /\ isConnected' = [isConnected EXCEPT ![n] = ok]
    /\ subs' = IF ok THEN Subscribe(n) ELSE subs
    /\ joined' = IF ok THEN joined \cup {n} ELSE joined
    /\ UNCHANGED <<status, hasTransport, connects, pending, ctx, net,
                   resThreads, sends, notified>>

\* The registry only balances a call onto a remote node it has heard of;
\* the caller is either any live node or only one whose connect succeeded.
CanCall(n, id, t) ==
    /\ status[n] = "up"
    /\ ctx[id] = NoCtx
    /\ t \in joined \ {n}
    /\ CallBeforeConnect \/ n \in joined

\* Mutant of Request: the entry is never stored in pendingRequests.
RequestUnregistered(n, id, t) ==
    /\ CanCall(n, id, t)
    /\ id \notin Unencodable
    /\ ctx' = [ctx EXCEPT ![id] = [from |-> n, to |-> t]]
    /\ UNCHANGED pending
    /\ IF hasTransport[n]
         THEN /\ Publish([cmd |-> "REQ", sender |-> n, to |-> t, id |-> id])
              /\ UNCHANGED <<status, subs>>
         ELSE /\ Panic(n, "panicNoTransport")
              /\ UNCHANGED net
    /\ UNCHANGED <<hasTransport, isConnected, connects, connecting, joined,
                   resThreads, sends, notified>>

\* requestImpl (lines 144-168) for a payload that encodes: register the
\* entry (line 161), then publish REQ on the target's channel (line 166),
\* which dereferences a nil transport if Connect was never called.
Request(n, id, t) ==
    /\ CanCall(n, id, t)
    /\ id \notin Unencodable
    /\ ctx' = [ctx EXCEPT ![id] = [from |-> n, to |-> t]]
    /\ pending' = [pending EXCEPT ![n] = @ \cup {id}]
    /\ IF hasTransport[n]
         THEN /\ Publish([cmd |-> "REQ", sender |-> n, to |-> t, id |-> id])
              /\ UNCHANGED <<status, subs>>
         ELSE /\ Panic(n, "panicNoTransport")
              /\ UNCHANGED net
    /\ UNCHANGED <<hasTransport, isConnected, connects, connecting, joined,
                   resThreads, sends, notified>>

\* requestImpl when MapToMessage fails: panic at line 159, before line 161.
RequestEncodeFails(n, id, t) ==
    /\ CanCall(n, id, t)
    /\ id \in Unencodable
    /\ Panic(n, "panicEncode")
    /\ UNCHANGED <<hasTransport, isConnected, connects, connecting, joined,
                   pending, ctx, net, resThreads, sends, notified>>

\* Mutant of ReqHandle: the response goes to the request context's target
\* node, which on the receiving side is the local node itself.
ReqHandleRepliesToSelf(m) ==
    /\ m.cmd = "REQ"
    /\ net[m] > 0
    /\ status[m.to] = "up"
    /\ LET res == [cmd |-> "RES", sender |-> m.to, to |-> m.to, id |-> m.id]
       IN  net' = [net EXCEPT ![m] = @ - 1, ![res] = @ + Copies(res)]
    /\ UNCHANGED <<status, hasTransport, isConnected, connects, connecting,
                   subs, joined, pending, ctx, resThreads, sends, notified>>

\* requestHandler (lines 216-223) with sendResponse (lines 191-210): invoke
\* the action, then publish RES carrying the request's id back to its sender.
ReqHandle(m) ==
    /\ m.cmd = "REQ"
    /\ net[m] > 0
    /\ status[m.to] = "up"
    /\ LET res == [cmd |-> "RES", sender |-> m.to, to |-> m.sender, id |-> m.id]
       IN  net' = [net EXCEPT ![m] = @ - 1, ![res] = @ + Copies(res)]
    /\ UNCHANGED <<status, hasTransport, isConnected, connects, connecting,
                   subs, joined, pending, ctx, resThreads, sends, notified>>

\* reponseHandler, first step (lines 176-180): read the map entry.
ResLookup(m) ==
    /\ m.cmd = "RES"
    /\ net[m] > 0
    /\ status[m.to] = "up"
    /\ LET th == [node |-> m.to, id |-> m.id, found |-> m.id \in pending[m.to]]
       IN  resThreads' = [resThreads EXCEPT ![th] = @ + 1]
    /\ net' = [net EXCEPT ![m] = @ - 1]
    /\ UNCHANGED <<status, hasTransport, isConnected, connects, connecting,
                   subs, joined, pending, ctx, sends, notified>>

\* reponseHandler, second step (lines 181-187): delete the key and send the
\* data on the entry's channel from a goroutine; with the zero entry the
\* goroutine dereferences a nil channel pointer and panics.
ResDeliver(th) ==
    /\ resThreads[th] > 0
    /\ status[th.node] = "up"
    /\ resThreads' = [resThreads EXCEPT ![th] = @ - 1]
    /\ pending' = [pending EXCEPT ![th.node] = @ \ {th.id}]
    /\ IF th.found
         THEN /\ sends' = [sends EXCEPT ![th.id] = @ + 1]
              /\ UNCHANGED <<status, subs>>
         ELSE /\ Panic(th.node, "panicRes")
              /\ UNCHANGED sends
    /\ UNCHANGED <<hasTransport, isConnected, connects, connecting, joined,
                   ctx, net, notified>>

\* onNodeDisconnected (lines 59-65), run on node n when its registry raises
\* $node.disconnected for t.  The map is indexed with the node ID t; the
\* zero entry it returns for a missing key has a nil channel pointer.
NodeDisconnected(n, t) ==
    /\ status[n] = "up"
    /\ t \in Node \ ({n} \cup notified[n])
    /\ notified' = [notified EXCEPT ![n] = @ \cup {t}]
    /\ IF t \in pending[n]
         THEN /\ sends' = [sends EXCEPT ![t] = @ + 1]
              /\ pending' = [pending EXCEPT ![n] = @ \ {t}]
              /\ UNCHANGED <<status, subs>>
         ELSE /\ Panic(n, "panicDisconnect")
              /\ UNCHANGED <<sends, pending>>
    /\ UNCHANGED <<hasTransport, isConnected, connects, connecting, joined,
                   ctx, net, resThreads>>

\* Environment: a node process stops; its subscriptions go with it.
NodeLeave(n) ==
    /\ MayLeave
    /\ status[n] = "up"
    /\ status' = [status EXCEPT ![n] = "left"]
    /\ subs' = [subs EXCEPT ![n] = 0]
    /\ UNCHANGED <<hasTransport, isConnected, connects, connecting, joined,
                   pending, ctx, net, resThreads, sends, notified>>

\* Environment: the at-most-once transport drops a message copy.
LoseMsg(m) ==
    /\ Lossy
    /\ net[m] > 0
    /\ net' = [net EXCEPT ![m] = @ - 1]
    /\ UNCHANGED <<status, hasTransport, isConnected, connects, connecting,
                   subs, joined, pending, ctx, resThreads, sends, notified>>

Next ==
    \/ \E n \in Node :
          \/ Connect(n)
          \/ \E ok \in BOOLEAN : ConnectDone(n, ok)
          \/ \E id \in CallId, t \in Node :
                Request(n, id, t) \/ RequestEncodeFails(n, id, t)
          \/ \E t \in Node : NodeDisconnected(n, t)
          \/ NodeLeave(n)
    \/ \E m \in Msg : ReqHandle(m) \/ ResLookup(m) \/ LoseMsg(m)
    \/ \E th \in ResThread : ResDeliver(th)

\* The transport keeps delivering to live subscriptions, transport.Connect()
\* eventually answers, and the Go scheduler runs every runnable goroutine.
\* Calls, departures, disconnect events and losses are the environment's.
Fairness ==
    /\ \A n \in Node : WF_vars(\E ok \in BOOLEAN : ConnectDone(n, ok))
    /\ \A m \in Msg : WF_vars(ReqHandle(m)) /\ WF_vars(ResLookup(m))
    /\ \A th \in ResThread : WF_vars(ResDeliver(th))

Spec == Init /\ [][Next]_vars

FairSpec == Spec /\ Fairness

-----------------------------------------------------------------------------
(* Properties.                                                             *)

\* Nodes that left or panicked.
Down == {n \in Node : status[n] # "up"}

\* Over a transport that loses nothing, a call whose caller had connected
\* is answered on its channel unless the caller or the target goes down.
CallEventuallyAnswered ==
    \A id \in CallId :
        ctx[id] # NoCtx ~> (sends[id] > 0 \/ ctx[id].from \in Down \/ ctx[id].to \in Down)

\* Spec 7 / 8.7: a RES with no pending entry is a no-op, never a panic.
UnmatchedResponseIsNoop ==
    \A n \in Node : status[n] # "panicRes"

\* Spec 8.1: a call's result channel receives at most one value.
AtMostOneDelivery ==
    \A id \in CallId : sends[id] <= 1

\* Spec 4.3: handling $node.disconnected for t cancels the pending calls to
\* t and leaves the node running.
DisconnectCancelsPending ==
    \A n \in Node : \A t \in notified[n] :
        /\ status[n] = "up"
        /\ \A id \in pending[n] : ctx[id].to # t
=============================================================================
