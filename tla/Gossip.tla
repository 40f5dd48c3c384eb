------------------------------- MODULE Gossip -------------------------------
(***************************************************************************)
(* The uncorrelated commands of src/transit/transit.go on top of Transit: *)
(* HEARTBEAT, DISCOVER, INFO and PING, their handlers, DiscoverNodes and   *)
(* onBrokerStarted.  They share Transit's transport, its subscriptions     *)
(* (each subscribe() call adds one handler per channel, lines 294-309) and *)
(* its panics.  A copy of a message is addressed to one receiving node;    *)
(* one published on the broadcast channel "" (Bcast) gets a copy for every *)
(* node, and the accept filter drops a copy whose sender is its receiver. *)
(* The registry and the user call the send operations; the registry        *)
(* handler is where HEARTBEAT and INFO end up, recorded in heard.          *)
(***************************************************************************)
EXTENDS Transit

CONSTANTS
    Bcast,     \* the broadcast node ID ""
    MaxSends   \* bound on heartbeats, probes, pings and broker starts per node

ASSUME GossipAssumption == Bcast \notin Node /\ MaxSends \in Nat

VARIABLES
    gnet,      \* undelivered copies of HEARTBEAT, DISCOVER, INFO and PING
    heard,     \* what each node's registryMessageHandler was handed
    asked,     \* history: nodes a DISCOVER of each node reached, on the channel it named
    announced, \* history: nodes that published INFO on the broadcast channel
    pinged,    \* history: nodes that called SendPing
    found,     \* nodes whose DiscoverNodes() channel yielded true
    gsent      \* calls of the send operations per node, bounded by MaxSends

gvars == <<gnet, heard, asked, announced, pinged, found, gsent>>

allVars == <<vars, gvars>>

GCmd == {"HEARTBEAT", "DISCOVER", "INFO", "PING"}

\* A copy: command, sender field, the channel's node ID, receiving node.
GMsg == {m \in [cmd : GCmd, sender : Node, to : Node \cup {Bcast}, rcv : Node] :
            m.to \in {Bcast, m.rcv}}

Heard == [cmd : {"HEARTBEAT", "INFO"}, from : Node, to : Node \cup {Bcast}]

GTypeOK ==
    /\ TypeOK
    /\ gnet \in [GMsg -> Nat]
    /\ heard \in [Node -> SUBSET Heard]
    /\ asked \in [Node -> SUBSET Node]
    /\ announced \subseteq Node
    /\ pinged \subseteq Node
    /\ found \subseteq Node
    /\ gsent \in [Node -> 0..MaxSends]

GInit ==
    /\ Init
    /\ gnet = [m \in GMsg |-> 0]
    /\ heard = [n \in Node |-> {}]
    /\ asked = [n \in Node |-> {}]
    /\ announced = {}
    /\ pinged = {}
    /\ found = {}
    /\ gsent = [n \in Node |-> 0]

\* The copies one subscription set yields, after the accept filter.
GCopies(m) == IF m.sender = m.rcv THEN 0 ELSE subs[m.rcv]

\* transport.Publish(cmd, to, message) with message.sender = from.
GPublish(cmd, from, to) ==
    gnet' = [m \in GMsg |->
                gnet[m] + IF m.cmd = cmd /\ m.sender = from /\ m.to = to
                             THEN GCopies(m) ELSE 0]

\* The receivers a publish hands at least one copy to.
Reached(cmd, from, to) ==
    {m.rcv : m \in {m \in GMsg : m.cmd = cmd /\ m.sender = from /\ m.to = to
                                 /\ GCopies(m) > 0}}

\* A send operation of node n, called by its registry or its user.
Sending(n) ==
    /\ status[n] = "up"
    /\ gsent[n] < MaxSends
    /\ gsent' = [gsent EXCEPT ![n] = @ + 1]

\* (*transit.transport).Publish through the nil pointer before Connect.
NilTransport(n) ==
    /\ ~hasTransport[n]
    /\ Panic(n, "panicNoTransport")
    /\ UNCHANGED <<gnet, heard, asked, announced, pinged, found>>
    /\ UNCHANGED <<hasTransport, isConnected, connects, connecting, joined,
                   pending, ctx, net, resThreads, sends, notified>>

\* Only the gossip state changes.
TransitKept == UNCHANGED vars

\* broadcastNodeInfo(target) (lines 234-239): the exported node map, with
\* sender set to the node's ID, as INFO on the target's channel.
BroadcastNodeInfo(n, target) ==
    /\ GPublish("INFO", n, target)
    /\ announced' = IF target = Bcast THEN announced \cup {n} ELSE announced

\* SendHeartbeat / sendHeartbeatImpl (lines 116-131): the sender and its CPU
\* fields, which always encode, as HEARTBEAT on the broadcast channel.
SendHeartbeat(n) ==
    /\ Sending(n)
    /\ \/ /\ hasTransport[n]
          /\ GPublish("HEARTBEAT", n, Bcast)
          /\ TransitKept
          /\ UNCHANGED <<heard, asked, announced, pinged, found>>
       \/ NilTransport(n)

\* Mutant of DiscoverNode: the DISCOVER goes to the broadcast channel
\* whatever node ID the caller names.
DiscoverNodeBroadcasts(n, t) ==
    /\ Sending(n)
    /\ CallBeforeConnect \/ n \in joined
    /\ \/ /\ hasTransport[n]
          /\ GPublish("DISCOVER", n, Bcast)
          /\ asked' = [asked EXCEPT ![n] = @ \cup Reached("DISCOVER", n, t)]
          /\ TransitKept
          /\ UNCHANGED <<heard, announced, pinged, found>>
       \/ NilTransport(n)

\* DiscoverNode / discoverNodeImpl (lines 133-142): DISCOVER with the local
\* sender on the channel of t, or of every node for Bcast.
DiscoverNode(n, t) ==
    /\ Sending(n)
    /\ CallBeforeConnect \/ n \in joined
    /\ \/ /\ hasTransport[n]
          /\ GPublish("DISCOVER", n, t)
          /\ asked' = [asked EXCEPT ![n] = @ \cup Reached("DISCOVER", n, t)]
          /\ TransitKept
          /\ UNCHANGED <<heard, announced, pinged, found>>
       \/ NilTransport(n)

\* DiscoverNodes (lines 106-114): a goroutine broadcasts DISCOVER and then
\* hands true to the returned channel, whatever answers.
DiscoverNodes(n) ==
    /\ Sending(n)
    /\ CallBeforeConnect \/ n \in joined
    /\ \/ /\ hasTransport[n]
          /\ GPublish("DISCOVER", n, Bcast)
          /\ asked' = [asked EXCEPT ![n] = @ \cup Reached("DISCOVER", n, Bcast)]
          /\ found' = found \cup {n}
          /\ TransitKept
          /\ UNCHANGED <<heard, announced, pinged>>
       \/ NilTransport(n)

\* SendPing (lines 254-262): PING with the local sender and time, published
\* on the local node's own ID.
SendPing(n) ==
    /\ Sending(n)
    /\ \/ /\ hasTransport[n]
          /\ GPublish("PING", n, n)
          /\ pinged' = pinged \cup {n}
          /\ TransitKept
          /\ UNCHANGED <<heard, asked, announced, found>>
       \/ NilTransport(n)

\* onBrokerStarted (lines 34-38), run when $broker.started reaches the
\* local bus: a connected node broadcasts its node info.
OnBrokerStarted(n) ==
    /\ Sending(n)
    /\ IF isConnected[n]
          THEN BroadcastNodeInfo(n, Bcast)
          ELSE UNCHANGED <<gnet, announced>>
    /\ TransitKept
    /\ UNCHANGED <<heard, asked, pinged, found>>

\* A delivered copy, handled on its receiver.
Delivered(m) ==
    /\ gnet[m] > 0
    /\ status[m.rcv] = "up"

\* Mutant of RegistryDelegate: the handler runs without a delivered copy.
RegistryDelegateUndelivered(m) ==
    /\ m.cmd \in {"HEARTBEAT", "INFO"}
    /\ status[m.rcv] = "up"
    /\ gnet' = [gnet EXCEPT ![m] = @ - 1]
    /\ heard' = [heard EXCEPT ![m.rcv] =
                    @ \cup {[cmd |-> m.cmd, from |-> m.sender, to |-> m.to]}]
    /\ TransitKept
    /\ UNCHANGED <<asked, announced, pinged, found, gsent>>

\* registryDelegateHandler (lines 248-252) for HEARTBEAT and INFO: hand the
\* message to the registry.
RegistryDelegate(m) ==
    /\ m.cmd \in {"HEARTBEAT", "INFO"}
    /\ Delivered(m)
    /\ gnet' = [gnet EXCEPT ![m] = @ - 1]
    /\ heard' = [heard EXCEPT ![m.rcv] =
                    @ \cup {[cmd |-> m.cmd, from |-> m.sender, to |-> m.to]}]
    /\ TransitKept
    /\ UNCHANGED <<asked, announced, pinged, found, gsent>>

\* Mutant of DiscoverHandle: the node info goes to the broadcast channel.
DiscoverHandleBroadcasts(m) ==
    /\ m.cmd = "DISCOVER"
    /\ Delivered(m)
    /\ LET pub == [k \in GMsg |->
                      gnet[k] + IF k.cmd = "INFO" /\ k.sender = m.rcv /\ k.to = Bcast
                                   THEN GCopies(k) ELSE 0]
       IN  gnet' = [pub EXCEPT ![m] = @ - 1]
    /\ announced' = announced \cup {m.rcv}
    /\ TransitKept
    /\ UNCHANGED <<heard, asked, pinged, found, gsent>>

\* discoverHandler (lines 241-246): answer with broadcastNodeInfo(sender).
DiscoverHandle(m) ==
    /\ m.cmd = "DISCOVER"
    /\ Delivered(m)
    /\ LET pub == [k \in GMsg |->
                      gnet[k] + IF k.cmd = "INFO" /\ k.sender = m.rcv /\ k.to = m.sender
                                   THEN GCopies(k) ELSE 0]
       IN  gnet' = [pub EXCEPT ![m] = @ - 1]
    /\ UNCHANGED announced
    /\ TransitKept
    /\ UNCHANGED <<heard, asked, pinged, found, gsent>>

\* Environment: the transport drops a copy.
GLoseMsg(m) ==
    /\ Lossy
    /\ gnet[m] > 0
    /\ gnet' = [gnet EXCEPT ![m] = @ - 1]
    /\ TransitKept
    /\ UNCHANGED <<heard, asked, announced, pinged, found, gsent>>

GNext ==
    \/ Next /\ UNCHANGED gvars
    \/ \E n \in Node :
          \/ SendHeartbeat(n) \/ DiscoverNodes(n) \/ SendPing(n)
          \/ OnBrokerStarted(n)
          \/ \E t \in Node : DiscoverNode(n, t)
    \/ \E m \in GMsg : RegistryDelegate(m) \/ DiscoverHandle(m) \/ GLoseMsg(m)

\* The transport keeps delivering to live subscriptions; the send
\* operations are called by the registry and the user, without fairness.
GFairness ==
    /\ Fairness
    /\ \A m \in GMsg : WF_allVars(RegistryDelegate(m)) /\ WF_allVars(DiscoverHandle(m))

GSpec == GInit /\ [][GNext]_allVars

GFairSpec == GSpec /\ GFairness

-----------------------------------------------------------------------------
(* Properties.                                                             *)

\* Spec 8.5: node info is sent to a node's own channel only as the answer
\* to its DISCOVER: a registry is handed an INFO targeted at its node only
\* from a node that one of its node's DISCOVER publishes reached, which
\* takes discoverNodeImpl publishing on the named channel and
\* discoverHandler answering on the sender field's channel.
InfoAnswersDiscover ==
    \A x \in Node : \A h \in heard[x] :
        h.cmd = "INFO" /\ h.to = x => h.from \in asked[x]

\* Spec 8.5: a DISCOVER that reached node y is answered by an INFO targeted
\* at the prober, which the prober's registry is handed, unless one of the
\* two goes down; over a transport that loses nothing.
DiscoveryAnswered ==
    \A x, y \in Node :
        y \in asked[x] ~>
            \/ [cmd |-> "INFO", from |-> y, to |-> x] \in heard[x]
            \/ x \in Down \/ y \in Down

\* Spec 4.3: SendPing sends its PING to a target node's channel, where that
\* node's PING handler receives it: a node's first ping, sent while every
\* other node has live subscriptions, hands a copy to one of them.
PingIsDelivered ==
    [][\A n \in Node :
          /\ n \notin pinged /\ n \in pinged'
          /\ \A k \in Node \ {n} : status[k] = "up" /\ subs[k] > 0
          => \E m \in GMsg : m.cmd = "PING" /\ gnet'[m] > gnet[m]]_allVars

=============================================================================
