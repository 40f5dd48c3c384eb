---------------------------- MODULE GossipProofs ----------------------------
(***************************************************************************)
(* Proofs about Gossip for every set of nodes and every send bound: type   *)
(* correctness, that INFO on a node's own channel answers its DISCOVER,   *)
(* and that the gossip commands implement the abstract call service.      *)
(***************************************************************************)
EXTENDS Gossip, TransitCallsProofs

-----------------------------------------------------------------------------
(* Lemmas about the publish operators.                                     *)

\* A copy's receiver is a node, so its subscription count is a number.
LEMMA GCopiesNat ==
  ASSUME TypeOK, NEW m \in GMsg
  PROVE  GCopies(m) \in Nat
BY DEF GCopies, GMsg, TypeOK

\* A publish keeps the copies in flight well typed.
LEMMA GPublishType ==
  ASSUME TypeOK, gnet \in [GMsg -> Nat], NEW cmd, NEW from, NEW to,
         GPublish(cmd, from, to)
  PROVE  gnet' \in [GMsg -> Nat]
BY GCopiesNat DEF GPublish

\* The receivers a publish reaches are nodes.
LEMMA ReachedNodes ==
  ASSUME NEW cmd, NEW from, NEW to
  PROVE  Reached(cmd, from, to) \subseteq Node
BY DEF Reached, GMsg

\* Every send operation that publishes nothing panics on the nil transport
\* and leaves every other gossip and call variable alone; its result is
\* well typed.
LEMMA NilTransportType ==
  ASSUME TypeOK, NEW n \in Node, NilTransport(n)
  PROVE  TypeOK'
<1>1. status' \in [Node -> Status] /\ subs' \in [Node -> Nat]
  BY PanicType DEF NilTransport, Panics
<1> QED
  BY <1>1 DEF NilTransport, TypeOK

\* A step that keeps Transit's variables keeps TypeOK.
LEMMA TransitKeptType ==
  ASSUME TypeOK, TransitKept
  PROVE  TypeOK'
BY DEF TypeOK, TransitKept, vars

-----------------------------------------------------------------------------
(* Type correctness.                                                       *)

LEMMA GInitTypeOK == GInit => GTypeOK
BY InitTypeOK, GossipAssumption DEF GInit, GTypeOK

\* The bookkeeping of a send: the counter stays within its bound.
LEMMA SendingType ==
  ASSUME GTypeOK, NEW n \in Node, Sending(n)
  PROVE  gsent' \in [Node -> 0..MaxSends]
BY GossipAssumption DEF Sending, GTypeOK

LEMMA GNextTypeOK == GTypeOK /\ [GNext]_allVars => GTypeOK'
<1> SUFFICES ASSUME GTypeOK, [GNext]_allVars PROVE GTypeOK'
  OBVIOUS
<1>0. TypeOK /\ gnet \in [GMsg -> Nat]
  BY DEF GTypeOK
<1>1. ASSUME Next, UNCHANGED gvars PROVE GTypeOK'
  BY <1>1, <1>0, NextTypeOK DEF GTypeOK, gvars
<1>2. ASSUME NEW n \in Node, SendHeartbeat(n) PROVE GTypeOK'
  <2>1. gsent' \in [Node -> 0..MaxSends]
    BY <1>2, SendingType DEF SendHeartbeat
  <2>2. CASE hasTransport[n] /\ GPublish("HEARTBEAT", n, Bcast) /\ TransitKept
             /\ UNCHANGED <<heard, asked, announced, pinged, found>>
    BY <2>1, <2>2, <1>0, GPublishType, TransitKeptType DEF GTypeOK
  <2>3. CASE NilTransport(n)
    BY <2>1, <2>3, <1>0, NilTransportType DEF GTypeOK, NilTransport
  <2> QED
    BY <1>2, <2>2, <2>3 DEF SendHeartbeat
<1>3. ASSUME NEW n \in Node, NEW t \in Node, DiscoverNode(n, t) PROVE GTypeOK'
  <2>1. gsent' \in [Node -> 0..MaxSends]
    BY <1>3, SendingType DEF DiscoverNode
  <2>2. CASE hasTransport[n] /\ GPublish("DISCOVER", n, t)
             /\ asked' = [asked EXCEPT ![n] = @ \cup Reached("DISCOVER", n, t)]
             /\ TransitKept /\ UNCHANGED <<heard, announced, pinged, found>>
    BY <2>1, <2>2, <1>0, GPublishType, ReachedNodes, TransitKeptType DEF GTypeOK
  <2>3. CASE NilTransport(n)
    BY <2>1, <2>3, <1>0, NilTransportType DEF GTypeOK, NilTransport
  <2> QED
    BY <1>3, <2>2, <2>3 DEF DiscoverNode
<1>4. ASSUME NEW n \in Node, DiscoverNodes(n) PROVE GTypeOK'
  <2>1. gsent' \in [Node -> 0..MaxSends]
    BY <1>4, SendingType DEF DiscoverNodes
  <2>2. CASE hasTransport[n] /\ GPublish("DISCOVER", n, Bcast)
             /\ asked' = [asked EXCEPT ![n] = @ \cup Reached("DISCOVER", n, Bcast)]
             /\ found' = found \cup {n}
             /\ TransitKept /\ UNCHANGED <<heard, announced, pinged>>
    BY <2>1, <2>2, <1>0, GPublishType, ReachedNodes, TransitKeptType DEF GTypeOK
  <2>3. CASE NilTransport(n)
    BY <2>1, <2>3, <1>0, NilTransportType DEF GTypeOK, NilTransport
  <2> QED
    BY <1>4, <2>2, <2>3 DEF DiscoverNodes
<1>5. ASSUME NEW n \in Node, SendPing(n) PROVE GTypeOK'
  <2>1. gsent' \in [Node -> 0..MaxSends]
    BY <1>5, SendingType DEF SendPing
  <2>2. CASE hasTransport[n] /\ GPublish("PING", n, n) /\ pinged' = pinged \cup {n}
             /\ TransitKept /\ UNCHANGED <<heard, asked, announced, found>>
    BY <2>1, <2>2, <1>0, GPublishType, TransitKeptType DEF GTypeOK
  <2>3. CASE NilTransport(n)
    BY <2>1, <2>3, <1>0, NilTransportType DEF GTypeOK, NilTransport
  <2> QED
    BY <1>5, <2>2, <2>3 DEF SendPing
<1>6. ASSUME NEW n \in Node, OnBrokerStarted(n) PROVE GTypeOK'
  <2>1. gsent' \in [Node -> 0..MaxSends]
    BY <1>6, SendingType DEF OnBrokerStarted
  <2>2. gnet' \in [GMsg -> Nat] /\ announced' \subseteq Node
    BY <1>6, <1>0, GPublishType DEF OnBrokerStarted, BroadcastNodeInfo, GTypeOK
  <2> QED
    BY <1>6, <2>1, <2>2, <1>0, TransitKeptType DEF OnBrokerStarted, GTypeOK
<1>7. ASSUME NEW m \in GMsg, RegistryDelegate(m) PROVE GTypeOK'
  <2>1. gnet[m] > 0 /\ m.rcv \in Node
    BY <1>7 DEF RegistryDelegate, Delivered, GMsg
  <2>2. [cmd |-> m.cmd, from |-> m.sender, to |-> m.to] \in Heard
    BY <1>7 DEF RegistryDelegate, GMsg, Heard
  <2> QED
    BY <1>7, <2>1, <2>2, <1>0, TransitKeptType DEF RegistryDelegate, GTypeOK
<1>8. ASSUME NEW m \in GMsg, DiscoverHandle(m) PROVE GTypeOK'
  <2>1. gnet[m] > 0
    BY <1>8 DEF DiscoverHandle, Delivered
  <2>2. \A k \in GMsg : GCopies(k) \in Nat
    BY <1>0, GCopiesNat
  <2> QED
    BY <1>8, <2>1, <2>2, <1>0, TransitKeptType DEF DiscoverHandle, GTypeOK
<1>9. ASSUME NEW m \in GMsg, GLoseMsg(m) PROVE GTypeOK'
  BY <1>9, <1>0, TransitKeptType DEF GLoseMsg, GTypeOK
<1>10. CASE UNCHANGED allVars
  BY <1>10 DEF allVars, vars, gvars, GTypeOK, TypeOK
<1> QED
  BY <1>1, <1>2, <1>3, <1>4, <1>5, <1>6, <1>7, <1>8, <1>9, <1>10 DEF GNext

\* The gossip and transit variables always have the types GTypeOK gives
\* them, with every send operation, handler and loss interleaved.
THEOREM GTypeCorrect == GSpec => []GTypeOK
BY GInitTypeOK, GNextTypeOK, PTL DEF GSpec

-----------------------------------------------------------------------------
(* InfoAnswersDiscover.  It is not inductive alone: a                     *)
(* handler step hands the registry what a copy in flight says, so the     *)
(* proof needs what every copy in flight says (CopyOK): no copy is          *)
(* addressed to its own sender, every DISCOVER copy's receiver is among    *)
(* the nodes its sender's probes reached, and every INFO copy on its       *)
(* receiver's own channel comes from a node that receiver's probes reached.*)

\* No registry has been handed its own node's HEARTBEAT or INFO; the
\* handler steps preserve InfoAnswersDiscover only because of it.
HeardOnlyPeers ==
    \A n \in Node : \A h \in heard[n] : h.from # n

CopyOK(m) ==
    /\ m.sender # m.rcv
    /\ m.cmd = "DISCOVER" => m.rcv \in asked[m.sender]
    /\ m.cmd = "INFO" /\ m.to = m.rcv => m.sender \in asked[m.rcv]

CopyInv == \A m \in GMsg : gnet[m] > 0 => CopyOK(m)

GIInv ==
    /\ GTypeOK
    /\ CopyInv
    /\ HeardOnlyPeers
    /\ InfoAnswersDiscover

\* The nodes a node's probes reached only grow.
AskedGrows == \A x \in Node : asked[x] \subseteq asked'[x]

\* A copy the accept filter lets through is not addressed to its sender,
\* and its receiver is among those its publish reaches.
LEMMA PassedCopy ==
  ASSUME NEW m \in GMsg, GCopies(m) > 0
  PROVE  m.sender # m.rcv /\ m.rcv \in Reached(m.cmd, m.sender, m.to)
BY DEF GCopies, Reached

\* What a copy says stays true while the probe history grows.
LEMMA CopyOKMono ==
  ASSUME NEW m \in GMsg, CopyOK(m), AskedGrows
  PROVE  CopyOK(m)'
BY DEF CopyOK, AskedGrows, GMsg

\* Steps that only remove copies keep CopyInv.
LEMMA CopyInvShrink ==
  ASSUME GTypeOK, GTypeOK', CopyInv, AskedGrows,
         \A m \in GMsg : gnet'[m] <= gnet[m]
  PROVE  CopyInv'
<1> SUFFICES ASSUME NEW m \in GMsg, gnet'[m] > 0 PROVE CopyOK(m)'
  BY DEF CopyInv
<1>1. gnet[m] > 0
  BY DEF GTypeOK
<1> QED
  BY <1>1, CopyOKMono DEF CopyInv

\* A publish keeps CopyInv when every copy it adds says the right thing.
LEMMA PublishCopyInv ==
  ASSUME GTypeOK, GTypeOK', CopyInv, AskedGrows,
         NEW c, NEW f, NEW t, GPublish(c, f, t),
         \A m \in GMsg : m.cmd = c /\ m.sender = f /\ m.to = t /\ GCopies(m) > 0
                             => CopyOK(m)'
  PROVE  CopyInv'
<1> SUFFICES ASSUME NEW m \in GMsg, gnet'[m] > 0 PROVE CopyOK(m)'
  BY DEF CopyInv
<1>1. gnet'[m] = gnet[m] + IF m.cmd = c /\ m.sender = f /\ m.to = t
                           THEN GCopies(m) ELSE 0
  BY DEF GPublish
<1>2. CASE gnet[m] > 0
  BY <1>2, CopyOKMono DEF CopyInv
<1>3. CASE gnet[m] = 0
  <2>1. GCopies(m) \in Nat
    BY GCopiesNat DEF GTypeOK
  <2>2. m.cmd = c /\ m.sender = f /\ m.to = t /\ GCopies(m) > 0
    BY <1>1, <1>3, <2>1
  <2> QED
    BY <2>2
<1> QED
  BY <1>2, <1>3 DEF GTypeOK

\* Steps that keep heard keep both registry properties.
LEMMA HeardKept ==
  ASSUME HeardOnlyPeers, InfoAnswersDiscover, AskedGrows, UNCHANGED heard
  PROVE  HeardOnlyPeers' /\ InfoAnswersDiscover'
BY DEF HeardOnlyPeers, InfoAnswersDiscover, AskedGrows

\* The probe history is unchanged, so it grows.
LEMMA AskedKept ==
  ASSUME UNCHANGED asked
  PROVE  AskedGrows
BY DEF AskedGrows

\* A probe adds the nodes its publish reached to the prober's history.
LEMMA AskedAdd ==
  ASSUME GTypeOK, NEW n \in Node, NEW t,
         asked' = [asked EXCEPT ![n] = @ \cup Reached("DISCOVER", n, t)]
  PROVE  /\ AskedGrows
         /\ Reached("DISCOVER", n, t) \subseteq asked'[n]
BY DEF AskedGrows, GTypeOK

\* A probe of n on channel t keeps CopyInv: each DISCOVER copy it adds is
\* received by a node it reached.
LEMMA ProbeCopyInv ==
  ASSUME GTypeOK, GTypeOK', CopyInv, NEW n \in Node, NEW t,
         GPublish("DISCOVER", n, t),
         asked' = [asked EXCEPT ![n] = @ \cup Reached("DISCOVER", n, t)]
  PROVE  CopyInv'
<1>1. AskedGrows /\ Reached("DISCOVER", n, t) \subseteq asked'[n]
  BY AskedAdd
<1>2. ASSUME NEW m \in GMsg, m.cmd = "DISCOVER", m.sender = n, m.to = t,
             GCopies(m) > 0
      PROVE  CopyOK(m)'
  <2>1. m.sender # m.rcv /\ m.rcv \in Reached("DISCOVER", n, t)
    BY <1>2, PassedCopy
  <2> QED
    BY <1>1, <1>2, <2>1 DEF CopyOK
<1> QED
  BY <1>1, <1>2, PublishCopyInv

\* A publish of a command other than DISCOVER and INFO keeps CopyInv.
LEMMA PlainCopyInv ==
  ASSUME GTypeOK, GTypeOK', CopyInv, UNCHANGED asked,
         NEW c \in {"HEARTBEAT", "PING"}, NEW f, NEW t, GPublish(c, f, t)
  PROVE  CopyInv'
<1>1. AskedGrows
  BY AskedKept
<1>2. ASSUME NEW m \in GMsg, m.cmd = c, GCopies(m) > 0 PROVE CopyOK(m)'
  BY <1>2, PassedCopy DEF CopyOK
<1> QED
  BY <1>1, <1>2, PublishCopyInv

\* A step that publishes nothing and keeps the history keeps CopyInv.
LEMMA QuietCopyInv ==
  ASSUME GTypeOK, GTypeOK', CopyInv, UNCHANGED <<gnet, asked>>
  PROVE  CopyInv'
BY AskedKept, CopyInvShrink DEF GTypeOK

LEMMA GInitGIInv == GInit => GIInv
<1> SUFFICES ASSUME GInit PROVE GIInv
  OBVIOUS
<1>1. GTypeOK
  BY GInitTypeOK
<1>2. CopyInv /\ HeardOnlyPeers /\ InfoAnswersDiscover
  BY DEF GInit, CopyInv, HeardOnlyPeers, InfoAnswersDiscover
<1> QED
  BY <1>1, <1>2 DEF GIInv

\* The send operations: each publishes or panics on the nil transport.
LEMMA SendsGIInv ==
  ASSUME GIInv, GTypeOK', NEW n \in Node,
         \/ SendHeartbeat(n) \/ DiscoverNodes(n) \/ SendPing(n)
         \/ OnBrokerStarted(n) \/ \E t \in Node : DiscoverNode(n, t)
  PROVE  GIInv'
<1>0. GTypeOK /\ CopyInv /\ HeardOnlyPeers /\ InfoAnswersDiscover
  BY DEF GIInv
<1>1. UNCHANGED heard
  BY DEF SendHeartbeat, DiscoverNodes, SendPing, OnBrokerStarted,
         DiscoverNode, NilTransport
<1>2. CopyInv'
  <2>1. CASE SendHeartbeat(n)
    BY <2>1, <1>0, PlainCopyInv, QuietCopyInv DEF SendHeartbeat, NilTransport
  <2>2. CASE SendPing(n)
    BY <2>2, <1>0, PlainCopyInv, QuietCopyInv DEF SendPing, NilTransport
  <2>3. CASE DiscoverNodes(n)
    BY <2>3, <1>0, ProbeCopyInv, QuietCopyInv DEF DiscoverNodes, NilTransport
  <2>4. CASE \E t \in Node : DiscoverNode(n, t)
    BY <2>4, <1>0, ProbeCopyInv, QuietCopyInv DEF DiscoverNode, NilTransport
  <2>5. CASE OnBrokerStarted(n)
    <3>1. CASE isConnected[n]
      <4>1. GPublish("INFO", n, Bcast) /\ UNCHANGED asked
        BY <2>5, <3>1 DEF OnBrokerStarted, BroadcastNodeInfo
      <4>2. ASSUME NEW m \in GMsg, m.cmd = "INFO", m.to = Bcast, GCopies(m) > 0
            PROVE  CopyOK(m)'
        BY <4>2, PassedCopy, GossipAssumption DEF CopyOK, GMsg
      <4> QED
        BY <4>1, <4>2, <1>0, AskedKept, PublishCopyInv
    <3>2. CASE ~isConnected[n]
      BY <2>5, <3>2, <1>0, QuietCopyInv DEF OnBrokerStarted
    <3> QED
      BY <3>1, <3>2
  <2> QED
    BY <2>1, <2>2, <2>3, <2>4, <2>5
<1>3. AskedGrows
  <2>1. CASE \/ \E t \in Node : DiscoverNode(n, t)
             \/ DiscoverNodes(n)
    BY <2>1, <1>0, AskedAdd, AskedKept DEF DiscoverNode, DiscoverNodes,
       NilTransport
  <2>2. CASE SendHeartbeat(n) \/ SendPing(n) \/ OnBrokerStarted(n)
    BY <2>2, AskedKept DEF SendHeartbeat, SendPing, OnBrokerStarted,
       NilTransport
  <2> QED
    BY <2>1, <2>2
<1> QED
  BY <1>0, <1>1, <1>2, <1>3, HeardKept DEF GIInv

\* registryDelegateHandler hands the registry what a copy in flight says.
LEMMA RegistryGIInv ==
  ASSUME GIInv, GTypeOK', NEW m \in GMsg, RegistryDelegate(m)
  PROVE  GIInv'
<1>0. GTypeOK /\ CopyInv /\ HeardOnlyPeers /\ InfoAnswersDiscover
  BY DEF GIInv
<1> DEFINE h == [cmd |-> m.cmd, from |-> m.sender, to |-> m.to]
<1>1. /\ gnet[m] > 0
      /\ heard' = [heard EXCEPT ![m.rcv] = @ \cup {h}]
      /\ UNCHANGED asked
  BY DEF RegistryDelegate, Delivered
<1>2. CopyOK(m) /\ m.rcv \in Node
  BY <1>0, <1>1 DEF CopyInv, GMsg
<1>3. CopyInv'
  <2>1. \A k \in GMsg : gnet'[k] <= gnet[k]
    BY <1>0 DEF RegistryDelegate, GTypeOK
  <2> QED
    BY <1>0, <1>1, <2>1, AskedKept, CopyInvShrink
<1>4. HeardOnlyPeers'
  BY <1>0, <1>1, <1>2 DEF HeardOnlyPeers, CopyOK, GTypeOK
<1>5. InfoAnswersDiscover'
  BY <1>0, <1>1, <1>2 DEF InfoAnswersDiscover, CopyOK, GTypeOK
<1> QED
  BY <1>3, <1>4, <1>5 DEF GIInv

\* discoverHandler answers a DISCOVER copy with INFO on its sender's
\* channel, from the node the copy reached.
LEMMA DiscoverGIInv ==
  ASSUME GIInv, GTypeOK', NEW m \in GMsg, DiscoverHandle(m)
  PROVE  GIInv'
<1>0. GTypeOK /\ CopyInv /\ HeardOnlyPeers /\ InfoAnswersDiscover
  BY DEF GIInv
<1> DEFINE pub == [k \in GMsg |->
                      gnet[k] + IF k.cmd = "INFO" /\ k.sender = m.rcv /\ k.to = m.sender
                                   THEN GCopies(k) ELSE 0]
<1>1. /\ m.cmd = "DISCOVER" /\ gnet[m] > 0
      /\ gnet' = [pub EXCEPT ![m] = @ - 1]
      /\ UNCHANGED <<heard, asked>>
  BY DEF DiscoverHandle, Delivered
<1>2. m.rcv \in asked[m.sender]
  BY <1>0, <1>1 DEF CopyInv, CopyOK
<1>3. ASSUME NEW k \in GMsg, gnet'[k] > 0 PROVE CopyOK(k)'
  <2>1. gnet'[k] <= pub[k]
    BY <1>1, <1>0 DEF GTypeOK
  <2>2. CASE gnet[k] > 0
    BY <2>2, <1>0, <1>1, AskedKept, CopyOKMono DEF CopyInv
  <2>3. CASE gnet[k] = 0
    <3>1. GCopies(k) \in Nat
      BY <1>0, GCopiesNat DEF GTypeOK
    <3>2. k.cmd = "INFO" /\ k.sender = m.rcv /\ k.to = m.sender /\ GCopies(k) > 0
      BY <1>3, <2>1, <2>3, <3>1, <1>0 DEF GTypeOK
    <3>3. k.sender # k.rcv
      BY <3>2, PassedCopy
    <3> QED
      BY <1>1, <1>2, <3>2, <3>3 DEF CopyOK
  <2> QED
    BY <2>2, <2>3, <1>0 DEF GTypeOK
<1>4. CopyInv'
  BY <1>3 DEF CopyInv
<1> QED
  BY <1>0, <1>1, <1>4, AskedKept, HeardKept DEF GIInv

LEMMA GNextGIInv == GIInv /\ [GNext]_allVars => GIInv'
<1> SUFFICES ASSUME GIInv, [GNext]_allVars PROVE GIInv'
  OBVIOUS
<1>0. GTypeOK /\ CopyInv /\ HeardOnlyPeers /\ InfoAnswersDiscover /\ GTypeOK'
  BY GNextTypeOK DEF GIInv
<1>1. CASE Next /\ UNCHANGED gvars
  BY <1>1, <1>0, QuietCopyInv, AskedKept, HeardKept DEF gvars, GIInv
<1>2. CASE \E n \in Node :
          \/ SendHeartbeat(n) \/ DiscoverNodes(n) \/ SendPing(n)
          \/ OnBrokerStarted(n)
          \/ \E t \in Node : DiscoverNode(n, t)
  BY <1>2, <1>0, SendsGIInv
<1>3. ASSUME NEW m \in GMsg, RegistryDelegate(m) PROVE GIInv'
  BY <1>3, <1>0, RegistryGIInv
<1>4. ASSUME NEW m \in GMsg, DiscoverHandle(m) PROVE GIInv'
  BY <1>4, <1>0, DiscoverGIInv
<1>5. ASSUME NEW m \in GMsg, GLoseMsg(m) PROVE GIInv'
  <2>1. \A k \in GMsg : gnet'[k] <= gnet[k]
    BY <1>5, <1>0 DEF GLoseMsg, GTypeOK
  <2>2. UNCHANGED <<heard, asked>>
    BY <1>5 DEF GLoseMsg
  <2> QED
    BY <1>0, <2>1, <2>2, AskedKept, CopyInvShrink, HeardKept DEF GIInv
<1>6. CASE UNCHANGED allVars
  BY <1>6, <1>0, QuietCopyInv, AskedKept, HeardKept DEF allVars, gvars, GIInv
<1> QED
  BY <1>1, <1>2, <1>3, <1>4, <1>5, <1>6 DEF GNext

\* A registry is handed node info on its own node's channel only from a
\* node its DISCOVER reached, for every set of nodes and every send bound.
THEOREM InfoAnswersDiscoverHolds == GSpec => []InfoAnswersDiscover
<1>1. GIInv => InfoAnswersDiscover
  BY DEF GIInv
<1> QED
  BY GInitGIInv, GNextGIInv, <1>1, PTL DEF GSpec

-----------------------------------------------------------------------------
(* Composition with the call engine.  The gossip commands share Transit's *)
(* transport, subscriptions and panics: a send before Connect kills the    *)
(* node.  Every gossip step leaves the call state alone, or changes only    *)
(* status and subs, which none of IInv2's conjuncts but TypeOK reads.       *)

\* The Transit variables a gossip step never writes.
CallState == <<hasTransport, isConnected, connects, connecting, joined,
               pending, ctx, net, resThreads, sends, notified>>

\* The steps of GNext that are not steps of Transit.
GossipStep ==
    \/ \E n \in Node :
          \/ SendHeartbeat(n) \/ DiscoverNodes(n) \/ SendPing(n)
          \/ OnBrokerStarted(n)
          \/ \E t \in Node : DiscoverNode(n, t)
    \/ \E m \in GMsg : RegistryDelegate(m) \/ DiscoverHandle(m) \/ GLoseMsg(m)

\* A gossip step keeps the call state, and either keeps status and subs or
\* panics the node.
LEMMA GossipStepFrame ==
  ASSUME TypeOK, GossipStep
  PROVE  /\ UNCHANGED CallState
         /\ status' \in [Node -> Status] /\ subs' \in [Node -> Nat]
<1>1. CASE TransitKept
  BY <1>1 DEF TransitKept, vars, CallState, TypeOK
<1>2. ASSUME NEW n \in Node, NilTransport(n) PROVE UNCHANGED CallState
         /\ status' \in [Node -> Status] /\ subs' \in [Node -> Nat]
  BY <1>2, NilTransportType DEF NilTransport, CallState, TypeOK
<1> QED
  BY <1>1, <1>2 DEF GossipStep, SendHeartbeat, DiscoverNodes, SendPing,
     OnBrokerStarted, DiscoverNode, RegistryDelegate, DiscoverHandle, GLoseMsg

\* Changing only status and subs, within their types, keeps IInv2.
LEMMA IInv2Frame ==
  ASSUME IInv2, UNCHANGED CallState,
         status' \in [Node -> Status], subs' \in [Node -> Nat]
  PROVE  IInv2'
BY DEF IInv2, IInv, TypeOK, CallState, PendingAtCaller, FreshUnsent,
   MsgsAtCaller, ThreadsAtCaller, NoStaleEntry, UnfoundAbsent

\* The initial state satisfies IInv2.
LEMMA GInitIInv2 == GInit => IInv2
BY InitIInv2 DEF GInit

LEMMA GNextIInv2 == IInv2 /\ [GNext]_allVars => IInv2'
<1> SUFFICES ASSUME IInv2, [GNext]_allVars PROVE IInv2'
  OBVIOUS
<1>0. TypeOK
  BY DEF IInv2, IInv
<1>1. CASE Next /\ UNCHANGED gvars
  BY <1>1, NextIInv2
<1>2. CASE UNCHANGED allVars
  BY <1>2, NextIInv2 DEF allVars
<1>3. CASE ~(Next /\ UNCHANGED gvars) /\ ~UNCHANGED allVars
  <2>1. GossipStep
    BY <1>3 DEF GNext, GossipStep
  <2> QED
    BY <2>1, <1>0, GossipStepFrame, IInv2Frame
<1> QED
  BY <1>1, <1>2, <1>3

\* Every gossip step is a stutter of the abstract call lifecycle.
LEMMA GNextRefines == IInv2 /\ [GNext]_allVars => [Abs!Next]_Abs!vars
<1> SUFFICES ASSUME IInv2, [GNext]_allVars PROVE [Abs!Next]_Abs!vars
  OBVIOUS
<1>0. TypeOK
  BY DEF IInv2, IInv
<1>1. CASE Next /\ UNCHANGED gvars
  BY <1>1, NextRefines
<1>2. CASE UNCHANGED allVars
  BY <1>2, NextRefines DEF allVars
<1>3. CASE ~(Next /\ UNCHANGED gvars) /\ ~UNCHANGED allVars
  <2>1. GossipStep
    BY <1>3 DEF GNext, GossipStep
  <2>2. UNCHANGED <<ctx, pending, sends>>
    BY <2>1, <1>0, GossipStepFrame DEF CallState
  <2> QED
    BY <2>2, <1>0, FrameStutter DEF Abs!vars
<1> QED
  BY <1>1, <1>2, <1>3

\* With heartbeats, probes, pings, broker starts, their handlers and the
\* panics of sends before Connect interleaved, the engine still implements
\* the call lifecycle Calls, for every set of nodes, calls and bounds.
THEOREM GossipRefinesCalls == GSpec => Refinement
<1>1. GSpec => []IInv2
  BY GInitIInv2, GNextIInv2, PTL DEF GSpec
<1>2. GSpec => [][Abs!Next]_Abs!vars
  BY <1>1, GNextRefines, PTL DEF GSpec
<1> QED
  BY <1>2, InitRefines, PTL DEF GSpec, GInit, Refinement, Abs!Spec

=============================================================================
