------------------------------ MODULE PongSkew ------------------------------
(***************************************************************************)
(* The ping/pong clock-skew estimator of src/transit/transit.go: the PING *)
(* SendPing builds (lines 254-262), the PONG pingHandler answers with      *)
(* (lines 264-275), and the $node.pong event pongHandler computes from it  *)
(* (lines 277-292).  Clocks are time.Now().Unix(): integer seconds.  Each  *)
(* initial state is one exchange: the pinger's send time, the latency of   *)
(* each leg, and how far the peer's clock is ahead of the pinger's.  The   *)
(* handlers are applied to the messages as the code builds them, whether   *)
(* or not the transport would deliver them (see Gossip: it never does).   *)
(***************************************************************************)
EXTENDS Integers, TLAPS

CONSTANTS
    Node,        \* node IDs
    MaxTime,     \* latest send time considered
    MaxLatency,  \* longest one-way latency, in seconds
    MaxSkew      \* largest clock difference between the two nodes

VARIABLES
    pinger,        \* who sends the PING
    t0,            \* the pinger's clock when it sends the PING
    up, down,      \* latency of the PING and of the PONG
    skew,          \* the peer's clock minus the pinger's
    event          \* the value pongHandler emits as $node.pong

vars == <<pinger, t0, up, down, skew, event>>

AbsVal(x) == IF x < 0 THEN -x ELSE x

\* SendPing: sender and time.Now().Unix(); published on the sender's own ID.
PingMsg(from, now) == [cmd |-> "PING", sender |-> from, time |-> now]

\* pingHandler: echo the sender and time, add the arrival time.
PongOf(ping, arrived) ==
    [cmd |-> "PONG", sender |-> ping.sender, time |-> ping.time,
     arrived |-> arrived]

\* math.Round(h / 2) for an integer h: float64 holds the half exactly, and
\* math.Round rounds a half away from zero.
RoundHalf(h) == IF h >= 0 THEN (h + 1) \div 2 ELSE -((-h + 1) \div 2)

\* pongHandler: elapsed = now - time, timeDiff = math.Round(now - arrived
\* - elapsed/2), emitted with the message's sender as nodeID.
PongEvent(pong, now) ==
    [nodeID |-> pong.sender,
     elapsedTime |-> now - pong.time,
     timeDiff |-> RoundHalf(2 * (now - pong.arrived) - (now - pong.time))]

\* One exchange, from the pinger's send to its handling of the PONG.
Exchange(a, t, u, d, s) ==
    PongEvent(PongOf(PingMsg(a, t), t + u + s), t + u + d)

Init ==
    /\ pinger \in Node
    /\ t0 \in 0..MaxTime
    /\ up \in 0..MaxLatency
    /\ down \in 0..MaxLatency
    /\ skew \in -MaxSkew..MaxSkew
    /\ event = Exchange(pinger, t0, up, down, skew)

\* Each exchange is evaluated once; nothing follows it.
Next == UNCHANGED vars

Spec == Init /\ [][Next]_vars

-----------------------------------------------------------------------------
(* Properties.                                                             *)

\* The estimator's contract: with second clocks, the skew pongHandler
\* reports is the pinger's clock minus the peer's, off by at most half the
\* difference between the two legs' latencies, rounded up; with equal legs
\* it is exact.
SkewErrorBounded ==
    2 * AbsVal(event.timeDiff + skew) <= AbsVal(up - down) + 1

\* Spec 8.4: timeDiff rounds a half up, floor(x + 1/2), the documented
\* convention.
RoundsHalfUp ==
    event.timeDiff = (2 * (t0 + up + down - (t0 + up + skew)) - (up + down) + 1) \div 2

-----------------------------------------------------------------------------
(* Proofs, for every clock value, latency and skew.                        *)

\* math.Round of a half-integer is off by at most one half.
LEMMA RoundHalfError ==
  ASSUME NEW h \in Int
  PROVE  2 * RoundHalf(h) - h \in {-1, 0, 1}
<1>1. CASE h >= 0
  BY <1>1 DEF RoundHalf
<1>2. CASE h < 0
  BY <1>2 DEF RoundHalf
<1> QED
  BY <1>1, <1>2

\* pongHandler's estimate is within half the latency asymmetry, rounded up,
\* of the true skew, for every exchange.
LEMMA ExchangeBounded ==
  ASSUME NEW a, NEW t \in Int, NEW u \in Int, NEW d \in Int, NEW s \in Int
  PROVE  2 * AbsVal(Exchange(a, t, u, d, s).timeDiff + s) <= AbsVal(u - d) + 1
<1> DEFINE h == 2 * ((t + u + d) - (t + u + s)) - ((t + u + d) - t)
<1>1. Exchange(a, t, u, d, s).timeDiff = RoundHalf(h)
  BY DEF Exchange, PongEvent, PongOf, PingMsg
<1>2. h = d - u - 2 * s
  OBVIOUS
<1>3. 2 * RoundHalf(h) - h \in {-1, 0, 1}
  BY RoundHalfError
<1>4. RoundHalf(h) \in Int
  BY DEF RoundHalf
<1> QED
  BY <1>1, <1>2, <1>3, <1>4 DEF AbsVal

\* SkewErrorBounded holds for every bound on times, latencies and skews.
THEOREM SkewErrorBoundedHolds == Spec => []SkewErrorBounded
<1>1. Init => SkewErrorBounded
  <2> SUFFICES ASSUME Init PROVE SkewErrorBounded
    OBVIOUS
  <2>1. t0 \in Int /\ up \in Int /\ down \in Int /\ skew \in Int
    BY DEF Init
  <2> QED
    BY <2>1, ExchangeBounded DEF Init, SkewErrorBounded
<1>2. SkewErrorBounded /\ [Next]_vars => SkewErrorBounded'
  BY DEF Next, vars, SkewErrorBounded
<1> QED
  BY <1>1, <1>2, PTL DEF Spec

\* With equal latencies on both legs, pongHandler's timeDiff is exactly the
\* pinger's clock minus the peer's, whatever the skew and the send time.
THEOREM SymmetricLegsExact ==
  Spec => [](up = down => event.timeDiff = -skew)
<1> DEFINE Exact == up = down => event.timeDiff = -skew
<1>1. Init => Exact
  <2> SUFFICES ASSUME Init, up = down PROVE event.timeDiff = -skew
    OBVIOUS
  <2>1. t0 \in Int /\ up \in Int /\ down \in Int /\ skew \in Int
    BY DEF Init
  <2>2. 2 * AbsVal(event.timeDiff + skew) <= AbsVal(up - down) + 1
    BY <2>1, ExchangeBounded DEF Init
  <2>4. AbsVal(up - down) = 0
    BY <2>1 DEF AbsVal
  <2>3. event.timeDiff \in Int
    BY <2>1 DEF Init, Exchange, PongEvent, PongOf, PingMsg, RoundHalf
  <2> QED
    BY <2>1, <2>2, <2>3, <2>4 DEF AbsVal
<1>2. Exact /\ [Next]_vars => Exact'
  BY DEF Next, vars
<1> QED
  BY <1>1, <1>2, PTL DEF Spec
=============================================================================
