---------------------------- MODULE XapHubProofs ----------------------------
(***************************************************************************)
(* Theorems about XapHub, for any number of daemons and ports and any      *)
(* timing that satisfies its assumptions.                                  *)
(***************************************************************************)
EXTENDS XapHub, TLAPS

-----------------------------------------------------------------------------
(* Facts about the operators the model is built from. *)

\* The first packet of a queue and the rest of it are packets.
LEMMA QueueHead ==
    ASSUME rxq \in Seq(Packet), rxq # <<>>
    PROVE  /\ Head(rxq) \in Packet
           /\ Tail(rxq) \in Seq(Packet)
           /\ Len(Tail(rxq)) = Len(rxq) - 1
  OBVIOUS

\* Nothing queued is a queue of packets.
LEMMA EmptyQueue == <<>> \in Seq(Packet) /\ Len(<<>>) <= RXQ
  BY BufferAssumption

\* A packet that names a port names XAP_PORT_L or one of the range.
LEMMA PacketPort ==
    ASSUME NEW m \in Packet, m.type # "other"
    PROVE  m.port \in Ports \cup {PORT_L}
  BY DEF Packet

\* xapSend() leaves a queue of packets no longer than the buffer.
LEMMA SendType ==
    ASSUME TypeOK, NEW m \in Packet
    PROVE  xapSend(m) \in Seq(Packet) /\ Len(xapSend(m)) <= RXQ
  <1>1. CASE Dropped
    BY <1>1 DEF TypeOK, xapSend
  <1>2. CASE ~Dropped
    <2>1. Len(rxq) < RXQ
      BY <1>2, BufferAssumption DEF Dropped, TypeOK
    <2>2. xapSend(m) = Append(rxq, m)
      BY <1>2 DEF xapSend
    <2> QED
      BY <2>1, <2>2, BufferAssumption DEF TypeOK
  <1> QED BY <1>1, <1>2

\* A daemon that runs heartbeats with a port the hub can be told of.
LEMMA HbeatType ==
    ASSUME TypeOK, NEW c \in Clients, Up(c), NEW t \in {"alive", "stop"}
    PROVE  Hbeat(t, c, port[c]) \in Packet
  <1>1. port[c] \in Ports \cup {PORT_L}
    BY DEF TypeOK, Up
  <1>2. 0 \in 0 .. D
    BY TimingAssumption
  <1> QED BY <1>1, <1>2 DEF Hbeat, Packet

\* Exit() leaves a queue of packets of the same length.
LEMMA ExitType ==
    ASSUME NEW c \in Clients, NEW q \in Seq(Packet), Exit(c, q), TypeOK
    PROVE  /\ rxq' \in Seq(Packet)
           /\ Len(rxq') = Len(q)
           /\ port' \in [Clients -> Ports \cup {PORT_L, NoPort}]
           /\ bound' \in [Clients -> BOOLEAN]
           /\ sinceBeat' \in [Clients -> 0 .. H + S]
           /\ joined' \in [Clients -> BOOLEAN]
           /\ away' \in [Clients -> Nat]
  <1>1. \A i \in 1 .. Len(q) : q[i] \in Packet
    OBVIOUS
  <1>2. \A m \in Packet : m.type # "other" => [m EXCEPT !.by = Nobody] \in Packet
    BY DEF Packet
  <1>3. rxq' = [i \in 1 .. Len(q) |->
                   IF q[i].type # "other" /\ q[i].by = c THEN [q[i] EXCEPT !.by = Nobody] ELSE q[i]]
    BY DEF Exit
  <1>4. \A i \in 1 .. Len(q) :
            (IF q[i].type # "other" /\ q[i].by = c THEN [q[i] EXCEPT !.by = Nobody] ELSE q[i]) \in Packet
    BY <1>1, <1>2
  <1>5. Len(q) \in Nat
    OBVIOUS
  <1>6. rxq' \in [1 .. Len(q) -> Packet]
    BY <1>3, <1>4
  <1>7. rxq' \in Seq(Packet) /\ Len(rxq') = Len(q)
    BY <1>3, <1>5, <1>6
  <1>8. 0 \in 0 .. H + S
    BY TimingAssumption
  <1>9. joined' \in [Clients -> BOOLEAN]
    BY DEF Exit, TypeOK
  <1>10. away' \in [Clients -> Nat]
    BY DEF Exit, TypeOK
  <1> QED BY <1>7, <1>8, <1>9, <1>10 DEF Exit, TypeOK

\* One second leaves a queue of packets that have waited no longer than D.
LEMMA TickQueueType ==
    ASSUME TypeOK, Tick
    PROVE  rxq' \in Seq(Packet) /\ Len(rxq') = Len(rxq)
  <1> DEFINE older(m) == [m EXCEPT !.wait = @ + 1]
  <1>1. \A i \in 1 .. Len(rxq) : rxq[i] \in Packet /\ rxq[i].wait < D
    BY DEF TypeOK, Tick
  <1>2. ASSUME NEW m \in Packet, m.wait < D
        PROVE  older(m) \in Packet
    <2>1. m.wait \in 0 .. D
      BY DEF Packet
    <2>2. m.wait + 1 \in 0 .. D
      BY <1>2, <2>1, TimingAssumption
    <2> QED BY <2>2 DEF Packet
  <1>3. rxq' = [i \in 1 .. Len(rxq) |-> older(rxq[i])]
    BY DEF Tick
  <1>4. \A i \in 1 .. Len(rxq) : older(rxq[i]) \in Packet
    BY <1>1, <1>2
  <1> HIDE DEF older
  <1>5. Len(rxq) \in Nat
    BY DEF TypeOK
  <1>6. rxq' \in [1 .. Len(rxq) -> Packet]
    BY <1>3, <1>4
  <1> QED BY <1>3, <1>5, <1>6

-----------------------------------------------------------------------------
(* Type correctness. *)

LEMMA InitType == Init => TypeOK
  <1> SUFFICES ASSUME Init PROVE TypeOK
    OBVIOUS
  <1>1. rxq \in Seq(Packet) /\ Len(rxq) <= RXQ
    BY EmptyQueue DEF Init
  <1>2. 0 \in 0 .. H + S /\ 0 \in 0 .. R + S
    BY TimingAssumption
  <1>3. /\ port \in [Clients -> Ports \cup {PORT_L, NoPort}]
        /\ bound \in [Clients -> BOOLEAN]
        /\ hubUp \in BOOLEAN
        /\ is_alive \in [Ports -> BOOLEAN]
        /\ joined \in [Clients -> BOOLEAN]
    BY Zenon DEF Init
  <1>4. /\ sinceBeat \in [Clients -> 0 .. H + S]
        /\ interval \in [Ports -> Nat]
        /\ timer \in [Ports -> Int]
        /\ sinceReap \in 0 .. R + S
        /\ hubBeat \in 0 .. H + S
        /\ age \in [Ports -> Nat]
        /\ away \in [Clients -> Nat]
    BY <1>2 DEF Init
  <1> QED BY <1>1, <1>3, <1>4 DEF TypeOK

\* A read of the socket: RxOwnHeartbeat, RxStop, RxAlive and RxOther.
LEMMA RxType == TypeOK /\ xapRxBroadcast => TypeOK'
  <1> SUFFICES ASSUME TypeOK, xapRxBroadcast PROVE TypeOK'
    OBVIOUS
  <1>1. /\ Head(rxq) \in Packet
        /\ rxq' \in Seq(Packet)
        /\ Len(rxq') <= RXQ
    <2>1. rxq \in Seq(Packet) /\ rxq # <<>> /\ rxq' = Tail(rxq) /\ Len(rxq) <= RXQ
      BY DEF TypeOK, xapRxBroadcast
    <2>2. Head(rxq) \in Packet /\ Tail(rxq) \in Seq(Packet) /\ Len(Tail(rxq)) = Len(rxq) - 1
      BY <2>1, QueueHead
    <2>3. Len(rxq) \in Nat
      BY <2>1
    <2> QED BY <2>1, <2>2, <2>3, BufferAssumption
  <1>2. UNCHANGED <<clientVars, hubUp, sinceReap, hubBeat>>
    BY DEF xapRxBroadcast
  <1>3. CASE RxOwnHeartbeat
    BY <1>1, <1>2, <1>3 DEF RxOwnHeartbeat, TypeOK, clientVars, listVars, histVars
  <1>4. CASE RxStop
    <2>1. Head(rxq).port \in Ports
      BY <1>1, <1>4, PacketPort DEF RxStop
    <2> QED
      BY <1>1, <1>2, <1>4, <2>1 DEF RxStop, stopHubConnection, TypeOK, clientVars
  <1>5. CASE RxAlive
    <2>1. Head(rxq).port \in Ports
      BY <1>1, <1>5, PacketPort DEF RxAlive
    <2>2. H \in Nat /\ H * 2 \in Int
      BY TimingAssumption
    <2>3. joined' \in [Clients -> BOOLEAN]
      BY <1>5 DEF RxAlive, TypeOK
    <2>4. age' \in [Ports -> Nat]
      BY <1>5 DEF RxAlive, TypeOK
    <2>6. away' \in [Clients -> Nat]
      BY <1>5 DEF RxAlive, TypeOK
    <2>5. is_alive' \in [Ports -> BOOLEAN] /\ interval' \in [Ports -> Nat] /\ timer' \in [Ports -> Int]
      BY <1>5, <2>2 DEF RxAlive, addOrUpdateHubEntry, TypeOK
    <2> QED
      BY <1>1, <1>2, <2>3, <2>4, <2>5, <2>6 DEF TypeOK, clientVars
  <1>6. CASE RxOther
    BY <1>1, <1>2, <1>6 DEF RxOther, TypeOK, clientVars, listVars, histVars
  <1> QED BY <1>3, <1>4, <1>5, <1>6 DEF xapRxBroadcast

\* Every step keeps the types.
LEMMA NextType == TypeOK /\ [Next]_vars => TypeOK'
  <1> SUFFICES ASSUME TypeOK, [Next]_vars PROVE TypeOK'
    OBVIOUS
  <1> USE TimingAssumption, BufferAssumption
  <1>1. ASSUME NEW c \in Clients, xapInit(c) PROVE TypeOK'
    BY <1>1 DEF xapInit, TypeOK, hubVars, listVars, histVars
  <1>2. ASSUME NEW c \in Clients, heartbeatHandler(c) PROVE TypeOK'
    <2>1. Hbeat("alive", c, port[c]) \in Packet
      BY <1>2, HbeatType DEF heartbeatHandler
    <2>2. rxq' \in Seq(Packet) /\ Len(rxq') <= RXQ
      BY <1>2, <2>1, SendType DEF heartbeatHandler
    <2>3. joined' \in [Clients -> BOOLEAN]
      BY <1>2 DEF heartbeatHandler, TypeOK
    <2>4. away' \in [Clients -> Nat]
      BY <1>2 DEF heartbeatHandler, TypeOK
    <2> QED
      BY <1>2, <2>2, <2>3, <2>4 DEF heartbeatHandler, TypeOK, hubVars, listVars
  <1>3. ASSUME NEW c \in Clients, termHandlerInSelect(c) PROVE TypeOK'
    <2>1. Hbeat("stop", c, port[c]) \in Packet
      BY <1>3, HbeatType DEF termHandlerInSelect
    <2> DEFINE q == xapSend(Hbeat("stop", c, port[c]))
    <2>2. q \in Seq(Packet) /\ Len(q) <= RXQ
      BY <2>1, SendType
    <2>3. Exit(c, q)
      BY <1>3 DEF termHandlerInSelect
    <2> HIDE DEF q
    <2>4. /\ rxq' \in Seq(Packet)
          /\ Len(rxq') = Len(q)
          /\ port' \in [Clients -> Ports \cup {PORT_L, NoPort}]
          /\ bound' \in [Clients -> BOOLEAN]
          /\ sinceBeat' \in [Clients -> 0 .. H + S]
          /\ joined' \in [Clients -> BOOLEAN]
          /\ away' \in [Clients -> Nat]
      BY <2>2, <2>3, ExitType
    <2> QED
      BY <1>3, <2>2, <2>4 DEF termHandlerInSelect, TypeOK, hubVars, listVars
  <1>4. ASSUME NEW c \in Clients, termHandlerInCallback(c) PROVE TypeOK'
    <2>1. Hbeat("stop", c, port[c]) \in Packet
      BY <1>4, HbeatType DEF termHandlerInCallback
    <2>2. rxq' \in Seq(Packet) /\ Len(rxq') <= RXQ
      BY <1>4, <2>1, SendType DEF termHandlerInCallback
    <2> QED
      BY <1>4, <2>2 DEF termHandlerInCallback, TypeOK, clientVars, hubVars, listVars
  <1>5. ASSUME NEW c \in Clients, Crash(c) PROVE TypeOK'
    <2>1. Exit(c, rxq) /\ rxq \in Seq(Packet)
      BY <1>5 DEF Crash, TypeOK
    <2>2. /\ rxq' \in Seq(Packet)
          /\ Len(rxq') = Len(rxq)
          /\ port' \in [Clients -> Ports \cup {PORT_L, NoPort}]
          /\ bound' \in [Clients -> BOOLEAN]
          /\ sinceBeat' \in [Clients -> 0 .. H + S]
          /\ joined' \in [Clients -> BOOLEAN]
          /\ away' \in [Clients -> Nat]
      BY <2>1, ExitType
    <2> QED
      BY <1>5, <2>2 DEF Crash, TypeOK, hubVars, listVars
  <1>6. CASE OtherPacket
    <2>1. [type |-> "other", wait |-> 0] \in Packet
      BY DEF Packet
    <2>2. rxq' \in Seq(Packet) /\ Len(rxq') <= RXQ
      BY <1>6, <2>1, SendType DEF OtherPacket
    <2> QED
      BY <1>6, <2>2 DEF OtherPacket, TypeOK, clientVars, hubVars, listVars, histVars
  <1>7. CASE HubStart
    BY <1>7 DEF HubStart, TypeOK, clientVars, listVars, histVars
  <1>8. CASE HubStop
    <2>1. rxq' \in Seq(Packet) /\ Len(rxq') <= RXQ
      BY <1>8, EmptyQueue DEF HubStop
    <2>2. 0 \in 0 .. H + S /\ 0 \in 0 .. R + S
      OBVIOUS
    <2>3. /\ port' \in [Clients -> Ports \cup {PORT_L, NoPort}]
          /\ bound' \in [Clients -> BOOLEAN]
          /\ sinceBeat' \in [Clients -> 0 .. H + S]
      BY <1>8 DEF HubStop, TypeOK, clientVars
    <2>4. /\ hubUp' \in BOOLEAN
          /\ is_alive' \in [Ports -> BOOLEAN]
          /\ joined' \in [Clients -> BOOLEAN]
      BY <1>8, Zenon DEF HubStop
    <2>5. /\ interval' \in [Ports -> Nat]
          /\ timer' \in [Ports -> Int]
          /\ sinceReap' \in 0 .. R + S
          /\ hubBeat' \in 0 .. H + S
          /\ age' \in [Ports -> Nat]
          /\ away' \in [Clients -> Nat]
      BY <1>8, <2>2 DEF HubStop
    <2> QED BY <2>1, <2>3, <2>4, <2>5 DEF TypeOK
  <1>9. CASE xapRxBroadcast
    BY <1>9, RxType
  <1>10. CASE reapHubConnections
    <2>1. timer' \in [Ports -> Int]
      BY <1>10 DEF reapHubConnections, TypeOK
    <2>2. is_alive' \in [Ports -> BOOLEAN] /\ age' \in [Ports -> Nat]
      BY <1>10 DEF reapHubConnections, TypeOK
    <2> QED
      BY <1>10, <2>1, <2>2 DEF reapHubConnections, TypeOK, clientVars
  <1>11. CASE hubHeartbeatHandler
    <2>1. Hbeat("alive", Nobody, PORT_L) \in Packet
      BY DEF Hbeat, Packet
    <2>2. rxq' \in Seq(Packet) /\ Len(rxq') <= RXQ
      BY <1>11, <2>1, SendType DEF hubHeartbeatHandler
    <2> QED
      BY <1>11, <2>2 DEF hubHeartbeatHandler, TypeOK, clientVars, listVars, histVars
  <1>12. CASE Tick
    <2>1. rxq' \in Seq(Packet) /\ Len(rxq') <= RXQ
      BY <1>12, TickQueueType DEF TypeOK
    <2>2. sinceBeat' \in [Clients -> 0 .. H + S]
      <3>1. /\ sinceBeat' = [c \in Clients |-> IF Up(c) THEN sinceBeat[c] + 1 ELSE 0]
            /\ \A c \in Clients : sinceBeat[c] \in 0 .. H + S /\ (Up(c) => sinceBeat[c] < H + S)
        BY <1>12 DEF Tick, TypeOK
      <3>2. \A c \in Clients : (IF Up(c) THEN sinceBeat[c] + 1 ELSE 0) \in 0 .. H + S
        BY <3>1, TimingAssumption
      <3> QED
        BY <3>1, <3>2
    <2>3. sinceReap' \in 0 .. R + S /\ hubBeat' \in 0 .. H + S /\ age' \in [Ports -> Nat]
      <3>1. sinceReap' \in 0 .. R + S
        BY <1>12 DEF Tick, TypeOK
      <3>2. hubBeat' \in 0 .. H + S
        BY <1>12 DEF Tick, TypeOK
      <3>3. age' \in [Ports -> Nat]
        <4>1. /\ age' = [p \in Ports |-> IF is_alive[p] THEN age[p] + 1 ELSE age[p]]
              /\ \A p \in Ports : age[p] \in Nat
          BY <1>12 DEF Tick, TypeOK
        <4>2. \A p \in Ports : (IF is_alive[p] THEN age[p] + 1 ELSE age[p]) \in Nat
          BY <4>1
        <4> QED
          BY <4>1, <4>2
      <3> QED
        BY <3>1, <3>2, <3>3
    <2>4. away' \in [Clients -> Nat]
      <3>1. /\ away' = [c \in Clients |-> IF Away(c) THEN away[c] + 1 ELSE away[c]]
            /\ \A c \in Clients : away[c] \in Nat
        BY <1>12 DEF Tick, TypeOK
      <3>2. \A c \in Clients : (IF Away(c) THEN away[c] + 1 ELSE away[c]) \in Nat
        BY <3>1
      <3> QED BY <3>1, <3>2
    <2> QED
      BY <1>12, <2>1, <2>2, <2>3, <2>4 DEF Tick, TypeOK, listVars
  <1>13. CASE UNCHANGED vars
    BY <1>13 DEF TypeOK, vars, clientVars, hubVars, listVars, histVars
  <1> QED
    BY <1>1, <1>2, <1>3, <1>4, <1>5, <1>6, <1>7, <1>8, <1>9, <1>10, <1>11, <1>12, <1>13 DEF Next

(* The variables of the hub and of its daemons keep their types in every    *)
(* behaviour: in particular no packet waits longer than D and no timer is   *)
(* served more than S seconds late.  hub.c, init.c.                         *)
THEOREM TypeCorrect == Spec => []TypeOK
  BY InitType, NextType, PTL DEF Spec

-----------------------------------------------------------------------------
(* The credit of a port and its silence. *)

\* A sweep that comes at most r + s seconds after the one before takes r off
\* the credit t: the bound on the silence g holds again with nothing elapsed.
LEMMA SweepArithmetic ==
    ASSUME NEW r \in Nat, NEW s \in Nat, NEW h \in Nat, NEW t \in Int,
           NEW g \in Nat, NEW x \in Nat,
           x <= r + s, r * g <= (r + s) * (2 * h - t) + r * x
    PROVE  r * g <= (r + s) * (2 * h - (t - r)) + r * 0
  <1>1. (r + s) * (2 * h - (t - r)) = (r + s) * (2 * h - t) + (r + s) * r
    OBVIOUS
  <1>2. r * x <= r * (r + s)
    OBVIOUS
  <1>3. (r + s) * r = r * (r + s) /\ r * 0 = 0
    OBVIOUS
  <1> DEFINE a == r * g
             b == (r + s) * (2 * h - t)
             c == r * x
             d == r * (r + s)
  <1>4. a \in Int /\ b \in Int /\ c \in Int /\ d \in Int
    OBVIOUS
  <1>5. a <= b + c /\ c <= d
    BY <1>2
  <1> HIDE DEF a, b, c, d
  <1>6. a <= b + d + 0
    BY <1>4, <1>5
  <1> QED BY <1>1, <1>3, <1>6 DEF a, b, c, d

\* A second adds as much to either side of the bound.
LEMMA SecondArithmetic ==
    ASSUME NEW r \in Nat, NEW b \in Int, NEW g \in Nat, NEW x \in Nat,
           r * g <= b + r * x
    PROVE  r * (g + 1) <= b + r * (x + 1)
  <1>1. r * (g + 1) = r * g + r /\ r * (x + 1) = r * x + r
    OBVIOUS
  <1>2. r * g \in Int /\ r * x \in Int
    OBVIOUS
  <1> QED BY <1>1, <1>2

\* A port with credit left has not been silent for longer than the lease.
LEMMA LeaseArithmetic ==
    ASSUME NEW r \in Nat, NEW s \in Nat, NEW h \in Nat, NEW t \in Nat,
           NEW g \in Nat, NEW x \in Nat,
           x <= r + s, r * g <= (r + s) * (2 * h - t) + r * x
    PROVE  r * g <= (r + s) * (2 * h + r)
  <1> DEFINE a == r * g
             b == (r + s) * (2 * h)
             c == (r + s) * t
             d == r * x
             e == (r + s) * r
  <1>1. (r + s) * (2 * h - t) = b - c /\ (r + s) * (2 * h + r) = b + e
    OBVIOUS
  <1>2. c >= 0 /\ d <= e
    OBVIOUS
  <1>3. a \in Int /\ b \in Int /\ c \in Int /\ d \in Int /\ e \in Int
    OBVIOUS
  <1>4. a <= b - c + d
    BY <1>1
  <1> HIDE DEF a, b, c, d, e
  <1>5. a <= b + e
    BY <1>2, <1>3, <1>4
  <1> QED BY <1>1, <1>5 DEF a

\* One port's part of CreditFollowsSilence.
Credit(p) ==
    IF is_alive[p]
    THEN /\ hubUp
         /\ interval[p] = H
         /\ timer[p] > 0
         /\ timer[p] <= 2 * H
         /\ timer[p] >= 2 * H - age[p] - R + Min2(sinceReap, R)
         /\ R * age[p] <= (R + S) * (2 * H - timer[p]) + R * sinceReap
    ELSE age[p] = 0

\* What a step must leave alone to leave a port's credit alone.
LEMMA CreditFrame ==
    ASSUME NEW p \in Ports, Credit(p),
           is_alive'[p] = is_alive[p], age'[p] = age[p], timer'[p] = timer[p],
           interval'[p] = interval[p], sinceReap' = sinceReap, hubUp' = hubUp
    PROVE  Credit(p)'
  BY DEF Credit, Min2

\* A heartbeat starts the credit afresh.
LEMMA CreditBeat ==
    ASSUME NEW p \in Ports, TypeOK, hubUp', is_alive'[p], age'[p] = 0,
           timer'[p] = H * 2, interval'[p] = H, sinceReap' = sinceReap
    PROVE  Credit(p)'
  <1>1. sinceReap \in Nat /\ R * sinceReap >= 0 /\ R * 0 = 0
    BY TimingAssumption DEF TypeOK
  <1>2. (R + S) * (2 * H - H * 2) = 0
    <2>1. 2 * H - H * 2 = 0
      BY TimingAssumption
    <2>2. (R + S) * 0 = 0
      BY TimingAssumption
    <2> QED BY <2>1, <2>2
  <1>3. R * age'[p] <= (R + S) * (2 * H - timer'[p]) + R * sinceReap'
    <2>1. R * sinceReap \in Int
      BY <1>1, TimingAssumption
    <2> QED BY <1>1, <1>2, <2>1
  <1> QED
    BY <1>1, <1>3, TimingAssumption, HeartbeatAssumption DEF Credit, Min2

\* Every step keeps every port's credit.
LEMMA CreditNext ==
    ASSUME TypeOK, [Next]_vars, NEW p \in Ports, Credit(p)
    PROVE  Credit(p)'
  <1> USE TimingAssumption
  <1>1. ASSUME NEW c \in Clients,
               xapInit(c) \/ heartbeatHandler(c) \/ termHandlerInSelect(c)
                 \/ termHandlerInCallback(c) \/ Crash(c)
        PROVE  Credit(p)'
    BY <1>1, CreditFrame DEF xapInit, heartbeatHandler, termHandlerInSelect,
       termHandlerInCallback, Crash, hubVars, listVars, histVars
  <1>2. CASE OtherPacket \/ hubHeartbeatHandler \/ UNCHANGED vars
    BY <1>2, CreditFrame DEF OtherPacket, hubHeartbeatHandler, hubVars, listVars, histVars, vars
  <1>3. CASE HubStart
    <2>1. ~is_alive[p] /\ age[p] = 0
      BY <1>3 DEF HubStart, Credit
    <2> QED BY <1>3, <2>1 DEF HubStart, Credit, listVars, histVars
  <1>4. CASE HubStop
    BY <1>4 DEF HubStop, Credit
  <1>5. CASE xapRxBroadcast
    <2>1. hubUp /\ hubUp' = hubUp /\ sinceReap' = sinceReap
      BY <1>5 DEF xapRxBroadcast
    <2>2. CASE RxOwnHeartbeat \/ RxOther
      BY <2>1, <2>2, CreditFrame DEF RxOwnHeartbeat, RxOther, listVars, histVars
    <2>3. CASE RxStop
      <3>1. CASE Head(rxq).port = p
        BY <2>3, <3>1 DEF RxStop, stopHubConnection, Credit, TypeOK
      <3>2. CASE Head(rxq).port # p
        BY <2>1, <2>3, <3>2, CreditFrame DEF RxStop, stopHubConnection, TypeOK
      <3> QED BY <3>1, <3>2
    <2>4. CASE RxAlive
      <3>1. CASE Head(rxq).port = p
        BY <2>1, <2>4, <3>1, CreditBeat DEF RxAlive, addOrUpdateHubEntry, TypeOK
      <3>2. CASE Head(rxq).port # p
        BY <2>1, <2>4, <3>2, CreditFrame DEF RxAlive, addOrUpdateHubEntry, TypeOK
      <3> QED BY <3>1, <3>2
    <2> QED BY <1>5, <2>2, <2>3, <2>4 DEF xapRxBroadcast
  <1>6. CASE reapHubConnections
    <2>1. /\ hubUp' = hubUp /\ interval'[p] = interval[p]
          /\ sinceReap >= R /\ sinceReap' = 0
          /\ timer'[p] = IF is_alive[p] THEN timer[p] - R ELSE timer[p]
          /\ is_alive'[p] = (is_alive[p] /\ timer'[p] > 0)
          /\ age'[p] = IF is_alive'[p] THEN age[p] ELSE 0
      BY <1>6 DEF reapHubConnections
    <2>2. CASE ~is_alive'[p]
      BY <2>1, <2>2 DEF Credit
    <2>3. CASE is_alive'[p]
      <3>1. /\ is_alive[p] /\ timer'[p] = timer[p] - R /\ timer'[p] > 0 /\ age'[p] = age[p]
        BY <2>1, <2>3
      <3>2. /\ sinceReap \in Nat /\ sinceReap <= R + S
            /\ timer[p] \in Int /\ age[p] \in Nat
        BY DEF TypeOK
      <3>3. timer'[p] >= 2 * H - age'[p] - R + Min2(sinceReap', R)
        BY <2>1, <3>1, <3>2 DEF Credit, Min2
      <3>4. R * age[p] <= (R + S) * (2 * H - timer[p]) + R * sinceReap
        BY <3>1 DEF Credit
      <3>5. R * age'[p] <= (R + S) * (2 * H - timer'[p]) + R * sinceReap'
        BY <2>1, <3>1, <3>2, <3>4, SweepArithmetic
      <3>6. /\ hubUp' /\ interval'[p] = H /\ timer'[p] <= 2 * H
        BY <2>1, <3>1, <3>2 DEF Credit
      <3> QED BY <2>3, <3>1, <3>3, <3>5, <3>6 DEF Credit
    <2> QED BY <2>2, <2>3
  <1>7. CASE Tick
    <2>1. /\ hubUp' = hubUp /\ is_alive'[p] = is_alive[p]
          /\ interval'[p] = interval[p] /\ timer'[p] = timer[p]
          /\ age'[p] = IF is_alive[p] THEN age[p] + 1 ELSE age[p]
          /\ sinceReap' = IF hubUp THEN sinceReap + 1 ELSE 0
      BY <1>7 DEF Tick, listVars
    <2>2. CASE ~is_alive[p]
      BY <2>1, <2>2 DEF Credit
    <2>3. CASE is_alive[p]
      <3>1. /\ sinceReap \in Nat /\ timer[p] \in Int /\ age[p] \in Nat
        BY DEF TypeOK
      <3>2. hubUp /\ sinceReap' = sinceReap + 1 /\ age'[p] = age[p] + 1
        BY <2>1, <2>3 DEF Credit
      <3>3. timer'[p] >= 2 * H - age'[p] - R + Min2(sinceReap', R)
        BY <2>1, <2>3, <3>1, <3>2 DEF Credit, Min2
      <3>4. (R + S) * (2 * H - timer[p]) \in Int
        BY <3>1
      <3>5. R * age'[p] <= (R + S) * (2 * H - timer[p]) + R * sinceReap'
        BY <2>3, <3>1, <3>2, <3>4, SecondArithmetic DEF Credit
      <3> QED BY <2>1, <2>3, <3>2, <3>3, <3>5 DEF Credit
    <2> QED BY <2>2, <2>3
  <1> QED
    BY <1>1, <1>2, <1>3, <1>4, <1>5, <1>6, <1>7 DEF Next

\* The named invariant is the conjunction of the ports' parts.
LEMMA CreditParts == CreditFollowsSilence <=> \A p \in Ports : Credit(p)
  BY DEF CreditFollowsSilence, Credit

LEMMA CreditInit == Init => CreditFollowsSilence
  BY DEF Init, CreditFollowsSilence

LEMMA CreditStep == TypeOK /\ CreditFollowsSilence /\ [Next]_vars => CreditFollowsSilence'
  <1> SUFFICES ASSUME TypeOK, CreditFollowsSilence, [Next]_vars PROVE CreditFollowsSilence'
    OBVIOUS
  <1>1. \A p \in Ports : Credit(p)
    BY CreditParts
  <1>2. \A p \in Ports : Credit(p)'
    BY <1>1, CreditNext
  <1> QED BY <1>2 DEF CreditFollowsSilence, Credit

(* The credit the hub keeps for a live port tells how long it has been      *)
(* silent, within one sweep and the lateness of the sweeps.                 *)
(* hub.c: addOrUpdateHubEntry(), reapHubConnections(), stopHubConnection(). *)
THEOREM CreditCorrect == Spec => []CreditFollowsSilence
  BY TypeCorrect, CreditInit, CreditStep, PTL DEF Spec

-----------------------------------------------------------------------------
(* The hub implements a lease. *)

LEMMA LeaseInit == Init => Lease!Init
  <1> SUFFICES ASSUME Init PROVE Lease!Init
    OBVIOUS
  <1>1. 1 .. Len(rxq) = {}
    BY DEF Init
  <1>2. Named("alive") = {} /\ Named("stop") = {}
    BY <1>1 DEF Named
  <1> QED BY <1>2 DEF Init, Lease!Init

LEMMA NamedType == Named("alive") \subseteq Ports /\ Named("stop") \subseteq Ports
  BY DEF Named

\* The packet the hub reads is on its way to it.
LEMMA HeadNamed ==
    ASSUME TypeOK, rxq # <<>>, NEW t, Head(rxq).type = t, Head(rxq).port \in Ports
    PROVE  Head(rxq).port \in Named(t)
  <1>1. 1 \in 1 .. Len(rxq) /\ rxq[1] = Head(rxq)
    BY DEF TypeOK
  <1> QED BY <1>1 DEF Named

\* A sweep is the lapse of the leases it takes away, all of them old enough.
LEMMA SweepIsLapse ==
    ASSUME TypeOK, CreditFollowsSilence, reapHubConnections
    PROVE  Lease!Next
  <1> DEFINE P == {p \in Ports : is_alive[p] /\ ~is_alive'[p]}
  <1>1. ASSUME NEW p \in P
        PROVE  is_alive[p] /\ age[p] >= 2 * H - R
    <2>1. /\ p \in Ports /\ is_alive[p] /\ ~is_alive'[p]
          /\ timer'[p] = timer[p] - R
          /\ is_alive'[p] = (is_alive[p] /\ timer'[p] > 0)
          /\ sinceReap >= R
      BY DEF reapHubConnections
    <2>2. timer[p] \in Int /\ age[p] \in Nat /\ sinceReap \in Nat
      BY <2>1 DEF TypeOK
    <2>3. timer[p] >= 2 * H - age[p] - R + Min2(sinceReap, R)
      BY <2>1 DEF CreditFollowsSilence
    <2>4. timer[p] <= R
      <3>1. ~(timer'[p] > 0)
        BY <2>1, Zenon
      <3> QED BY <2>1, <2>2, <3>1, TimingAssumption
    <2> QED BY <2>1, <2>2, <2>3, <2>4, TimingAssumption DEF Min2
  <1>2. is_alive' = [p \in Ports |-> is_alive[p] /\ p \notin P]
    BY DEF reapHubConnections, TypeOK
  <1>3. age' = [p \in Ports |-> IF p \in P THEN 0 ELSE age[p]]
    BY DEF reapHubConnections, CreditFollowsSilence, TypeOK
  <1>4. hubUp /\ hubUp' = hubUp
    BY DEF reapHubConnections
  <1>5. Lease!Lapse(P)
    BY <1>1, <1>2, <1>3, <1>4 DEF Lease!Lapse
  <1>6. P \in SUBSET Ports
    OBVIOUS
  <1> HIDE DEF P
  <1> QED BY <1>5, <1>6, NamedType DEF Lease!Next, Named

\* A second keeps every lease within its limit.
LEMMA TickIsSecond ==
    ASSUME TypeOK', CreditFollowsSilence', Tick
    PROVE  Lease!Second
  <1>1. ASSUME NEW p \in Ports, is_alive[p]
        PROVE  R * age'[p] <= (R + S) * (2 * H + R)
    <2>1. is_alive'[p]
      BY <1>1 DEF Tick, listVars
    <2>2. /\ timer'[p] > 0
          /\ R * age'[p] <= (R + S) * (2 * H - timer'[p]) + R * sinceReap'
      BY <2>1 DEF CreditFollowsSilence
    <2>3. /\ timer'[p] \in Int /\ age'[p] \in Nat
          /\ sinceReap' \in Nat /\ sinceReap' <= R + S
      BY TimingAssumption DEF TypeOK
    <2>4. timer'[p] \in Nat
      BY <2>2, <2>3
    <2> QED BY <2>2, <2>3, <2>4, LeaseArithmetic, TimingAssumption
  <1> QED
    BY <1>1 DEF Tick, listVars, Lease!Second

\* Every step of the hub and its daemons is a step of the lease or none.
LEMMA LeaseStep ==
    ASSUME TypeOK, TypeOK', CreditFollowsSilence, CreditFollowsSilence', [Next]_vars
    PROVE  [Lease!Next]_(Lease!vars)
  <1>1. Named("alive")' \subseteq Ports /\ Named("stop")' \subseteq Ports
    BY DEF Named
  <1>2. SUFFICES \/ \E p \in Ports : Lease!Beat(p) \/ Lease!Leave(p)
                 \/ Lease!Next
                 \/ Lease!End
                 \/ Lease!Second
                 \/ Lease!Traffic
    BY <1>1 DEF Lease!Next
  <1>3. ASSUME NEW c \in Clients,
               xapInit(c) \/ heartbeatHandler(c) \/ termHandlerInSelect(c)
                 \/ termHandlerInCallback(c) \/ Crash(c)
        PROVE  Lease!Traffic
    BY <1>3 DEF xapInit, heartbeatHandler, termHandlerInSelect,
       termHandlerInCallback, Crash, hubVars, listVars, histVars, Lease!Traffic
  <1>4. CASE OtherPacket \/ HubStart \/ hubHeartbeatHandler \/ UNCHANGED vars
    BY <1>4 DEF OtherPacket, HubStart, hubHeartbeatHandler, hubVars, listVars, histVars, vars, Lease!Traffic
  <1>5. CASE HubStop
    BY <1>5 DEF HubStop, Lease!End
  <1>6. CASE xapRxBroadcast
    <2>1. Head(rxq) \in Packet /\ rxq # <<>> /\ hubUp /\ hubUp' = hubUp
      BY <1>6, QueueHead DEF xapRxBroadcast, TypeOK
    <2>2. CASE RxOwnHeartbeat \/ RxOther
      BY <2>1, <2>2 DEF RxOwnHeartbeat, RxOther, listVars, histVars, Lease!Traffic
    <2>3. CASE RxStop
      <3>1. Head(rxq).port \in Ports /\ Head(rxq).type = "stop"
        BY <2>1, <2>3, PacketPort DEF RxStop
      <3>2. Head(rxq).port \in Named("stop")
        BY <2>1, <3>1, HeadNamed
      <3>3. Lease!Leave(Head(rxq).port)
        BY <2>1, <2>3, <3>2 DEF RxStop, stopHubConnection, Lease!Leave
      <3> QED BY <3>1, <3>3
    <2>4. CASE RxAlive
      <3>1. Head(rxq).port \in Ports /\ Head(rxq).type = "alive"
        BY <2>1, <2>4, PacketPort DEF RxAlive
      <3>2. Head(rxq).port \in Named("alive")
        BY <2>1, <3>1, HeadNamed
      <3>3. Lease!Beat(Head(rxq).port)
        BY <2>1, <2>4, <3>2 DEF RxAlive, addOrUpdateHubEntry, Lease!Beat
      <3> QED BY <3>1, <3>3
    <2> QED BY <1>6, <2>2, <2>3, <2>4 DEF xapRxBroadcast
  <1>7. CASE reapHubConnections
    BY <1>7, SweepIsLapse
  <1>8. CASE Tick
    BY <1>8, TickIsSecond
  <1> QED
    BY <1>3, <1>4, <1>5, <1>6, <1>7, <1>8 DEF Next

(* The hub's list is a table of leases: a port is connected only by a       *)
(* heartbeat, disconnected at once only by a stop, disconnected for silence *)
(* only after 2 * H - R seconds without a heartbeat, and at the     *)
(* latest once R * silence exceeds (R + S) * (2 * H + R).  hub.c.           *)
THEOREM HubImplementsLease == Spec => ImplementsLease
  <1>1. Spec => [](TypeOK /\ CreditFollowsSilence)
    BY TypeCorrect, CreditCorrect, PTL
  <1>2. TypeOK /\ TypeOK' /\ CreditFollowsSilence /\ CreditFollowsSilence' /\ [Next]_vars
          => [Lease!Next]_(Lease!vars)
    BY LeaseStep
  <1> QED
    BY <1>1, <1>2, LeaseInit, PTL DEF Spec, ImplementsLease, Lease!Spec

-----------------------------------------------------------------------------
(* The daemons that have joined. *)

\* The daemon c, as it runs now, has sent m.
Sent(m, c) == m.type # "other" /\ m.by = c

\* A port of the range is bound, and no port is bound twice.
Binding ==
    /\ \A c \in Clients : port[c] \in Ports => bound[c]
    /\ \A c, d \in Clients : bound[c] /\ bound[d] /\ port[c] = port[d] => c = d

\* A heartbeat names its sender's port, and has waited since it was sent.
Labelled(q) ==
    \A i \in 1 .. Len(q), c \in Clients : Sent(q[i], c) =>
        q[i].port = port[c] /\ (q[i].type = "alive" => q[i].wait = sinceBeat[c])

\* No stop of an earlier owner of its port comes after a packet of c.
Ordered(q) ==
    \A i, j \in 1 .. Len(q), c \in Clients :
        /\ i < j /\ Sent(q[i], c) /\ port[c] \in Ports
        /\ q[j].type = "stop" /\ q[j].port = port[c]
        => q[j].by = c

\* No stop on q names the port p.
Unstopped(q, p) == \A i \in 1 .. Len(q) : q[i].type = "stop" => q[i].port # p

\* A heartbeat of c has not been read yet.
Pending(q, c) == \E i \in 1 .. Len(q) : q[i].type = "alive" /\ q[i].by = c

\* The hub has heard a daemon that joined since its last but one heartbeat, and since
\* its last one unless that still waits.
Member(c) ==
    joined[c] =>
        /\ port[c] \in Ports
        /\ is_alive[port[c]]
        /\ Unstopped(rxq, port[c])
        /\ age[port[c]] <= sinceBeat[c] + (IF Pending(rxq, c) THEN H + S ELSE 0)

Membership == Binding /\ Labelled(rxq) /\ Ordered(rxq) /\ \A c \in Clients : Member(c)

\* What the types say of a packet on q.
LEMMA PacketFacts ==
    ASSUME NEW q \in Seq(Packet), NEW i \in 1 .. Len(q)
    PROVE  /\ q[i] \in Packet
           /\ q[i].wait \in 0 .. D
           /\ q[i].type \in {"alive", "stop", "other"}
           /\ q[i].type # "other" => q[i].port \in Ports \cup {PORT_L} /\ q[i].port # NoPort
  <1>1. q[i] \in Packet
    OBVIOUS
  <1>2. Ports \cup {PORT_L} \subseteq Nat
    BY PortAssumption DEF Ports
  <1> QED BY <1>1, <1>2, NoPortAssumption DEF Packet

\* A daemon whose packet is on q runs.
LEMMA SenderRuns ==
    ASSUME NEW q \in Seq(Packet), Labelled(q), NEW i \in 1 .. Len(q), NEW c \in Clients, Sent(q[i], c)
    PROVE  Up(c)
  BY PacketFacts DEF Labelled, Sent, Up

\* Two running daemons whose ports are of the range have different ones.
LEMMA PortsDiffer ==
    ASSUME Binding, NEW c \in Clients, NEW d \in Clients, c # d, port[c] \in Ports
    PROVE  port[d] # port[c]
  BY DEF Binding

\* The queue after xapSend().
LEMMA SentQueue ==
    ASSUME TypeOK, NEW m \in Packet
    PROVE  /\ xapSend(m) \in Seq(Packet)
           /\ \/ xapSend(m) = rxq
              \/ /\ ~Dropped
                 /\ xapSend(m) = Append(rxq, m)
                 /\ Len(rxq) \in Nat
                 /\ Len(xapSend(m)) = Len(rxq) + 1
                 /\ xapSend(m)[Len(rxq) + 1] = m
                 /\ \A i \in 1 .. Len(rxq) : xapSend(m)[i] = rxq[i]
  <1>1. rxq \in Seq(Packet) /\ Len(rxq) \in Nat
    BY DEF TypeOK
  <1>2. CASE Dropped
    BY <1>1, <1>2 DEF xapSend
  <1>3. CASE ~Dropped
    <2>1. xapSend(m) = Append(rxq, m)
      BY <1>3 DEF xapSend
    <2> QED BY <1>1, <1>3, <2>1
  <1> QED BY <1>2, <1>3

\* A packet that says who sends it, put at the end of the queue.
LEMMA SendOrdered ==
    ASSUME TypeOK, Binding, Labelled(rxq), Ordered(rxq), NEW m \in Packet,
           \A c \in Clients : Sent(m, c) =>
               m.port = port[c] /\ (m.type = "alive" => m.wait = sinceBeat[c]),
           m.type = "stop" => m.by \in Clients
    PROVE  Labelled(xapSend(m)) /\ Ordered(xapSend(m))
  <1>1. CASE xapSend(m) = rxq
    BY <1>1
  <1>2. CASE xapSend(m) # rxq
    <2> DEFINE q == xapSend(m)
    <2>1. /\ Len(rxq) \in Nat
          /\ Len(q) = Len(rxq) + 1
          /\ q[Len(rxq) + 1] = m
          /\ \A i \in 1 .. Len(rxq) : q[i] = rxq[i]
      BY <1>2, SentQueue
    <2> HIDE DEF q
    <2>2. \A i \in 1 .. Len(q) : i \in 1 .. Len(rxq) \/ i = Len(rxq) + 1
      BY <2>1
    <2>3. Labelled(q)
      <3> SUFFICES ASSUME NEW i \in 1 .. Len(q), NEW c \in Clients, Sent(q[i], c)
                   PROVE  q[i].port = port[c] /\ (q[i].type = "alive" => q[i].wait = sinceBeat[c])
        BY DEF Labelled
      <3>1. CASE i \in 1 .. Len(rxq)
        BY <2>1, <3>1 DEF Labelled
      <3>2. CASE i = Len(rxq) + 1
        BY <2>1, <3>2
      <3> QED BY <2>2, <3>1, <3>2
    <2>4. Ordered(q)
      <3> SUFFICES ASSUME NEW i \in 1 .. Len(q), NEW j \in 1 .. Len(q), NEW c \in Clients, i < j,
                          Sent(q[i], c), port[c] \in Ports, q[j].type = "stop", q[j].port = port[c]
                   PROVE  q[j].by = c
        BY DEF Ordered
      <3>1. i \in 1 .. Len(rxq) /\ q[i] = rxq[i]
        BY <2>1
      <3>2. CASE j \in 1 .. Len(rxq)
        BY <2>1, <3>1, <3>2 DEF Ordered
      <3>3. CASE j = Len(rxq) + 1
        <4>1. m.by \in Clients /\ m.port = port[m.by] /\ q[j] = m
          BY <2>1, <3>3 DEF Sent
        <4> QED BY <4>1, PortsDiffer
      <3> QED BY <2>2, <3>2, <3>3
    <2> QED BY <2>3, <2>4 DEF q
  <1> QED BY <1>1, <1>2

\* What a daemon that joined is told by a queue with one more packet.
LEMMA SendMember ==
    ASSUME TypeOK, NEW m \in Packet, NEW c \in Clients
    PROVE  /\ Unstopped(rxq, port[c]) /\ (m.type = "stop" => m.port # port[c]) => Unstopped(xapSend(m), port[c])
           /\ Pending(rxq, c) => Pending(xapSend(m), c)
           /\ Pending(xapSend(m), c) => Pending(rxq, c) \/ (m.type = "alive" /\ m.by = c)
           /\ ~Dropped /\ m.type = "alive" /\ m.by = c => Pending(xapSend(m), c)
  <1>1. CASE Dropped
    BY <1>1 DEF xapSend
  <1>2. CASE ~Dropped
    <2> DEFINE q == xapSend(m)
    <2>0. q = Append(rxq, m) /\ rxq \in Seq(Packet)
      BY <1>2 DEF xapSend, TypeOK
    <2>1. /\ Len(rxq) \in Nat
          /\ Len(q) = Len(rxq) + 1
          /\ q[Len(rxq) + 1] = m
          /\ \A i \in 1 .. Len(rxq) : q[i] = rxq[i]
      BY <2>0
    <2> HIDE DEF q
    <2>2. /\ \A i \in 1 .. Len(q) : i \in 1 .. Len(rxq) \/ i = Len(rxq) + 1
          /\ \A i \in 1 .. Len(rxq) : i \in 1 .. Len(q)
          /\ Len(rxq) + 1 \in 1 .. Len(q)
      BY <2>1
    <2>3. Unstopped(rxq, port[c]) /\ (m.type = "stop" => m.port # port[c]) => Unstopped(q, port[c])
      BY <2>1, <2>2 DEF Unstopped
    <2>4. /\ Pending(rxq, c) => Pending(q, c)
          /\ Pending(q, c) => Pending(rxq, c) \/ (m.type = "alive" /\ m.by = c)
          /\ m.type = "alive" /\ m.by = c => Pending(q, c)
      BY <2>1, <2>2 DEF Pending
    <2> QED BY <2>3, <2>4 DEF q
  <1> QED BY <1>1, <1>2


\* A process that ends leaves packets of nobody on the queue.
LEMMA ExitMembership ==
    ASSUME TypeOK, Binding, NEW c \in Clients, NEW q \in Seq(Packet), Exit(c, q), Labelled(q), Ordered(q)
    PROVE  /\ Binding' /\ Labelled(rxq)' /\ Ordered(rxq)'
           /\ \A d \in Clients : d # c =>
                 /\ port'[d] = port[d] /\ sinceBeat'[d] = sinceBeat[d]
                 /\ Unstopped(q, port[d]) => Unstopped(rxq', port[d])
                 /\ Pending(q, d) <=> Pending(rxq', d)
  <1>1. /\ port' = [port EXCEPT ![c] = NoPort] /\ bound' = [bound EXCEPT ![c] = FALSE]
        /\ sinceBeat' = [sinceBeat EXCEPT ![c] = 0]
        /\ rxq' = [i \in 1 .. Len(q) |->
                      IF q[i].type # "other" /\ q[i].by = c THEN [q[i] EXCEPT !.by = Nobody] ELSE q[i]]
    BY DEF Exit
  <1>2. Len(q) \in Nat /\ Len(rxq') = Len(q)
    BY ExitType
  <1>3. ASSUME NEW i \in 1 .. Len(q)
        PROVE  /\ rxq'[i].type = q[i].type /\ rxq'[i].wait = q[i].wait
               /\ q[i].type # "other" => rxq'[i].port = q[i].port
               /\ \A d \in Clients : Sent(rxq'[i], d) <=> Sent(q[i], d) /\ d # c
    <2>1. q[i] \in Packet
      OBVIOUS
    <2>2. CASE q[i].type # "other" /\ q[i].by = c
      <3>1. rxq'[i] = [q[i] EXCEPT !.by = Nobody]
        BY <1>1, <2>2
      <3>2. /\ rxq'[i].type = q[i].type /\ rxq'[i].wait = q[i].wait /\ rxq'[i].port = q[i].port
            /\ rxq'[i].by = Nobody
        BY <2>1, <2>2, <3>1 DEF Packet
      <3> QED BY <2>2, <3>2, NobodyAssumption DEF Sent
    <2>3. CASE ~(q[i].type # "other" /\ q[i].by = c)
      <3>1. rxq'[i] = q[i]
        BY <1>1, <2>3
      <3> QED BY <2>3, <3>1 DEF Sent
    <2> QED BY <2>2, <2>3
  <1>4. /\ port \in [Clients -> Ports \cup {PORT_L, NoPort}] /\ bound \in [Clients -> BOOLEAN]
        /\ sinceBeat \in [Clients -> 0 .. H + S]
    BY DEF TypeOK
  <1>5. \A d \in Clients : d # c => port'[d] = port[d] /\ bound'[d] = bound[d] /\ sinceBeat'[d] = sinceBeat[d]
    BY <1>1, <1>4
  <1>6. port'[c] = NoPort /\ bound'[c] = FALSE /\ NoPort \notin Ports
    BY <1>1, <1>4, PortAssumption, NoPortAssumption DEF Ports
  <1>7. Binding'
    BY <1>5, <1>6 DEF Binding
  <1>8. Labelled(rxq)'
    BY <1>2, <1>3, <1>5 DEF Labelled, Sent
  <1>9. Ordered(rxq)'
    <2> SUFFICES ASSUME NEW i \in 1 .. Len(q), NEW j \in 1 .. Len(q), NEW d \in Clients, i < j,
                        Sent(rxq'[i], d), port'[d] \in Ports, rxq'[j].type = "stop", rxq'[j].port = port'[d]
                 PROVE  rxq'[j].by = d
      BY <1>2 DEF Ordered
    <2>1. Sent(q[i], d) /\ d # c /\ q[j].type = "stop" /\ q[j].port = port[d] /\ port[d] \in Ports
      BY <1>3, <1>5
    <2>2. q[j].by = d
      BY <2>1 DEF Ordered
    <2>3. Sent(q[j], d)
      BY <2>1, <2>2 DEF Sent
    <2> QED BY <1>3, <2>1, <2>3 DEF Sent
  <1>10. ASSUME NEW d \in Clients, d # c
         PROVE  /\ Unstopped(q, port[d]) => Unstopped(rxq', port[d])
                /\ Pending(q, d) <=> Pending(rxq', d)
    <2>1. \A i \in 1 .. Len(q) : q[i].type = "alive" /\ q[i].by = d <=> rxq'[i].type = "alive" /\ rxq'[i].by = d
      BY <1>3, <1>10 DEF Sent
    <2> QED BY <1>2, <1>3, <2>1 DEF Unstopped, Pending
  <1> QED BY <1>5, <1>7, <1>8, <1>9, <1>10

\* A packet is read: the rest of the queue is left.
LEMMA ReadQueue ==
    ASSUME TypeOK, rxq # <<>>, rxq' = Tail(rxq)
    PROVE  /\ Head(rxq) = rxq[1] /\ 1 \in 1 .. Len(rxq)
           /\ Len(rxq') = Len(rxq) - 1
           /\ \A i \in 1 .. Len(rxq') : rxq'[i] = rxq[i + 1] /\ i + 1 \in 1 .. Len(rxq)
  BY DEF TypeOK

LEMMA ReadMembership ==
    ASSUME TypeOK, Binding, Labelled(rxq), Ordered(rxq), rxq # <<>>, rxq' = Tail(rxq), UNCHANGED clientVars
    PROVE  /\ Binding' /\ Labelled(rxq)' /\ Ordered(rxq)'
           /\ \A c \in Clients :
                 /\ Unstopped(rxq, port[c]) => Unstopped(rxq', port[c])
                 /\ Pending(rxq, c) => Pending(rxq', c) \/ (Head(rxq).type = "alive" /\ Head(rxq).by = c)
  <1>1. port' = port /\ bound' = bound /\ sinceBeat' = sinceBeat
    BY DEF clientVars
  <1>2. /\ Head(rxq) = rxq[1] /\ 1 \in 1 .. Len(rxq)
        /\ Len(rxq') = Len(rxq) - 1 /\ Len(rxq) \in Nat
        /\ \A i \in 1 .. Len(rxq') : rxq'[i] = rxq[i + 1] /\ i + 1 \in 1 .. Len(rxq)
    BY ReadQueue DEF TypeOK
  <1>3. Labelled(rxq)'
    BY <1>1, <1>2 DEF Labelled
  <1>4. Ordered(rxq)'
    <2> SUFFICES ASSUME NEW i \in 1 .. Len(rxq'), NEW j \in 1 .. Len(rxq'), NEW c \in Clients, i < j,
                        Sent(rxq'[i], c), port[c] \in Ports, rxq'[j].type = "stop", rxq'[j].port = port[c]
                 PROVE  rxq'[j].by = c
      BY <1>1 DEF Ordered
    <2>1. i + 1 \in 1 .. Len(rxq) /\ j + 1 \in 1 .. Len(rxq) /\ i + 1 < j + 1
      BY <1>2
    <2> QED BY <1>2, <2>1 DEF Ordered
  <1>5. ASSUME NEW c \in Clients, Pending(rxq, c)
        PROVE  Pending(rxq', c) \/ (Head(rxq).type = "alive" /\ Head(rxq).by = c)
    <2>1. PICK i \in 1 .. Len(rxq) : rxq[i].type = "alive" /\ rxq[i].by = c
      BY <1>5 DEF Pending
    <2>2. CASE i = 1
      BY <1>2, <2>1, <2>2
    <2>3. CASE i # 1
      <3>1. i - 1 \in 1 .. Len(rxq') /\ (i - 1) + 1 = i
        BY <1>2, <2>3
      <3>2. rxq'[i - 1] = rxq[i]
        BY <1>2, <3>1
      <3> QED BY <2>1, <3>1, <3>2 DEF Pending
    <2> QED BY <2>2, <2>3
  <1>6. \A c \in Clients : Unstopped(rxq, port[c]) => Unstopped(rxq', port[c])
    BY <1>2 DEF Unstopped
  <1> QED BY <1>1, <1>3, <1>4, <1>5, <1>6 DEF Binding

\* The heartbeats of a daemon that joined are read in time: it is never silent for so
\* long that a sweep takes the last of its credit.
LEMMA MemberSilence ==
    ASSUME TypeOK, Labelled(rxq), NEW c \in Clients, Member(c), joined[c]
    PROVE  age[port[c]] < 2 * H - R
  <1>1. sinceBeat[c] \in Nat /\ sinceBeat[c] <= H + S /\ age[port[c]] \in Nat
    BY TimingAssumption DEF TypeOK, Member
  <1>2. CASE Pending(rxq, c)
    <2>1. PICK i \in 1 .. Len(rxq) : rxq[i].type = "alive" /\ rxq[i].by = c
      BY <1>2 DEF Pending
    <2>2. rxq[i].wait = sinceBeat[c]
      BY <2>1 DEF Labelled, Sent
    <2>3. sinceBeat[c] <= D
      BY <2>2, PacketFacts, TimingAssumption DEF TypeOK
    <2>4. age[port[c]] <= sinceBeat[c] + (H + S)
      BY <1>2 DEF Member
    <2> QED BY <1>1, <2>3, <2>4, TimingAssumption, HeartbeatAssumption
  <1>3. CASE ~Pending(rxq, c)
    <2>1. age[port[c]] <= sinceBeat[c] + 0
      BY <1>3 DEF Member
    <2> QED BY <1>1, <2>1, TimingAssumption, HeartbeatAssumption
  <1> QED BY <1>2, <1>3


LEMMA MembershipInit == Init => Membership
  <1> SUFFICES ASSUME Init PROVE Membership
    OBVIOUS
  <1>1. 1 .. Len(rxq) = {}
    BY DEF Init
  <1>2. \A c \in Clients : port[c] = NoPort /\ bound[c] = FALSE /\ joined[c] = FALSE
    BY DEF Init
  <1>3. NoPort \notin Ports
    BY PortAssumption, NoPortAssumption DEF Ports
  <1> QED BY <1>1, <1>2, <1>3 DEF Membership, Binding, Labelled, Ordered, Member

\* A daemon starts: it takes a port that nobody has, or none.
LEMMA StartMembership ==
    ASSUME TypeOK, Membership, NEW c \in Clients, xapInit(c)
    PROVE  Membership'
  <1>1. PICK p \in Ports \cup {PORT_L}, b \in BOOLEAN :
            discoverHub(p, b) /\ port' = [port EXCEPT ![c] = p] /\ bound' = [bound EXCEPT ![c] = b]
    BY DEF xapInit
  <1>2. /\ ~Up(c) /\ sinceBeat' = [sinceBeat EXCEPT ![c] = H]
        /\ is_alive' = is_alive /\ rxq' = rxq /\ age' = age /\ joined' = joined
    BY DEF xapInit, hubVars, listVars, histVars
  <1>3. /\ port \in [Clients -> Ports \cup {PORT_L, NoPort}] /\ bound \in [Clients -> BOOLEAN]
        /\ sinceBeat \in [Clients -> 0 .. H + S] /\ rxq \in Seq(Packet)
    BY DEF TypeOK
  <1>4. /\ port'[c] = p /\ bound'[c] = b
        /\ \A d \in Clients : d # c => port'[d] = port[d] /\ bound'[d] = bound[d] /\ sinceBeat'[d] = sinceBeat[d]
    BY <1>1, <1>2, <1>3
  <1>5. (b => Free(p)) /\ (p \in Ports => b)
    <2>1. PORT_L \notin Ports
      BY PortAssumption DEF Ports
    <2> QED BY <1>1, <2>1 DEF discoverHub
  <1>6. Binding'
    <2>1. \A d \in Clients : bound[d] /\ b => port[d] # p
      BY <1>5 DEF Free, Owns
    <2> QED BY <1>4, <1>5, <2>1 DEF Membership, Binding
  <1>7. \A i \in 1 .. Len(rxq) : ~Sent(rxq[i], c)
    BY <1>2, <1>3, SenderRuns DEF Membership
  <1>8. Labelled(rxq)'
    BY <1>2, <1>4, <1>7 DEF Membership, Labelled
  <1>9. Ordered(rxq)'
    BY <1>2, <1>4, <1>7 DEF Membership, Ordered
  <1>10. ASSUME NEW d \in Clients PROVE Member(d)'
    <2>1. NoPort \notin Ports
      BY PortAssumption, NoPortAssumption DEF Ports
    <2>2. CASE d = c
      BY <1>2, <2>1, <2>2 DEF Membership, Member, Up
    <2>3. CASE d # c
      BY <1>2, <1>4, <2>3 DEF Membership, Member
    <2> QED BY <2>2, <2>3
  <1> QED BY <1>6, <1>8, <1>9, <1>10 DEF Membership

\* A heartbeat is sent: there is no other of the same daemon on the queue.
LEMMA BeatMembership ==
    ASSUME TypeOK, Membership, NEW c \in Clients, heartbeatHandler(c)
    PROVE  Membership'
  <1> DEFINE m == Hbeat("alive", c, port[c])
  <1>1. /\ Up(c) /\ sinceBeat[c] >= H /\ sinceBeat' = [sinceBeat EXCEPT ![c] = 0] /\ rxq' = xapSend(m)
        /\ joined' = [joined EXCEPT ![c] = @ /\ ~Dropped]
        /\ port' = port /\ bound' = bound /\ is_alive' = is_alive /\ age' = age
    BY DEF heartbeatHandler, hubVars, listVars
  <1>2. /\ port \in [Clients -> Ports \cup {PORT_L, NoPort}] /\ bound \in [Clients -> BOOLEAN]
        /\ sinceBeat \in [Clients -> 0 .. H + S] /\ rxq \in Seq(Packet) /\ joined \in [Clients -> BOOLEAN]
        /\ age \in [Ports -> Nat]
    BY DEF TypeOK
  <1>3. m \in Packet /\ m.type = "alive" /\ m.by = c /\ m.port = port[c] /\ m.wait = 0
    BY <1>1, HbeatType DEF Hbeat
  <1>4. /\ sinceBeat'[c] = 0 /\ sinceBeat[c] \in 0 .. H + S /\ (joined'[c] => joined[c] /\ ~Dropped)
        /\ \A d \in Clients : d # c => sinceBeat'[d] = sinceBeat[d] /\ joined'[d] = joined[d]
    BY <1>1, <1>2
  <1> HIDE DEF m
  <1>5. ASSUME NEW i \in 1 .. Len(rxq), rxq[i].type = "alive" PROVE ~(rxq[i].by = c)
    <2>1. rxq[i].wait \in 0 .. D
      BY <1>2, PacketFacts
    <2>2. rxq[i].by = c => rxq[i].wait = sinceBeat[c]
      BY <1>5 DEF Membership, Labelled, Sent
    <2>3. sinceBeat[c] > D
      BY <1>1, <1>4, TimingAssumption, HeartbeatAssumption
    <2>4. sinceBeat[c] \in Nat /\ D \in Nat
      BY <1>4, TimingAssumption
    <2> QED BY <2>1, <2>2, <2>3, <2>4
  <1>6. ~Pending(rxq, c)
    BY <1>5 DEF Pending
  <1>7. ASSUME NEW i \in 1 .. Len(rxq'), NEW d \in Clients, Sent(rxq'[i], d)
        PROVE  rxq'[i].port = port[d] /\ (rxq'[i].type = "alive" => rxq'[i].wait = sinceBeat'[d])
    <2>1. CASE i \in 1 .. Len(rxq) /\ rxq'[i] = rxq[i]
      <3>1. rxq[i].port = port[d] /\ (rxq[i].type = "alive" => rxq[i].wait = sinceBeat[d])
        BY <1>7, <2>1 DEF Membership, Labelled
      <3>2. rxq[i].type = "alive" => d # c
        BY <1>5, <1>7, <2>1 DEF Sent
      <3> QED BY <1>4, <2>1, <3>1, <3>2
    <2>2. CASE rxq'[i] = m
      <3>1. d = c
        BY <1>3, <1>7, <2>2 DEF Sent
      <3> QED BY <1>3, <1>4, <2>2, <3>1
    <2>3. (i \in 1 .. Len(rxq) /\ rxq'[i] = rxq[i]) \/ rxq'[i] = m
      <3>1. CASE rxq' = rxq
        BY <3>1
      <3>2. CASE rxq' # rxq
        BY <1>1, <1>3, <3>2, SentQueue
      <3> QED BY <3>1, <3>2
    <2> QED BY <2>1, <2>2, <2>3
  <1>8. Labelled(rxq)'
    BY <1>1, <1>7 DEF Labelled
  <1>9. Ordered(rxq)'
    <2> SUFFICES ASSUME NEW i \in 1 .. Len(rxq'), NEW j \in 1 .. Len(rxq'), NEW d \in Clients, i < j,
                        Sent(rxq'[i], d), port[d] \in Ports, rxq'[j].type = "stop", rxq'[j].port = port[d]
                 PROVE  rxq'[j].by = d
      BY <1>1 DEF Ordered
    <2>1. CASE rxq' = rxq
      BY <2>1 DEF Membership, Ordered
    <2>2. CASE rxq' # rxq
      <3>1. /\ Len(rxq) \in Nat /\ Len(rxq') = Len(rxq) + 1 /\ rxq'[Len(rxq) + 1] = m
            /\ \A k \in 1 .. Len(rxq) : rxq'[k] = rxq[k]
        BY <1>1, <1>3, <2>2, SentQueue
      <3>2. j # Len(rxq) + 1
        BY <1>3, <3>1
      <3>3. i \in 1 .. Len(rxq) /\ j \in 1 .. Len(rxq)
        BY <3>1, <3>2
      <3> QED BY <3>1, <3>3 DEF Membership, Ordered
    <2> QED BY <2>1, <2>2
  <1>10. ASSUME NEW d \in Clients PROVE Member(d)'
    <2> SUFFICES ASSUME joined'[d]
                 PROVE  /\ port[d] \in Ports /\ is_alive[port[d]] /\ Unstopped(rxq', port[d])
                        /\ age[port[d]] <= sinceBeat'[d] + (IF Pending(rxq', d) THEN H + S ELSE 0)
      BY <1>1 DEF Member
    <2>1. joined[d] /\ Member(d)
      BY <1>4 DEF Membership
    <2>2. Unstopped(rxq', port[d])
      BY <1>1, <1>3, <2>1, SendMember DEF Member
    <2>3. CASE d = c
      <3>1. Pending(rxq', d)
        BY <1>1, <1>3, <1>4, <2>3, SendMember
      <3>2. age[port[d]] <= sinceBeat[c] + 0 /\ age[port[d]] \in Nat
        BY <1>2, <1>6, <2>1, <2>3 DEF Member
      <3>3. age[port[d]] <= sinceBeat'[d] + (H + S)
        BY <1>4, <2>3, <3>2, TimingAssumption
      <3> QED BY <2>1, <2>2, <3>1, <3>3 DEF Member
    <2>4. CASE d # c
      <3>1. Pending(rxq', d) <=> Pending(rxq, d)
        BY <1>1, <1>3, <2>4, SendMember
      <3> QED BY <1>4, <2>1, <2>2, <2>4, <3>1 DEF Member
    <2> QED BY <2>3, <2>4
  <1> QED BY <1>1, <1>8, <1>9, <1>10 DEF Membership, Binding


\* A stop is sent, by a daemon that goes on or ends, or a process dies.
LEMMA StopMembership ==
    ASSUME TypeOK, Membership, NEW c \in Clients, Up(c)
    PROVE  LET q == xapSend(Hbeat("stop", c, port[c])) IN
           /\ q \in Seq(Packet) /\ Labelled(q) /\ Ordered(q)
           /\ \A d \in Clients : d # c /\ joined[d] => /\ Unstopped(q, port[d])
                                                       /\ Pending(q, d) <=> Pending(rxq, d)
  <1> DEFINE m == Hbeat("stop", c, port[c])
             q == xapSend(m)
  <1>1. m \in Packet /\ m.type = "stop" /\ m.by = c /\ m.port = port[c]
    BY HbeatType DEF Hbeat
  <1> HIDE DEF m
  <1>2. q \in Seq(Packet)
    BY <1>1, SentQueue
  <1>3. \A d \in Clients : Sent(m, d) => m.port = port[d] /\ (m.type = "alive" => m.wait = sinceBeat[d])
    BY <1>1 DEF Sent
  <1>4. Labelled(q) /\ Ordered(q)
    BY <1>1, <1>3, SendOrdered DEF Membership
  <1>5. ASSUME NEW d \in Clients, d # c, joined[d]
        PROVE  Unstopped(q, port[d]) /\ (Pending(q, d) <=> Pending(rxq, d))
    <2>1. port[d] \in Ports /\ Unstopped(rxq, port[d])
      BY <1>5 DEF Membership, Member
    <2>2. port[c] # port[d]
      BY <1>5, <2>1, PortsDiffer DEF Membership
    <2> QED BY <1>1, <2>1, <2>2, SendMember
  <1> QED BY <1>2, <1>4, <1>5 DEF m

LEMMA EndMembership ==
    ASSUME TypeOK, Membership, NEW c \in Clients,
           termHandlerInSelect(c) \/ termHandlerInCallback(c) \/ Crash(c)
    PROVE  Membership'
  <1>1. /\ Up(c) /\ joined' = [joined EXCEPT ![c] = FALSE] /\ is_alive' = is_alive /\ age' = age
    BY DEF termHandlerInSelect, termHandlerInCallback, Crash, Exit, hubVars, listVars
  <1>2. ~joined'[c] /\ \A d \in Clients : d # c => joined'[d] = joined[d]
    BY <1>1 DEF TypeOK
  <1> DEFINE q == xapSend(Hbeat("stop", c, port[c]))
  <1>3. /\ q \in Seq(Packet) /\ Labelled(q) /\ Ordered(q)
        /\ \A d \in Clients : d # c /\ joined[d] => Unstopped(q, port[d]) /\ (Pending(q, d) <=> Pending(rxq, d))
    BY <1>1, StopMembership
  <1>4. termHandlerInSelect(c) => Exit(c, q)
    BY DEF termHandlerInSelect
  <1>5. termHandlerInCallback(c) => rxq' = q /\ port' = port /\ bound' = bound /\ sinceBeat' = sinceBeat
    BY DEF termHandlerInCallback, clientVars
  <1> HIDE DEF q
  <1>6. ASSUME NEW u \in Seq(Packet), Labelled(u), Ordered(u), Exit(c, u),
               \A d \in Clients : d # c /\ joined[d] => Unstopped(u, port[d]) /\ (Pending(u, d) <=> Pending(rxq, d))
        PROVE  Membership'
    <2>1. /\ Binding' /\ Labelled(rxq)' /\ Ordered(rxq)'
          /\ \A d \in Clients : d # c =>
                /\ port'[d] = port[d] /\ sinceBeat'[d] = sinceBeat[d]
                /\ Unstopped(u, port[d]) => Unstopped(rxq', port[d])
                /\ Pending(u, d) <=> Pending(rxq', d)
      BY <1>6, ExitMembership DEF Membership
    <2>2. ASSUME NEW d \in Clients, joined'[d] PROVE Member(d)'
      <3>1. d # c /\ joined[d] /\ Member(d)
        BY <1>2, <2>2 DEF Membership
      <3>2. Unstopped(rxq', port[d]) /\ (Pending(rxq', d) <=> Pending(rxq, d))
        BY <1>6, <2>1, <3>1
      <3> QED BY <1>1, <2>1, <3>1, <3>2 DEF Member
    <2>3. \A d \in Clients : Member(d)'
      BY <2>2 DEF Member
    <2> QED BY <2>1, <2>3 DEF Membership
  <1>7. CASE termHandlerInSelect(c)
    BY <1>3, <1>4, <1>6, <1>7
  <1>8. CASE Crash(c)
    <2>1. Exit(c, rxq) /\ rxq \in Seq(Packet)
      BY <1>8 DEF Crash, TypeOK
    <2>2. \A d \in Clients : d # c /\ joined[d] => Unstopped(rxq, port[d]) /\ (Pending(rxq, d) <=> Pending(rxq, d))
      BY DEF Membership, Member
    <2> QED BY <1>6, <2>1, <2>2 DEF Membership
  <1>9. CASE termHandlerInCallback(c)
    <2>1. rxq' = q /\ port' = port /\ bound' = bound /\ sinceBeat' = sinceBeat
      BY <1>5, <1>9
    <2>2. Binding' /\ Labelled(rxq)' /\ Ordered(rxq)'
      BY <1>3, <2>1 DEF Membership, Binding, Labelled, Ordered
    <2>3. ASSUME NEW d \in Clients, joined'[d] PROVE Member(d)'
      <3>1. d # c /\ joined[d] /\ Member(d)
        BY <1>2, <2>3 DEF Membership
      <3> QED BY <1>1, <1>3, <2>1, <3>1 DEF Member
    <2>4. \A d \in Clients : Member(d)'
      BY <2>3 DEF Member
    <2> QED BY <2>2, <2>4 DEF Membership
  <1> QED BY <1>7, <1>8, <1>9

\* A packet that no daemon of the box sends.
LEMMA ForeignMembership ==
    ASSUME TypeOK, Membership, OtherPacket \/ hubHeartbeatHandler
    PROVE  Membership'
  <1>1. PICK m \in Packet : rxq' = xapSend(m) /\ m.type # "stop" /\ \A c \in Clients : ~Sent(m, c)
    <2>1. /\ [type |-> "other", wait |-> 0] \in Packet
          /\ Hbeat("alive", Nobody, PORT_L) \in Packet
      BY TimingAssumption DEF Packet, Hbeat
    <2>2. CASE OtherPacket
      <3> DEFINE m == [type |-> "other", wait |-> 0]
      <3>1. rxq' = xapSend(m)
        BY <2>2 DEF OtherPacket
      <3> QED BY <2>1, <3>1 DEF Sent
    <2>3. CASE hubHeartbeatHandler
      <3> DEFINE m == Hbeat("alive", Nobody, PORT_L)
      <3>1. rxq' = xapSend(m)
        BY <2>3 DEF hubHeartbeatHandler
      <3>2. m.type = "alive" /\ m.by = Nobody
        BY DEF Hbeat
      <3> HIDE DEF m
      <3>3. m \in Packet
        BY <2>1 DEF m
      <3> QED BY <3>1, <3>2, <3>3, NobodyAssumption DEF Sent
    <2> QED BY <2>2, <2>3
  <1>2. /\ port' = port /\ bound' = bound /\ sinceBeat' = sinceBeat /\ is_alive' = is_alive
        /\ age' = age /\ joined' = joined
    BY DEF OtherPacket, hubHeartbeatHandler, clientVars, hubVars, listVars, histVars
  <1>3. Labelled(xapSend(m)) /\ Ordered(xapSend(m))
    BY <1>1, SendOrdered DEF Membership
  <1>4. ASSUME NEW c \in Clients PROVE Member(c)'
    <2>1. m.type = "alive" => m.by # c
      BY <1>1 DEF Sent
    <2>2. /\ Unstopped(rxq, port[c]) => Unstopped(rxq', port[c])
          /\ Pending(rxq', c) <=> Pending(rxq, c)
      BY <1>1, <2>1, SendMember
    <2> QED BY <1>2, <2>2 DEF Membership, Member
  <1> QED BY <1>1, <1>2, <1>3, <1>4 DEF Membership, Binding, Labelled, Ordered


\* The hub reads a packet.
LEMMA RxMembership ==
    ASSUME TypeOK, Membership, xapRxBroadcast
    PROVE  Membership'
  <1>1. /\ rxq \in Seq(Packet) /\ rxq # <<>> /\ rxq' = Tail(rxq) /\ UNCHANGED clientVars
        /\ port' = port /\ bound' = bound /\ sinceBeat' = sinceBeat
    BY DEF xapRxBroadcast, TypeOK, clientVars
  <1>2. /\ Binding' /\ Labelled(rxq)' /\ Ordered(rxq)'
        /\ \A c \in Clients :
              /\ Unstopped(rxq, port[c]) => Unstopped(rxq', port[c])
              /\ Pending(rxq, c) => Pending(rxq', c) \/ (Head(rxq).type = "alive" /\ Head(rxq).by = c)
    BY <1>1, ReadMembership DEF Membership
  <1>3. Head(rxq) = rxq[1] /\ 1 \in 1 .. Len(rxq) /\ Head(rxq) \in Packet
    BY <1>1, ReadQueue, PacketFacts
  <1>4. \A c \in Clients : Sent(Head(rxq), c) => Head(rxq).port = port[c]
    BY <1>3 DEF Membership, Labelled
  <1>5. PORT_L \notin Ports
    BY PortAssumption DEF Ports
  <1>6. /\ is_alive \in [Ports -> BOOLEAN] /\ age \in [Ports -> Nat] /\ joined \in [Clients -> BOOLEAN]
        /\ \A c \in Clients : sinceBeat[c] \in Nat
    BY TimingAssumption DEF TypeOK
  <1>7. CASE RxOwnHeartbeat
    <2>1. /\ Head(rxq).type # "other" /\ Head(rxq).port = PORT_L
          /\ is_alive' = is_alive /\ age' = age /\ joined' = joined
      BY <1>7 DEF RxOwnHeartbeat, listVars, histVars
    <2>2. ASSUME NEW c \in Clients, joined[c] PROVE Member(c)'
      <3>1. Member(c) /\ ~Sent(Head(rxq), c)
        BY <1>4, <1>5, <2>1, <2>2 DEF Membership, Member
      <3>2. Pending(rxq, c) => Pending(rxq', c)
        BY <1>2, <3>1 DEF Sent
      <3>3. /\ port[c] \in Ports /\ is_alive[port[c]] /\ Unstopped(rxq', port[c]) /\ age[port[c]] \in Nat
            /\ age[port[c]] <= sinceBeat[c] + (IF Pending(rxq, c) THEN H + S ELSE 0)
        BY <1>2, <1>6, <2>2, <3>1 DEF Member
      <3>4. age[port[c]] <= sinceBeat[c] + (IF Pending(rxq', c) THEN H + S ELSE 0)
        BY <1>6, <3>2, <3>3, TimingAssumption
      <3> QED BY <1>1, <2>1, <3>3, <3>4 DEF Member
    <2> QED BY <1>2, <2>1, <2>2 DEF Membership, Member
  <1>8. CASE RxOther
    <2>1. Head(rxq).type = "other" /\ is_alive' = is_alive /\ age' = age /\ joined' = joined
      BY <1>8 DEF RxOther, listVars, histVars
    <2>2. ASSUME NEW c \in Clients, joined[c] PROVE Member(c)'
      <3>1. /\ port[c] \in Ports /\ is_alive[port[c]] /\ Unstopped(rxq', port[c]) /\ age[port[c]] \in Nat
            /\ age[port[c]] <= sinceBeat[c] + (IF Pending(rxq, c) THEN H + S ELSE 0)
        BY <1>2, <1>6, <2>2 DEF Membership, Member
      <3>2. Pending(rxq, c) => Pending(rxq', c)
        BY <1>2, <2>1
      <3>3. age[port[c]] <= sinceBeat[c] + (IF Pending(rxq', c) THEN H + S ELSE 0)
        BY <1>6, <3>1, <3>2, TimingAssumption
      <3> QED BY <1>1, <2>1, <3>1, <3>3 DEF Member
    <2> QED BY <1>2, <2>1, <2>2 DEF Membership, Member
  <1>9. CASE RxStop
    <2>1. /\ Head(rxq).type = "stop" /\ is_alive' = [is_alive EXCEPT ![Head(rxq).port] = FALSE]
          /\ age' = [age EXCEPT ![Head(rxq).port] = 0] /\ joined' = joined
      BY <1>9 DEF RxStop, stopHubConnection
    <2>2. ASSUME NEW c \in Clients, joined[c] PROVE Member(c)'
      <3>1. /\ port[c] \in Ports /\ is_alive[port[c]] /\ Unstopped(rxq', port[c]) /\ age[port[c]] \in Nat
            /\ age[port[c]] <= sinceBeat[c] + (IF Pending(rxq, c) THEN H + S ELSE 0)
            /\ Unstopped(rxq, port[c])
        BY <1>2, <1>6, <2>2 DEF Membership, Member
      <3>2. Head(rxq).port # port[c]
        BY <1>3, <2>1, <3>1 DEF Unstopped
      <3>3. Pending(rxq, c) => Pending(rxq', c)
        BY <1>2, <2>1
      <3>4. is_alive'[port[c]] /\ age'[port[c]] = age[port[c]]
        BY <1>6, <2>1, <3>1, <3>2
      <3>5. age[port[c]] <= sinceBeat[c] + (IF Pending(rxq', c) THEN H + S ELSE 0)
        BY <1>6, <3>1, <3>3, TimingAssumption
      <3> QED BY <1>1, <3>1, <3>4, <3>5 DEF Member
    <2> QED BY <1>2, <2>1, <2>2 DEF Membership, Member
  <1>10. CASE RxAlive
    <2>1. /\ Head(rxq).type = "alive" /\ Head(rxq).port # PORT_L
          /\ is_alive' = [is_alive EXCEPT ![Head(rxq).port] = TRUE]
          /\ age' = [age EXCEPT ![Head(rxq).port] = 0]
          /\ joined' = [c \in Clients |-> joined[c] \/ (Head(rxq).by = c /\ ~StopQueued(c))]
      BY <1>10 DEF RxAlive, addOrUpdateHubEntry
    <2>2. Head(rxq).port \in Ports
      BY <1>3, <2>1, PacketPort
    <2>3. /\ is_alive'[Head(rxq).port] /\ age'[Head(rxq).port] = 0
          /\ \A p \in Ports : (is_alive[p] => is_alive'[p]) /\ (p # Head(rxq).port => age'[p] = age[p])
      BY <1>6, <2>1, <2>2
    <2>4. ASSUME NEW c \in Clients, joined'[c] PROVE Member(c)'
      <3>1. CASE Head(rxq).by = c
        <4>1. Sent(Head(rxq), c) /\ port[c] = Head(rxq).port /\ port[c] \in Ports
          BY <1>4, <2>1, <2>2, <3>1 DEF Sent
        <4>2. Unstopped(rxq', port[c])
          <5>1. CASE joined[c]
            BY <1>2, <5>1 DEF Membership, Member
          <5>2. CASE ~joined[c]
            <6>1. ~StopQueued(c)
              BY <2>1, <2>4, <5>2
            <6> SUFFICES ASSUME NEW i \in 1 .. Len(rxq'), rxq'[i].type = "stop", rxq'[i].port = port[c]
                         PROVE  FALSE
              BY DEF Unstopped
            <6>2. rxq'[i] = rxq[i + 1] /\ i + 1 \in 1 .. Len(rxq) /\ 1 < i + 1
              BY <1>1, ReadQueue
            <6>3. rxq[i + 1].by = c
              BY <1>3, <4>1, <6>2 DEF Membership, Ordered
            <6> QED BY <6>1, <6>2, <6>3 DEF StopQueued
          <5> QED BY <5>1, <5>2
        <4>3. 0 <= sinceBeat[c] + (IF Pending(rxq', c) THEN H + S ELSE 0)
          BY <1>6, TimingAssumption
        <4> QED BY <1>1, <2>3, <4>1, <4>2, <4>3 DEF Member
      <3>2. CASE Head(rxq).by # c
        <4>1. joined[c]
          BY <2>1, <2>4, <3>2
        <4>2. /\ port[c] \in Ports /\ is_alive[port[c]] /\ Unstopped(rxq', port[c]) /\ age[port[c]] \in Nat
              /\ age[port[c]] <= sinceBeat[c] + (IF Pending(rxq, c) THEN H + S ELSE 0)
          BY <1>2, <1>6, <4>1 DEF Membership, Member
        <4>3. Pending(rxq, c) => Pending(rxq', c)
          BY <1>2, <3>2
        <4>4. age[port[c]] <= sinceBeat[c] + (IF Pending(rxq', c) THEN H + S ELSE 0)
          BY <1>6, <4>2, <4>3, TimingAssumption
        <4>5. age'[port[c]] = age[port[c]] \/ age'[port[c]] = 0
          BY <2>3, <4>2
        <4>6. age'[port[c]] <= sinceBeat[c] + (IF Pending(rxq', c) THEN H + S ELSE 0)
          BY <1>6, <4>4, <4>5, TimingAssumption
        <4> QED BY <1>1, <2>3, <4>2, <4>6 DEF Member
      <3> QED BY <3>1, <3>2
    <2>5. \A c \in Clients : Member(c)'
      BY <2>4 DEF Member
    <2> QED BY <1>2, <2>5 DEF Membership
  <1> QED BY <1>7, <1>8, <1>9, <1>10 DEF xapRxBroadcast

\* A sweep: the credit of a daemon that joined lasts.
LEMMA SweepMembership ==
    ASSUME TypeOK, CreditFollowsSilence, Membership, reapHubConnections
    PROVE  Membership'
  <1>1. /\ sinceReap >= R /\ timer' = [p \in Ports |-> IF is_alive[p] THEN timer[p] - R ELSE timer[p]]
        /\ is_alive' = [p \in Ports |-> is_alive[p] /\ timer'[p] > 0]
        /\ age' = [p \in Ports |-> IF is_alive'[p] THEN age[p] ELSE 0]
        /\ port' = port /\ bound' = bound /\ sinceBeat' = sinceBeat /\ rxq' = rxq /\ joined' = joined
    BY DEF reapHubConnections, clientVars
  <1>2. ASSUME NEW c \in Clients, joined[c] PROVE Member(c)'
    <2>1. Member(c) /\ port[c] \in Ports /\ is_alive[port[c]] /\ age[port[c]] < 2 * H - R
      BY <1>2, MemberSilence DEF Membership, Member
    <2>2. timer[port[c]] >= 2 * H - age[port[c]] - R + Min2(sinceReap, R)
      BY <2>1 DEF CreditFollowsSilence
    <2>3. timer[port[c]] \in Int /\ age[port[c]] \in Nat /\ Min2(sinceReap, R) = R
      BY <1>1, <2>1, TimingAssumption DEF TypeOK, Min2
    <2>4. timer[port[c]] - R > 0
      BY <2>1, <2>2, <2>3, TimingAssumption
    <2>5. timer'[port[c]] = timer[port[c]] - R
      BY <1>1, <2>1
    <2>6. timer'[port[c]] > 0
      BY <2>4, <2>5
    <2>7. is_alive'[port[c]]
      BY <1>1, <2>1, <2>6
    <2>8. age'[port[c]] = age[port[c]]
      BY <1>1, <2>1, <2>7
    <2> QED BY <1>1, <1>2, <2>1, <2>7, <2>8 DEF Member
  <1>3. \A c \in Clients : Member(c)'
    BY <1>1, <1>2 DEF Member
  <1>4. Binding' /\ Labelled(rxq)' /\ Ordered(rxq)'
    BY <1>1 DEF Membership, Binding, Labelled, Ordered
  <1> QED BY <1>3, <1>4 DEF Membership

\* A second passes: heartbeats wait as long as their senders.
LEMMA TickMembership ==
    ASSUME TypeOK, Membership, Tick
    PROVE  Membership'
  <1>1. /\ sinceBeat' = [c \in Clients |-> IF Up(c) THEN sinceBeat[c] + 1 ELSE 0]
        /\ rxq' = [i \in 1 .. Len(rxq) |-> [rxq[i] EXCEPT !.wait = @ + 1]]
        /\ age' = [p \in Ports |-> IF is_alive[p] THEN age[p] + 1 ELSE age[p]]
        /\ port' = port /\ bound' = bound /\ is_alive' = is_alive /\ joined' = joined
    BY DEF Tick, listVars
  <1>2. rxq \in Seq(Packet) /\ Len(rxq) \in Nat /\ Len(rxq') = Len(rxq)
    BY TickQueueType DEF TypeOK
  <1>3. ASSUME NEW i \in 1 .. Len(rxq)
        PROVE  /\ rxq'[i].type = rxq[i].type /\ rxq'[i].wait = rxq[i].wait + 1
               /\ rxq[i].type # "other" => rxq'[i].port = rxq[i].port /\ rxq'[i].by = rxq[i].by
    <2>1. rxq[i] \in Packet /\ rxq'[i] = [rxq[i] EXCEPT !.wait = @ + 1]
      BY <1>1, <1>2
    <2> QED BY <2>1 DEF Packet
  <1>4. \A i \in 1 .. Len(rxq), c \in Clients : Sent(rxq'[i], c) <=> Sent(rxq[i], c)
    BY <1>3 DEF Sent
  <1>5. Labelled(rxq)'
    <2> SUFFICES ASSUME NEW i \in 1 .. Len(rxq), NEW c \in Clients, Sent(rxq[i], c)
                 PROVE  rxq'[i].port = port[c] /\ (rxq'[i].type = "alive" => rxq'[i].wait = sinceBeat'[c])
      BY <1>1, <1>2, <1>4 DEF Labelled
    <2>1. Up(c) /\ rxq[i].port = port[c] /\ (rxq[i].type = "alive" => rxq[i].wait = sinceBeat[c])
      BY <1>2, SenderRuns DEF Membership, Labelled
    <2>2. sinceBeat'[c] = sinceBeat[c] + 1
      BY <1>1, <2>1
    <2> QED BY <1>3, <2>1, <2>2 DEF Sent
  <1>6. Ordered(rxq)'
    <2> SUFFICES ASSUME NEW i \in 1 .. Len(rxq), NEW j \in 1 .. Len(rxq), NEW c \in Clients, i < j,
                        Sent(rxq'[i], c), port[c] \in Ports, rxq'[j].type = "stop", rxq'[j].port = port[c]
                 PROVE  rxq'[j].by = c
      <3>1. port' = port /\ Len(rxq') = Len(rxq)
        BY <1>1, <1>2
      <3> QED
        BY <3>1, Zenon DEF Ordered
    <2>1. Sent(rxq[i], c) /\ rxq[j].type = "stop" /\ rxq[j].port = port[c] /\ rxq'[j].by = rxq[j].by
      BY <1>3, <1>4
    <2> QED BY <2>1 DEF Membership, Ordered
  <1>7. ASSUME NEW c \in Clients, joined[c] PROVE Member(c)'
    <2>1. /\ port[c] \in Ports /\ is_alive[port[c]] /\ Unstopped(rxq, port[c])
          /\ age[port[c]] <= sinceBeat[c] + (IF Pending(rxq, c) THEN H + S ELSE 0)
      BY <1>7 DEF Membership, Member
    <2>2. Unstopped(rxq', port[c]) /\ (Pending(rxq', c) <=> Pending(rxq, c))
      BY <1>2, <1>3, <2>1 DEF Unstopped, Pending
    <2>3. Up(c)
      BY <2>1, PortAssumption, NoPortAssumption DEF Up, Ports
    <2>4. sinceBeat'[c] = sinceBeat[c] + 1 /\ age'[port[c]] = age[port[c]] + 1
      BY <1>1, <2>1, <2>3
    <2>5. sinceBeat[c] \in Nat /\ age[port[c]] \in Nat
      BY <2>1, TimingAssumption DEF TypeOK
    <2>6. age'[port[c]] <= sinceBeat'[c] + (IF Pending(rxq', c) THEN H + S ELSE 0)
      BY <2>1, <2>2, <2>4, <2>5, TimingAssumption
    <2> QED BY <1>1, <2>1, <2>2, <2>6 DEF Member
  <1>8. \A c \in Clients : Member(c)'
    BY <1>1, <1>7 DEF Member
  <1> QED BY <1>1, <1>5, <1>6, <1>8 DEF Membership, Binding


LEMMA MembershipStep ==
    ASSUME TypeOK, CreditFollowsSilence, Membership, [Next]_vars
    PROVE  Membership'
  <1>1. ASSUME NEW c \in Clients, xapInit(c) PROVE Membership'
    BY <1>1, StartMembership
  <1>2. ASSUME NEW c \in Clients, heartbeatHandler(c) PROVE Membership'
    BY <1>2, BeatMembership
  <1>3. ASSUME NEW c \in Clients, termHandlerInSelect(c) \/ termHandlerInCallback(c) \/ Crash(c)
        PROVE  Membership'
    BY <1>3, EndMembership
  <1>4. CASE OtherPacket \/ hubHeartbeatHandler
    BY <1>4, ForeignMembership
  <1>5. CASE HubStart \/ UNCHANGED vars
    <2>1. UNCHANGED <<port, bound, sinceBeat, is_alive, rxq, age, joined>>
      BY <1>5 DEF HubStart, vars, clientVars, hubVars, listVars, histVars
    <2> QED BY <2>1 DEF Membership, Binding, Labelled, Ordered, Member
  <1>6. CASE HubStop
    <2>1. /\ UNCHANGED <<port, bound, sinceBeat>> /\ rxq' = <<>>
          /\ \A c \in Clients : joined'[c] = FALSE
      BY <1>6 DEF HubStop, clientVars
    <2>2. 1 .. Len(rxq') = {}
      BY <2>1
    <2> QED BY <2>1, <2>2 DEF Membership, Binding, Labelled, Ordered, Member
  <1>7. CASE xapRxBroadcast
    BY <1>7, RxMembership
  <1>8. CASE reapHubConnections
    BY <1>8, SweepMembership
  <1>9. CASE Tick
    BY <1>9, TickMembership
  <1> QED
    BY <1>1, <1>2, <1>3, <1>4, <1>5, <1>6, <1>7, <1>8, <1>9 DEF Next

LEMMA MembershipHolds == Spec => []Membership
  <1>1. TypeOK /\ CreditFollowsSilence /\ Membership /\ [Next]_vars => Membership'
    BY MembershipStep
  <1> QED BY <1>1, MembershipInit, TypeCorrect, CreditCorrect, PTL DEF Spec

LEMMA MembersConnected == Membership => JoinedStaysConnected
  BY DEF Membership, Binding, Member, JoinedStaysConnected, Owns

(* A daemon the hub has heard stays connected as long as its heartbeats are *)
(* not dropped and it announces no end, for any number of daemons and ports *)
(* and any timing with R + S + D < H: the stop of an earlier owner of its   *)
(* port was queued before anything it sent, and its next heartbeat is read  *)
(* before a sweep can take the last of its credit.                          *)
(* hub.c: xapRxBroadcast(), reapHubConnections(); init.c: discoverHub(),    *)
(* heartbeatHandler(), termHandler().                                       *)
THEOREM HeardDaemonsStayConnected == Spec => []JoinedStaysConnected
  BY MembershipHolds, MembersConnected, PTL

-----------------------------------------------------------------------------
(* The daemons that are away. *)

\* A daemon that is away has been so since its last heartbeat, or since the
\* one before when that still waits to be read.
AwaySinceBeat(c) ==
    /\ port[c] \notin Ports => away[c] = 0
    /\ away[c] <= sinceBeat[c] + (IF Pending(rxq, c) THEN H + S ELSE 0)

\* A daemon's heartbeat has been read by the time the next is sent.
LEMMA BeatWasRead ==
    ASSUME TypeOK, Labelled(rxq), NEW c \in Clients, heartbeatHandler(c)
    PROVE  ~Pending(rxq, c)
  <1> SUFFICES ASSUME NEW i \in 1 .. Len(rxq), rxq[i].type = "alive", rxq[i].by = c
               PROVE  FALSE
    BY DEF Pending
  <1>1. rxq[i].wait = sinceBeat[c]
    BY DEF Labelled, Sent
  <1>2. rxq[i].wait \in 0 .. D
    BY PacketFacts DEF TypeOK
  <1>3. sinceBeat[c] >= H
    BY DEF heartbeatHandler
  <1> QED BY <1>1, <1>2, <1>3, TimingAssumption, HeartbeatAssumption

\* A daemon that sends nothing and is not away longer than before.
LEMMA AwayFrame ==
    ASSUME TypeOK, NEW c \in Clients, AwaySinceBeat(c), away'[c] \in {0, away[c]},
           port'[c] = port[c], sinceBeat'[c] = sinceBeat[c],
           away'[c] = 0 \/ (Pending(rxq, c) => Pending(rxq', c))
    PROVE  AwaySinceBeat(c)'
  <1>1. sinceBeat[c] \in Nat /\ away[c] \in Nat
    BY TimingAssumption DEF TypeOK
  <1>2. port'[c] \notin Ports => away'[c] = 0
    BY DEF AwaySinceBeat
  <1>3. away'[c] <= sinceBeat'[c] + (IF Pending(rxq', c) THEN H + S ELSE 0)
    BY <1>1, TimingAssumption DEF AwaySinceBeat
  <1> QED BY <1>2, <1>3 DEF AwaySinceBeat

\* What a daemon and its queue do, for any other daemon.
LEMMA AwayClient ==
    ASSUME TypeOK, Membership, NEW c \in Clients, NEW d \in Clients, AwaySinceBeat(d),
           xapInit(c) \/ heartbeatHandler(c) \/ termHandlerInSelect(c)
             \/ termHandlerInCallback(c) \/ Crash(c)
    PROVE  AwaySinceBeat(d)'
  <1>0. /\ port \in [Clients -> Ports \cup {PORT_L, NoPort}] /\ sinceBeat \in [Clients -> 0 .. H + S]
        /\ rxq \in Seq(Packet) /\ away \in [Clients -> Nat]
        /\ sinceBeat[d] \in Nat /\ away[d] \in Nat
    BY TimingAssumption DEF TypeOK
  <1>1. CASE xapInit(c)
    <2>1. /\ rxq' = rxq /\ away' = away /\ sinceBeat' = [sinceBeat EXCEPT ![c] = H] /\ ~Up(c)
          /\ \E p : port' = [port EXCEPT ![c] = p]
      BY <1>1 DEF xapInit, histVars
    <2>2. CASE d = c
      <3>1. away'[d] = 0 /\ sinceBeat'[d] = H
        BY <1>0, <2>1, <2>2, PortAssumption, NoPortAssumption DEF AwaySinceBeat, Up, Ports
      <3>2. 0 <= H + (IF Pending(rxq', d) THEN H + S ELSE 0)
        BY TimingAssumption
      <3> QED BY <3>1, <3>2 DEF AwaySinceBeat
    <2>3. CASE d # c
      BY <1>0, <2>1, <2>3, AwayFrame
    <2> QED BY <2>2, <2>3
  <1>2. CASE heartbeatHandler(c)
    <2> DEFINE m == Hbeat("alive", c, port[c])
    <2>1. /\ Up(c) /\ rxq' = xapSend(m) /\ sinceBeat' = [sinceBeat EXCEPT ![c] = 0]
          /\ away' = [away EXCEPT ![c] = IF Dropped THEN 0 ELSE @] /\ port' = port
      BY <1>2 DEF heartbeatHandler
    <2>2. m \in Packet /\ m.type = "alive" /\ m.by = c
      BY <2>1, HbeatType DEF Hbeat
    <2> HIDE DEF m
    <2>3. CASE d = c
      <3>1. ~Pending(rxq, d)
        BY <1>2, <2>3, BeatWasRead DEF Membership
      <3>2. away[d] <= sinceBeat[d] + 0 /\ sinceBeat[d] <= H + S
        BY <1>0, <3>1, TimingAssumption DEF AwaySinceBeat
      <3>3. sinceBeat'[d] = 0 /\ port'[d] = port[d]
        BY <1>0, <2>1, <2>3
      <3>4. CASE Dropped
        <4>1. away'[d] = 0
          BY <1>0, <2>1, <2>3, <3>4
        <4>2. 0 <= 0 + (IF Pending(rxq', d) THEN H + S ELSE 0)
          BY TimingAssumption
        <4> QED BY <3>3, <4>1, <4>2 DEF AwaySinceBeat
      <3>5. CASE ~Dropped
        <4>1. away'[d] = away[d] /\ Pending(rxq', d)
          BY <1>0, <2>1, <2>2, <2>3, <3>5, SendMember
        <4>2. away[d] <= 0 + (H + S)
          BY <1>0, <3>2, TimingAssumption
        <4> QED BY <3>3, <4>1, <4>2 DEF AwaySinceBeat
      <3> QED BY <3>4, <3>5
    <2>4. CASE d # c
      <3>1. Pending(rxq, d) => Pending(rxq', d)
        BY <2>1, <2>2, SendMember
      <3> QED BY <1>0, <2>1, <2>4, <3>1, AwayFrame
    <2> QED BY <2>3, <2>4
  <1>3. CASE termHandlerInCallback(c)
    <2>1. /\ Up(c) /\ rxq' = xapSend(Hbeat("stop", c, port[c]))
          /\ port' = port /\ sinceBeat' = sinceBeat /\ away' = away
      BY <1>3 DEF termHandlerInCallback, clientVars
    <2>2. Pending(rxq, d) => Pending(rxq', d)
      BY <2>1, HbeatType, SendMember
    <2> QED BY <2>1, <2>2, AwayFrame
  <1>4. ASSUME NEW q \in Seq(Packet), Exit(c, q), Labelled(q), Ordered(q),
               Pending(rxq, d) => Pending(q, d)
        PROVE  AwaySinceBeat(d)'
    <2>1. away' = [away EXCEPT ![c] = 0] /\ sinceBeat' = [sinceBeat EXCEPT ![c] = 0]
      BY <1>4 DEF Exit
    <2>2. CASE d = c
      <3>1. away'[d] = 0 /\ sinceBeat'[d] = 0
        BY <1>0, <2>1, <2>2
      <3>2. 0 <= 0 + (IF Pending(rxq', d) THEN H + S ELSE 0)
        BY TimingAssumption
      <3> QED BY <3>1, <3>2 DEF AwaySinceBeat
    <2>3. CASE d # c
      <3>1. port'[d] = port[d] /\ sinceBeat'[d] = sinceBeat[d] /\ (Pending(q, d) <=> Pending(rxq', d))
        BY <1>4, <2>3, ExitMembership DEF Membership
      <3>2. away'[d] = away[d]
        BY <1>0, <2>1, <2>3
      <3> QED BY <1>4, <3>1, <3>2, AwayFrame
    <2> QED BY <2>2, <2>3
  <1>5. CASE termHandlerInSelect(c)
    <2> DEFINE q == xapSend(Hbeat("stop", c, port[c]))
    <2>1. Up(c) /\ Exit(c, q)
      BY <1>5 DEF termHandlerInSelect
    <2>2. q \in Seq(Packet) /\ Labelled(q) /\ Ordered(q)
      BY <2>1, StopMembership
    <2>3. Pending(rxq, d) => Pending(q, d)
      BY <2>1, HbeatType, SendMember
    <2> HIDE DEF q
    <2> QED BY <1>4, <2>1, <2>2, <2>3
  <1>6. CASE Crash(c)
    <2>1. Exit(c, rxq)
      BY <1>6 DEF Crash
    <2> QED BY <1>0, <1>4, <2>1 DEF Membership
  <1> QED BY <1>1, <1>2, <1>3, <1>5, <1>6

\* The hub reads a packet: a heartbeat ends the absence of its sender.
LEMMA AwayRx ==
    ASSUME TypeOK, Membership, NEW d \in Clients, AwaySinceBeat(d), xapRxBroadcast
    PROVE  AwaySinceBeat(d)'
  <1>1. /\ rxq \in Seq(Packet) /\ rxq # <<>> /\ rxq' = Tail(rxq) /\ UNCHANGED clientVars
        /\ port' = port /\ sinceBeat' = sinceBeat
    BY DEF xapRxBroadcast, TypeOK, clientVars
  <1>2. Pending(rxq, d) => Pending(rxq', d) \/ (Head(rxq).type = "alive" /\ Head(rxq).by = d)
    BY <1>1, ReadMembership DEF Membership
  <1>3. Head(rxq) = rxq[1] /\ 1 \in 1 .. Len(rxq)
    BY <1>1, ReadQueue
  <1>4. Head(rxq).type = "alive" /\ Head(rxq).by = d => Head(rxq).port = port[d]
    BY <1>3 DEF Membership, Labelled, Sent
  <1>5. away'[d] \in {0, away[d]}
    BY DEF xapRxBroadcast, RxOwnHeartbeat, RxStop, RxAlive, RxOther, histVars
  <1>6. CASE Head(rxq).type = "alive" /\ Head(rxq).by = d
    <2>1. CASE RxAlive
      <3>1. Head(rxq).port \in Ports
        BY <1>1, <2>1, QueueHead, PacketPort DEF RxAlive
      <3>2. is_alive'[Head(rxq).port]
        BY <2>1, <3>1 DEF RxAlive, addOrUpdateHubEntry, TypeOK
      <3>3. away'[d] = 0
        BY <1>4, <1>6, <2>1, <3>2 DEF RxAlive
      <3> QED BY <1>1, <1>5, <3>3, AwayFrame
    <2>2. CASE RxOwnHeartbeat
      <3>1. port[d] = PORT_L /\ away' = away
        BY <1>4, <1>6, <2>2 DEF RxOwnHeartbeat, histVars
      <3>2. away'[d] = 0
        BY <3>1, PortAssumption DEF AwaySinceBeat, Ports
      <3> QED BY <1>1, <1>5, <3>2, AwayFrame
    <2> QED BY <1>6, <2>1, <2>2 DEF xapRxBroadcast, RxStop, RxOther
  <1>7. CASE ~(Head(rxq).type = "alive" /\ Head(rxq).by = d)
    BY <1>1, <1>2, <1>5, <1>7, AwayFrame
  <1> QED BY <1>6, <1>7

LEMMA AwayStep ==
    ASSUME TypeOK, Membership, [Next]_vars, NEW d \in Clients, AwaySinceBeat(d)
    PROVE  AwaySinceBeat(d)'
  <1>1. ASSUME NEW c \in Clients,
               xapInit(c) \/ heartbeatHandler(c) \/ termHandlerInSelect(c)
                 \/ termHandlerInCallback(c) \/ Crash(c)
        PROVE  AwaySinceBeat(d)'
    BY <1>1, AwayClient
  <1>2. CASE OtherPacket \/ hubHeartbeatHandler
    <2>1. port' = port /\ sinceBeat' = sinceBeat /\ away' = away
      BY <1>2 DEF OtherPacket, hubHeartbeatHandler, clientVars, histVars
    <2>2. \E m \in Packet : rxq' = xapSend(m)
      <3>1. /\ [type |-> "other", wait |-> 0] \in Packet
            /\ Hbeat("alive", Nobody, PORT_L) \in Packet
        BY TimingAssumption DEF Packet, Hbeat
      <3> QED BY <1>2, <3>1 DEF OtherPacket, hubHeartbeatHandler
    <2>3. Pending(rxq, d) => Pending(rxq', d)
      BY <2>2, SendMember
    <2> QED BY <2>1, <2>3, AwayFrame
  <1>3. CASE HubStart \/ reapHubConnections \/ UNCHANGED vars
    <2>1. port' = port /\ sinceBeat' = sinceBeat /\ away' = away /\ rxq' = rxq
      BY <1>3 DEF HubStart, reapHubConnections, vars, clientVars, histVars
    <2> QED BY <2>1, AwayFrame
  <1>4. CASE HubStop
    <2>1. port' = port /\ sinceBeat' = sinceBeat /\ away'[d] = 0
      BY <1>4 DEF HubStop, clientVars
    <2> QED BY <2>1, AwayFrame
  <1>5. CASE xapRxBroadcast
    BY <1>5, AwayRx
  <1>6. CASE Tick
    <2>1. /\ sinceBeat'[d] = (IF Up(d) THEN sinceBeat[d] + 1 ELSE 0) /\ port' = port
          /\ away'[d] = (IF Away(d) THEN away[d] + 1 ELSE away[d])
      BY <1>6 DEF Tick
    <2>2. sinceBeat[d] \in Nat /\ away[d] \in Nat
      BY TimingAssumption DEF TypeOK
    <2>3. Pending(rxq, d) => Pending(rxq', d)
      <3>1. rxq \in Seq(Packet) /\ Len(rxq') = Len(rxq)
        BY <1>6, TickQueueType DEF TypeOK
      <3>2. ASSUME NEW i \in 1 .. Len(rxq), rxq[i].type = "alive", rxq[i].by = d
            PROVE  rxq'[i].type = "alive" /\ rxq'[i].by = d
        <4>1. rxq[i] \in Packet /\ rxq'[i] = [rxq[i] EXCEPT !.wait = @ + 1]
          BY <1>6, <3>1 DEF Tick
        <4> QED BY <3>2, <4>1 DEF Packet
      <3> QED BY <3>1, <3>2 DEF Pending
    <2>4. CASE port[d] \in Ports
      <3>1. Up(d)
        BY <2>4, PortAssumption, NoPortAssumption DEF Up, Ports
      <3>2. away'[d] <= sinceBeat'[d] + (IF Pending(rxq', d) THEN H + S ELSE 0)
        BY <2>1, <2>2, <2>3, <3>1, TimingAssumption DEF AwaySinceBeat
      <3> QED BY <2>1, <2>4, <3>2 DEF AwaySinceBeat
    <2>5. CASE port[d] \notin Ports
      <3>1. away'[d] = 0 /\ sinceBeat'[d] \in Nat
        BY <2>1, <2>2, <2>5 DEF AwaySinceBeat, Away
      <3>2. 0 <= sinceBeat'[d] + (IF Pending(rxq', d) THEN H + S ELSE 0)
        BY <3>1, TimingAssumption
      <3> QED BY <3>1, <3>2 DEF AwaySinceBeat
    <2> QED BY <2>4, <2>5
  <1> QED
    BY <1>1, <1>2, <1>3, <1>4, <1>5, <1>6 DEF Next

\* A heartbeat that waits to be read was sent at most D seconds ago.
LEMMA AwayBound ==
    ASSUME TypeOK, Labelled(rxq), NEW c \in Clients, AwaySinceBeat(c)
    PROVE  away[c] <= H + S + D
  <1>1. sinceBeat[c] \in Nat /\ sinceBeat[c] <= H + S /\ away[c] \in Nat
    BY TimingAssumption DEF TypeOK
  <1>2. CASE Pending(rxq, c)
    <2>1. PICK i \in 1 .. Len(rxq) : rxq[i].type = "alive" /\ rxq[i].by = c
      BY <1>2 DEF Pending
    <2>2. rxq[i].wait = sinceBeat[c] /\ rxq[i].wait \in 0 .. D
      BY <2>1, PacketFacts DEF Labelled, Sent, TypeOK
    <2>3. away[c] <= sinceBeat[c] + (H + S)
      BY <1>2 DEF AwaySinceBeat
    <2> QED BY <1>1, <2>2, <2>3, TimingAssumption
  <1>3. CASE ~Pending(rxq, c)
    <2>1. away[c] <= sinceBeat[c] + 0
      BY <1>3 DEF AwaySinceBeat
    <2> QED BY <1>1, <2>1, TimingAssumption
  <1> QED BY <1>2, <1>3

LEMMA AwayInit == Init => \A c \in Clients : AwaySinceBeat(c)
  <1> SUFFICES ASSUME Init, NEW c \in Clients PROVE AwaySinceBeat(c)
    OBVIOUS
  <1>1. away[c] = 0 /\ sinceBeat[c] = 0
    BY DEF Init
  <1>2. 0 <= 0 + (IF Pending(rxq, c) THEN H + S ELSE 0)
    BY TimingAssumption
  <1> QED BY <1>1, <1>2 DEF AwaySinceBeat

(* A daemon whose heartbeats get through is never without the hub's packets *)
(* for more than H + S + D seconds, whatever took it off the list: a        *)
(* restarted hub, a stop it survived, an earlier loss.  Its absence is no   *)
(* longer than the time since its last heartbeat, or since the one before   *)
(* when the last still waits on the socket, and that wait is at most D.     *)
(* hub.c: addOrUpdateHubEntry(), xapRxBroadcast(); init.c:                  *)
(* heartbeatHandler().                                                      *)
THEOREM DaemonsReconnect == Spec => []ReconnectedInTime
  <1> DEFINE Absence == \A c \in Clients : AwaySinceBeat(c)
  <1>1. TypeOK /\ Membership /\ Absence /\ [Next]_vars => Absence'
    BY AwayStep
  <1>2. TypeOK /\ Membership /\ Absence => ReconnectedInTime
    BY AwayBound DEF Membership, ReconnectedInTime
  <1>3. Init => Absence
    BY AwayInit
  <1> HIDE DEF Absence
  <1> QED BY <1>1, <1>2, <1>3, TypeCorrect, MembershipHolds, PTL DEF Spec
=============================================================================
