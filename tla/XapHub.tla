------------------------------- MODULE XapHub -------------------------------
(***************************************************************************)
(* The xAP hub (xap-hub/hub.c) and the daemons of the same box that        *)
(* register with it (xaplib2/init.c).                                      *)
(*                                                                         *)
(* The hub owns the broadcast port XAP_PORT_L; a daemon that finds it      *)
(* taken binds the first free loopback port above it and announces that    *)
(* port in a heartbeat every H seconds.  The hub relays every packet to    *)
(* the ports it believes alive: a heartbeat revives a port for two         *)
(* intervals, a sweep every R seconds takes R off its credit, a            *)
(* xap-hbeat.stop ends it at once.                                         *)
(*                                                                         *)
(* Time is time(NULL), one clock for all processes of the box.  A process  *)
(* serves a timer between 0 and S seconds after it is due (xapProcess      *)
(* wakes at least once a second) and the hub reads a packet at most D      *)
(* seconds after it was queued on its socket.  Packets of one host reach   *)
(* the hub's socket in order; the kernel drops those that do not fit.      *)
(***************************************************************************)
EXTENDS Integers, Sequences

CONSTANTS
    Clients,    \* the xaplib2 daemons of the box
    PORT_L,     \* XAP_PORT_L, the hub's port
    PORT_H,     \* XAP_PORT_H, the exclusive end of the search for a port
    H,          \* XAP_HEARTBEAT_INTERVAL, seconds
    R,          \* reapTimeSecs
    S,          \* how late, in seconds, an event loop may serve a timer
    D,          \* how long, in seconds, a packet may wait on the hub's socket
    RXQ,        \* packets the hub's socket buffer holds
    NoPort,     \* the port of a daemon that is not running
    Nobody      \* the sender of a packet that no running daemon sent

ASSUME PortAssumption == PORT_L \in Nat /\ PORT_H \in Nat /\ PORT_L < PORT_H
ASSUME NoPortAssumption == NoPort \notin Nat
ASSUME NobodyAssumption == Nobody \notin Clients
ASSUME TimingAssumption == H \in Nat /\ R \in Nat /\ S \in Nat /\ D \in Nat /\ R > 0
\* 60 > 10 + 1 + 1: a heartbeat comes round well before two intervals are spent.
ASSUME HeartbeatAssumption == R + S + D < H
ASSUME BufferAssumption == RXQ \in Nat /\ RXQ > 0

\* The ports discoverHub() hands out while a hub holds XAP_PORT_L.
Ports == PORT_L + 1 .. PORT_H - 1

VARIABLES
    port,       \* port[c]: gXAP->rxPort of daemon c, NoPort when it is not running
    bound,      \* bound[c]: c's receive socket is bound to port[c]
    sinceBeat,  \* sinceBeat[c]: seconds since c last sent a heartbeat
    hubUp,      \* the hub process is running
    is_alive,   \* hubList, one field per variable; entries are never unlinked,
    interval,   \* and a dead one behaves as an absent one, so the list is
    timer,      \* a function of the port
    sinceReap,  \* seconds since reapHubConnections() last ran
    hubBeat,    \* seconds since the hub last sent its own heartbeat
    rxq,        \* the hub's receive socket
    age,        \* history: seconds since the hub last accepted a heartbeat of a live p
    joined,     \* history: the hub has accepted a heartbeat of this run of c and
                \* none that c sent since has been dropped
    away        \* history: seconds c has been without the hub's packets while the hub
                \* ran, counted afresh when a heartbeat of c is dropped

clientVars == <<port, bound, sinceBeat>>
listVars == <<is_alive, interval, timer>>
hubVars == <<hubUp, listVars, sinceReap, hubBeat>>
histVars == <<age, joined, away>>
vars == <<clientVars, hubVars, rxq, histVars>>

Up(c) == port[c] # NoPort

\* c is running and its packets can name it to the hub.
Owns(c, p) == port[c] = p /\ bound[c]

\* A heartbeat names a port; by is history, the daemon whose present run sent it.
Packet == [type : {"alive", "stop"}, by : Clients \cup {Nobody},
              port : Ports \cup {PORT_L}, wait : 0 .. D]
              \cup [type : {"other"}, wait : 0 .. D]

Init ==
    /\ port = [c \in Clients |-> NoPort]
    /\ bound = [c \in Clients |-> FALSE]
    /\ sinceBeat = [c \in Clients |-> 0]
    /\ hubUp = FALSE
    /\ is_alive = [p \in Ports |-> FALSE]
    /\ interval = [p \in Ports |-> 0]
    /\ timer = [p \in Ports |-> 0]
    /\ sinceReap = 0
    /\ hubBeat = 0
    /\ rxq = <<>>
    /\ age = [p \in Ports |-> 0]
    /\ joined = [c \in Clients |-> FALSE]
    /\ away = [c \in Clients |-> 0]

-----------------------------------------------------------------------------
(***************************************************************************)
(* The daemons.                                                            *)
(***************************************************************************)

\* bind() succeeds: nobody has p.
Free(p) == ~\E c \in Clients : Owns(c, p)

\* discoverHub() sets *rxport to p and binds the socket or not: XAP_PORT_L
\* itself when no hub has it, else the first port of the range that is free.
\* When none is the loop ends with i = XAP_PORT_H, which
\* die_if(i > XAP_PORT_H) lets through: the socket stays unbound and rxPort
\* keeps its first value, XAP_PORT_L.
discoverHub(p, b) ==
    \/ ~hubUp /\ Free(PORT_L) /\ p = PORT_L /\ b
    \/ /\ hubUp \/ ~Free(PORT_L)
       /\ \/ p \in Ports /\ Free(p) /\ b /\ \A q \in PORT_L + 1 .. p - 1 : ~Free(q)
          \/ p = PORT_L /\ ~b /\ \A q \in Ports : ~Free(q)

\* xapInit(): the heartbeat timer starts expired, so the first dispatch sends.
xapInit(c) ==
    /\ ~Up(c)
    /\ \E p \in Ports \cup {PORT_L}, b \in BOOLEAN :
          /\ discoverHub(p, b)
          /\ port' = [port EXCEPT ![c] = p]
          /\ bound' = [bound EXCEPT ![c] = b]
    /\ sinceBeat' = [sinceBeat EXCEPT ![c] = H]
    /\ UNCHANGED <<hubVars, rxq, histVars>>

\* xapSend() to the broadcast address: what the local hub's socket gets.
Dropped == ~hubUp \/ Len(rxq) >= RXQ
xapSend(m) == IF Dropped THEN rxq ELSE Append(rxq, m)

\* Fault: the port after the one that was bound.
Hbeat_NextPort(type, c, p) == [type |-> type, by |-> c, port |-> p + 1, wait |-> 0]

Hbeat(type, c, p) == [type |-> type, by |-> c, port |-> p, wait |-> 0]

heartbeatHandler(c) ==
    /\ Up(c)
    /\ sinceBeat[c] >= H
    /\ sinceBeat' = [sinceBeat EXCEPT ![c] = 0]
    /\ rxq' = xapSend(Hbeat("alive", c, port[c]))
    /\ joined' = [joined EXCEPT ![c] = @ /\ ~Dropped]
    /\ away' = [away EXCEPT ![c] = IF Dropped THEN 0 ELSE @]
    /\ UNCHANGED <<port, bound, hubVars, age>>

\* c's process ends, leaving q on the hub's socket.
Exit(c, q) ==
    /\ port' = [port EXCEPT ![c] = NoPort]
    /\ bound' = [bound EXCEPT ![c] = FALSE]
    /\ sinceBeat' = [sinceBeat EXCEPT ![c] = 0]
    /\ rxq' = [i \in 1 .. Len(q) |->
                   IF q[i].type # "other" /\ q[i].by = c THEN [q[i] EXCEPT !.by = Nobody] ELSE q[i]]
    /\ joined' = [joined EXCEPT ![c] = FALSE]
    /\ away' = [away EXCEPT ![c] = 0]

\* SIGTERM or SIGINT while c waits in select(): termHandler() sends the stop,
\* select() fails with EINTR, xapProcess() returns and the daemon exits.
termHandlerInSelect(c) ==
    /\ Up(c)
    /\ Exit(c, xapSend(Hbeat("stop", c, port[c])))
    /\ UNCHANGED <<hubVars, age>>

\* The same signal while c runs a callback: the stop is sent, but the next
\* select() is not interrupted and the daemon carries on.
termHandlerInCallback(c) ==
    /\ Up(c)
    /\ rxq' = xapSend(Hbeat("stop", c, port[c]))
    /\ joined' = [joined EXCEPT ![c] = FALSE]
    /\ UNCHANGED <<clientVars, hubVars, age, away>>

\* c dies without a word: SIGKILL, die(), a fault.
Crash(c) ==
    /\ Up(c)
    /\ Exit(c, rxq)
    /\ UNCHANGED <<hubVars, age>>

\* Any packet that registers nobody: one from another host, or a local one
\* that is no heartbeat or lacks its port or its interval.
OtherPacket ==
    /\ ~Dropped
    /\ rxq' = xapSend([type |-> "other", wait |-> 0])
    /\ UNCHANGED <<clientVars, hubVars, histVars>>

-----------------------------------------------------------------------------
(***************************************************************************)
(* The hub.                                                                *)
(***************************************************************************)

\* main(): discoverHub() must yield XAP_PORT_L, or die_if() ends the hub.
\* Both timers start expired.
HubStart ==
    /\ ~hubUp
    /\ Free(PORT_L)
    /\ hubUp' = TRUE
    /\ sinceReap' = R
    /\ hubBeat' = H
    /\ UNCHANGED <<clientVars, listVars, rxq, histVars>>

\* The hub installs no signal handler: however it ends, its list is gone.
HubStop ==
    /\ hubUp
    /\ hubUp' = FALSE
    /\ is_alive' = [p \in Ports |-> FALSE]
    /\ interval' = [p \in Ports |-> 0]
    /\ timer' = [p \in Ports |-> 0]
    /\ sinceReap' = 0
    /\ hubBeat' = 0
    /\ rxq' = <<>>
    /\ age' = [p \in Ports |-> 0]
    /\ joined' = [c \in Clients |-> FALSE]
    /\ away' = [c \in Clients |-> 0]
    /\ UNCHANGED clientVars

\* Fault: a heartbeat of a known port does not renew its credit.
addOrUpdateHubEntry_NoRenewal(p, i) ==
    /\ interval' = [interval EXCEPT ![p] = i]
    /\ timer' = [timer EXCEPT ![p] = IF is_alive[p] THEN @ ELSE i * 2]
    /\ is_alive' = [is_alive EXCEPT ![p] = TRUE]

\* Fault: a credit of one interval.
addOrUpdateHubEntry_OneInterval(p, i) ==
    /\ interval' = [interval EXCEPT ![p] = i]
    /\ timer' = [timer EXCEPT ![p] = i]
    /\ is_alive' = [is_alive EXCEPT ![p] = TRUE]

\* Fault: a port the list knows is renewed but, once dead, not revived.
addOrUpdateHubEntry_KnownStaysDead(p, i) ==
    /\ interval' = [interval EXCEPT ![p] = i]
    /\ timer' = [timer EXCEPT ![p] = i * 2]
    /\ is_alive' = [is_alive EXCEPT ![p] = @ \/ interval[p] = 0]

addOrUpdateHubEntry(p, i) ==
    /\ interval' = [interval EXCEPT ![p] = i]
    /\ timer' = [timer EXCEPT ![p] = i * 2]
    /\ is_alive' = [is_alive EXCEPT ![p] = TRUE]

stopHubConnection(p) ==
    /\ is_alive' = [is_alive EXCEPT ![p] = FALSE]
    /\ UNCHANGED <<interval, timer>>

\* xapRxBroadcast(): one packet, which hubRelay() then sends to every port that
\* is_alive, the sender's own included.  A heartbeat naming the hub's own port,
\* the hub's or that of a daemon without a port, is not even relayed.
RxOwnHeartbeat ==
    /\ Head(rxq).type # "other"
    /\ Head(rxq).port = PORT_L
    /\ UNCHANGED <<listVars, histVars>>

RxStop ==
    /\ Head(rxq).type = "stop"
    /\ Head(rxq).port # PORT_L
    /\ stopHubConnection(Head(rxq).port)
    /\ age' = [age EXCEPT ![Head(rxq).port] = 0]
    /\ UNCHANGED <<joined, away>>

StopQueued(c) == \E i \in 1 .. Len(rxq) : rxq[i].type = "stop" /\ rxq[i].by = c

RxAlive ==
    /\ Head(rxq).type = "alive"
    /\ Head(rxq).port # PORT_L
    /\ addOrUpdateHubEntry(Head(rxq).port, H)
    /\ age' = [age EXCEPT ![Head(rxq).port] = 0]
    /\ joined' = [c \in Clients |->
                     joined[c] \/ (Head(rxq).by = c /\ ~StopQueued(c))]
    /\ away' = [c \in Clients |-> IF is_alive'[Head(rxq).port] /\ port[c] = Head(rxq).port
                                 THEN 0 ELSE away[c]]

RxOther ==
    /\ Head(rxq).type = "other"
    /\ UNCHANGED <<listVars, histVars>>

xapRxBroadcast ==
    /\ hubUp
    /\ rxq # <<>>
    /\ rxq' = Tail(rxq)
    /\ RxOwnHeartbeat \/ RxStop \/ RxAlive \/ RxOther
    /\ UNCHANGED <<clientVars, hubUp, sinceReap, hubBeat>>

\* Fault: the port is dropped while a sweep's worth of credit is left.
reapHubConnections_Early ==
    /\ hubUp
    /\ sinceReap >= R
    /\ sinceReap' = 0
    /\ timer' = [p \in Ports |-> IF is_alive[p] THEN timer[p] - R ELSE timer[p]]
    /\ is_alive' = [p \in Ports |-> is_alive[p] /\ timer'[p] > R]
    /\ age' = [p \in Ports |-> IF is_alive'[p] THEN age[p] ELSE 0]
    /\ UNCHANGED <<clientVars, hubUp, interval, hubBeat, rxq, joined, away>>

\* Fault: the sweep is never registered.
reapHubConnections_Never == hubUp /\ FALSE /\ UNCHANGED vars

reapHubConnections ==
    /\ hubUp
    /\ sinceReap >= R
    /\ sinceReap' = 0
    /\ timer' = [p \in Ports |-> IF is_alive[p] THEN timer[p] - R ELSE timer[p]]
    /\ is_alive' = [p \in Ports |-> is_alive[p] /\ timer'[p] > 0]
    /\ age' = [p \in Ports |-> IF is_alive'[p] THEN age[p] ELSE 0]
    /\ UNCHANGED <<clientVars, hubUp, interval, hubBeat, rxq, joined, away>>

\* The hub's heartbeatHandler(): it hears itself.
hubHeartbeatHandler ==
    /\ hubUp
    /\ hubBeat >= H
    /\ hubBeat' = 0
    /\ rxq' = xapSend(Hbeat("alive", Nobody, PORT_L))
    /\ UNCHANGED <<clientVars, hubUp, listVars, sinceReap, histVars>>

-----------------------------------------------------------------------------

\* c has a port, the hub runs and does not relay to it.
Away(c) == hubUp /\ Owns(c, port[c]) /\ port[c] \in Ports /\ ~is_alive[port[c]]

\* One second passes, in which no event loop falls further behind than allowed.
Tick ==
    /\ \A c \in Clients : Up(c) => sinceBeat[c] < H + S
    /\ hubUp => sinceReap < R + S /\ hubBeat < H + S
    /\ \A i \in 1 .. Len(rxq) : rxq[i].wait < D
    /\ sinceBeat' = [c \in Clients |-> IF Up(c) THEN sinceBeat[c] + 1 ELSE 0]
    /\ sinceReap' = IF hubUp THEN sinceReap + 1 ELSE 0
    /\ hubBeat' = IF hubUp THEN hubBeat + 1 ELSE 0
    /\ rxq' = [i \in 1 .. Len(rxq) |-> [rxq[i] EXCEPT !.wait = @ + 1]]
    /\ age' = [p \in Ports |-> IF is_alive[p] THEN age[p] + 1 ELSE age[p]]
    /\ away' = [c \in Clients |-> IF Away(c) THEN away[c] + 1 ELSE away[c]]
    /\ UNCHANGED <<port, bound, hubUp, listVars, joined>>

Next ==
    \/ \E c \in Clients : xapInit(c)
    \/ \E c \in Clients : heartbeatHandler(c)
    \/ \E c \in Clients : termHandlerInSelect(c)
    \/ \E c \in Clients : termHandlerInCallback(c)
    \/ \E c \in Clients : Crash(c)
    \/ OtherPacket
    \/ HubStart
    \/ HubStop
    \/ xapRxBroadcast
    \/ reapHubConnections
    \/ hubHeartbeatHandler
    \/ Tick

Spec == Init /\ [][Next]_vars

\* Time passes and every event loop goes on serving its socket and its timers.
Fairness ==
    /\ WF_vars(Tick)
    /\ WF_vars(xapRxBroadcast)
    /\ WF_vars(reapHubConnections)
    /\ WF_vars(hubHeartbeatHandler)
    /\ \A c \in Clients : WF_vars(heartbeatHandler(c))

FairSpec == Spec /\ Fairness

-----------------------------------------------------------------------------
(***************************************************************************)
(* Properties.                                                             *)
(***************************************************************************)

\* The variables have their types.  hub.c, init.c: struct hubEntry, struct xap.
TypeOK ==
    /\ port \in [Clients -> Ports \cup {PORT_L, NoPort}]
    /\ bound \in [Clients -> BOOLEAN]
    /\ sinceBeat \in [Clients -> 0 .. H + S]
    /\ hubUp \in BOOLEAN
    /\ is_alive \in [Ports -> BOOLEAN]
    /\ interval \in [Ports -> Nat]
    /\ timer \in [Ports -> Int]
    /\ sinceReap \in 0 .. R + S
    /\ hubBeat \in 0 .. H + S
    /\ rxq \in Seq(Packet)
    /\ Len(rxq) <= RXQ
    /\ age \in [Ports -> Nat]
    /\ joined \in [Clients -> BOOLEAN]
    /\ away \in [Clients -> Nat]

Min2(a, b) == IF a < b THEN a ELSE b

(* What the credit of a live port says about its silence.  The sweeps are   *)
(* at least R seconds apart, so timer falls no faster than the clock plus   *)
(* one sweep; they are at most R + S apart, so it falls no slower than R    *)
(* per R + S seconds.  hub.c: addOrUpdateHubEntry(), reapHubConnections().  *)
CreditFollowsSilence ==
    \A p \in Ports :
        IF is_alive[p]
        THEN /\ hubUp
             /\ interval[p] = H
             /\ timer[p] > 0
             /\ timer[p] <= 2 * H
             /\ timer[p] >= 2 * H - age[p] - R + Min2(sinceReap, R)
             /\ R * age[p] <= (R + S) * (2 * H - timer[p]) + R * sinceReap
        ELSE age[p] = 0

(* A daemon the hub has heard, none of whose heartbeats was dropped since   *)
(* and which has not announced its end, is alive for the hub: no sweep, no  *)
(* stop of an earlier owner of its port and no late read of its heartbeats  *)
(* disconnects it.  hub.c: xapRxBroadcast(), reapHubConnections().          *)
JoinedStaysConnected ==
    \A c \in Clients : joined[c] => Owns(c, port[c]) /\ port[c] \in Ports /\ is_alive[port[c]]

(* Whatever took a daemon off the hub's list - a hub that was restarted and *)
(* knows nobody, heartbeats that were dropped, a stop sent by a signal that *)
(* did not end the daemon, the silence of an earlier owner of its port -    *)
(* its next heartbeat that gets through puts it back: it is without the     *)
(* hub's packets for one interval and two delays at most.                   *)
(* hub.c: addOrUpdateHubEntry(); init.c: heartbeatHandler().                *)
ReconnectedInTime == \A c \in Clients : away[c] <= H + S + D

(* init.c, discoverHub(): a daemon that finds no free port stops with       *)
(* "Could not allocate a port from the range %d to %d", so one that runs    *)
(* has a bound socket.                                                      *)
RunningDaemonHasPort == \A c \in Clients : Up(c) => bound[c]

(* A port nobody owns is not relayed to for ever, whatever became of the    *)
(* daemon that registered it.  hub.c: reapHubConnections().                 *)
AbandonedPortDisconnected ==
    \A p \in Ports : is_alive[p] /\ Free(p) ~> ~is_alive[p] \/ ~Free(p)

\* The ports that packets of a type on the hub's socket name.
Named(type) == {p \in Ports : \E i \in 1 .. Len(rxq) : rxq[i].type = type /\ rxq[i].port = p}

(* What the hub promises, stated without its credits and sweeps: HubLease.  *)
Lease == INSTANCE HubLease WITH
    running <- hubUp, connected <- is_alive, silence <- age,
    beats <- Named("alive"), stops <- Named("stop"),
    MinSilence <- 2 * H - R, Scale <- R, Limit <- (R + S) * (2 * H + R)
ImplementsLease == Lease!Spec
=============================================================================
