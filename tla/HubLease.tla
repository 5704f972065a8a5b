------------------------------ MODULE HubLease ------------------------------
(***************************************************************************)
(* What the xAP hub promises about its connections, with no credit and no  *)
(* sweep: a connection is a lease.  Only a heartbeat on its way grants or  *)
(* renews one and only a stop on its way gives one up; silence does not    *)
(* end it before MinSilence seconds, and it does not outlive               *)
(* Limit / Scale seconds of silence.                                       *)
(***************************************************************************)
EXTENDS Integers

CONSTANTS
    Ports,
    MinSilence,     \* seconds of silence before a lease may lapse
    Scale, Limit    \* it lapses before Scale * silence exceeds Limit

VARIABLES
    running,        \* the hub runs
    connected,      \* connected[p]: p holds a lease
    silence,        \* silence[p]: seconds since p was last heard, 0 without a lease
    beats,          \* ports with a heartbeat on its way to the hub
    stops           \* ports with a stop on its way to the hub

vars == <<running, connected, silence, beats, stops>>

Init ==
    /\ running = FALSE
    /\ connected = [p \in Ports |-> FALSE]
    /\ silence = [p \in Ports |-> 0]
    /\ beats = {}
    /\ stops = {}

\* A heartbeat grants or renews the lease.
Beat(p) ==
    /\ running
    /\ p \in beats
    /\ connected' = [connected EXCEPT ![p] = TRUE]
    /\ silence' = [silence EXCEPT ![p] = 0]
    /\ UNCHANGED running

\* The holder gives it up.
Leave(p) ==
    /\ running
    /\ p \in stops
    /\ connected' = [connected EXCEPT ![p] = FALSE]
    /\ silence' = [silence EXCEPT ![p] = 0]
    /\ UNCHANGED running

\* The leases of ports that have been silent long enough lapse.
Lapse(P) ==
    /\ running
    /\ \A p \in P : connected[p] /\ silence[p] >= MinSilence
    /\ connected' = [p \in Ports |-> connected[p] /\ p \notin P]
    /\ silence' = [p \in Ports |-> IF p \in P THEN 0 ELSE silence[p]]
    /\ UNCHANGED running

\* The hub ends, and with it every lease.
End ==
    /\ running
    /\ running' = FALSE
    /\ connected' = [p \in Ports |-> FALSE]
    /\ silence' = [p \in Ports |-> 0]

Second ==
    /\ silence' = [p \in Ports |-> IF connected[p] THEN silence[p] + 1 ELSE silence[p]]
    /\ \A p \in Ports : connected[p] => Scale * silence'[p] <= Limit
    /\ UNCHANGED <<running, connected>>

\* The hub starts, or packets are sent, read and lost.
Traffic == (running => running') /\ UNCHANGED <<connected, silence>>

Next ==
    /\ beats' \subseteq Ports
    /\ stops' \subseteq Ports
    /\ \/ \E p \in Ports : Beat(p) \/ Leave(p)
       \/ \E P \in SUBSET Ports : Lapse(P)
       \/ End
       \/ Second
       \/ Traffic

Spec == Init /\ [][Next]_vars
=============================================================================
