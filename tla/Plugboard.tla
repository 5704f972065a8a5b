----------------------------- MODULE Plugboard ------------------------------
(***************************************************************************)
(* xap-plugboard: the Lua port of the library (xap/init.lua), its BSC      *)
(* endpoints (xap/bsc.lua) and the one class of nodes that makes and       *)
(* destroys endpoints while it runs, the bluetooth detector                *)
(* (xap/bluenode.lua).                                                     *)
(*                                                                         *)
(* Timers and filters are lists whose foreach() goes by index up to the    *)
(* length at the beginning; a callback that removes an entry shifts the    *)
(* ones behind it.  An endpoint's destructors go by the module variables f *)
(* and t, which are the filter and the timer of the endpoint made last.    *)
(*                                                                         *)
(* Callbacks take no time.  A Lua error ends the process.                  *)
(***************************************************************************)
EXTENDS Integers, Sequences, SequencesExt, FiniteSets

CONSTANTS
    Known,      \* the devices with an endpoint in the configuration, a sequence
    Devices,    \* all devices
    TTL,        \* 35
    PERIOD,     \* of the reaper, 10
    INFO,       \* timeout of an endpoint, 120
    HBEAT,      \* of the plugboard's heartbeat, 60
    DELAY,      \* of an applet's one-shot timer
    ONCE,       \* bound on the one-shot timers of applets
    None

ASSUME DeviceAssumption ==
    /\ Known \in Seq(Devices) /\ IsInjective(Known) /\ IsFiniteSet(Devices)
    /\ None \notin Devices \cup {"on", "off", "?"}
ASSUME TimeAssumption == {TTL, PERIOD, INFO, HBEAT, DELAY} \subseteq Nat \ {0} /\ ONCE \in Nat

VARIABLES
    up,         \* the process runs
    timers,     \* timerList; missed is history: walks that found it due and did not call it
    filters,    \* filterList, the devices of its query filters
    node,       \* the BlueNode's self[device]
    cfg,        \* the keys of its cfg.endpoints
    f, t,       \* the device whose filter and timer bsc.lua made last
    fDestroyed, \* that filter has been destroyed
    away,       \* time since the device was last heard
    seen,       \* history: the state that was last reported
    at, n,      \* index and end of the walk over timerList, 0 outside it
    todo,       \* the keys the reaper has still to look at
    walked      \* timerList has been walked since the clock moved

vars == <<up, timers, filters, node, cfg, f, t, fDestroyed, away, seen, at, n, todo, walked>>

KnownSet == Range(Known)

\* As long ago as any other.
LONG == TTL + PERIOD + ONCE + 1

Interval(kind) == [hbeat |-> HBEAT, reap |-> PERIOD, info |-> INFO, once |-> DELAY][kind]

\* Timer(...):start()
Timer(kind, d) == [kind |-> kind, dev |-> d, due |-> Interval(kind), missed |-> 0]

Missing == [is |-> "missing", state |-> None, isAlive |-> FALSE]
Emptied == [is |-> "emptied", state |-> None, isAlive |-> FALSE]

Newest(s) == IF s = <<>> THEN None ELSE s[Len(s)]

\* init(), BlueNode:build(): configured endpoints are not removable.  Applets that are
\* loaded before may have started one-shot timers.
Init ==
    /\ up = TRUE
    /\ \E k \in 0 .. ONCE :
          timers = <<Timer("hbeat", None)>> \o [j \in 1 .. k |-> Timer("once", None)]
                      \o [j \in DOMAIN Known |-> Timer("info", Known[j])] \o <<Timer("reap", None)>>
    /\ filters = Known
    /\ node = [d \in Devices |->
                  IF d \in KnownSet THEN [is |-> "live", state |-> "?", isAlive |-> FALSE] ELSE Missing]
    /\ cfg = KnownSet
    /\ f = Newest(Known) /\ t = Newest(Known) /\ fDestroyed = FALSE
    /\ away = [d \in Devices |-> LONG]
    /\ seen = [d \in Devices |-> "?"]
    /\ at = 0 /\ n = 0 /\ todo = {} /\ walked = FALSE

Crash == up' = FALSE /\ UNCHANGED <<timers, filters, node, cfg, f, t, fDestroyed, away, seen, at, n, todo, walked>>

-----------------------------------------------------------------------------
(***************************************************************************)
(* Messages.                                                               *)
(***************************************************************************)

Idle == up /\ at = 0

\* BlueNode:process() of a device that has no entry: Endpoint:_init()
process_New(d) ==
    /\ Idle
    /\ node[d].is = "missing"
    /\ cfg' = cfg \cup {d}
    /\ filters' = Append(filters, d)
    /\ timers' = Append(timers, Timer("info", d))
    /\ f' = d /\ t' = d /\ fDestroyed' = FALSE
    /\ node' = [node EXCEPT ![d] = [is |-> "live", state |-> "on", isAlive |-> TRUE]]
    /\ seen' = [seen EXCEPT ![d] = "on"]
    /\ away' = [away EXCEPT ![d] = 0]
    /\ UNCHANGED <<up, at, n, todo, walked>>

\* Fault: the state is set without an event.
Changed_Silent(d) == UNCHANGED seen

\* Nodule:process(): an event when the state changes.
Changed(d) == seen' = [seen EXCEPT ![d] = IF node[d].state = "on" THEN @ ELSE "on"]

process_Live(d) ==
    /\ Idle
    /\ node[d].is = "live"
    /\ node' = [node EXCEPT ![d].state = "on", ![d].isAlive = TRUE]
    /\ Changed(d)
    /\ away' = [away EXCEPT ![d] = 0]
    /\ UNCHANGED <<up, timers, filters, cfg, f, t, fDestroyed, at, n, todo, walked>>

\* The entry of a destroyed endpoint has no type: nothing is reported.
process_Emptied(d) ==
    /\ Idle
    /\ node[d].is = "emptied"
    /\ node' = [node EXCEPT ![d].isAlive = TRUE]
    /\ away' = [away EXCEPT ![d] = 0]
    /\ UNCHANGED <<up, timers, filters, cfg, f, t, fDestroyed, seen, at, n, todo, walked>>

\* A query that the filter of d passes to Endpoint:sendInfo().
Query(d) ==
    /\ Idle
    /\ Contains(filters, d)
    /\ IF node[d].is = "live"
       THEN /\ seen' = [seen EXCEPT ![d] = node[d].state]
            /\ UNCHANGED <<up, timers, filters, node, cfg, f, t, fDestroyed, away, at, n, todo, walked>>
       ELSE Crash

\* An applet starts a timer whose callback will delete it.
StartOnce ==
    /\ Idle
    /\ Cardinality({k \in DOMAIN timers : timers[k].kind = "once"}) < ONCE
    /\ timers' = Append(timers, Timer("once", None))
    /\ UNCHANGED <<up, filters, node, cfg, f, t, fDestroyed, away, seen, at, n, todo, walked>>

-----------------------------------------------------------------------------
(***************************************************************************)
(* The walk over the timers.                                               *)
(***************************************************************************)

\* Fault: the first entry is left out.
Indices_Second == at' = 2 /\ n' = Len(timers)

\* List:foreach()
Indices == at' = 1 /\ n' = Len(timers)

\* process()
BeginWalk ==
    /\ Idle
    /\ Indices
    /\ UNCHANGED <<up, timers, filters, node, cfg, f, t, fDestroyed, away, seen, todo, walked>>

Reset(k) == [timers EXCEPT ![k].due = Interval(timers[k].kind), ![k].missed = 0]

Here(kind) ==
    /\ up /\ at \in 1 .. n /\ at <= Len(timers) /\ todo = {}
    /\ timers[at].kind = kind
    /\ timers[at].due <= 0

\* Nothing at the index any more, or a timer that is not due.
Pass ==
    /\ up /\ at \in 1 .. n /\ todo = {}
    /\ at \in DOMAIN timers => timers[at].due > 0
    /\ at' = at + 1
    /\ UNCHANGED <<up, timers, filters, node, cfg, f, t, fDestroyed, away, seen, n, todo, walked>>

heartBeat ==
    /\ Here("hbeat")
    /\ timers' = Reset(at)
    /\ at' = at + 1
    /\ UNCHANGED <<up, filters, node, cfg, f, t, fDestroyed, away, seen, n, todo, walked>>

sendInfo ==
    /\ Here("info")
    /\ LET d == timers[at].dev IN
       IF node[d].is = "live"
       THEN /\ seen' = [seen EXCEPT ![d] = node[d].state]
            /\ timers' = Reset(at)
            /\ at' = at + 1
            /\ UNCHANGED <<up, filters, node, cfg, f, t, fDestroyed, away, n, todo, walked>>
       ELSE Crash

\* The one-shot timer deletes itself: those behind it move up.
callbackOnce ==
    /\ Here("once")
    /\ timers' = RemoveAt(timers, at)
    /\ at' = at + 1
    /\ UNCHANGED <<up, filters, node, cfg, f, t, fDestroyed, away, seen, n, todo, walked>>

\* BlueNode.reaper(), in the order of pairs(); none is next when none is left.
reaper ==
    /\ Here("reap")
    /\ timers' = Reset(at)
    /\ todo' = cfg
    /\ at' = IF cfg = {} THEN at + 1 ELSE at
    /\ UNCHANGED <<up, filters, node, cfg, f, t, fDestroyed, away, seen, n, walked>>

\* On to the next key, or out of the callback.
Looked(d) == todo' = todo \ {d} /\ at' = IF todo = {d} THEN at + 1 ELSE at

\* Fault: the time to live counts from the last check.
Expired_Late(d) == node[d].isAlive /\ away[d] > TTL + PERIOD

Expired(d) == node[d].isAlive /\ away[d] > TTL

reaper_Spares(d) ==
    /\ up /\ d \in todo /\ ~Expired(d)
    /\ Looked(d)
    /\ UNCHANGED <<up, timers, filters, node, cfg, f, t, fDestroyed, away, seen, n, walked>>

reaper_Known(d) ==
    /\ up /\ d \in todo \cap KnownSet /\ Expired(d)
    /\ node' = [node EXCEPT ![d].state = "off", ![d].isAlive = FALSE]
    /\ seen' = [seen EXCEPT ![d] = "off"]
    /\ Looked(d)
    /\ UNCHANGED <<up, timers, filters, cfg, f, t, fDestroyed, away, n, walked>>

\* Fault: the reaper finds it again.
Forgotten_Kept(d) == UNCHANGED cfg

Forgotten(d) == cfg' = cfg \ {d}

\* Endpoint:destroy(): the filter f and the timer t go, whosever they are.
reaper_Destroys(d) ==
    /\ up /\ d \in todo \ KnownSet /\ Expired(d)
    /\ ~fDestroyed
    /\ seen' = [seen EXCEPT ![d] = "off"]
    /\ Forgotten(d)
    /\ filters' = RemoveFirst(filters, f)
    /\ fDestroyed' = TRUE
    /\ timers' = RemoveFirstMatch(timers, LAMBDA x : x.kind = "info" /\ x.dev = t)
    /\ node' = [node EXCEPT ![d] = Emptied]
    /\ Looked(d)
    /\ UNCHANGED <<up, f, t, away, n, walked>>

\* #self.filterChain of a filter that has been destroyed
reaper_Fails(d) ==
    /\ up /\ d \in todo \ KnownSet /\ Expired(d)
    /\ fDestroyed
    /\ up' = FALSE
    /\ seen' = [seen EXCEPT ![d] = "off"]
    /\ UNCHANGED <<timers, filters, node, cfg, f, t, fDestroyed, away, at, n, todo, walked>>

EndWalk ==
    /\ up /\ at > n /\ at # 0
    /\ at' = 0 /\ n' = 0
    /\ walked' = TRUE
    /\ timers' = [k \in DOMAIN timers |->
                     [timers[k] EXCEPT !.missed = IF timers[k].due <= 0 THEN @ + 1 ELSE 0]]
    /\ UNCHANGED <<up, filters, node, cfg, f, t, fDestroyed, away, seen, todo>>

-----------------------------------------------------------------------------

\* select() waits for a second at most.
Tick ==
    /\ Idle /\ walked
    /\ walked' = FALSE
    /\ timers' = [k \in DOMAIN timers |-> [timers[k] EXCEPT !.due = @ - 1]]
    /\ away' = [d \in Devices |-> IF away[d] < LONG THEN away[d] + 1 ELSE LONG]
    /\ UNCHANGED <<up, filters, node, cfg, f, t, fDestroyed, seen, at, n, todo>>

Next ==
    \/ \E d \in Devices : process_New(d)
    \/ \E d \in Devices : process_Live(d)
    \/ \E d \in Devices : process_Emptied(d)
    \/ \E d \in Devices : Query(d)
    \/ StartOnce
    \/ BeginWalk
    \/ Pass
    \/ heartBeat
    \/ sendInfo
    \/ callbackOnce
    \/ reaper
    \/ \E d \in todo : reaper_Spares(d)
    \/ \E d \in todo : reaper_Known(d)
    \/ \E d \in todo : reaper_Destroys(d)
    \/ \E d \in todo : reaper_Fails(d)
    \/ EndWalk
    \/ Tick

Spec == Init /\ [][Next]_vars

-----------------------------------------------------------------------------
(***************************************************************************)
(* Properties.                                                             *)
(***************************************************************************)

MAXT == 2 + Cardinality(Devices) + ONCE

\* The variables have their types, and the reaper looks only at endpoints that are
\* there.  init.lua: Timer:_init(), Filter:_init().
TypeOK ==
    /\ up \in BOOLEAN /\ fDestroyed \in BOOLEAN /\ walked \in BOOLEAN
    /\ timers \in Seq([kind : {"hbeat", "reap", "info", "once"}, dev : Devices \cup {None},
                       due : Int, missed : Nat])
    /\ Len(timers) <= MAXT
    /\ filters \in Seq(Devices)
    /\ node \in [Devices -> [is : {"missing", "live", "emptied"}, state : {"on", "off", "?", None},
                            isAlive : BOOLEAN]]
    /\ cfg \subseteq {d \in Devices : node[d].is = "live"}
    /\ {f, t} \subseteq Devices \cup {None}
    /\ away \in [Devices -> 0 .. LONG]
    /\ seen \in [Devices -> {"on", "off", "?"}]
    /\ todo \subseteq cfg
    /\ at \in 0 .. n + 1 /\ n \in 0 .. MAXT

(* A timer that a removal moves out of the way of the walk is not lost:     *)
(* it has moved to the front by as many places as walks have missed it, so  *)
(* it is called in the end whatever callbacks delete.  init.lua: process(), *)
(* Timer:delete(); List.lua: foreach(), remove_value().                     *)
MissedMovesUp == \A k \in DOMAIN timers : k + timers[k].missed <= MAXT

(* A device that has left is not shown as present for long: one period      *)
(* after its time to live an event has said that it is off, in whatever     *)
(* order the reaper takes the devices and whatever it destroys.  It is      *)
(* later only by the walks that miss the reaper, which takes a one-shot     *)
(* timer right in front of it: no configured device has its timer there.    *)
(* bluenode.lua: BlueNode.reaper(); init.lua: process().                    *)
GoneIsReported ==
    \A d \in Devices :
        up /\ seen[d] = "on" => away[d] <= TTL + PERIOD + (IF Known = <<>> THEN ONCE ELSE 0)

(* A configured device is shown as present exactly while its entry says so, *)
(* although its filter and timer may go with another endpoint: events do    *)
(* not depend on them.  bluenode.lua: BlueNode:process(), reaper();         *)
(* jeenode.lua: Nodule:process().                                           *)
KnownIsTracked == \A d \in KnownSet : node[d].isAlive <=> seen[d] = "on"

(* A device that has just been heard is shown as present.  bluenode.lua:    *)
(* BlueNode:process(), "If this device has no pre-configured endpoint       *)
(* dynamically create it."                                                  *)
HeardIsShown == \A d \in Devices : up /\ away[d] = 0 => seen[d] = "on"

(* Destroying an endpoint takes its own filter and timer: every endpoint    *)
(* that is there has both and one that is gone has neither.  bsc.lua:       *)
(* Endpoint:_init(), "Record destructors to call on endpoint point          *)
(* destroy".                                                                *)
DestroyTakesOwn ==
    \A d \in Devices : node[d].is # "missing" =>
        /\ node[d].is = "live" <=> Contains(filters, d)
        /\ node[d].is = "live" <=> \E k \in DOMAIN timers : timers[k].kind = "info" /\ timers[k].dev = d
=============================================================================
