------------------------------ MODULE OneWire ------------------------------
(***************************************************************************)
(* The 1-wire sensors of xap-livebox (ini.c, serial.c, server.c): their    *)
(* endpoints with their filters and timers, made from the .ini file when   *)
(* the daemon starts and made anew when the web interface asks for it,     *)
(* and what becomes of a sensor's readings.                                *)
(*                                                                         *)
(* An endpoint has two timers: bsc.c's, which reports it, and the livebox's*)
(* own, which declares it unknown.  A third timer, one for all, asks the   *)
(* board for readings, MARGIN seconds sooner than the second comes round.  *)
(* Timers are XapTimeout's: served at most Late seconds after their time   *)
(* by a walk that began at most L seconds before.                          *)
(*                                                                         *)
(* The firmware is version 2 or later, which names sensors by ROM id.  An  *)
(* endpoint is named by its number in the .ini file: all are freed before  *)
(* new ones are made.  Readings are in tenths, written with one decimal;   *)
(* "?" is None.                                                            *)
(***************************************************************************)
EXTENDS Integers, Sequences, SequencesExt, FiniteSets

CONSTANTS
    Roms,       \* ROM ids of the sensors
    Inis,       \* what the [1wire] section may hold when it is read
    Readings,   \* what sensors read, in tenths
    Hyst,       \* sensorN.hysteresis, in tenths
    Offset,     \* sensorN.offset, in tenths
    T,          \* timeout, in seconds
    MAXDEVICES, \* 31
    MARGIN,     \* 10
    I,          \* INFO_INTERVAL
    A,          \* the board answers a report within A seconds
    L, Late,    \* bounds on a walk and on a timer's delay, seconds
    WIDTH,      \* bound on what calibration makes of a reading
    None

ASSUME IniAssumption ==
    \A x \in Inis :
        x.timeout \in BOOLEAN /\ x.romid \in Seq(Roms \cup {None}) /\ Len(x.romid) <= MAXDEVICES
ASSUME ReadingAssumption == Readings \subseteq Int /\ Hyst \in Nat /\ Offset \in Int /\ None \notin Int \cup Roms
ASSUME SizeAssumption == MAXDEVICES \in 0 .. 32 /\ WIDTH \in Nat
\* No value has more than four figures before the point.
ASSUME WidthAssumption ==
    Readings \subseteq -WIDTH .. WIDTH /\ {WIDTH + Offset, WIDTH - Offset} \subseteq 0 .. 99999
ASSUME TimeAssumption ==
    /\ {T, I} \subseteq Nat \ {0} /\ {L, Late, A} \subseteq Nat
    /\ MARGIN \in 1 .. T - 1 /\ Late + A <= MARGIN

VARIABLES
    ini,        \* the [1wire] section that was last read
    list,       \* endpointList, its 1wire members
    sensor,     \* the endpoint of each member and its struct tempSensor
    filters,    \* the endpoints with a query filter, newest first
    timers,     \* timeoutList, newest first
    unassigned, \* unassignedROMIDList
    bus,        \* the sensors that are connected
    owed        \* the seconds left to the board for a reading it was asked for

vars == <<ini, list, sensor, filters, timers, unassigned, bus, owed>>

OFF == 0
ON == 1
UNKNOWN == 3

\* Longer than this since a reading is as good as never.
NEVER == 2 * T + 2 * I + 2 * Late + 1

atof(x) == IF x = None THEN 0 ELSE x

Timer(f, data) == [func |-> f, data |-> data, due |-> 0]

\* Fault: the board is asked when the check is due.
Interval_NoMargin(f) == [check |-> T, info |-> I, report |-> T][f]

Interval(f) == [check |-> T, info |-> I, report |-> T - MARGIN][f]

-----------------------------------------------------------------------------
(***************************************************************************)
(* Endpoints.                                                              *)
(***************************************************************************)

\* LL_FOREACH_SAFE that deletes the elements in D.
Without(s, D) ==
    LET kept[i \in 0 .. Len(s)] ==
            IF i = 0 THEN <<>> ELSE IF s[i] \in D THEN kept[i - 1] ELSE Append(kept[i - 1], s[i])
    IN  kept[Len(s)]

\* The numbers that get an endpoint: "Missing or invalid ROMID" skips one.
Valid(x) == Without([i \in 1 .. Len(x.romid) |-> i], {i \in 1 .. Len(x.romid) : x.romid[i] = None})

\* bscAddEndpoint() of an input stream, calloc() of its tempSensor.
\* forced and steady are history: the state was set by hand; the sensor has
\* been connected ever since its last reading.
New(rom, uid) ==
    [romid |-> rom, uid |-> uid, state |-> UNKNOWN, text |-> None, prevValue |-> None, reported |-> FALSE,
     quiet |-> I, since |-> NEVER, seen |-> [state |-> UNKNOWN, text |-> None],
     forced |-> FALSE, steady |-> FALSE]

\* Fault: a number without a ROM id gets an endpoint.
Endpoints_All(x) == [i \in DOMAIN x.romid |-> New(x.romid[i], 127 + i)]

\* bscSetEndpointUID(128); each endpoint that is made takes the next.
Endpoints(x) ==
    [i \in Range(Valid(x)) |-> New(x.romid[i], 127 + SelectInSeq(Valid(x), LAMBDA j : j = i))]

ReportTimer(x) == IF x.timeout THEN <<Timer("report", None)>> ELSE <<>>

\* addOneWireIniEndpoints(DELAYED), then bscAddEndpointFilterList().
TimersAtStart(x) ==
    LET made == Reverse(Valid(x)) IN
    [k \in 1 .. Len(made) |-> Timer("info", Valid(x)[k])]
        \o ReportTimer(x)
        \o IF x.timeout THEN [k \in 1 .. Len(made) |-> Timer("check", made[k])] ELSE <<>>

\* addOneWireIniEndpoints(IMMEDIATE): an endpoint's timers are side by side.
TimersOfReset(x) ==
    LET made == Reverse(Valid(x)) IN
    ReportTimer(x)
        \o IF x.timeout
           THEN [k \in 1 .. 2 * Len(made) |-> IF k % 2 = 1 THEN Timer("info", made[(k + 1) \div 2])
                                              ELSE Timer("check", made[k \div 2])]
           ELSE [k \in 1 .. Len(made) |-> Timer("info", made[k])]

\* timeoutReport1wire(): an answer that is already owed comes no later for it.
Asked == [r \in Roms |-> IF r \in bus /\ owed[r] = None THEN A ELSE owed[r]]

Init ==
    /\ ini \in Inis
    /\ list = Reverse(Valid(ini))
    /\ sensor = Endpoints(ini)
    /\ filters = Valid(ini)
    /\ timers = TimersAtStart(ini)
    /\ unassigned = {}
    /\ bus \in SUBSET Roms
    /\ owed = [r \in Roms |-> IF r \in bus THEN A ELSE None]

\* xapDelTimeoutAction(xapFindTimeoutByUserData())
DelTimeoutOf(ts, i) == RemoveFirstMatch(ts, LAMBDA t : t.data = i)

\* Fault: only bscDelEndpoint() deletes a timer.
TimersWithout_One(ts, i) == DelTimeoutOf(ts, i)

\* The caller of bscDelEndpoint() deletes one timer and it another.
TimersWithout(ts, i) == DelTimeoutOf(DelTimeoutOf(ts, i), i)

\* What the endpoints' deletion leaves of the timers.
DelEndpoints ==
    LET left[k \in 0 .. Len(list)] == IF k = 0 THEN timers ELSE TimersWithout(left[k - 1], list[k])
    IN  left[Len(list)]

\* Fault: the unassigned ROM ids are kept.
Cleared_Kept == unassigned

Cleared == {}

\* resetOneWireEndpoints(), with x in the .ini file.
resetOneWireEndpoints(x) ==
    /\ unassigned' = Cleared
    /\ filters' = Reverse(Valid(x)) \o Without(filters, Range(list))
    /\ timers' = TimersOfReset(x) \o RemoveFirstMatch(DelEndpoints, LAMBDA t : t.func = "report")
    /\ ini' = x
    /\ list' = Reverse(Valid(x))
    /\ sensor' = Endpoints(x)
    /\ owed' = IF x.romid # <<>> THEN Asked ELSE owed
    /\ UNCHANGED bus

-----------------------------------------------------------------------------
(***************************************************************************)
(* Readings and reports.                                                   *)
(***************************************************************************)

\* The values that five characters are enough for: -99.9 to 999.9.
Short == -999 .. 9999

\* What char[6] keeps of a text: of a longer one, nothing behind the point.
Kept(x) ==
    IF x \in Short \cup {None} THEN x
    ELSE IF x > 0 THEN 10 * (x \div 10) ELSE -10 * ((-x) \div 10)

\* recalibate: at every call, whether the report then goes out or not.
Calibrated(x) == IF Offset = 0 THEN x ELSE Kept(atof(x) + Offset)

\* Fault: the last value is remembered although it was not reported.
Suppressed_Forgets(e, text) == [e EXCEPT !.text = text, !.prevValue = Kept(text)]

Suppressed(e, text) == [e EXCEPT !.text = text]

\* bscSendInfoEvent() and infoEvent1wire(): the value is compared with what is
\* left of the last one reported, for which "?" counts as 0.  (They are floats:
\* a difference of exactly the hysteresis may be rounded up, and reported.)
Report(e, clazz) ==
    LET text == Calibrated(e.text)
        new == atof(e.text) + Offset
        old == atof(e.prevValue)
    IN  IF clazz = "info" \/ new > old + Hyst \/ new < old - Hyst \/ ~e.reported
        THEN [e EXCEPT !.text = text, !.prevValue = Kept(text), !.reported = TRUE, !.quiet = 0,
                       !.seen = [state |-> e.state, text |-> text]]
        ELSE Suppressed(e, text)

\* The first endpoint in the list with the ROM id.
findROMID(r) == SelectInSeq(list, LAMBDA i : sensor[i].romid = r)

Heard(e, v) ==
    [Report([e EXCEPT !.state = ON, !.text = v, !.forced = FALSE, !.steady = TRUE], "event")
        EXCEPT !.since = 0]

\* serin_1wire(): the board sends a reading, because it was asked or of itself.
serin_1wire(r, v) ==
    /\ r \in bus
    /\ owed' = [owed EXCEPT ![r] = None]
    /\ LET k == findROMID(r) IN
       \/ /\ k = 0
          /\ unassigned' = unassigned \cup {r}
          /\ UNCHANGED sensor
       \/ /\ k # 0
          /\ sensor' = [sensor EXCEPT ![list[k]] = Heard(@, v)]
          /\ UNCHANGED unassigned
    /\ UNCHANGED <<ini, list, filters, timers, bus>>

\* bscIncomingQuery()
bscIncomingQuery(i) ==
    /\ Contains(filters, i)
    /\ sensor' = [sensor EXCEPT ![i] = Report(@, "info")]
    /\ UNCHANGED <<ini, list, filters, timers, unassigned, bus, owed>>

\* msg_action(): the web interface sets a state, of an input too.
msg_action(i, s) ==
    /\ Contains(list, i)
    /\ sensor' = [sensor EXCEPT ![i] = Report([@ EXCEPT !.state = s, !.forced = TRUE], "event")]
    /\ UNCHANGED <<ini, list, filters, timers, unassigned, bus, owed>>

-----------------------------------------------------------------------------
(***************************************************************************)
(* Timers.                                                                 *)
(***************************************************************************)

\* timeoutDispatch() of a walk that began lag seconds ago.
Fire(k, f, lag) ==
    /\ timers[k].func = f
    /\ timers[k].due + lag <= 0
    /\ timers' = [timers EXCEPT ![k].due = Interval(f) - lag]
    /\ UNCHANGED <<ini, list, filters, unassigned, bus>>

bscInfoTimeout(k, lag) ==
    /\ Fire(k, "info", lag)
    /\ LET i == timers[k].data IN
       IF ~sensor[i].reported \/ sensor[i].quiet >= I
       THEN sensor' = [sensor EXCEPT ![i] = Report(@, "info")]
       ELSE UNCHANGED sensor
    /\ UNCHANGED owed

\* Fault: the interval is counted twice.
Overdue_Twice(e) == e.since > T + T

\* now > userData->lastSerialEvent + interval
Overdue(e) == e.since > T

timeoutCheck1wire(k, lag) ==
    /\ Fire(k, "check", lag)
    /\ LET i == timers[k].data IN
       IF Overdue(sensor[i])
       THEN sensor' = [sensor EXCEPT ![i].state = UNKNOWN, ![i].text = None]
       ELSE UNCHANGED sensor
    /\ UNCHANGED owed

timeoutReport1wire(k, lag) ==
    /\ Fire(k, "report", lag)
    /\ owed' = Asked
    /\ UNCHANGED sensor

-----------------------------------------------------------------------------

\* A sensor is connected or disconnected.
Plug(r) ==
    /\ bus' = IF r \in bus THEN bus \ {r} ELSE bus \cup {r}
    /\ owed' = [owed EXCEPT ![r] = None]
    /\ sensor' = [i \in DOMAIN sensor |->
                     [sensor[i] EXCEPT !.steady = @ /\ sensor[i].romid # r]]
    /\ UNCHANGED <<ini, list, filters, timers, unassigned>>

Older(n, limit) == IF n < limit THEN n + 1 ELSE n

Tick ==
    /\ \A k \in DOMAIN timers : timers[k].due > -Late
    /\ \A r \in Roms : owed[r] # 0
    /\ timers' = [k \in DOMAIN timers |-> [timers[k] EXCEPT !.due = @ - 1]]
    /\ owed' = [r \in Roms |-> IF owed[r] = None THEN None ELSE owed[r] - 1]
    /\ sensor' = [i \in DOMAIN sensor |->
                     [sensor[i] EXCEPT !.since = Older(@, NEVER), !.quiet = @ + 1]]
    /\ UNCHANGED <<ini, list, filters, unassigned, bus>>

\* Calibration adds up: no further than WIDTH.
Bounded == \A i \in DOMAIN sensor : atof(sensor[i].text) \in -WIDTH .. WIDTH

Next ==
    /\ Bounded
    /\ \/ \E x \in Inis : resetOneWireEndpoints(x)
       \/ \E r \in Roms, v \in Readings : serin_1wire(r, v)
       \/ \E i \in DOMAIN sensor : bscIncomingQuery(i)
       \/ \E i \in DOMAIN sensor, s \in {OFF, ON, UNKNOWN} : msg_action(i, s)
       \/ \E k \in DOMAIN timers, lag \in 0 .. L : bscInfoTimeout(k, lag)
       \/ \E k \in DOMAIN timers, lag \in 0 .. L : timeoutCheck1wire(k, lag)
       \/ \E k \in DOMAIN timers, lag \in 0 .. L : timeoutReport1wire(k, lag)
       \/ \E r \in Roms : Plug(r)
       \/ Tick

Spec == Init /\ [][Next]_vars

-----------------------------------------------------------------------------
(***************************************************************************)
(* Properties.                                                             *)
(***************************************************************************)

Text == Int \cup {None}
State == {OFF, ON, UNKNOWN}

\* The variables have their types: a timer is neither served too late nor set
\* for more than its interval, and the board owes only for sensors it has.
\* ini.h: struct tempSensor, timeout.h: struct xAPTimeoutCallback.
TypeOK ==
    /\ ini \in Inis /\ list \in Seq(Nat) /\ filters \in Seq(Nat)
    /\ sensor \in [Range(list) ->
           [romid : Roms, uid : 128 .. 159, state : State, text : Text, prevValue : Text,
            reported : BOOLEAN, quiet : Nat, since : 0 .. NEVER,
            seen : [state : State, text : Text], forced : BOOLEAN, steady : BOOLEAN]]
    /\ timers \in Seq([func : {"check", "info", "report"}, data : Text, due : Int])
    /\ \A k \in 1 .. Len(timers) : timers[k].due \in -Late .. Interval(timers[k].func)
    /\ unassigned \subseteq Roms /\ bus \subseteq Roms
    /\ owed \in [Roms -> 0 .. A \cup {None}]
    /\ \A r \in Roms : owed[r] # None => r \in bus

\* How many timers of f there are for data.
Timers(f, data) == Cardinality({k \in DOMAIN timers : timers[k].func = f /\ timers[k].data = data})

(* Whatever resets have come, from whatever .ini files, every endpoint has  *)
(* one query filter, one timer that reports it and, if the file gives a     *)
(* timeout, one that checks it, the sensors share one that asks the board,  *)
(* and there is no filter or timer that has outlived its endpoint.          *)
(* ini.c: addOneWireIniEndpoints(), resetOneWireEndpoints(); bsc.c:         *)
(* bscDelEndpoint(), which deletes one timer.                               *)
WiredOnce ==
    LET checks == IF ini.timeout THEN 1 ELSE 0 IN
    /\ \A i \in Range(list) : Timers("info", i) = 1 /\ Timers("check", i) = checks
    /\ Timers("report", None) = checks
    /\ Len(timers) = Len(list) * (1 + checks) + checks
    /\ Len(filters) = Len(list) /\ Range(filters) = Range(list)

(* The web interface offers for assignment no ROM id that an endpoint has:  *)
(* a sensor that was seen before its number was assigned is off the list    *)
(* when the endpoint is made.  serial.c: serin_1wire(), ini.c:              *)
(* resetOneWireEndpoints().                                                 *)
OfferedAreFree == \A i \in Range(list) : sensor[i].romid \notin unassigned

(* The longest an endpoint is without a report: bscInfoTimeout() may find   *)
(* it reported less than I seconds ago.                                     *)
Untold == 2 * I - 1 + Late

(* What listeners were last told of a sensor does not differ from its value *)
(* by more than the hysteresis, however slowly it drifts and whatever was   *)
(* suppressed, unknown or reported in between.  The code does less in two   *)
(* cases.  A value of more than five characters ("1012.9") is remembered    *)
(* without its tenths, and the difference may be up to 0.9 more.  And "?"   *)
(* counts as 0: a sensor that comes back with a value near 0 causes no      *)
(* event, and listeners have "?" until it is reported next, for Untold      *)
(* seconds at most.  ini.c: infoEvent1wire(); bsc.c: bscInfoTimeout().      *)
SeenWithinHysteresis ==
    \A i \in DOMAIN sensor : LET e == sensor[i] IN
        e.reported /\ e.text # None =>
            IF e.seen.text = None
            THEN e.text \in -Hyst .. Hyst /\ e.quiet <= Untold
            ELSE LET most == IF {e.text, e.seen.text} \subseteq Short THEN Hyst ELSE Hyst + 9
                 IN  e.text - e.seen.text \in -most .. most

(* A sensor that has gone quiet does not pass for a known one for long:     *)
(* after two timeouts it is unknown, and after two more intervals of its    *)
(* other timer listeners have been told, although no event says so.         *)
(* ini.c: timeoutCheck1wire(); bsc.c: bscInfoTimeout().                     *)
QuietIsUnknown ==
    \A i \in DOMAIN sensor : LET e == sensor[i] IN
        ini.timeout /\ ~e.forced =>
            /\ e.state = ON => e.since <= 2 * T + Late
            /\ e.seen.state = ON => e.since <= 2 * T + Late + Untold

(* A sensor that is connected is not taken for lost, though its reading may *)
(* never change: the board is asked early enough for its answer to come     *)
(* before the check.  ini.c: addOneWireIniEndpoints(), "we will force an    *)
(* AVR report of all devices 10 sec before the timeout period".             *)
ConnectedStaysKnown ==
    \A i \in DOMAIN sensor : LET e == sensor[i] IN
        ini.timeout /\ e.steady /\ ~e.forced => e.state = ON /\ e.since <= T - MARGIN + Late + A

(* A UID stays with the device it was given to: a sensor that has the same  *)
(* number and ROM id before and after a reset has the same UID.             *)
(* livebox.c: main(), "Endpoint UID mapping - Identifies a particular       *)
(* hardware device for life".                                               *)
UidForLife ==
    [][\A i \in DOMAIN sensor \cap DOMAIN sensor' :
          sensor[i].romid = sensor'[i].romid => sensor[i].uid = sensor'[i].uid]_vars
=============================================================================
