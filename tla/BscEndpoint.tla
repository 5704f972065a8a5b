---------------------------- MODULE BscEndpoint ----------------------------
(***************************************************************************)
(* The BSC endpoints of a daemon (xaplib2/bsc.c): what a command does to   *)
(* them, and when they report themselves to the network.                   *)
(*                                                                         *)
(* An endpoint reports by an event when it changes, by an info when it is  *)
(* asked and by an info when it has been silent for an interval.  Its      *)
(* timer is one of XapTimeout's: served at most Late seconds after its     *)
(* time, by a walk that began at most L seconds ago and arms the timer     *)
(* from its beginning, while bsc.c reads the clock anew.                   *)
(*                                                                         *)
(* Endpoints have distinct ids and stand for theirs.  A callback is one    *)
(* step.  The daemon's own cmd and infoEvent callbacks leave state and     *)
(* text alone but for two of xap-livebox: cmdURF(), which is here, and     *)
(* infoEvent1wire(), which is in OneWire.                                  *)
(***************************************************************************)
EXTENDS Integers, Sequences, FiniteSets

CONSTANTS
    Endpoints,
    Outputs,    \* those that are BSC_OUTPUT
    Binary,     \* those that are BSC_BINARY; the others have a level or a text
    Denying,    \* those whose infoEvent callback may say no to an event
    Missing,    \* outputs and the states for which the .ini file has no RF key
    Texts,      \* levels and texts
    TooLong,    \* the ones that do not fit into a message
    Commands,   \* the bodies of the xAPBSC.cmd messages that come
    SECTIONS,   \* the number of sections a command is read for, 98
    I,          \* info_interval, seconds
    L, Late,    \* bounds on a walk and on a timer's delay, seconds
    None        \* no text, no id, no state, nothing reported

ASSUME EndpointAssumption ==
    Outputs \subseteq Endpoints /\ Binary \subseteq Endpoints /\ Denying \subseteq Endpoints \ Outputs
ASSUME KeyAssumption == Missing \subseteq Outputs \X (0 .. 3)
ASSUME TextAssumption == "?" \in Texts \ TooLong /\ None \notin Texts
ASSUME TimeAssumption == I \in Nat \ {0} /\ L \in Nat /\ Late \in Nat
ASSUME CommandAssumption ==
    /\ SECTIONS \in Nat
    /\ Commands \subseteq Seq([id : Endpoints \cup {"*", "other", None},  \* other: no endpoint's
                               state : {"on", "off", "toggle", "junk", None},
                               text : Texts \cup {None}])

OFF == 0
ON == 1
UNKNOWN == 3

VARIABLES
    up,         \* the daemon runs
    value,      \* state and text of each endpoint
    due,        \* ttl - time(NULL) of its info timer
    age,        \* time(NULL) - last_report; seconds since the start before the first
    reported,   \* last_report # 0
    seen,       \* history: what the last report said, None before the first
    mute,       \* history: the last attempt to report was denied or too long
    cut         \* history: the last that was not denied was too long

vars == <<up, value, due, age, reported, seen, mute, cut>>

Initially(e) ==
    [state |-> IF e \notin Outputs THEN UNKNOWN ELSE IF e \in Binary THEN OFF ELSE ON, text |-> "?"]

\* bscAddEndpoint(), bscAddEndpointFilter(): the timer starts expired.
Init ==
    /\ up = TRUE
    /\ value = [e \in Endpoints |-> Initially(e)]
    /\ due = [e \in Endpoints |-> 0]
    /\ age = [e \in Endpoints |-> 0]
    /\ reported = [e \in Endpoints |-> FALSE]
    /\ seen = [e \in Endpoints |-> None]
    /\ mute = [e \in Endpoints |-> FALSE]
    /\ cut = [e \in Endpoints |-> FALSE]

-----------------------------------------------------------------------------
(***************************************************************************)
(* Reports.                                                                *)
(***************************************************************************)

\* The daemon is gone.
Crash == up' = FALSE /\ UNCHANGED <<value, due, age, reported, seen, mute, cut>>

\* bscInfoEvent(): a message that was cut off is not sent, if the daemon lives to see that.
Fits(v) == v.text \notin TooLong

\* bscSendInfoEvent(): the endpoints of E are to report v, those in no deny it.
\* No daemon's callback denies an info: "Alway report INFO events".
bscSendInfoEvent(E, v, no) ==
    LET sent == {e \in E \ no : Fits(v[e])} IN
    /\ no \subseteq E \cap Denying
    /\ reported' = [e \in Endpoints |-> reported[e] \/ e \in sent]
    /\ seen' = [e \in Endpoints |-> IF e \in sent THEN v[e] ELSE seen[e]]
    /\ age' = [e \in Endpoints |-> IF e \in sent THEN 0 ELSE age[e]]
    /\ mute' = [e \in Endpoints |-> IF e \in E THEN e \notin sent ELSE mute[e]]
    /\ cut' = [e \in Endpoints |-> IF e \in E \ no THEN e \notin sent ELSE cut[e]]

\* bscIncomingQuery(), for the endpoints E that the target matches.
bscIncomingQuery(E) ==
    /\ up
    /\ bscSendInfoEvent(E, value, {})
    /\ UNCHANGED <<up, value, due>>

\* The daemon's device has changed: bscSetState(), bscSetText(), bscSendEvent().
bscSendEvent(e, s, x, no) ==
    /\ up
    /\ value' = [value EXCEPT ![e] = [state |-> s, text |-> IF e \in Binary THEN @.text ELSE x]]
    /\ bscSendInfoEvent({e}, value', no)
    /\ UNCHANGED <<up, due>>

\* What is put behind a text that was cut off is put behind the buffer, on the stack.
\* Every report of such a text may end so: the daemon's own change stands for all.
bscInfoEvent_Overflow(e, x) ==
    /\ up
    /\ e \notin Binary /\ x \in TooLong
    /\ Crash

\* Fault: two intervals of silence.
InfoDue_Twice(e) == ~reported[e] \/ age[e] >= 2 * I

\* e->last_report == 0 || e->last_report + interval <= now
InfoDue(e) == ~reported[e] \/ age[e] >= I

\* timeoutDispatch() of a walk that began lag seconds ago.
Fire(e, lag) ==
    /\ up
    /\ due[e] + lag <= 0
    /\ due' = [due EXCEPT ![e] = I - lag]
    /\ UNCHANGED <<up, value>>

bscInfoTimeout(e, lag) ==
    /\ Fire(e, lag)
    /\ InfoDue(e)
    /\ bscSendInfoEvent({e}, value, {})

bscInfoTimeout_Skip(e, lag) ==
    /\ Fire(e, lag)
    /\ ~InfoDue(e)
    /\ UNCHANGED <<age, reported, seen, mute, cut>>

-----------------------------------------------------------------------------
(***************************************************************************)
(* Commands.                                                               *)
(***************************************************************************)

bscDecodeState(w) == [on |-> 1, off |-> 0, toggle |-> 2, junk |-> -1][w]

bscSetState(s, i) == (IF i = 2 THEN IF s = ON THEN OFF ELSE ON ELSE i) % 4

\* The cmd callback, cmdURF() for outputs that need a key.
cmd(e, s) == IF <<e, s>> \in Missing THEN UNKNOWN ELSE s

\* Fault: a malformed section is passed over.
Readable_Skips(c) == {i \in 1 .. Len(c) : i <= SECTIONS /\ c[i].id # None /\ c[i].state # None}

\* The sections the loop comes to: it ends at the first malformed one.
Readable(c) ==
    {i \in 1 .. Len(c) : i <= SECTIONS /\ \A j \in 1 .. i : c[j].id # None /\ c[j].state # None}

\* The sections that are for e.
For(e, c) == {i \in Readable(c) : c[i].id \in {"*", e}}

\* e after the first n sections of c.
After(e, c) ==
    LET v[n \in 0 .. Len(c)] ==
            IF n = 0 THEN value[e]
            ELSE IF n \notin For(e, c) THEN v[n - 1]
            ELSE [state |-> cmd(e, bscSetState(v[n - 1].state, bscDecodeState(c[n].state))),
                  text |-> IF e \in Binary THEN v[n - 1].text ELSE c[n].text]
    IN  v

\* A level or a text is not looked for before it is copied: strdup(NULL).
Fatal(e, c) == e \notin Binary /\ \E i \in For(e, c) : c[i].text = None

Last(S) == CHOOSE i \in S : \A j \in S : j <= i

\* Fault: the event goes out before the change.
Reported_Before(v, i) == v[i - 1]

\* bscSendCmdEvent(): the event follows the change.
Reported(v, i) == v[i]

\* bscIncomingCmd() for the endpoints E, which have a section: one event each.
Obey(E, c) ==
    LET sent(e) == {i \in For(e, c) : Fits(After(e, c)[i])} IN
    /\ value' = [e \in Endpoints |-> IF e \in E THEN After(e, c)[Len(c)] ELSE value[e]]
    /\ reported' = [e \in Endpoints |-> reported[e] \/ (e \in E /\ sent(e) # {})]
    /\ seen' = [e \in Endpoints |->
                   IF e \in E /\ sent(e) # {} THEN Reported(After(e, c), Last(sent(e))) ELSE seen[e]]
    /\ age' = [e \in Endpoints |-> IF e \in E /\ sent(e) # {} THEN 0 ELSE age[e]]
    /\ mute' = [e \in Endpoints |-> IF e \in E THEN Last(For(e, c)) \notin sent(e) ELSE mute[e]]
    /\ cut' = [e \in Endpoints |-> IF e \in E THEN Last(For(e, c)) \notin sent(e) ELSE cut[e]]
    /\ UNCHANGED <<up, due>>

\* A command whose target matches the outputs T: only these listen.
bscIncomingCmd(T, c) ==
    LET E == {e \in T : For(e, c) # {}} IN
    /\ up
    /\ IF \E e \in E : Fatal(e, c) THEN Crash ELSE Obey(E, c)

-----------------------------------------------------------------------------

\* The daemon is started again.
Restart ==
    /\ ~up
    /\ up' = TRUE
    /\ value' = [e \in Endpoints |-> Initially(e)]
    /\ due' = [e \in Endpoints |-> 0]
    /\ age' = [e \in Endpoints |-> 0]
    /\ reported' = [e \in Endpoints |-> FALSE]
    /\ seen' = [e \in Endpoints |-> None]
    /\ mute' = [e \in Endpoints |-> FALSE]
    /\ cut' = [e \in Endpoints |-> FALSE]

\* Beyond it an age is as good as any other.
AGE_MAX == 2 * I + Late

Tick ==
    /\ up
    /\ \A e \in Endpoints : due[e] > -Late
    /\ due' = [e \in Endpoints |-> due[e] - 1]
    /\ age' = [e \in Endpoints |-> IF age[e] < AGE_MAX THEN age[e] + 1 ELSE age[e]]
    /\ UNCHANGED <<up, value, reported, seen, mute, cut>>

Next ==
    \/ \E E \in SUBSET Endpoints : bscIncomingQuery(E)
    \/ \E e \in Endpoints, s \in {OFF, ON, UNKNOWN}, x \in Texts, no \in SUBSET Denying :
          bscSendEvent(e, s, x, no)
    \/ \E e \in Endpoints, x \in TooLong : bscInfoEvent_Overflow(e, x)
    \/ \E e \in Endpoints, lag \in 0 .. L : bscInfoTimeout(e, lag)
    \/ \E e \in Endpoints, lag \in 0 .. L : bscInfoTimeout_Skip(e, lag)
    \/ \E T \in SUBSET Outputs, c \in Commands : bscIncomingCmd(T, c)
    \/ Restart
    \/ Tick

Spec == Init /\ [][Next]_vars

-----------------------------------------------------------------------------
(***************************************************************************)
(* Properties.                                                             *)
(***************************************************************************)

\* The variables have their types.  bsc.h: struct _bscEndpoint.
TypeOK ==
    /\ up \in BOOLEAN
    /\ value \in [Endpoints -> [state : 0 .. 3, text : Texts]]
    /\ due \in [Endpoints -> -Late .. I]
    /\ age \in [Endpoints -> 0 .. AGE_MAX]
    /\ reported \in [Endpoints -> BOOLEAN]
    /\ seen \in [Endpoints -> [state : 0 .. 3, text : Texts] \cup {None}]
    /\ mute \in [Endpoints -> BOOLEAN]
    /\ cut \in [Endpoints -> BOOLEAN]

(* An endpoint whose text fits into a message is never silent for long: it  *)
(* reports when the daemon starts, and after that twice its interval and    *)
(* the delay of its timer is not exceeded, although its events may be       *)
(* denied, reports of any kind postpone the next info and the timer does    *)
(* not know of them.  bsc.c: bscInfoTimeout().                              *)
ReportGap ==
    \A e \in Endpoints :
        up /\ ~cut[e] => age[e] <= IF reported[e] THEN 2 * I - 1 + Late ELSE Late

(* What listeners know of an endpoint is what it is: after any sequence of  *)
(* commands, queries and changes the last report, if it could be sent, has  *)
(* the present state and text.  bsc.c: bscSendCmdEvent(), bscInfoEvent().   *)
SeenIsValue ==
    \A e \in Endpoints : up /\ reported[e] /\ ~mute[e] => seen[e] = value[e]

\* The sections of a body without malformed ones that are for e.
Naming(e, c) == {i \in 1 .. Len(c) : c[i].id \in {"*", e}}

\* Off and on in turn, from what the last other word for e left behind.
Commanded(e, c, s) ==
    LET words == Naming(e, c)
        plain == {i \in words : c[i].state # "toggle"}
        left == IF plain = {} THEN s
                ELSE [on |-> ON, off |-> OFF, junk |-> UNKNOWN][c[Last(plain)].state]
        toggles == Cardinality({i \in words : \A j \in plain : j < i})
        flipped == IF toggles % 2 = 1 THEN ON ELSE OFF
    IN  IF toggles = 0 THEN left ELSE IF left = ON THEN 1 - flipped ELSE flipped

\* c up to its first malformed section, and to the last that is read.
Body(c) ==
    LET bad == {i \in 1 .. Len(c) : None \in {c[i].id, c[i].state}}
        n == IF bad = {} THEN Len(c) ELSE (CHOOSE i \in bad : \A j \in bad : i <= j) - 1
    IN  SubSeq(c, 1, IF n < SECTIONS THEN n ELSE SECTIONS)

(* A command is carried out as it reads: up to the first section without an *)
(* id or a state, and for no more than SECTIONS of them, an output ends in  *)
(* the state of the last section for it, toggles counted, and with that     *)
(* section's text; one that no section is for is left alone.  A state whose *)
(* key is missing becomes unknown, and what cannot be switched on never is. *)
(* bsc.c: bscIncomingCmd(), bscSetState(); xap-livebox/ini.c: cmdURF().     *)
CommandCarriedOut ==
    \A e \in Outputs, c \in Commands : up /\ ~Fatal(e, c) =>
        LET result == After(e, c)[Len(c)]
            named == Naming(e, Body(c))
        IN  IF named = {} THEN result = value[e]
            ELSE /\ IF <<e, ON>> \in Missing THEN result.state # ON
                    ELSE result.state = cmd(e, Commanded(e, Body(c), value[e].state))
                 /\ result.text = IF e \in Binary THEN value[e].text ELSE Body(c)[Last(named)].text
=============================================================================
