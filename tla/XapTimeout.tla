----------------------------- MODULE XapTimeout -----------------------------
(***************************************************************************)
(* The timers of xaplib2 (timeout.c) as the event loop (xapProcess() in    *)
(* rx.c) dispatches them.                                                  *)
(*                                                                         *)
(* timeoutDispatch() reads the clock once and then walks the list; while   *)
(* callbacks run the clock goes on, for at most L seconds in one walk.     *)
(* Between two walks at most S seconds pass: one in select(), the rest in  *)
(* socket callbacks.  Callbacks of either kind add, delete, reset and      *)
(* expire timers.                                                          *)
(*                                                                         *)
(* Times are kept relative to time(NULL), so that the states are finite:   *)
(* due[c] is ttl less the clock, and lag is the clock less the `now' that  *)
(* the walk uses.  ttl = 0, expired, is a due that is not after that `now'.*)
(***************************************************************************)
EXTENDS Integers, Sequences

CONSTANTS
    Cells,      \* heap cells for xAPTimeoutCallback: a bound on the timers
    Funcs,      \* callback functions
    Intervals,  \* the intervals they are registered with, seconds
    L, S,       \* bounds on the time in a walk and between two
    SelfDelete, \* callbacks may delete the timer they run for
    None

ASSUME IntervalAssumption == Intervals \subseteq Nat \ {0}
ASSUME TimeAssumption == L \in Nat /\ S \in Nat
ASSUME SelfDeleteAssumption == SelfDelete \in BOOLEAN
ASSUME NoneAssumption == None \notin Cells

VARIABLES
    timeoutList,    \* gXAP->timeoutList, first to last
    func, interval, \* the fields of each timer
    due,            \* ttl - time(NULL)
    pc,             \* "idle" between walks, "walk", "callback"
    at,             \* the timer whose callback runs
    todo,           \* the timers the walk has still to come to
    lag,            \* time(NULL) - now, 0 between walks
    idle,           \* seconds since the last walk ended
    forced,         \* history: c was not armed since it was added or expired
    since           \* history: seconds since c was armed

fields == <<func, interval>>
walkVars == <<pc, at, todo>>
clockVars == <<lag, idle>>
vars == <<timeoutList, fields, due, walkVars, clockVars, forced, since>>

Elements(s) == {s[i] : i \in 1 .. Len(s)}
Registered == Elements(timeoutList)

Init ==
    /\ timeoutList = <<>>
    /\ func \in [Cells -> Funcs]
    /\ interval \in [Cells -> Intervals]
    /\ due = [c \in Cells |-> 0]
    /\ pc = "idle" /\ at = None /\ todo = {}
    /\ lag = 0 /\ idle = 0
    /\ forced = [c \in Cells |-> TRUE]
    /\ since = [c \in Cells |-> 0]

-----------------------------------------------------------------------------
(***************************************************************************)
(* What callbacks call.                                                    *)
(***************************************************************************)

InCallback == pc \in {"idle", "callback"}

\* Fault: an interval one second short.
xapAddTimeoutAction_Short(c, f, i) ==
    /\ InCallback
    /\ c \notin Registered
    /\ timeoutList' = <<c>> \o timeoutList
    /\ func' = [func EXCEPT ![c] = f]
    /\ interval' = [interval EXCEPT ![c] = i - 1]
    /\ due' = [due EXCEPT ![c] = -lag]
    /\ forced' = [forced EXCEPT ![c] = TRUE]
    /\ since' = [since EXCEPT ![c] = 0]
    /\ UNCHANGED <<walkVars, clockVars>>

xapAddTimeoutAction(c, f, i) ==
    /\ InCallback
    /\ c \notin Registered
    /\ timeoutList' = <<c>> \o timeoutList
    /\ func' = [func EXCEPT ![c] = f]
    /\ interval' = [interval EXCEPT ![c] = i]
    /\ due' = [due EXCEPT ![c] = -lag]
    /\ forced' = [forced EXCEPT ![c] = TRUE]
    /\ since' = [since EXCEPT ![c] = 0]
    /\ UNCHANGED <<walkVars, clockVars>>

xapTimeoutReset(c) ==
    /\ InCallback
    /\ c \in Registered
    /\ due' = [due EXCEPT ![c] = interval[c]]
    /\ forced' = [forced EXCEPT ![c] = FALSE]
    /\ since' = [since EXCEPT ![c] = 0]
    /\ UNCHANGED <<timeoutList, fields, walkVars, clockVars>>

xapTimeoutExpire(c) ==
    /\ InCallback
    /\ c \in Registered
    /\ due' = [due EXCEPT ![c] = IF @ > -lag THEN -lag ELSE @]
    /\ forced' = [forced EXCEPT ![c] = TRUE]
    /\ since' = [since EXCEPT ![c] = 0]
    /\ UNCHANGED <<timeoutList, fields, walkVars, clockVars>>

\* LL_DELETE of the i-th timer and free().
Delete(i) ==
    /\ timeoutList' = [j \in 1 .. Len(timeoutList) - 1 |->
                          IF j < i THEN timeoutList[j] ELSE timeoutList[j + 1]]
    /\ todo' = todo \ {timeoutList[i]}
    /\ forced' = [forced EXCEPT ![timeoutList[i]] = TRUE]
    /\ since' = [since EXCEPT ![timeoutList[i]] = 0]
    /\ UNCHANGED <<fields, due, pc, at, clockVars>>

MayDelete(c) == InCallback /\ (pc = "callback" /\ c = at => SelfDelete)

xapDelTimeoutAction(c) ==
    \E i \in 1 .. Len(timeoutList) :
        /\ timeoutList[i] = c
        /\ MayDelete(c)
        /\ Delete(i)

\* The timer xapDelTimeoutActionByFunc() finds: the first one with f.
FirstOf(f, i) ==
    /\ func[timeoutList[i]] = f
    /\ \A j \in 1 .. i - 1 : func[timeoutList[j]] # f

xapDelTimeoutActionByFunc(f) ==
    \E i \in 1 .. Len(timeoutList) :
        /\ FirstOf(f, i)
        /\ MayDelete(timeoutList[i])
        /\ Delete(i)

-----------------------------------------------------------------------------
(***************************************************************************)
(* timeoutDispatch().                                                      *)
(***************************************************************************)

timeoutDispatch ==
    /\ pc = "idle"
    /\ pc' = "walk"
    /\ todo' = Registered
    /\ idle' = 0
    /\ UNCHANGED <<timeoutList, fields, due, at, lag, forced, since>>

\* c is the next timer of the walk.
Reached(c) ==
    /\ pc = "walk"
    /\ \E i \in 1 .. Len(timeoutList) :
          /\ timeoutList[i] = c
          /\ c \in todo
          /\ \A j \in 1 .. i - 1 : timeoutList[j] \notin todo
    /\ todo' = todo \ {c}

\* cb->ttl <= now
Expired(c) == due[c] + lag <= 0

timeoutDispatch_Pass(c) ==
    /\ Reached(c)
    /\ ~Expired(c)
    /\ UNCHANGED <<timeoutList, fields, due, pc, at, clockVars, forced, since>>

\* Fault: the timer is armed from its old end instead of from now.
Rearmed_FromOldTtl(c) == due[c] + interval[c]

\* cb->ttl = now + cb->interval
Rearmed(c) == interval[c] - lag

timeoutDispatch_Fire(c) ==
    /\ Reached(c)
    /\ Expired(c)
    /\ due' = [due EXCEPT ![c] = Rearmed(c)]
    /\ pc' = "callback"
    /\ at' = c
    /\ forced' = [forced EXCEPT ![c] = FALSE]
    /\ since' = [since EXCEPT ![c] = 0]
    /\ UNCHANGED <<timeoutList, fields, clockVars>>

\* Fault: the walk ends with the first timer that fires.
timeoutDispatch_Return_Stops ==
    /\ pc = "callback"
    /\ pc' = "idle"
    /\ at' = None
    /\ todo' = {}
    /\ lag' = 0
    /\ UNCHANGED <<timeoutList, fields, due, idle, forced, since>>

timeoutDispatch_Return ==
    /\ pc = "callback"
    /\ pc' = "walk"
    /\ at' = None
    /\ UNCHANGED <<timeoutList, fields, due, todo, clockVars, forced, since>>

timeoutDispatch_End ==
    /\ pc = "walk"
    /\ todo = {}
    /\ pc' = "idle"
    /\ lag' = 0
    /\ UNCHANGED <<timeoutList, fields, due, at, todo, idle, forced, since>>

\* A second passes.
Tick ==
    /\ IF pc = "idle" THEN idle < S /\ idle' = idle + 1 /\ UNCHANGED lag
                      ELSE lag < L /\ lag' = lag + 1 /\ UNCHANGED idle
    /\ due' = [c \in Cells |-> IF c \in Registered THEN due[c] - 1 ELSE due[c]]
    /\ since' = [c \in Cells |-> IF forced[c] THEN since[c] ELSE since[c] + 1]
    /\ UNCHANGED <<timeoutList, fields, walkVars, forced>>

Next ==
    \/ \E c \in Cells, f \in Funcs, i \in Intervals : xapAddTimeoutAction(c, f, i)
    \/ \E c \in Cells : xapTimeoutReset(c)
    \/ \E c \in Cells : xapTimeoutExpire(c)
    \/ \E c \in Cells : xapDelTimeoutAction(c)
    \/ \E f \in Funcs : xapDelTimeoutActionByFunc(f)
    \/ timeoutDispatch
    \/ \E c \in Cells : timeoutDispatch_Pass(c)
    \/ \E c \in Cells : timeoutDispatch_Fire(c)
    \/ timeoutDispatch_Return
    \/ timeoutDispatch_End
    \/ Tick

Spec == Init /\ [][Next]_vars

-----------------------------------------------------------------------------
(***************************************************************************)
(* Properties.                                                             *)
(***************************************************************************)

\* The variables have their types.  timeout.c: struct _xAPTimeoutCallback.
TypeOK ==
    /\ timeoutList \in Seq(Cells)
    /\ func \in [Cells -> Funcs]
    /\ interval \in [Cells -> Intervals]
    /\ due \in [Cells -> Int]
    /\ pc \in {"idle", "walk", "callback"}
    /\ at \in Cells \cup {None}
    /\ todo \subseteq Cells
    /\ lag \in 0 .. L
    /\ idle \in 0 .. S
    /\ forced \in [Cells -> BOOLEAN]
    /\ since \in [Cells -> Nat]

(* No timer is forgotten: whatever callbacks do to the list during a walk,  *)
(* a timer never gets more than two walks and a pause behind its time.      *)
(* timeout.c: timeoutDispatch(); rx.c: xapProcess().                        *)
NeverLate == \A c \in Registered : due[c] >= -(2 * L + S)

(* A timer that was armed fires no sooner than its interval less the time   *)
(* a walk takes, for the walk arms it from the `now' of its beginning.      *)
(* timeout.c: timeoutDispatch(), xapTimeoutReset().                         *)
NeverEarly ==
    [][\A c \in Cells :
          timeoutDispatch_Fire(c) /\ ~forced[c] => since[c] >= interval[c] - L]_vars

(* The walk stands on a timer that exists, so that it can go on from there. *)
(* A callback may delete its own timer: test/timeout.c, hello(), does, and  *)
(* adds another instead.  timeout.c: timeoutDispatch().                     *)
WalkOnList == pc = "callback" => at \in Registered
=============================================================================
