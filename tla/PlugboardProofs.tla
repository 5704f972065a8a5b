-------------------------- MODULE PlugboardProofs ---------------------------
(***************************************************************************)
(* Proofs about Plugboard: for any number of devices, configured or not,   *)
(* any number of one-shot timers, and any times.                           *)
(***************************************************************************)
EXTENDS Plugboard, FiniteSetTheorems, SequenceTheorems, TLAPS

TimerType ==
    [kind : {"hbeat", "reap", "info", "once"}, dev : Devices \cup {None}, due : Int, missed : Nat]

NodeType == [is : {"missing", "live", "emptied"}, state : {"on", "off", "?", None}, isAlive : BOOLEAN]

Once(s) == {k \in 1 .. Len(s) : s[k].kind = "once"}

\* The heartbeat's timer comes first, there is one for each purpose except that of
\* applets, and none is set for more than its interval.
Listed(s) ==
    /\ 1 \in 1 .. Len(s) /\ s[1].kind = "hbeat"
    /\ \A j, k \in 1 .. Len(s) : s[j].kind = s[k].kind /\ s[j].dev = s[k].dev /\ s[j].kind # "once" => j = k
    /\ \A k \in 1 .. Len(s) : /\ s[k].kind = "info" <=> s[k].dev # None
                              /\ s[k].due <= Interval(s[k].kind)
    /\ Cardinality(Once(s)) <= ONCE

\* A device with a timer has, or has had, an endpoint.
Owned == \A k \in 1 .. Len(timers) : timers[k].kind = "info" => node[timers[k].dev].is # "missing"

\* While the process runs, what was reported of an endpoint is what its entry says.
EntryOf(d) ==
    /\ node[d].is = "live" =>
          /\ d \in cfg /\ node[d].state # None
          /\ node[d].state = "on" <=> node[d].isAlive
          /\ up \/ d \in KnownSet => (node[d].isAlive <=> seen[d] = "on")
    /\ up /\ node[d].is # "live" => seen[d] # "on"

Entries ==
    /\ \A d \in Devices : EntryOf(d)
    /\ \A d \in KnownSet : node[d].is = "live"
    /\ t \in KnownSet \cup {None} => cfg \subseteq KnownSet

\* The walk's index and end.
Walk ==
    /\ at = 0 => todo = {}
    /\ at # 0 => Len(timers) <= n
    /\ todo # {} => at <= n

\* A timer that is due and that the walk has passed has moved up.
MovedAt(k, e, a, looking) ==
    /\ k + e.missed <= MAXT
    /\ (k < a \/ (k = a /\ looking)) /\ e.due <= 0 => k + e.missed + 1 <= MAXT

Moved == \A k \in 1 .. Len(timers) : MovedAt(k, timers[k], at, todo # {})

\* How often the walk may still miss the reaper that is the p-th timer, as a delay
\* that is already allowed.
Slack(p) == IF Known = <<>> THEN ONCE + 2 - p ELSE 0

Allowed == IF Known = <<>> THEN ONCE ELSE 0

\* The p-th timer is the reaper's.  It is late by no more than the one-shot timers that
\* were in front of it, and the devices that are shown as present leave it time.
ReaperAt(p) ==
    /\ timers[p].kind = "reap"
    /\ Known # <<>> => p > 1 /\ timers[p - 1].kind = "info" /\ timers[p - 1].dev \in KnownSet
    /\ Known = <<>> => p <= ONCE + 2
    /\ timers[p].due >= -Slack(p)
    /\ (walked \/ p < at) /\ timers[p].due <= 0 => timers[p].due >= 1 - Slack(p)
    /\ todo # {} => timers[p].due > 0
    /\ \A d \in Devices : up /\ seen[d] = "on" =>
          /\ away[d] <= TTL + PERIOD + Allowed
          /\ d \notin todo => away[d] + timers[p].due <= TTL + PERIOD

Reaped == \E p \in 1 .. Len(timers) : ReaperAt(p)

IInv == TypeOK /\ Listed(timers) /\ Owned /\ Entries /\ Walk /\ Moved /\ Reaped

-----------------------------------------------------------------------------
(***************************************************************************)
(* Numbers and lists.                                                      *)
(***************************************************************************)

(* A set of numbers that is not empty has a least element; what is shown by *)
(* induction below is shown with it.                                        *)
LEMMA LeastElement ==
    ASSUME NEW N \in SUBSET Nat, N # {}
    PROVE  \E x \in N : \A m \in N : x <= m
<1> DEFINE R == {ss \in Nat \X Nat : ss[1] < ss[2]}
<1>1. IsWellFoundedOn(R, Nat)
  BY NatLessThanWellFounded DEF OpToRel
<1>2. \A m, x \in Nat : (<<m, x>> \in R) <=> m < x
  OBVIOUS
<1> HIDE DEF R
<1>3. PICK x \in N : \A m \in N : ~(<<m, x>> \in R)
  BY <1>1, WFMin
<1>4. \A m \in N : x <= m
  <2> SUFFICES ASSUME NEW m \in N
               PROVE  x <= m
    OBVIOUS
  <2>1. m \in Nat /\ x \in Nat
    OBVIOUS
  <2>2. ~(m < x)
    BY <1>2, <1>3, <2>1, Zenon
  <2> QED
    BY <2>1, <2>2
<1> QED
  BY <1>4

(* What is left of a list without its i-th element.                         *)
LEMMA RemoveAtProperties ==
    ASSUME NEW S, NEW s \in Seq(S), NEW i \in 1 .. Len(s)
    PROVE  /\ RemoveAt(s, i) \in Seq(S)
           /\ Len(RemoveAt(s, i)) = Len(s) - 1
           /\ \A j \in 1 .. Len(s) - 1 : RemoveAt(s, i)[j] = IF j < i THEN s[j] ELSE s[j + 1]
<1> DEFINE a == SubSeq(s, 1, i - 1)
           b == SubSeq(s, i + 1, Len(s))
<1>1. a \in Seq(S) /\ Len(a) = i - 1 /\ \A j \in 1 .. i - 1 : a[j] = s[j]
  OBVIOUS
<1>2. b \in Seq(S) /\ Len(b) = Len(s) - i /\ \A j \in 1 .. Len(s) - i : b[j] = s[i + j]
  OBVIOUS
<1> HIDE DEF a, b
<1>3. RemoveAt(s, i) = a \o b
  BY DEF RemoveAt, a, b
<1>4. /\ a \o b \in Seq(S) /\ Len(a \o b) = Len(s) - 1
      /\ \A j \in 1 .. Len(s) - 1 : (a \o b)[j] = IF j <= i - 1 THEN a[j] ELSE b[j - (i - 1)]
  <2>1. /\ a \o b \in Seq(S) /\ Len(a \o b) = Len(a) + Len(b)
        /\ \A j \in 1 .. Len(a) + Len(b) : (a \o b)[j] = IF j <= Len(a) THEN a[j] ELSE b[j - Len(a)]
    BY <1>1, <1>2, ConcatProperties
  <2> QED
    BY <2>1, <1>1, <1>2
<1>5. ASSUME NEW j \in 1 .. Len(s) - 1
      PROVE  (a \o b)[j] = IF j < i THEN s[j] ELSE s[j + 1]
  <2>1. (a \o b)[j] = IF j <= i - 1 THEN a[j] ELSE b[j - (i - 1)]
    BY <1>4
  <2>2. CASE j < i
    BY <1>1, <2>1, <2>2
  <2>3. CASE ~(j < i)
    <3>1. j - (i - 1) \in 1 .. Len(s) - i /\ i + (j - (i - 1)) = j + 1 /\ ~(j <= i - 1)
      BY <2>3
    <3>2. b[j - (i - 1)] = s[j + 1]
      BY <1>2, <3>1
    <3> QED
      BY <2>1, <2>3, <3>1, <3>2
  <2> QED
    BY <2>2, <2>3
<1> QED
  BY <1>3, <1>4, <1>5

LEMMA MinProperties ==
    ASSUME NEW N \in SUBSET Nat, N # {}
    PROVE  Min(N) \in N /\ \A m \in N : Min(N) <= m
<1>1. PICK x \in N : \A m \in N : x <= m
  BY LeastElement
<1> QED
  BY <1>1 DEF Min

(* A value that is removed is one that was there.                           *)
LEMMA RemoveFirstTyped ==
    ASSUME NEW S, NEW s \in Seq(S), NEW x
    PROVE  RemoveFirst(s, x) \in Seq(S)
<1> DEFINE N == {k \in 1 .. Len(s) : s[k] = x}
<1>1. RemoveFirst(s, x) = IF \E k \in 1 .. Len(s) : s[k] = x THEN RemoveAt(s, SelectInSeq(s, LAMBDA v : v = x)) ELSE s
  BY DEF RemoveFirst
<1>2. CASE N = {}
  BY <1>1, <1>2
<1>3. CASE N # {}
  <2>1. N \in SUBSET Nat
    OBVIOUS
  <2>2. SelectInSeq(s, LAMBDA v : v = x) = Min(N)
    BY <1>3 DEF SelectInSeq
  <2>3. RemoveFirst(s, x) = RemoveAt(s, Min(N))
    BY <1>1, <1>3, <2>2
  <2>4. Min(N) \in N
    <3> HIDE DEF N
    <3> QED
      BY <1>3, <2>1, MinProperties
  <2>5. Min(N) \in 1 .. Len(s)
    BY <2>4
  <2> QED
    BY <2>3, <2>5, RemoveAtProperties
<1> QED
  BY <1>2, <1>3

(* The times are natural numbers.                                           *)
LEMMA Times ==
    /\ TTL \in Nat /\ TTL > 0 /\ PERIOD \in Nat /\ PERIOD > 0 /\ ONCE \in Nat
    /\ LONG \in Nat /\ LONG = TTL + PERIOD + ONCE + 1
    /\ Interval("reap") = PERIOD
    /\ \A kind \in {"hbeat", "reap", "info", "once"} : Interval(kind) \in Nat /\ Interval(kind) > 0
    /\ Allowed \in Nat
<1>1. /\ TTL \in Nat /\ TTL > 0 /\ PERIOD \in Nat /\ PERIOD > 0 /\ ONCE \in Nat
      /\ INFO \in Nat /\ INFO > 0 /\ HBEAT \in Nat /\ HBEAT > 0 /\ DELAY \in Nat /\ DELAY > 0
  BY TimeAssumption
<1>2. /\ Interval("reap") = PERIOD /\ Interval("hbeat") = HBEAT /\ Interval("info") = INFO
      /\ Interval("once") = DELAY
  BY DEF Interval
<1> QED
  BY <1>1, <1>2 DEF LONG, Allowed

LEMMA Lengths == TTL \in Nat /\ PERIOD \in Nat /\ Allowed \in Nat
  BY Times

LEMMA MAXTNat == MAXT \in Nat /\ MAXT >= 2
<1>1. Cardinality(Devices) \in Nat
  BY DeviceAssumption, FS_CardinalityType
<1> QED
  BY <1>1, Times DEF MAXT

-----------------------------------------------------------------------------
(***************************************************************************)
(* The list of timers.                                                     *)
(***************************************************************************)

(* There are no more timers than purposes and one-shot timers.              *)
LEMMA ListedLength ==
    ASSUME NEW s \in Seq(TimerType), Listed(s)
    PROVE  Len(s) <= MAXT
<1> DEFINE m == Len(s)
           O == Once(s)
           B == {k \in 1 .. m : s[k].kind = "info"}
           H == {k \in 1 .. m : s[k].kind = "hbeat"}
           P == {k \in 1 .. m : s[k].kind = "reap"}
<1>1. /\ m \in Nat
      /\ \A k \in 1 .. m : s[k] \in TimerType
  OBVIOUS
<1>2. \A k \in 1 .. m : s[k].kind \in {"hbeat", "reap", "info", "once"} /\ s[k].dev \in Devices \cup {None}
  BY <1>1 DEF TimerType
<1>3. IsFiniteSet(1 .. m) /\ Cardinality(1 .. m) = m
  <2>1. IsFiniteSet(1 .. m) /\ Cardinality(1 .. m) = IF 1 > m THEN 0 ELSE m - 1 + 1
    BY <1>1, FS_Interval
  <2> QED
    BY <1>1, <2>1
<1>4. 1 .. m = ((O \cup B) \cup H) \cup P
  BY <1>2 DEF Once
<1>5. IsFiniteSet(O) /\ IsFiniteSet(B) /\ IsFiniteSet(H) /\ IsFiniteSet(P)
  <2>1. O \subseteq 1 .. m /\ B \subseteq 1 .. m /\ H \subseteq 1 .. m /\ P \subseteq 1 .. m
    BY DEF Once
  <2> HIDE DEF O, B, H, P, m
  <2> QED
    BY <1>3, <2>1, FS_Subset
<1>6. \A k \in 1 .. m : s[k].kind = "info" <=> s[k].dev # None
  BY DEF Listed
<1>7. \A j, k \in 1 .. m : s[j].kind = s[k].kind /\ s[j].kind \in {"hbeat", "reap"} => j = k
  BY <1>6 DEF Listed
<1>8. Cardinality(B) <= Cardinality(Devices)
  <2> DEFINE h == [k \in B |-> s[k].dev]
  <2>1. \A k \in B : h[k] \in Devices
    BY <1>2, <1>6
  <2>2. \A j, k \in B : h[j] = h[k] => j = k
    BY DEF Listed
  <2>3. h \in Injection(B, Devices)
    BY <2>1, <2>2 DEF Injection, IsInjective
  <2> HIDE DEF h, B
  <2> QED
    BY <1>5, <2>3, DeviceAssumption, FS_Injection
<1>9. Cardinality(H) <= 1 /\ Cardinality(P) <= 1
  <2>1. ASSUME NEW S, IsFiniteSet(S), \A j, k \in S : j = k
        PROVE  Cardinality(S) <= 1
    <3>1. CASE S = {}
      BY <3>1, FS_EmptySet
    <3>2. CASE S # {}
      <4>1. PICK k \in S : TRUE
        BY <3>2
      <4>2. S = {k}
        BY <2>1, <4>1
      <4>3. Cardinality(S) = 1
        BY <4>2, FS_Singleton
      <4> QED
        BY <4>3
    <3> QED
      BY <3>1, <3>2
  <2>2. (\A j, k \in H : j = k) /\ (\A j, k \in P : j = k)
    BY <1>7
  <2> HIDE DEF H, P
  <2> QED
    BY <1>5, <2>1, <2>2
<1>10. Cardinality(O) <= ONCE
  BY DEF Listed
<1> HIDE DEF O, B, H, P, m
<1>11. ASSUME NEW S, NEW U, IsFiniteSet(S), IsFiniteSet(U)
       PROVE  /\ IsFiniteSet(S \cup U) /\ Cardinality(S \cup U) <= Cardinality(S) + Cardinality(U)
              /\ Cardinality(S) \in Nat /\ Cardinality(U) \in Nat /\ Cardinality(S \cup U) \in Nat
  <2>1. IsFiniteSet(S \cup U) /\ Cardinality(S \cup U) = Cardinality(S) + Cardinality(U) - Cardinality(S \cap U)
    BY <1>11, FS_Union
  <2>2. IsFiniteSet(S \cap U)
    BY <1>11, FS_Intersection
  <2>3. Cardinality(S) \in Nat /\ Cardinality(U) \in Nat /\ Cardinality(S \cap U) \in Nat /\ Cardinality(S \cup U) \in Nat
    BY <1>11, <2>1, <2>2, FS_CardinalityType
  <2> QED
    BY <2>1, <2>3
<1>12. /\ IsFiniteSet(O \cup B) /\ Cardinality(O \cup B) <= Cardinality(O) + Cardinality(B)
       /\ Cardinality(O) \in Nat /\ Cardinality(B) \in Nat /\ Cardinality(O \cup B) \in Nat
  BY <1>5, <1>11
<1>13. /\ IsFiniteSet((O \cup B) \cup H) /\ Cardinality((O \cup B) \cup H) <= Cardinality(O \cup B) + Cardinality(H)
       /\ Cardinality(H) \in Nat /\ Cardinality((O \cup B) \cup H) \in Nat
  BY <1>5, <1>11, <1>12
<1>14. /\ Cardinality(((O \cup B) \cup H) \cup P) <= Cardinality((O \cup B) \cup H) + Cardinality(P)
       /\ Cardinality(P) \in Nat
  BY <1>5, <1>11, <1>13
<1>15. Cardinality(Devices) \in Nat /\ ONCE \in Nat
  BY DeviceAssumption, FS_CardinalityType, Times
<1>16. m <= Cardinality((O \cup B) \cup H) + Cardinality(P)
  BY <1>3, <1>4, <1>14
<1> QED
  BY <1>1, <1>8, <1>9, <1>10, <1>12, <1>13, <1>14, <1>15, <1>16 DEF MAXT, m

(* Timers are set and none is started or deleted.                           *)
LEMMA ListedSame ==
    ASSUME NEW s \in Seq(TimerType), NEW u \in Seq(TimerType), Listed(s), Len(u) = Len(s),
           \A k \in 1 .. Len(s) : /\ u[k].kind = s[k].kind /\ u[k].dev = s[k].dev
                                  /\ u[k].due <= Interval(u[k].kind)
    PROVE  Listed(u)
<1>1. Once(u) = Once(s)
  BY DEF Once
<1> QED
  BY <1>1 DEF Listed

(* A timer is started.                                                      *)
LEMMA ListedAppend ==
    ASSUME NEW s \in Seq(TimerType), NEW e \in TimerType, Listed(s), e.due <= Interval(e.kind),
           \/ e.kind = "once" /\ e.dev = None /\ Cardinality(Once(s)) < ONCE
           \/ e.kind = "info" /\ e.dev # None /\ \A k \in 1 .. Len(s) : s[k].kind = "info" => s[k].dev # e.dev
    PROVE  Listed(Append(s, e))
<1> DEFINE m == Len(s)
           u == Append(s, e)
<1>1. /\ m \in Nat /\ u \in Seq(TimerType) /\ Len(u) = m + 1 /\ u[m + 1] = e
      /\ \A k \in 1 .. m : u[k] = s[k]
  OBVIOUS
<1> HIDE DEF u, m
<1>2. 1 \in 1 .. m + 1 /\ u[1].kind = "hbeat"
  BY <1>1 DEF Listed, m
<1>3. \A j, k \in 1 .. m + 1 : u[j].kind = u[k].kind /\ u[j].dev = u[k].dev /\ u[j].kind # "once" => j = k
  <2> SUFFICES ASSUME NEW j \in 1 .. m + 1, NEW k \in 1 .. m + 1, u[j].kind = u[k].kind, u[j].dev = u[k].dev,
                      u[j].kind # "once"
               PROVE  j = k
    OBVIOUS
  <2>1. CASE j \in 1 .. m /\ k \in 1 .. m
    BY <1>1, <2>1 DEF Listed, m
  <2>2. CASE j = m + 1 /\ k \in 1 .. m
    BY <1>1, <2>2 DEF m
  <2>3. CASE j \in 1 .. m /\ k = m + 1
    BY <1>1, <2>3 DEF m
  <2> QED
    BY <1>1, <2>1, <2>2, <2>3
<1>4. \A k \in 1 .. m + 1 : /\ u[k].kind = "info" <=> u[k].dev # None
                            /\ u[k].due <= Interval(u[k].kind)
  <2> SUFFICES ASSUME NEW k \in 1 .. m + 1
               PROVE  /\ u[k].kind = "info" <=> u[k].dev # None
                      /\ u[k].due <= Interval(u[k].kind)
    OBVIOUS
  <2>1. CASE k \in 1 .. m
    BY <1>1, <2>1 DEF Listed, m
  <2>2. CASE k = m + 1
    BY <1>1, <2>2
  <2> QED
    BY <1>1, <2>1, <2>2
<1>5. Cardinality(Once(u)) <= ONCE
  <2>1. CASE e.kind = "info"
    <3>1. Once(u) = Once(s)
      BY <1>1, <2>1 DEF Once, m
    <3> QED
      BY <3>1 DEF Listed
  <2>2. CASE e.kind = "once"
    <3>1. Once(u) = Once(s) \cup {m + 1} /\ m + 1 \notin Once(s)
      BY <1>1, <2>2 DEF Once, m
    <3>2. IsFiniteSet(Once(s))
      <4>1. Once(s) \subseteq 1 .. m
        BY DEF Once, m
      <4>2. IsFiniteSet(1 .. m)
        BY <1>1, FS_Interval
      <4> QED
        BY <4>1, <4>2, FS_Subset
    <3>3. Cardinality(Once(u)) = Cardinality(Once(s)) + 1 /\ Cardinality(Once(s)) \in Nat
      BY <3>1, <3>2, FS_AddElement, FS_CardinalityType
    <3> QED
      BY <2>2, <3>3, Times
  <2> QED
    BY <2>1, <2>2
<1> QED
  BY <1>1, <1>2, <1>3, <1>4, <1>5 DEF Listed, u

(* A timer is deleted: those behind it move up.                             *)
LEMMA ListedRemove ==
    ASSUME NEW s \in Seq(TimerType), Listed(s), NEW i \in 1 .. Len(s), s[i].kind # "hbeat"
    PROVE  Listed(RemoveAt(s, i))
<1> DEFINE m == Len(s)
           u == RemoveAt(s, i)
           h(k) == IF k < i THEN k ELSE k + 1
<1>1. /\ u \in Seq(TimerType) /\ Len(u) = m - 1
      /\ \A k \in 1 .. m - 1 : u[k] = IF k < i THEN s[k] ELSE s[k + 1]
  BY RemoveAtProperties
<1>2. m \in Nat /\ i \in 1 .. m /\ i # 1
  BY DEF Listed
<1> HIDE DEF u, m
<1>3. /\ \A k \in 1 .. m - 1 : h(k) \in 1 .. m /\ u[k] = s[h(k)]
      /\ \A j, k \in 1 .. m - 1 : h(j) = h(k) => j = k
  <2>1. ASSUME NEW k \in 1 .. m - 1
        PROVE  h(k) \in 1 .. m /\ u[k] = s[h(k)]
    <3>1. u[k] = IF k < i THEN s[k] ELSE s[k + 1]
      BY <1>1
    <3> QED
      BY <1>2, <3>1
  <2>2. \A j, k \in 1 .. m - 1 : h(j) = h(k) => j = k
    BY <1>2
  <2> QED
    BY <2>1, <2>2
<1>4. 1 \in 1 .. m - 1 /\ u[1].kind = "hbeat"
  BY <1>1, <1>2 DEF Listed
<1>5. Cardinality(Once(u)) <= ONCE
  <2> DEFINE g == [k \in Once(u) |-> h(k)]
  <2>1. \A k \in Once(u) : k \in 1 .. m - 1 /\ g[k] = h(k) /\ h(k) \in Once(s)
    BY <1>1, <1>3 DEF Once, m
  <2>2. g \in Injection(Once(u), Once(s))
    BY <1>3, <2>1 DEF Injection, IsInjective
  <2>3. IsFiniteSet(Once(s))
    <3>1. Once(s) \subseteq 1 .. m
      BY DEF Once, m
    <3>2. IsFiniteSet(1 .. m)
      BY <1>2, FS_Interval
    <3> QED
      BY <3>1, <3>2, FS_Subset
  <2>4. IsFiniteSet(Once(u)) /\ Cardinality(Once(u)) <= Cardinality(Once(s))
    BY <2>2, <2>3, FS_Injection
  <2>5. Cardinality(Once(s)) <= ONCE
    BY DEF Listed
  <2>6. Cardinality(Once(u)) \in Nat /\ Cardinality(Once(s)) \in Nat /\ ONCE \in Nat
    BY <2>3, <2>4, FS_CardinalityType, Times
  <2> QED
    BY <2>4, <2>5, <2>6
<1> HIDE DEF h
<1>6. \A j, k \in 1 .. m - 1 : u[j].kind = u[k].kind /\ u[j].dev = u[k].dev /\ u[j].kind # "once" => j = k
  BY <1>3 DEF Listed, m
<1>7. \A k \in 1 .. m - 1 : /\ u[k].kind = "info" <=> u[k].dev # None
                            /\ u[k].due <= Interval(u[k].kind)
  BY <1>3 DEF Listed, m
<1> QED
  BY <1>1, <1>4, <1>5, <1>6, <1>7 DEF Listed, u

LEMMA TimerTyped ==
    /\ \A d \in Devices : Timer("info", d) \in TimerType
    /\ \A kind \in {"hbeat", "reap", "once"} : Timer(kind, None) \in TimerType
    /\ \A kind, d : /\ Timer(kind, d).kind = kind /\ Timer(kind, d).dev = d
                    /\ Timer(kind, d).due = Interval(kind) /\ Timer(kind, d).missed = 0
<1>1. \A kind \in {"hbeat", "reap", "info", "once"} : Interval(kind) \in Int
  BY Times
<1> QED
  BY <1>1 DEF Timer, TimerType

(* The timers at the start, with q one-shot timers of applets.              *)
LEMMA TimersAtStart ==
    ASSUME NEW q \in 0 .. ONCE
    PROVE  LET s == <<Timer("hbeat", None)>> \o [j \in 1 .. q |-> Timer("once", None)]
                       \o [j \in DOMAIN Known |-> Timer("info", Known[j])] \o <<Timer("reap", None)>>
               K == Len(Known)
           IN  /\ s \in Seq(TimerType) /\ Len(s) = q + K + 2 /\ K \in Nat
               /\ s[1] = Timer("hbeat", None) /\ s[q + K + 2] = Timer("reap", None)
               /\ \A k \in 2 .. q + 1 : s[k] = Timer("once", None)
               /\ \A k \in q + 2 .. q + K + 1 : s[k] = Timer("info", Known[k - q - 1])
<1> DEFINE K == Len(Known)
           a == <<Timer("hbeat", None)>>
           b == [j \in 1 .. q |-> Timer("once", None)]
           c == [j \in DOMAIN Known |-> Timer("info", Known[j])]
           e == <<Timer("reap", None)>>
<1>1. Known \in Seq(Devices) /\ K \in Nat /\ DOMAIN Known = 1 .. K /\ \A j \in 1 .. K : Known[j] \in Devices
  BY DeviceAssumption
<1>2. q \in Nat
  BY Times
<1>3. /\ a \in Seq(TimerType) /\ Len(a) = 1 /\ a[1] = Timer("hbeat", None)
      /\ e \in Seq(TimerType) /\ Len(e) = 1 /\ e[1] = Timer("reap", None)
  BY TimerTyped
<1>4. b \in Seq(TimerType) /\ Len(b) = q /\ \A j \in 1 .. q : b[j] = Timer("once", None)
  BY <1>2, TimerTyped
<1>5. c \in Seq(TimerType) /\ Len(c) = K /\ \A j \in 1 .. K : c[j] = Timer("info", Known[j])
  BY <1>1, TimerTyped
<1> HIDE DEF a, b, c, e, K
<1> DEFINE ab == a \o b
           abc == ab \o c
           s == abc \o e
<1>6. /\ ab \in Seq(TimerType) /\ Len(ab) = q + 1 /\ ab[1] = Timer("hbeat", None)
      /\ \A k \in 2 .. q + 1 : ab[k] = Timer("once", None)
  <2>1. /\ ab \in Seq(TimerType) /\ Len(ab) = Len(a) + Len(b)
        /\ \A j \in 1 .. Len(a) + Len(b) : ab[j] = IF j <= Len(a) THEN a[j] ELSE b[j - Len(a)]
    BY <1>3, <1>4, ConcatProperties
  <2> HIDE DEF ab
  <2>2. /\ Len(ab) = q + 1 /\ \A j \in 1 .. q + 1 : ab[j] = IF j <= 1 THEN a[j] ELSE b[j - 1]
    BY <1>2, <1>3, <1>4, <2>1
  <2> QED
    BY <1>2, <1>3, <1>4, <2>1, <2>2
<1> HIDE DEF ab
<1>7. /\ abc \in Seq(TimerType) /\ Len(abc) = q + K + 1 /\ abc[1] = Timer("hbeat", None)
      /\ \A k \in 2 .. q + 1 : abc[k] = Timer("once", None)
      /\ \A k \in q + 2 .. q + K + 1 : abc[k] = Timer("info", Known[k - q - 1])
  <2>1. /\ abc \in Seq(TimerType) /\ Len(abc) = Len(ab) + Len(c)
        /\ \A j \in 1 .. Len(ab) + Len(c) : abc[j] = IF j <= Len(ab) THEN ab[j] ELSE c[j - Len(ab)]
    BY <1>5, <1>6, ConcatProperties
  <2> HIDE DEF abc
  <2>2. /\ Len(abc) = q + K + 1
        /\ \A j \in 1 .. q + K + 1 : abc[j] = IF j <= q + 1 THEN ab[j] ELSE c[j - (q + 1)]
    BY <1>1, <1>2, <1>5, <1>6, <2>1
  <2>3. \A k \in q + 2 .. q + K + 1 : abc[k] = c[k - (q + 1)] /\ k - (q + 1) \in 1 .. K /\ k - (q + 1) = k - q - 1
    BY <1>1, <1>2, <2>2
  <2>4. \A k \in 1 .. q + 1 : abc[k] = ab[k]
    BY <1>1, <1>2, <2>2
  <2> QED
    BY <1>1, <1>2, <1>5, <1>6, <2>1, <2>2, <2>3, <2>4
<1> HIDE DEF abc
<1>8. /\ s \in Seq(TimerType) /\ Len(s) = q + K + 2 /\ s[q + K + 2] = Timer("reap", None)
      /\ \A k \in 1 .. q + K + 1 : s[k] = abc[k]
  <2>1. /\ s \in Seq(TimerType) /\ Len(s) = Len(abc) + Len(e)
        /\ \A j \in 1 .. Len(abc) + Len(e) : s[j] = IF j <= Len(abc) THEN abc[j] ELSE e[j - Len(abc)]
    BY <1>3, <1>7, ConcatProperties
  <2> HIDE DEF s
  <2>2. /\ Len(s) = q + K + 2
        /\ \A j \in 1 .. q + K + 2 : s[j] = IF j <= q + K + 1 THEN abc[j] ELSE e[j - (q + K + 1)]
    BY <1>1, <1>2, <1>3, <1>7, <2>1
  <2>3. s[q + K + 2] = e[1]
    BY <1>1, <1>2, <2>2
  <2> QED
    BY <1>1, <1>2, <1>3, <2>1, <2>2, <2>3
<1> HIDE DEF s
<1>9. /\ s[1] = Timer("hbeat", None) /\ \A k \in 2 .. q + 1 : s[k] = Timer("once", None)
      /\ \A k \in q + 2 .. q + K + 1 : s[k] = Timer("info", Known[k - q - 1])
  <2>1. 1 \in 1 .. q + K + 1 /\ 2 .. q + 1 \subseteq 1 .. q + K + 1 /\ q + 2 .. q + K + 1 \subseteq 1 .. q + K + 1
    BY <1>1, <1>2
  <2>2. \A k \in q + 2 .. q + K + 1 : s[k] = abc[k]
    BY <1>8, <2>1
  <2>3. \A k \in 2 .. q + 1 : s[k] = abc[k]
    BY <1>8, <2>1
  <2>4. s[1] = abc[1]
    BY <1>8, <2>1
  <2> QED
    BY <1>7, <2>2, <2>3, <2>4
<1> QED
  BY <1>1, <1>8, <1>9 DEF s, abc, ab, a, b, c, e, K

LEMMA ListedAtStart ==
    ASSUME NEW q \in 0 .. ONCE, NEW s \in Seq(TimerType), NEW K \in Nat, K = Len(Known), Len(s) = q + K + 2,
           s[1] = Timer("hbeat", None), s[q + K + 2] = Timer("reap", None),
           \A k \in 2 .. q + 1 : s[k] = Timer("once", None),
           \A k \in q + 2 .. q + K + 1 : s[k] = Timer("info", Known[k - q - 1])
    PROVE  Listed(s)
<1>1. q \in Nat /\ ONCE \in Nat
  BY Times
<1>2. \A j \in 1 .. K : Known[j] \in Devices /\ Known[j] # None
  BY DeviceAssumption
<1>3. \A i, j \in 1 .. K : Known[i] = Known[j] => i = j
  BY DeviceAssumption DEF IsInjective
<1>4. ASSUME NEW k \in 1 .. q + K + 2
      PROVE  \/ k = 1 /\ s[k].kind = "hbeat" /\ s[k].dev = None
             \/ k = q + K + 2 /\ s[k].kind = "reap" /\ s[k].dev = None
             \/ k \in 2 .. q + 1 /\ s[k].kind = "once" /\ s[k].dev = None
             \/ k \in q + 2 .. q + K + 1 /\ s[k].kind = "info" /\ s[k].dev = Known[k - q - 1] /\ k - q - 1 \in 1 .. K
  <2>1. CASE k = 1
    BY <2>1, TimerTyped
  <2>2. CASE k = q + K + 2
    BY <2>2, TimerTyped
  <2>3. CASE k \in 2 .. q + 1
    BY <2>3, TimerTyped
  <2>4. CASE k \in q + 2 .. q + K + 1
    <3>1. k - q - 1 \in 1 .. K
      BY <1>1, <2>4
    <3> QED
      BY <2>4, <3>1, TimerTyped
  <2> QED
    BY <1>1, <2>1, <2>2, <2>3, <2>4
<1>5. \A k \in 1 .. q + K + 2 : s[k].due = Interval(s[k].kind) /\ s[k].kind \in {"hbeat", "reap", "info", "once"}
  <2> SUFFICES ASSUME NEW k \in 1 .. q + K + 2
               PROVE  s[k].due = Interval(s[k].kind) /\ s[k].kind \in {"hbeat", "reap", "info", "once"}
    OBVIOUS
  <2>1. \E kind, d : s[k] = Timer(kind, d)
    BY <1>1
  <2> QED
    BY <1>4, <2>1, TimerTyped
<1>6. \A k \in 1 .. q + K + 2 : s[k].due <= Interval(s[k].kind)
  BY <1>5, Times
<1>7. \A k \in 1 .. q + K + 2 : s[k].kind = "info" <=> s[k].dev # None
  BY <1>2, <1>4
<1>8. ASSUME NEW j \in 1 .. q + K + 2, NEW k \in 1 .. q + K + 2,
             s[j].kind = s[k].kind, s[j].dev = s[k].dev, s[j].kind # "once"
      PROVE  j = k
  <2>1. CASE s[j].kind = "info"
    <3>1. /\ j \in q + 2 .. q + K + 1 /\ s[j].dev = Known[j - q - 1] /\ j - q - 1 \in 1 .. K
          /\ k \in q + 2 .. q + K + 1 /\ s[k].dev = Known[k - q - 1] /\ k - q - 1 \in 1 .. K
      BY <1>4, <1>8, <2>1
    <3>2. j - q - 1 = k - q - 1
      BY <1>3, <1>8, <3>1
    <3> QED
      BY <1>1, <3>1, <3>2
  <2>2. CASE s[j].kind # "info"
    BY <1>4, <1>8, <2>2
  <2> QED
    BY <2>1, <2>2
<1>9. Cardinality(Once(s)) <= ONCE
  <2>1. Once(s) = 2 .. q + 1
    <3>1. \A k \in 1 .. q + K + 2 : s[k].kind = "once" <=> k \in 2 .. q + 1
      BY <1>1, <1>4
    <3>2. 2 .. q + 1 \subseteq 1 .. q + K + 2
      BY <1>1
    <3> QED
      BY <3>1, <3>2 DEF Once
  <2>2. Cardinality(2 .. q + 1) = IF 2 > q + 1 THEN 0 ELSE (q + 1) - 2 + 1
    BY <1>1, FS_Interval
  <2> QED
    BY <1>1, <2>1, <2>2
<1>10. 1 \in 1 .. q + K + 2 /\ s[1].kind = "hbeat"
  BY <1>1, TimerTyped
<1> QED
  BY <1>6, <1>7, <1>8, <1>9, <1>10 DEF Listed

LEMMA InitIInv == Init => IInv
<1> SUFFICES ASSUME Init
             PROVE  IInv
  OBVIOUS
<1> DEFINE K == Len(Known)
<1>1. PICK q \in 0 .. ONCE :
         timers = <<Timer("hbeat", None)>> \o [j \in 1 .. q |-> Timer("once", None)]
                      \o [j \in DOMAIN Known |-> Timer("info", Known[j])] \o <<Timer("reap", None)>>
  BY DEF Init
<1>2. /\ timers \in Seq(TimerType) /\ Len(timers) = q + K + 2 /\ K \in Nat
      /\ timers[1] = Timer("hbeat", None) /\ timers[q + K + 2] = Timer("reap", None)
      /\ \A k \in 2 .. q + 1 : timers[k] = Timer("once", None)
      /\ \A k \in q + 2 .. q + K + 1 : timers[k] = Timer("info", Known[k - q - 1])
  BY <1>1, TimersAtStart
<1>3. Listed(timers)
  BY <1>2, ListedAtStart
<1>4. Len(timers) <= MAXT /\ MAXT \in Nat /\ Len(timers) \in Nat
  BY <1>2, <1>3, ListedLength, MAXTNat
<1>5. /\ up = TRUE /\ filters = Known /\ cfg = KnownSet /\ f = Newest(Known) /\ t = Newest(Known)
      /\ fDestroyed = FALSE /\ away = [d \in Devices |-> LONG] /\ seen = [d \in Devices |-> "?"]
      /\ at = 0 /\ n = 0 /\ todo = {} /\ walked = FALSE
      /\ node = [d \in Devices |->
                  IF d \in KnownSet THEN [is |-> "live", state |-> "?", isAlive |-> FALSE] ELSE Missing]
  BY DEF Init
<1>6. /\ Known \in Seq(Devices) /\ KnownSet \subseteq Devices /\ None \notin Devices /\ DOMAIN Known = 1 .. K
      /\ \A j \in 1 .. K : Known[j] \in KnownSet
      /\ \A d \in KnownSet : \E j \in 1 .. K : d = Known[j]
  BY DeviceAssumption DEF KnownSet, Range
<1>7. q \in Nat /\ LONG \in Nat /\ ONCE \in Nat /\ PERIOD \in Nat /\ PERIOD > 0
  BY Times
<1>8. \A d \in Devices : /\ node[d] \in NodeType
                         /\ node[d].is = "live" <=> d \in KnownSet
                         /\ node[d].is \in {"live", "missing"}
                         /\ d \in KnownSet => node[d].state = "?" /\ node[d].isAlive = FALSE
  BY <1>5 DEF NodeType, Missing
<1>9. TypeOK
  <2>1. Newest(Known) \in KnownSet \cup {None}
    BY <1>2, <1>6 DEF Newest
  <2>2. node \in [Devices -> NodeType]
    BY <1>5, <1>8
  <2>3. cfg \subseteq {d \in Devices : node[d].is = "live"}
    BY <1>5, <1>6, <1>8
  <2>4. at \in 0 .. n + 1 /\ n \in 0 .. MAXT /\ away \in [Devices -> 0 .. LONG]
    BY <1>4, <1>5, <1>7
  <2>5. up \in BOOLEAN /\ fDestroyed \in BOOLEAN /\ walked \in BOOLEAN
    BY <1>5
  <2>6. {f, t} \subseteq Devices \cup {None}
    BY <1>5, <1>6, <2>1
  <2>7. seen \in [Devices -> {"on", "off", "?"}] /\ todo \subseteq cfg /\ filters \in Seq(Devices)
    BY <1>5, <1>6
  <2> QED
    BY <1>2, <1>4, <2>2, <2>3, <2>4, <2>5, <2>6, <2>7 DEF TypeOK, TimerType, NodeType
<1>10. Owned
  <2> SUFFICES ASSUME NEW k \in 1 .. Len(timers), timers[k].kind = "info"
               PROVE  node[timers[k].dev].is # "missing"
    BY DEF Owned
  <2>1. k \in q + 2 .. q + K + 1
    <3>1. k # 1 /\ k # q + K + 2 /\ k \notin 2 .. q + 1
      BY <1>2, TimerTyped
    <3> QED
      BY <1>2, <1>7, <3>1
  <2>2. k - q - 1 \in 1 .. K
    BY <1>2, <1>7, <2>1
  <2>3. timers[k].dev = Known[k - q - 1]
    BY <1>2, <2>1, TimerTyped
  <2> QED
    BY <1>6, <1>8, <2>2, <2>3
<1>11. Entries
  <2>1. \A d \in Devices : EntryOf(d)
    <3> SUFFICES ASSUME NEW d \in Devices
                 PROVE  EntryOf(d)
      OBVIOUS
    <3>1. seen[d] = "?" /\ seen[d] # "on"
      BY <1>5
    <3>2. node[d].is = "live" => d \in cfg /\ node[d].state = "?" /\ ~node[d].isAlive
      BY <1>5, <1>8
    <3>3. "?" # None
      BY DeviceAssumption
    <3> QED
      BY <3>1, <3>2, <3>3 DEF EntryOf
  <2> QED
    BY <1>5, <1>6, <1>8, <2>1 DEF Entries
<1>12. Walk
  BY <1>5 DEF Walk
<1>13. Moved
  <2> SUFFICES ASSUME NEW k \in 1 .. Len(timers)
               PROVE  MovedAt(k, timers[k], at, todo # {})
    BY DEF Moved
  <2>1. \E kind, d : timers[k] = Timer(kind, d)
    BY <1>2, <1>7
  <2>2. timers[k].missed = 0
    BY <2>1, TimerTyped
  <2> QED
    BY <1>4, <1>5, <2>2 DEF MovedAt
<1>14. Reaped
  <2> DEFINE p == q + K + 2
  <2>1. p \in 1 .. Len(timers) /\ p \in Nat
    BY <1>2, <1>7
  <2>2. timers[p].kind = "reap" /\ timers[p].due = PERIOD
    BY <1>2, TimerTyped, Times
  <2>3. Known = <<>> => K = 0 /\ p <= ONCE + 2
    BY <1>2, <1>7
  <2>4. ASSUME Known # <<>>
        PROVE  p > 1 /\ timers[p - 1].kind = "info" /\ timers[p - 1].dev \in KnownSet
    <3>1. K > 0
      BY <1>2, <1>6, <2>4
    <3>2. p - 1 = q + K + 1 /\ p - 1 \in q + 2 .. q + K + 1 /\ K = (q + K + 1) - q - 1 /\ p > 1 /\ K \in 1 .. K
      BY <1>2, <1>7, <3>1
    <3>3. timers[p - 1] = Timer("info", Known[K])
      BY <1>2, <3>2
    <3> QED
      BY <1>6, <3>2, <3>3, TimerTyped
  <2> HIDE DEF p
  <2>5. Slack(p) \in Nat
    BY <1>7, <2>1, <2>3 DEF Slack
  <2>6. ReaperAt(p)
    BY <1>5, <1>7, <2>2, <2>3, <2>4, <2>5 DEF ReaperAt
  <2> QED
    BY <2>1, <2>6 DEF Reaped
<1> QED
  BY <1>3, <1>9, <1>10, <1>11, <1>12, <1>13, <1>14 DEF IInv

-----------------------------------------------------------------------------
(***************************************************************************)
(* The steps.                                                              *)
(***************************************************************************)

LEMMA Now ==
    ASSUME IInv
    PROVE  /\ timers \in Seq(TimerType) /\ DOMAIN timers = 1 .. Len(timers) /\ Len(timers) \in Nat
           /\ \A k \in 1 .. Len(timers) : /\ timers[k] \in TimerType /\ timers[k].due \in Int
                                          /\ timers[k].missed \in Nat
                                          /\ timers[k].kind \in {"hbeat", "reap", "info", "once"}
                                          /\ timers[k].dev \in Devices \cup {None}
                                          /\ timers[k].kind = "info" => timers[k].dev \in Devices
                                          /\ timers[k].due <= Interval(timers[k].kind)
           /\ Len(timers) <= MAXT /\ MAXT \in Nat
           /\ node \in [Devices -> NodeType] /\ cfg \subseteq Devices /\ KnownSet \subseteq Devices
           /\ away \in [Devices -> Nat] /\ away \in [Devices -> 0 .. LONG]
           /\ seen \in [Devices -> {"on", "off", "?"}]
           /\ todo \subseteq cfg /\ todo \subseteq Devices /\ at \in Nat /\ n \in Nat
           /\ at \in 0 .. n + 1 /\ n \in 0 .. MAXT
<1>1. /\ timers \in Seq(TimerType) /\ Len(timers) <= MAXT
      /\ node \in [Devices -> NodeType] /\ cfg \subseteq {d \in Devices : node[d].is = "live"}
      /\ away \in [Devices -> 0 .. LONG] /\ seen \in [Devices -> {"on", "off", "?"}]
      /\ todo \subseteq cfg /\ at \in 0 .. n + 1 /\ n \in 0 .. MAXT
  BY DEF IInv, TypeOK, TimerType, NodeType
<1>2. MAXT \in Nat /\ LONG \in Nat /\ KnownSet \subseteq Devices
  BY MAXTNat, Times, DeviceAssumption DEF KnownSet, Range
<1>3. ASSUME NEW k \in 1 .. Len(timers)
      PROVE  /\ timers[k] \in TimerType /\ timers[k].due \in Int
             /\ timers[k].missed \in Nat
             /\ timers[k].kind \in {"hbeat", "reap", "info", "once"}
             /\ timers[k].dev \in Devices \cup {None}
             /\ timers[k].kind = "info" => timers[k].dev \in Devices
             /\ timers[k].due <= Interval(timers[k].kind)
  <2>1. timers[k] \in TimerType
    BY <1>1
  <2>2. (timers[k].kind = "info" <=> timers[k].dev # None) /\ timers[k].due <= Interval(timers[k].kind)
    BY DEF IInv, Listed
  <2> QED
    BY <2>1, <2>2 DEF TimerType
<1>4. at \in Nat /\ n \in Nat
  BY <1>1, <1>2
<1> QED
  BY <1>1, <1>2, <1>3, <1>4

(* There is one reaper, and it is not in front.                             *)
LEMMA ReaperHere ==
    ASSUME IInv, NEW p \in 1 .. Len(timers), ReaperAt(p)
    PROVE  /\ p \in Nat /\ p >= 2 /\ Slack(p) \in Nat /\ Slack(p) <= Allowed
           /\ timers[p].due \in Int /\ timers[p].due <= PERIOD
           /\ \A k \in 1 .. Len(timers) : timers[k].kind = "reap" => k = p
<1>1. p \in Nat /\ timers[p].due \in Int /\ timers[p].kind = "reap" /\ timers[p].due <= Interval(timers[p].kind)
  BY Now DEF ReaperAt
<1>2. timers[1].kind = "hbeat"
  BY DEF IInv, Listed
<1>3. p >= 2
  BY <1>1, <1>2
<1>4. Known = <<>> => p <= ONCE + 2
  BY DEF ReaperAt
<1>5. Slack(p) \in Nat /\ Slack(p) <= Allowed
  BY <1>1, <1>3, <1>4, Times DEF Slack, Allowed
<1>6. \A k \in 1 .. Len(timers) : timers[k].kind = "reap" => k = p
  <2> SUFFICES ASSUME NEW k \in 1 .. Len(timers), timers[k].kind = "reap"
               PROVE  k = p
    OBVIOUS
  <2>1. timers[k].dev = None /\ timers[p].dev = None
    BY <1>1 DEF IInv, Listed
  <2> QED
    BY <1>1, <2>1 DEF IInv, Listed
<1>7. timers[p].due <= PERIOD
  BY <1>1, Times
<1> QED
  BY <1>1, <1>3, <1>5, <1>6, <1>7

(* A step that starts and deletes no timer and makes and destroys no        *)
(* endpoint.                                                                *)
LEMMA StepKeeps ==
    ASSUME IInv, UNCHANGED <<filters, cfg, f, t, fDestroyed>>,
           timers' \in Seq(TimerType), Len(timers') = Len(timers),
           \A k \in 1 .. Len(timers) : /\ timers'[k].kind = timers[k].kind
                                       /\ timers'[k].dev = timers[k].dev
                                       /\ timers'[k].due <= Interval(timers[k].kind),
           node' \in [Devices -> NodeType], \A d \in Devices : node'[d].is = node[d].is,
           up' \in BOOLEAN, walked' \in BOOLEAN, away' \in [Devices -> 0 .. LONG],
           seen' \in [Devices -> {"on", "off", "?"}],
           todo' \subseteq cfg, at' \in 0 .. n' + 1, n' \in 0 .. MAXT,
           \A d \in Devices : EntryOf(d)',
           Walk', Moved', Reaped'
    PROVE  IInv'
<1>1. Listed(timers')
  <2>1. timers \in Seq(TimerType) /\ Listed(timers)
    BY Now DEF IInv
  <2>2. \A k \in 1 .. Len(timers) : timers'[k].due <= Interval(timers'[k].kind)
    OBVIOUS
  <2> QED
    BY <2>1, <2>2, ListedSame
<1>2. TypeOK'
  <2>1. cfg' \subseteq {d \in Devices : node'[d].is = "live"}
    BY DEF IInv, TypeOK
  <2>2. Len(timers') <= MAXT
    BY Now
  <2> QED
    BY <2>1, <2>2 DEF IInv, TypeOK, TimerType, NodeType
<1>3. Owned'
  <2> SUFFICES ASSUME NEW k \in 1 .. Len(timers'), timers'[k].kind = "info"
               PROVE  node'[timers'[k].dev].is # "missing"
    BY DEF Owned
  <2>1. timers[k].kind = "info" /\ timers'[k].dev = timers[k].dev /\ timers[k].dev \in Devices
    BY Now
  <2>2. node[timers[k].dev].is # "missing"
    BY <2>1 DEF IInv, Owned
  <2> QED
    BY <2>1, <2>2
<1>4. Entries'
  <2>1. KnownSet \subseteq Devices
    BY Now
  <2> QED
    BY <2>1 DEF IInv, Entries
<1>5. Listed(timers)'
  BY <1>1 DEF Listed, Once
<1> QED
  BY <1>2, <1>3, <1>4, <1>5 DEF IInv

(* What is reported of an endpoint between walks.                           *)
LEMMA MessageStep ==
    ASSUME IInv, NEW d \in Devices, process_Live(d) \/ process_Emptied(d) \/ Query(d)
    PROVE  IInv'
<1>1. /\ up /\ at = 0 /\ UNCHANGED <<timers, filters, cfg, f, t, fDestroyed, at, n, todo, walked>>
  BY DEF process_Live, process_Emptied, Query, Idle, Crash
<1>2. /\ timers' \in Seq(TimerType) /\ Len(timers') = Len(timers)
      /\ \A k \in 1 .. Len(timers) : /\ timers'[k].kind = timers[k].kind
                                     /\ timers'[k].dev = timers[k].dev
                                     /\ timers'[k].due <= Interval(timers[k].kind)
      /\ walked' \in BOOLEAN /\ todo' \subseteq cfg /\ at' \in 0 .. n' + 1 /\ n' \in 0 .. MAXT
  BY <1>1, Now DEF IInv, TypeOK
<1>3. Walk' /\ Moved'
  BY <1>1 DEF IInv, Walk, Moved
<1>4. ASSUME \A c \in Devices : up' /\ seen'[c] = "on" =>
                 (seen[c] = "on" /\ away'[c] = away[c]) \/ away'[c] = 0
      PROVE  Reaped'
  <2>1. PICK p \in 1 .. Len(timers) : ReaperAt(p)
    BY DEF IInv, Reaped
  <2>2. timers[p].due \in Int /\ timers[p].due <= PERIOD
    BY <2>1, ReaperHere
  <2>3. ASSUME NEW c \in Devices, up', seen'[c] = "on"
        PROVE  /\ away'[c] <= TTL + PERIOD + Allowed
               /\ c \notin todo' => away'[c] + timers'[p].due <= TTL + PERIOD
    <3>1. CASE away'[c] = 0
      BY <1>1, <2>2, <3>1, Times
    <3>2. CASE seen[c] = "on" /\ away'[c] = away[c]
      BY <1>1, <2>1, <3>2 DEF ReaperAt
    <3> QED
      BY <1>4, <2>3, <3>1, <3>2
  <2>4. ReaperAt(p)'
    BY <1>1, <2>1, <2>3 DEF ReaperAt, Slack
  <2> QED
    BY <1>1, <2>4 DEF Reaped
<1>5. node \in [Devices -> NodeType] /\ seen \in [Devices -> {"on", "off", "?"}] /\ away \in [Devices -> 0 .. LONG] /\ 0 \in 0 .. LONG
  <2>1. 0 \in 0 .. LONG
    BY Times
  <2> QED
    BY <2>1, Now
<1>6. \A c \in Devices : EntryOf(c)
  BY DEF IInv, Entries
<1>7. CASE process_Live(d)
  <2> DEFINE e == [node[d] EXCEPT !.state = "on", !.isAlive = TRUE]
             s == IF node[d].state = "on" THEN seen[d] ELSE "on"
  <2>1. /\ node[d].is = "live" /\ node' = [node EXCEPT ![d] = e] /\ seen' = [seen EXCEPT ![d] = s]
        /\ away' = [away EXCEPT ![d] = 0] /\ up' = up
    BY <1>5, <1>7 DEF process_Live, Changed
  <2>2. node[d] \in NodeType /\ e \in NodeType /\ e.is = "live" /\ e.state = "on" /\ e.isAlive
    BY <1>5, <2>1 DEF NodeType
  <2>3. s = "on"
    BY <1>1, <1>6, <2>1 DEF EntryOf
  <2> HIDE DEF e, s
  <2>4. /\ node' \in [Devices -> NodeType] /\ node'[d] = e /\ \A c \in Devices : c # d => node'[c] = node[c]
    BY <1>5, <2>1, <2>2
  <2>5. /\ seen' \in [Devices -> {"on", "off", "?"}] /\ seen'[d] = "on" /\ \A c \in Devices : c # d => seen'[c] = seen[c]
        /\ away' \in [Devices -> 0 .. LONG] /\ away'[d] = 0 /\ \A c \in Devices : c # d => away'[c] = away[c]
    BY <1>5, <2>1, <2>3
  <2>6. ASSUME NEW c \in Devices
        PROVE  EntryOf(c)' /\ node'[c].is = node[c].is
    <3>1. CASE c = d
      <4>1. "on" # None /\ d \in cfg
        BY <1>6, <2>1, DeviceAssumption DEF EntryOf
      <4> QED
        BY <1>1, <2>1, <2>2, <2>4, <2>5, <3>1, <4>1 DEF EntryOf
    <3>2. CASE c # d
      BY <1>1, <1>6, <2>1, <2>4, <2>5, <3>2 DEF EntryOf
    <3> QED
      BY <3>1, <3>2
  <2>7. Reaped'
    BY <1>4, <2>5
  <2> QED
    BY <1>1, <1>2, <1>3, <2>1, <2>4, <2>5, <2>6, <2>7, StepKeeps
<1>8. CASE process_Emptied(d)
  <2> DEFINE e == [node[d] EXCEPT !.isAlive = TRUE]
  <2>1. /\ node[d].is = "emptied" /\ node' = [node EXCEPT ![d] = e] /\ seen' = seen
        /\ away' = [away EXCEPT ![d] = 0] /\ up' = up
    BY <1>8 DEF process_Emptied
  <2>2. node[d] \in NodeType /\ e \in NodeType /\ e.is = "emptied"
    BY <1>5, <2>1 DEF NodeType
  <2> HIDE DEF e
  <2>3. /\ node' \in [Devices -> NodeType] /\ node'[d] = e /\ \A c \in Devices : c # d => node'[c] = node[c]
    BY <1>5, <2>1, <2>2
  <2>4. away' \in [Devices -> 0 .. LONG] /\ away'[d] = 0 /\ \A c \in Devices : c # d => away'[c] = away[c]
    BY <1>5, <2>1
  <2>5. ASSUME NEW c \in Devices
        PROVE  EntryOf(c)' /\ node'[c].is = node[c].is
    <3>1. CASE c = d
      BY <1>1, <1>6, <2>1, <2>2, <2>3, <3>1 DEF EntryOf
    <3>2. CASE c # d
      BY <1>1, <1>6, <2>1, <2>3, <3>2 DEF EntryOf
    <3> QED
      BY <3>1, <3>2
  <2>6. Reaped'
    BY <1>4, <2>1, <2>4
  <2> QED
    BY <1>1, <1>2, <1>3, <1>5, <2>1, <2>3, <2>4, <2>5, <2>6, StepKeeps
<1>9. CASE Query(d) /\ node[d].is = "live"
  <2>1. seen' = [seen EXCEPT ![d] = node[d].state] /\ node' = node /\ away' = away /\ up' = up
    BY <1>9 DEF Query
  <2>2. node[d] \in NodeType /\ node[d].state \in {"on", "off", "?"} /\ (node[d].state = "on" <=> seen[d] = "on")
    <3>1. node[d] \in NodeType
      BY <1>5
    <3>2. node[d].state # None /\ (node[d].state = "on" <=> seen[d] = "on")
      BY <1>1, <1>6, <1>9 DEF EntryOf
    <3> QED
      BY <3>1, <3>2 DEF NodeType
  <2>3. /\ seen' \in [Devices -> {"on", "off", "?"}]
        /\ \A c \in Devices : seen'[c] = "on" <=> seen[c] = "on"
    BY <1>5, <2>1, <2>2
  <2>4. \A c \in Devices : EntryOf(c)'
    BY <1>1, <1>6, <2>1, <2>3 DEF EntryOf
  <2>5. Reaped'
    BY <1>4, <2>1, <2>3
  <2> QED
    BY <1>1, <1>2, <1>3, <1>5, <2>1, <2>3, <2>4, <2>5, StepKeeps
<1>10. CASE Query(d) /\ node[d].is # "live"
  <2>1. up' = FALSE /\ seen' = seen /\ node' = node /\ away' = away
    BY <1>10 DEF Query, Crash
  <2>2. \A c \in Devices : EntryOf(c)'
    BY <1>1, <1>6, <2>1 DEF EntryOf
  <2>3. Reaped'
    BY <1>4, <2>1
  <2> QED
    BY <1>1, <1>2, <1>3, <1>5, <2>1, <2>2, <2>3, StepKeeps
<1> QED
  BY <1>7, <1>8, <1>9, <1>10

(* A timer that is reset.                                                   *)
LEMMA ResetTimer ==
    ASSUME IInv, NEW k \in 1 .. Len(timers)
    PROVE  LET u == Reset(k) IN
           /\ u \in Seq(TimerType) /\ Len(u) = Len(timers)
           /\ \A j \in 1 .. Len(timers) : /\ u[j].kind = timers[j].kind /\ u[j].dev = timers[j].dev
                                          /\ u[j].due <= Interval(timers[j].kind)
                                          /\ j # k => u[j] = timers[j]
           /\ u[k].due = Interval(timers[k].kind) /\ u[k].due > 0 /\ u[k].due \in Int /\ u[k].missed = 0
<1> DEFINE i == Interval(timers[k].kind)
           e == [[timers[k] EXCEPT !.due = i] EXCEPT !.missed = 0]
           u == [timers EXCEPT ![k] = e]
<1>1. timers \in Seq(TimerType) /\ timers[k] \in TimerType /\ timers[k].kind \in {"hbeat", "reap", "info", "once"}
  BY Now
<1>2. Reset(k) = u
  BY <1>1 DEF Reset, TimerType
<1>3. i \in Int /\ i > 0
  BY <1>1, Times
<1> HIDE DEF i
<1>4. e \in TimerType /\ e.kind = timers[k].kind /\ e.dev = timers[k].dev /\ e.due = i /\ e.missed = 0
  BY <1>1, <1>3 DEF TimerType
<1> HIDE DEF e
<1>5. /\ u \in Seq(TimerType) /\ Len(u) = Len(timers) /\ u[k] = e
      /\ \A j \in 1 .. Len(timers) : j # k => u[j] = timers[j]
  BY <1>1, <1>4
<1> HIDE DEF u
<1>6. \A j \in 1 .. Len(timers) : timers[j].due <= Interval(timers[j].kind)
  BY Now
<1>7. ASSUME NEW j \in 1 .. Len(timers)
      PROVE  u[j].kind = timers[j].kind /\ u[j].dev = timers[j].dev /\ u[j].due <= Interval(timers[j].kind)
  <2>1. CASE j = k
    BY <1>3, <1>4, <1>5, <2>1 DEF i
  <2>2. CASE j # k
    BY <1>5, <1>6, <2>2
  <2> QED
    BY <2>1, <2>2
<1> QED
  BY <1>2, <1>3, <1>4, <1>5, <1>7 DEF i

(* The walk goes on to the next timer.                                      *)
LEMMA NextStep ==
    ASSUME IInv, up, at \in 1 .. n, todo = {}, at' = at + 1,
           UNCHANGED <<up, filters, node, cfg, f, t, fDestroyed, away, n, todo, walked>>,
           timers' \in Seq(TimerType), Len(timers') = Len(timers),
           \A k \in 1 .. Len(timers) : /\ timers'[k].kind = timers[k].kind
                                       /\ timers'[k].dev = timers[k].dev
                                       /\ timers'[k].due <= Interval(timers[k].kind)
                                       /\ k # at \/ timers[k].kind = "reap" => timers'[k] = timers[k]
                                       /\ k = at => timers'[k].due > 0
                                       /\ timers'[k].missed \in {0, timers[k].missed},
           seen' \in [Devices -> {"on", "off", "?"}],
           \A d \in Devices : seen'[d] = "on" <=> seen[d] = "on"
    PROVE  IInv'
<1>1. at \in Nat /\ n \in Nat /\ n \in 0 .. MAXT /\ MAXT \in Nat /\ Len(timers) \in Nat /\ Len(timers) <= MAXT
  BY Now
<1>2. node' \in [Devices -> NodeType] /\ away' \in [Devices -> 0 .. LONG] /\ todo' \subseteq cfg
  BY Now
<1>3. at' \in 0 .. n' + 1 /\ n' \in 0 .. MAXT
  BY <1>1
<1>4. up' \in BOOLEAN /\ walked' \in BOOLEAN
  BY DEF IInv, TypeOK
<1>5. \A d \in Devices : EntryOf(d)'
  BY DEF IInv, Entries, EntryOf
<1>6. Walk'
  BY <1>1 DEF IInv, Walk
<1>7. Moved'
  <2> SUFFICES ASSUME NEW k \in 1 .. Len(timers)
               PROVE  MovedAt(k, timers'[k], at + 1, FALSE)
    BY DEF Moved
  <2>1. MovedAt(k, timers[k], at, FALSE) /\ timers[k].missed \in Nat
    BY Now DEF IInv, Moved
  <2>2. timers'[k].missed = 0 \/ timers'[k].missed = timers[k].missed
    OBVIOUS
  <2>3. k + timers'[k].missed <= MAXT
    BY <1>1, <2>1, <2>2 DEF MovedAt
  <2>4. CASE k = at
    <3>1. ~(timers'[k].due <= 0)
      <4>1. timers'[k] \in TimerType /\ timers'[k].due > 0
        BY <2>4
      <4>2. timers'[k].due \in Int
        BY <4>1 DEF TimerType
      <4> QED
        BY <4>1, <4>2
    <3> QED
      BY <2>3, <3>1 DEF MovedAt
  <2>5. CASE k # at
    <3>1. timers'[k] = timers[k] /\ (k < at + 1 => k < at)
      BY <1>1, <2>5
    <3> QED
      BY <2>1, <3>1 DEF MovedAt
  <2> QED
    BY <2>4, <2>5
<1>8. Reaped'
  <2>1. PICK p \in 1 .. Len(timers) : ReaperAt(p)
    BY DEF IInv, Reaped
  <2>2. timers[p].due \in Int /\ timers[p].kind = "reap" /\ timers'[p] = timers[p] /\ p \in Nat
    BY <2>1, ReaperHere DEF ReaperAt
  <2>3. p < at + 1 /\ timers'[p].due <= 0 => p < at
    BY <1>1, <2>2
  <2>4. ReaperAt(p)'
    BY <2>1, <2>2, <2>3 DEF ReaperAt, Slack
  <2> QED
    BY <2>4 DEF Reaped
<1> QED
  BY <1>2, <1>3, <1>4, <1>5, <1>6, <1>7, <1>8, StepKeeps

(* A process that has ended.                                                *)
LEMMA EndStep ==
    ASSUME IInv, up' = FALSE,
           UNCHANGED <<timers, filters, node, cfg, f, t, fDestroyed, away, at, n, todo, walked>>,
           seen' \in [Devices -> {"on", "off", "?"}], \A d \in KnownSet : seen'[d] = seen[d]
    PROVE  IInv'
<1>1. /\ timers' \in Seq(TimerType) /\ Len(timers') = Len(timers)
      /\ \A k \in 1 .. Len(timers) : /\ timers'[k].kind = timers[k].kind
                                     /\ timers'[k].dev = timers[k].dev
                                     /\ timers'[k].due <= Interval(timers[k].kind)
      /\ walked' \in BOOLEAN /\ todo' \subseteq cfg /\ at' \in 0 .. n' + 1 /\ n' \in 0 .. MAXT
      /\ node' \in [Devices -> NodeType] /\ away' \in [Devices -> 0 .. LONG] /\ up' \in BOOLEAN
  BY Now DEF IInv, TypeOK
<1>2. Walk' /\ Moved'
  BY DEF IInv, Walk, Moved
<1>3. \A d \in Devices : EntryOf(d)'
  BY DEF IInv, Entries, EntryOf
<1>4. Reaped'
  BY DEF IInv, Reaped, ReaperAt
<1> QED
  BY <1>1, <1>2, <1>3, <1>4, StepKeeps

LEMMA PassSteps ==
    ASSUME IInv, Pass \/ heartBeat \/ sendInfo
    PROVE  IInv'
<1>1. /\ timers \in Seq(TimerType) /\ DOMAIN timers = 1 .. Len(timers) /\ seen \in [Devices -> {"on", "off", "?"}]
      /\ node \in [Devices -> NodeType] /\ at \in Nat /\ n \in Nat /\ Len(timers) \in Nat
      /\ \A k \in 1 .. Len(timers) : timers[k].due <= Interval(timers[k].kind) /\ timers[k].dev \in Devices \cup {None}
  BY Now
<1>2. CASE Pass
  <2>1. /\ up /\ at \in 1 .. n /\ todo = {} /\ (at \in DOMAIN timers => timers[at].due > 0) /\ at' = at + 1
        /\ UNCHANGED <<up, timers, filters, node, cfg, f, t, fDestroyed, away, seen, n, todo, walked>>
    BY <1>2 DEF Pass
  <2> QED
    BY <1>1, <2>1, NextStep
<1>3. ASSUME NEW kind, Here(kind)
      PROVE  /\ up /\ at \in 1 .. n /\ at \in 1 .. Len(timers) /\ todo = {} /\ timers[at].kind = kind
  BY <1>1, <1>3 DEF Here
<1>4. ASSUME NEW kind \in {"hbeat", "info"}, Here(kind), timers' = Reset(at)
      PROVE  /\ timers' \in Seq(TimerType) /\ Len(timers') = Len(timers)
             /\ \A k \in 1 .. Len(timers) : /\ timers'[k].kind = timers[k].kind
                                            /\ timers'[k].dev = timers[k].dev
                                            /\ timers'[k].due <= Interval(timers[k].kind)
                                            /\ k # at \/ timers[k].kind = "reap" => timers'[k] = timers[k]
                                            /\ k = at => timers'[k].due > 0
                                            /\ timers'[k].missed \in {0, timers[k].missed}
  <2>1. at \in 1 .. Len(timers) /\ timers[at].kind # "reap"
    BY <1>3, <1>4
  <2>2. /\ timers' \in Seq(TimerType) /\ Len(timers') = Len(timers)
        /\ \A j \in 1 .. Len(timers) : /\ timers'[j].kind = timers[j].kind /\ timers'[j].dev = timers[j].dev
                                       /\ timers'[j].due <= Interval(timers[j].kind)
                                       /\ j # at => timers'[j] = timers[j]
        /\ timers'[at].due > 0 /\ timers'[at].missed = 0
    BY <1>4, <2>1, ResetTimer
  <2> QED
    BY <2>1, <2>2
<1>5. CASE heartBeat
  <2>1. /\ Here("hbeat") /\ timers' = Reset(at) /\ at' = at + 1
        /\ UNCHANGED <<up, filters, node, cfg, f, t, fDestroyed, away, seen, n, todo, walked>>
    BY <1>5 DEF heartBeat
  <2> QED
    BY <1>1, <1>3, <1>4, <2>1, NextStep
<1>6. CASE sendInfo
  <2> DEFINE d == timers[at].dev
  <2>1. Here("info")
    BY <1>6 DEF sendInfo
  <2>2. up /\ at \in 1 .. n /\ at \in 1 .. Len(timers) /\ todo = {} /\ timers[at].kind = "info"
    BY <1>3, <2>1
  <2>3. d \in Devices /\ EntryOf(d)
    <3>1. d \in Devices
      BY <2>2, Now
    <3> QED
      BY <3>1 DEF IInv, Entries
  <2>4. CASE node[d].is = "live"
    <3>1. /\ seen' = [seen EXCEPT ![d] = node[d].state] /\ timers' = Reset(at) /\ at' = at + 1
          /\ UNCHANGED <<up, filters, node, cfg, f, t, fDestroyed, away, n, todo, walked>>
      BY <1>6, <2>4 DEF sendInfo
    <3>2. node[d].state \in {"on", "off", "?"} /\ (node[d].state = "on" <=> seen[d] = "on")
      <4>1. node[d] \in NodeType
        BY <1>1, <2>3
      <4>2. node[d].state # None /\ (node[d].state = "on" <=> seen[d] = "on")
        BY <2>2, <2>3, <2>4 DEF EntryOf
      <4> QED
        BY <4>1, <4>2 DEF NodeType
    <3>3. /\ seen' \in [Devices -> {"on", "off", "?"}]
          /\ \A c \in Devices : seen'[c] = "on" <=> seen[c] = "on"
      BY <1>1, <2>3, <3>1, <3>2
    <3> QED
      BY <1>4, <2>1, <2>2, <3>1, <3>3, NextStep
  <2>5. CASE node[d].is # "live"
    <3>1. /\ up' = FALSE
          /\ UNCHANGED <<timers, filters, node, cfg, f, t, fDestroyed, away, seen, at, n, todo, walked>>
      BY <1>6, <2>5 DEF sendInfo, Crash
    <3> QED
      BY <1>1, <3>1, EndStep
  <2> QED
    BY <2>4, <2>5
<1> QED
  BY <1>2, <1>5, <1>6

LEMMA BeginStep ==
    ASSUME IInv, BeginWalk
    PROVE  IInv'
<1>1. /\ at = 0 /\ at' = 1 /\ n' = Len(timers)
      /\ UNCHANGED <<up, timers, filters, node, cfg, f, t, fDestroyed, away, seen, todo, walked>>
  BY DEF BeginWalk, Idle, Indices
<1>2. /\ timers' \in Seq(TimerType) /\ Len(timers') = Len(timers)
      /\ \A k \in 1 .. Len(timers) : /\ timers'[k].kind = timers[k].kind
                                     /\ timers'[k].dev = timers[k].dev
                                     /\ timers'[k].due <= Interval(timers[k].kind)
      /\ walked' \in BOOLEAN /\ up' \in BOOLEAN /\ todo' \subseteq cfg
      /\ node' \in [Devices -> NodeType] /\ away' \in [Devices -> 0 .. LONG]
      /\ seen' \in [Devices -> {"on", "off", "?"}]
  BY <1>1, Now DEF IInv, TypeOK
<1>3. at' \in 0 .. n' + 1 /\ n' \in 0 .. MAXT
  BY <1>1, Now
<1>4. todo = {} /\ todo' = {}
  BY <1>1 DEF IInv, Walk
<1>5. Walk'
  BY <1>1, <1>4, Now DEF Walk
<1>6. Moved'
  <2> SUFFICES ASSUME NEW k \in 1 .. Len(timers)
               PROVE  MovedAt(k, timers[k], 1, FALSE)
    BY <1>1, <1>4 DEF Moved
  <2>1. k + timers[k].missed <= MAXT
    BY DEF IInv, Moved, MovedAt
  <2> QED
    BY <2>1 DEF MovedAt
<1>7. \A d \in Devices : EntryOf(d)'
  BY <1>1 DEF IInv, Entries, EntryOf
<1>8. Reaped'
  <2>1. PICK p \in 1 .. Len(timers) : ReaperAt(p)
    BY DEF IInv, Reaped
  <2>2. ~(p < 1)
    OBVIOUS
  <2>3. ReaperAt(p)'
    BY <1>1, <2>1, <2>2 DEF ReaperAt, Slack
  <2> QED
    BY <1>1, <2>3 DEF Reaped
<1> QED
  BY <1>1, <1>2, <1>3, <1>5, <1>6, <1>7, <1>8, StepKeeps

(* The reaper is called, at most as late as it may be missed.               *)
LEMMA ReaperStep ==
    ASSUME IInv, reaper
    PROVE  IInv'
<1>1. /\ Here("reap") /\ timers' = Reset(at) /\ todo' = cfg /\ at' = IF cfg = {} THEN at + 1 ELSE at
      /\ UNCHANGED <<up, filters, node, cfg, f, t, fDestroyed, away, seen, n, walked>>
  BY DEF reaper
<1>2. /\ up /\ at \in 1 .. n /\ at \in 1 .. Len(timers) /\ todo = {} /\ timers[at].kind = "reap" /\ timers[at].due <= 0
      /\ at \in Nat /\ n \in Nat /\ n \in 0 .. MAXT /\ MAXT \in Nat
  BY <1>1, Now DEF Here
<1>3. /\ timers' \in Seq(TimerType) /\ Len(timers') = Len(timers)
      /\ \A j \in 1 .. Len(timers) : /\ timers'[j].kind = timers[j].kind /\ timers'[j].dev = timers[j].dev
                                     /\ timers'[j].due <= Interval(timers[j].kind)
                                     /\ j # at => timers'[j] = timers[j]
      /\ timers'[at].due = PERIOD /\ timers'[at].due > 0 /\ timers'[at].due \in Int /\ timers'[at].missed = 0
  BY <1>1, <1>2, ResetTimer, Times
<1>4. /\ walked' \in BOOLEAN /\ up' \in BOOLEAN /\ todo' \subseteq cfg
      /\ node' \in [Devices -> NodeType] /\ away' \in [Devices -> 0 .. LONG]
      /\ seen' \in [Devices -> {"on", "off", "?"}] /\ at' \in 0 .. n' + 1 /\ n' \in 0 .. MAXT
  <2>1. at' \in 0 .. n' + 1
    BY <1>1, <1>2
  <2> QED
    BY <1>1, <1>2, <2>1, Now DEF IInv, TypeOK
<1>5. \A d \in Devices : EntryOf(d)'
  BY <1>1 DEF IInv, Entries, EntryOf
<1>6. Walk'
  <2>1. at' # 0 /\ Len(timers) <= n /\ (cfg # {} => at' <= n)
    BY <1>1, <1>2 DEF IInv, Walk
  <2> QED
    BY <1>1, <1>3, <2>1 DEF Walk
<1>7. Moved'
  <2> SUFFICES ASSUME NEW k \in 1 .. Len(timers)
               PROVE  MovedAt(k, timers'[k], at', todo' # {})
    BY <1>3 DEF Moved
  <2>1. CASE k = at
    <3>1. k + timers'[k].missed <= MAXT
      BY <1>2, <1>3, <2>1, Now
    <3>2. ~(timers'[k].due <= 0)
      BY <1>3, <2>1
    <3> QED
      BY <3>1, <3>2 DEF MovedAt
  <2>2. CASE k # at
    <3>1. MovedAt(k, timers[k], at, FALSE)
      BY <1>2 DEF IInv, Moved
    <3>2. timers'[k] = timers[k]
      BY <1>3, <2>2
    <3>3. (k < at' \/ (k = at' /\ todo' # {})) => k < at
      BY <1>1, <1>2, <2>2
    <3> QED
      BY <3>1, <3>2, <3>3 DEF MovedAt
  <2> QED
    BY <2>1, <2>2
<1>8. Reaped'
  <2>1. PICK p \in 1 .. Len(timers) : ReaperAt(p)
    BY DEF IInv, Reaped
  <2>2. p = at /\ p \in Nat /\ p >= 2 /\ Slack(p) \in Nat /\ Slack(p) <= Allowed /\ timers[p].due \in Int
    BY <1>2, <2>1, ReaperHere
  <2>3. ASSUME NEW d \in Devices, up', seen'[d] = "on"
        PROVE  /\ away'[d] <= TTL + PERIOD + Allowed
               /\ d \notin todo' => away'[d] + timers'[p].due <= TTL + PERIOD
    <3>1. away[d] <= TTL + PERIOD + Allowed
      BY <1>1, <2>1, <2>3 DEF ReaperAt
    <3>2. d \in cfg
      <4>1. EntryOf(d)
        BY DEF IInv, Entries
      <4> QED
        BY <1>1, <1>2, <2>3, <4>1 DEF EntryOf
    <3> QED
      BY <1>1, <3>1, <3>2
  <2>4. p > 1 => p - 1 \in 1 .. Len(timers)
    BY <2>2
  <2>5. Known # <<>> => p > 1 /\ timers'[p - 1].kind = "info" /\ timers'[p - 1].dev \in KnownSet
    BY <1>3, <2>1, <2>4 DEF ReaperAt
  <2>6. timers'[p].due >= -Slack(p) /\ ~(timers'[p].due <= 0)
    BY <1>3, <2>2
  <2>7. timers'[p].kind = "reap" /\ (Known = <<>> => p <= ONCE + 2) /\ timers'[p].due > 0
    BY <1>3, <2>1, <2>2 DEF ReaperAt
  <2>8. ReaperAt(p)'
    BY <2>3, <2>5, <2>6, <2>7 DEF ReaperAt, Slack
  <2> QED
    BY <1>3, <2>8 DEF Reaped
<1> QED
  BY <1>1, <1>3, <1>4, <1>5, <1>6, <1>7, <1>8, StepKeeps

(* The reaper has looked at a device: its index and what is left to do.     *)
LEMMA LookedAt ==
    ASSUME IInv, NEW d \in todo, Looked(d), n' = n
    PROVE  /\ todo' = todo \ {d} /\ at \in Nat /\ n \in Nat /\ at >= 1 /\ at <= n /\ Len(timers) <= n
           /\ at' \in 0 .. n + 1 /\ at' # 0 /\ todo' \subseteq cfg /\ (todo' # {} => at' <= n)
           /\ \A k \in Nat : (k < at' \/ (k = at' /\ todo' # {})) => k < at \/ k = at
<1>1. todo' = todo \ {d} /\ at' = IF todo = {d} THEN at + 1 ELSE at
  BY DEF Looked
<1>2. at \in Nat /\ n \in Nat /\ at # 0 /\ at <= n /\ Len(timers) <= n /\ todo \subseteq cfg
  BY Now DEF IInv, Walk
<1>3. todo' = {} <=> todo = {d}
  BY <1>1
<1> QED
  BY <1>1, <1>2, <1>3

LEMMA LooksSteps ==
    ASSUME IInv, NEW d \in todo, reaper_Spares(d) \/ reaper_Known(d)
    PROVE  IInv'
<1>1. /\ Looked(d) /\ up /\ UNCHANGED <<up, timers, filters, cfg, f, t, fDestroyed, away, n, walked>>
  BY DEF reaper_Spares, reaper_Known
<1>2. /\ todo' = todo \ {d} /\ at \in Nat /\ n \in Nat /\ at >= 1 /\ at <= n /\ Len(timers) <= n
      /\ at' \in 0 .. n + 1 /\ at' # 0 /\ todo' \subseteq cfg /\ (todo' # {} => at' <= n)
      /\ \A k \in Nat : (k < at' \/ (k = at' /\ todo' # {})) => k < at \/ k = at
  BY <1>1, LookedAt
<1>3. /\ timers' \in Seq(TimerType) /\ Len(timers') = Len(timers)
      /\ \A k \in 1 .. Len(timers) : /\ timers'[k].kind = timers[k].kind
                                     /\ timers'[k].dev = timers[k].dev
                                     /\ timers'[k].due <= Interval(timers[k].kind)
      /\ walked' \in BOOLEAN /\ up' \in BOOLEAN /\ away' \in [Devices -> 0 .. LONG] /\ n' \in 0 .. MAXT
      /\ node \in [Devices -> NodeType] /\ seen \in [Devices -> {"on", "off", "?"}]
      /\ d \in Devices /\ KnownSet \subseteq Devices
  BY <1>1, Now DEF IInv, TypeOK
<1>4. Walk'
  BY <1>1, <1>2 DEF Walk
<1>5. Moved'
  <2> SUFFICES ASSUME NEW k \in 1 .. Len(timers)
               PROVE  MovedAt(k, timers[k], at', todo' # {})
    BY <1>1 DEF Moved
  <2>1. MovedAt(k, timers[k], at, TRUE)
    BY DEF IInv, Moved
  <2>2. (k < at' \/ (k = at' /\ todo' # {})) => k < at \/ k = at
    BY <1>2
  <2> QED
    BY <2>1, <2>2 DEF MovedAt
<1>6. \A c \in Devices : EntryOf(c)
  BY DEF IInv, Entries
<1>7. ASSUME \A c \in Devices : seen'[c] = "on" => seen[c] = "on",
             seen'[d] = "on" => away[d] <= TTL
      PROVE  Reaped'
  <2>1. PICK p \in 1 .. Len(timers) : ReaperAt(p)
    BY DEF IInv, Reaped
  <2>2. p \in Nat /\ timers[p].due \in Int /\ timers[p].due > 0 /\ timers[p].due <= PERIOD
    BY <2>1, ReaperHere DEF ReaperAt
  <2>3. ASSUME NEW c \in Devices, up', seen'[c] = "on"
        PROVE  /\ away'[c] <= TTL + PERIOD + Allowed
               /\ c \notin todo' => away'[c] + timers'[p].due <= TTL + PERIOD
    <3>1. /\ away[c] <= TTL + PERIOD + Allowed
          /\ c \notin todo => away[c] + timers[p].due <= TTL + PERIOD
      BY <1>1, <1>7, <2>1, <2>3 DEF ReaperAt
    <3>2. CASE c = d
      <4>1. away[d] <= TTL /\ away[d] \in Nat
        BY <1>3, <1>7, <2>3, <3>2, Now
      <4> QED
        BY <1>1, <2>2, <3>1, <3>2, <4>1, Lengths
    <3>3. CASE c # d
      BY <1>1, <1>2, <3>1, <3>3
    <3> QED
      BY <3>2, <3>3
  <2>4. ~(timers'[p].due <= 0) /\ timers'[p].due > 0
    BY <1>1, <2>2
  <2>5. ReaperAt(p)'
    BY <1>1, <2>1, <2>3, <2>4 DEF ReaperAt, Slack
  <2> QED
    BY <1>1, <2>5 DEF Reaped
<1>8. CASE reaper_Spares(d)
  <2>1. node' = node /\ seen' = seen /\ ~Expired(d)
    BY <1>8 DEF reaper_Spares
  <2>2. seen[d] = "on" => away[d] <= TTL
    <3>1. seen[d] = "on" => node[d].isAlive
      BY <1>1, <1>3, <1>6 DEF EntryOf
    <3>2. away[d] \in Nat
      BY <1>3, Now
    <3> QED
      BY <2>1, <3>1, <3>2, Times DEF Expired
  <2>3. Reaped'
    BY <1>7, <2>1, <2>2
  <2>4. \A c \in Devices : EntryOf(c)'
    BY <1>1, <1>6, <2>1 DEF EntryOf
  <2> QED
    BY <1>1, <1>2, <1>3, <1>4, <1>5, <2>1, <2>3, <2>4, StepKeeps
<1>9. CASE reaper_Known(d)
  <2> DEFINE e == [node[d] EXCEPT !.state = "off", !.isAlive = FALSE]
  <2>1. node' = [node EXCEPT ![d] = e] /\ seen' = [seen EXCEPT ![d] = "off"]
    BY <1>3, <1>9 DEF reaper_Known
  <2>2. node[d] \in NodeType /\ e \in NodeType /\ e.is = node[d].is /\ e.state = "off" /\ e.isAlive = FALSE
    BY <1>3 DEF NodeType
  <2> HIDE DEF e
  <2>3. /\ node' \in [Devices -> NodeType] /\ node'[d] = e /\ \A c \in Devices : c # d => node'[c] = node[c]
        /\ seen' \in [Devices -> {"on", "off", "?"}] /\ seen'[d] = "off" /\ \A c \in Devices : c # d => seen'[c] = seen[c]
    BY <1>3, <2>1, <2>2
  <2>4. Reaped'
    BY <1>7, <2>3
  <2>5. ASSUME NEW c \in Devices
        PROVE  EntryOf(c)' /\ node'[c].is = node[c].is
    <3>1. CASE c = d
      <4>1. "off" # None /\ d \in cfg
        BY DeviceAssumption, Now
      <4>2. ~node'[d].isAlive /\ node'[d].state = "off" /\ seen'[d] = "off"
        BY <2>2, <2>3
      <4> QED
        BY <1>1, <2>2, <2>3, <3>1, <4>1, <4>2 DEF EntryOf
    <3>2. CASE c # d
      BY <1>1, <1>6, <2>3, <3>2 DEF EntryOf
    <3> QED
      BY <3>1, <3>2
  <2> QED
    BY <1>1, <1>2, <1>3, <1>4, <1>5, <2>3, <2>4, <2>5, StepKeeps
<1> QED
  BY <1>8, <1>9

LEMMA FailsStep ==
    ASSUME IInv, NEW d \in todo, reaper_Fails(d)
    PROVE  IInv'
<1>1. /\ up' = FALSE /\ d \notin KnownSet /\ seen' = [seen EXCEPT ![d] = "off"]
      /\ UNCHANGED <<timers, filters, node, cfg, f, t, fDestroyed, away, at, n, todo, walked>>
  BY DEF reaper_Fails
<1>2. seen' \in [Devices -> {"on", "off", "?"}] /\ \A c \in KnownSet : seen'[c] = seen[c]
  BY <1>1, Now
<1> QED
  BY <1>1, <1>2, EndStep

(* A walk ends: it has passed every timer.                                  *)
LEMMA EndWalkStep ==
    ASSUME IInv, EndWalk
    PROVE  IInv'
<1>1. /\ up /\ at > n /\ at # 0 /\ at' = 0 /\ n' = 0 /\ walked' = TRUE
      /\ timers' = [k \in DOMAIN timers |->
                     [timers[k] EXCEPT !.missed = IF timers[k].due <= 0 THEN timers[k].missed + 1 ELSE 0]]
      /\ UNCHANGED <<up, filters, node, cfg, f, t, fDestroyed, away, seen, todo>>
  BY DEF EndWalk
<1>2. /\ timers \in Seq(TimerType) /\ DOMAIN timers = 1 .. Len(timers) /\ Len(timers) \in Nat /\ Len(timers) <= n
      /\ at \in Nat /\ n \in Nat /\ MAXT \in Nat /\ Len(timers) <= MAXT /\ todo = {}
  BY <1>1, Now DEF IInv, Walk
<1>3. ASSUME NEW k \in 1 .. Len(timers)
      PROVE  /\ timers'[k] \in TimerType /\ timers'[k].kind = timers[k].kind /\ timers'[k].dev = timers[k].dev
             /\ timers'[k].due = timers[k].due /\ timers'[k].due <= Interval(timers[k].kind)
             /\ k + timers'[k].missed <= MAXT
  <2> DEFINE m == IF timers[k].due <= 0 THEN timers[k].missed + 1 ELSE 0
             e == [timers[k] EXCEPT !.missed = m]
  <2>1. /\ timers[k] \in TimerType /\ timers[k].due \in Int /\ timers[k].missed \in Nat
        /\ timers[k].due <= Interval(timers[k].kind)
    BY Now
  <2>2. MovedAt(k, timers[k], at, FALSE)
    BY <1>2 DEF IInv, Moved
  <2>3. m \in Nat /\ k + m <= MAXT
    BY <1>1, <1>2, <2>1, <2>2 DEF MovedAt
  <2>4. timers'[k] = e
    BY <1>1, <1>2
  <2> HIDE DEF m
  <2>5. e \in TimerType /\ e.kind = timers[k].kind /\ e.dev = timers[k].dev /\ e.due = timers[k].due /\ e.missed = m
    BY <2>1, <2>3 DEF TimerType
  <2> HIDE DEF e
  <2> QED
    BY <2>1, <2>3, <2>4, <2>5
<1>4. timers' \in Seq(TimerType) /\ Len(timers') = Len(timers)
  <2>1. DOMAIN timers' = 1 .. Len(timers) /\ timers' = [k \in 1 .. Len(timers) |-> timers'[k]]
    BY <1>1, <1>2
  <2>2. timers' \in [1 .. Len(timers) -> TimerType]
    BY <1>3, <2>1
  <2> QED
    BY <1>2, <2>2
<1>5. /\ walked' \in BOOLEAN /\ up' \in BOOLEAN /\ todo' \subseteq cfg
      /\ node' \in [Devices -> NodeType] /\ away' \in [Devices -> 0 .. LONG]
      /\ seen' \in [Devices -> {"on", "off", "?"}] /\ at' \in 0 .. n' + 1 /\ n' \in 0 .. MAXT
  BY <1>1, <1>2, Now DEF IInv, TypeOK
<1>6. \A d \in Devices : EntryOf(d)'
  BY <1>1 DEF IInv, Entries, EntryOf
<1>7. Walk'
  BY <1>1, <1>2 DEF Walk
<1>8. Moved'
  <2> SUFFICES ASSUME NEW k \in 1 .. Len(timers)
               PROVE  MovedAt(k, timers'[k], 0, FALSE)
    BY <1>1, <1>2, <1>4 DEF Moved
  <2>1. k + timers'[k].missed <= MAXT /\ ~(k < 0)
    BY <1>3
  <2> QED
    BY <2>1 DEF MovedAt
<1>9. Reaped'
  <2>1. PICK p \in 1 .. Len(timers) : ReaperAt(p)
    BY DEF IInv, Reaped
  <2>2. timers'[p].kind = timers[p].kind /\ timers'[p].due = timers[p].due /\ p < at /\ ~(p < 0)
    <3>1. p < at /\ ~(p < 0)
      BY <1>1, <1>2
    <3> QED
      BY <1>3, <3>1
  <2>3. p > 1 => p - 1 \in 1 .. Len(timers)
    OBVIOUS
  <2>4. Known # <<>> => p > 1 /\ timers'[p - 1].kind = "info" /\ timers'[p - 1].dev \in KnownSet
    BY <1>3, <2>1, <2>3 DEF ReaperAt
  <2>5. ReaperAt(p)'
    BY <1>1, <2>1, <2>2, <2>4 DEF ReaperAt, Slack
  <2> QED
    BY <1>4, <2>5 DEF Reaped
<1> QED
  BY <1>1, <1>3, <1>4, <1>5, <1>6, <1>7, <1>8, <1>9, StepKeeps

(* A second passes: the reaper was called, or may be later.                 *)
LEMMA TickStep ==
    ASSUME IInv, Tick
    PROVE  IInv'
<1>1. /\ up /\ at = 0 /\ walked /\ walked' = FALSE
      /\ timers' = [k \in DOMAIN timers |-> [timers[k] EXCEPT !.due = timers[k].due - 1]]
      /\ away' = [d \in Devices |-> IF away[d] < LONG THEN away[d] + 1 ELSE LONG]
      /\ UNCHANGED <<up, filters, node, cfg, f, t, fDestroyed, seen, at, n, todo>>
  BY DEF Tick, Idle
<1>2. /\ timers \in Seq(TimerType) /\ DOMAIN timers = 1 .. Len(timers) /\ Len(timers) \in Nat
      /\ at \in Nat /\ n \in Nat /\ MAXT \in Nat /\ Len(timers) <= MAXT /\ todo = {}
  BY <1>1, Now DEF IInv, Walk
<1>3. ASSUME NEW k \in 1 .. Len(timers)
      PROVE  /\ timers'[k] \in TimerType /\ timers'[k].kind = timers[k].kind /\ timers'[k].dev = timers[k].dev
             /\ timers'[k].due = timers[k].due - 1 /\ timers'[k].due <= Interval(timers[k].kind)
             /\ timers'[k].missed = timers[k].missed
  <2> DEFINE m == timers[k].due - 1
             e == [timers[k] EXCEPT !.due = m]
  <2>1. /\ timers[k] \in TimerType /\ timers[k].due \in Int /\ timers[k].kind \in {"hbeat", "reap", "info", "once"}
        /\ timers[k].due <= Interval(timers[k].kind)
    BY Now
  <2>2. m \in Int /\ m <= Interval(timers[k].kind)
    <3>1. Interval(timers[k].kind) \in Nat
      BY <2>1, Times
    <3> QED
      BY <2>1, <3>1
  <2>3. timers'[k] = e
    BY <1>1, <1>2
  <2> HIDE DEF m
  <2>4. e \in TimerType /\ e.kind = timers[k].kind /\ e.dev = timers[k].dev /\ e.due = m /\ e.missed = timers[k].missed
    BY <2>1, <2>2 DEF TimerType
  <2> HIDE DEF e
  <2> QED
    BY <2>2, <2>3, <2>4 DEF m
<1>4. timers' \in Seq(TimerType) /\ Len(timers') = Len(timers)
  <2>1. DOMAIN timers' = 1 .. Len(timers) /\ timers' = [k \in 1 .. Len(timers) |-> timers'[k]]
    BY <1>1, <1>2
  <2>2. timers' \in [1 .. Len(timers) -> TimerType]
    BY <1>3, <2>1
  <2> QED
    BY <1>2, <2>2
<1>5. \A d \in Devices : away[d] \in Nat /\ away'[d] \in 0 .. LONG /\ away'[d] <= away[d] + 1 /\ away'[d] \in Nat
  <2> SUFFICES ASSUME NEW d \in Devices
               PROVE  away[d] \in Nat /\ away'[d] \in 0 .. LONG /\ away'[d] <= away[d] + 1 /\ away'[d] \in Nat
    OBVIOUS
  <2>1. away[d] \in 0 .. LONG /\ LONG \in Nat
    BY Now, Times
  <2>2. away'[d] = IF away[d] < LONG THEN away[d] + 1 ELSE LONG
    BY <1>1
  <2> QED
    BY <2>1, <2>2
<1>6. /\ walked' \in BOOLEAN /\ up' \in BOOLEAN /\ todo' \subseteq cfg
      /\ node' \in [Devices -> NodeType] /\ away' \in [Devices -> 0 .. LONG]
      /\ seen' \in [Devices -> {"on", "off", "?"}] /\ at' \in 0 .. n' + 1 /\ n' \in 0 .. MAXT
  <2>1. away' \in [Devices -> 0 .. LONG]
    BY <1>1, <1>5
  <2> QED
    BY <1>1, <1>2, <2>1, Now DEF IInv, TypeOK
<1>7. \A d \in Devices : EntryOf(d)'
  BY <1>1 DEF IInv, Entries, EntryOf
<1>8. Walk'
  BY <1>1, <1>2, <1>4 DEF IInv, Walk
<1>9. Moved'
  <2> SUFFICES ASSUME NEW k \in 1 .. Len(timers)
               PROVE  MovedAt(k, timers'[k], 0, FALSE)
    BY <1>1, <1>2, <1>4 DEF Moved
  <2>1. k + timers[k].missed <= MAXT
    BY DEF IInv, Moved, MovedAt
  <2> QED
    BY <1>3, <2>1 DEF MovedAt
<1>10. Reaped'
  <2>1. PICK p \in 1 .. Len(timers) : ReaperAt(p)
    BY DEF IInv, Reaped
  <2>2. p \in Nat /\ Slack(p) \in Nat /\ Slack(p) <= Allowed /\ timers[p].due \in Int
    BY <2>1, ReaperHere
  <2>3. timers'[p].kind = timers[p].kind /\ timers'[p].due = timers[p].due - 1
    BY <1>3
  <2>4. timers[p].due <= 0 => timers[p].due >= 1 - Slack(p)
    BY <1>1, <2>1 DEF ReaperAt
  <2>5. timers'[p].due >= -Slack(p)
    BY <2>2, <2>3, <2>4
  <2>6. Known # <<>> => p > 1 /\ timers'[p - 1].kind = "info" /\ timers'[p - 1].dev \in KnownSet
    <3>1. p > 1 => p - 1 \in 1 .. Len(timers)
      OBVIOUS
    <3> QED
      BY <1>3, <2>1, <3>1 DEF ReaperAt
  <2>7. ASSUME NEW d \in Devices, up', seen'[d] = "on"
        PROVE  /\ away'[d] <= TTL + PERIOD + Allowed
               /\ d \notin todo' => away'[d] + timers'[p].due <= TTL + PERIOD
    <3>1. away[d] + timers[p].due <= TTL + PERIOD
      BY <1>1, <1>2, <2>1, <2>7 DEF ReaperAt
    <3>2. away'[d] + timers'[p].due <= TTL + PERIOD
      <4>1. away[d] \in Nat /\ away'[d] \in Nat /\ away'[d] <= away[d] + 1
        BY <1>5
      <4>2. TTL \in Nat /\ PERIOD \in Nat
        BY Times
      <4> QED
        BY <2>2, <2>3, <3>1, <4>1, <4>2
    <3>3. away'[d] <= TTL + PERIOD + Allowed
      <4>1. away'[d] \in Nat
        BY <1>5
      <4> QED
        BY <2>2, <2>3, <2>5, <3>2, <4>1, Lengths
    <3> QED
      BY <3>2, <3>3
  <2>8. ~(p < at') /\ todo' = {} /\ ~walked'
    BY <1>1, <1>2, <2>2
  <2>9. timers'[p].kind = "reap" /\ (Known = <<>> => p <= ONCE + 2)
    BY <2>1, <2>3 DEF ReaperAt
  <2>10. ReaperAt(p)'
    BY <2>5, <2>6, <2>7, <2>8, <2>9 DEF ReaperAt, Slack
  <2> QED
    BY <1>4, <2>10 DEF Reaped
<1> QED
  BY <1>1, <1>3, <1>4, <1>6, <1>7, <1>8, <1>9, <1>10, StepKeeps

(* A timer is started between walks: it comes last.                         *)
LEMMA StartedTimer ==
    ASSUME IInv, at = 0, NEW e \in TimerType, timers' = Append(timers, e), e.missed = 0,
           e.due <= Interval(e.kind),
           \/ e.kind = "once" /\ e.dev = None /\ Cardinality(Once(timers)) < ONCE
           \/ e.kind = "info" /\ e.dev # None /\ \A k \in 1 .. Len(timers) : timers[k].kind = "info" => timers[k].dev # e.dev,
           UNCHANGED <<up, at, n, todo, walked>>,
           \A d \in Devices : seen'[d] = "on" => (seen[d] = "on" /\ away'[d] = away[d]) \/ away'[d] = 0
    PROVE  /\ timers' \in Seq(TimerType) /\ Len(timers') = Len(timers) + 1 /\ timers'[Len(timers) + 1] = e
           /\ \A k \in 1 .. Len(timers) : timers'[k] = timers[k]
           /\ Len(timers') <= MAXT /\ Listed(timers)' /\ Walk' /\ Moved' /\ Reaped'
<1>1. timers \in Seq(TimerType) /\ Listed(timers) /\ Len(timers) \in Nat
  BY Now DEF IInv
<1>2. /\ timers' \in Seq(TimerType) /\ Len(timers') = Len(timers) + 1 /\ timers'[Len(timers) + 1] = e
      /\ \A k \in 1 .. Len(timers) : timers'[k] = timers[k]
  BY <1>1
<1>3. Listed(timers')
  BY <1>1, ListedAppend
<1>4. Len(timers') <= MAXT /\ MAXT \in Nat
  BY <1>2, <1>3, ListedLength, MAXTNat
<1>5. Listed(timers)'
  BY <1>3 DEF Listed, Once
<1>6. todo = {} /\ todo' = {} /\ at' = 0
  BY DEF IInv, Walk
<1>7. Walk'
  BY <1>6 DEF Walk
<1>8. Moved'
  <2> SUFFICES ASSUME NEW k \in 1 .. Len(timers) + 1
               PROVE  MovedAt(k, timers'[k], 0, FALSE)
    BY <1>2, <1>6 DEF Moved
  <2>1. CASE k \in 1 .. Len(timers)
    <3>1. k + timers[k].missed <= MAXT /\ timers'[k] = timers[k] /\ ~(k < 0)
      BY <1>2, <2>1 DEF IInv, Moved, MovedAt
    <3> QED
      BY <2>1, <3>1 DEF MovedAt
  <2>2. CASE k = Len(timers) + 1
    <3>1. k + timers'[k].missed <= MAXT /\ ~(k < 0)
      BY <1>1, <1>2, <1>4, <2>2
    <3> QED
      BY <3>1 DEF MovedAt
  <2>3. k \in 1 .. Len(timers) \/ k = Len(timers) + 1
    BY <1>1
  <2> QED
    BY <2>1, <2>2, <2>3, Zenon
<1>9. Reaped'
  <2>1. PICK p \in 1 .. Len(timers) : ReaperAt(p)
    BY DEF IInv, Reaped
  <2>2. p \in Nat /\ timers[p].due \in Int /\ timers[p].due <= PERIOD
    BY <2>1, ReaperHere
  <2>3. timers'[p] = timers[p] /\ (p > 1 => timers'[p - 1] = timers[p - 1])
    <3>1. p > 1 => p - 1 \in 1 .. Len(timers)
      OBVIOUS
    <3> QED
      BY <1>2, <3>1
  <2>4. ASSUME NEW c \in Devices, up', seen'[c] = "on"
        PROVE  /\ away'[c] <= TTL + PERIOD + Allowed
               /\ c \notin todo' => away'[c] + timers'[p].due <= TTL + PERIOD
    <3>1. CASE away'[c] = 0
      BY <2>2, <2>3, <3>1, Lengths
    <3>2. CASE seen[c] = "on" /\ away'[c] = away[c]
      BY <2>1, <2>3, <2>4, <3>2 DEF ReaperAt
    <3> QED
      BY <2>4, <3>1, <3>2
  <2>5. ReaperAt(p)'
    BY <2>1, <2>3, <2>4 DEF ReaperAt, Slack
  <2>6. p \in 1 .. Len(timers')
    BY <1>1, <1>2
  <2> QED
    BY <2>5, <2>6 DEF Reaped
<1> QED
  BY <1>2, <1>4, <1>5, <1>7, <1>8, <1>9

LEMMA StartOnceStep ==
    ASSUME IInv, StartOnce
    PROVE  IInv'
<1> DEFINE e == Timer("once", None)
<1>1. /\ at = 0 /\ timers' = Append(timers, e)
      /\ UNCHANGED <<up, filters, node, cfg, f, t, fDestroyed, away, seen, at, n, todo, walked>>
      /\ Cardinality({k \in DOMAIN timers : timers[k].kind = "once"}) < ONCE
  BY DEF StartOnce, Idle
<1>2. Cardinality(Once(timers)) < ONCE
  BY <1>1, Now DEF Once
<1>3. e \in TimerType /\ e.missed = 0 /\ e.due <= Interval(e.kind) /\ e.kind = "once" /\ e.dev = None
  BY TimerTyped, Times
<1> HIDE DEF e
<1>4. /\ timers' \in Seq(TimerType) /\ Len(timers') = Len(timers) + 1 /\ timers'[Len(timers) + 1] = e
      /\ \A k \in 1 .. Len(timers) : timers'[k] = timers[k]
      /\ Len(timers') <= MAXT /\ Listed(timers)' /\ Walk' /\ Moved' /\ Reaped'
  BY <1>1, <1>2, <1>3, StartedTimer
<1>5. TypeOK'
  BY <1>1, <1>4 DEF IInv, TypeOK, TimerType
<1>6. Owned'
  <2> SUFFICES ASSUME NEW k \in 1 .. Len(timers) + 1, timers'[k].kind = "info"
               PROVE  node[timers'[k].dev].is # "missing"
    BY <1>1, <1>4 DEF Owned
  <2>1. k \in 1 .. Len(timers)
    BY <1>3, <1>4, Now
  <2> QED
    BY <1>4, <2>1 DEF IInv, Owned
<1>7. Entries'
  BY <1>1 DEF IInv, Entries, EntryOf
<1> QED
  BY <1>4, <1>5, <1>6, <1>7 DEF IInv

(* A device without an entry gets an endpoint.                              *)
LEMMA NewStep ==
    ASSUME IInv, NEW d \in Devices, process_New(d)
    PROVE  IInv'
<1> DEFINE e == Timer("info", d)
           new == [is |-> "live", state |-> "on", isAlive |-> TRUE]
<1>1. /\ up /\ at = 0 /\ node[d].is = "missing" /\ cfg' = cfg \cup {d} /\ filters' = Append(filters, d)
      /\ timers' = Append(timers, e) /\ f' = d /\ t' = d /\ fDestroyed' = FALSE
      /\ node' = [node EXCEPT ![d] = new] /\ seen' = [seen EXCEPT ![d] = "on"] /\ away' = [away EXCEPT ![d] = 0]
      /\ UNCHANGED <<up, at, n, todo, walked>>
  BY DEF process_New, Idle
<1>2. e \in TimerType /\ e.missed = 0 /\ e.due <= Interval(e.kind) /\ e.kind = "info" /\ e.dev = d /\ e.dev # None
  BY TimerTyped, Times, DeviceAssumption
<1>3. \A k \in 1 .. Len(timers) : timers[k].kind = "info" => timers[k].dev # d
  BY <1>1 DEF IInv, Owned
<1>4. new \in NodeType /\ new.is = "live" /\ new.state = "on" /\ new.isAlive
  BY DEF NodeType
<1> HIDE DEF e, new
<1>5. /\ node' \in [Devices -> NodeType] /\ node'[d] = new /\ \A c \in Devices : c # d => node'[c] = node[c]
      /\ seen' \in [Devices -> {"on", "off", "?"}] /\ seen'[d] = "on" /\ \A c \in Devices : c # d => seen'[c] = seen[c]
      /\ away' \in [Devices -> 0 .. LONG] /\ away'[d] = 0 /\ \A c \in Devices : c # d => away'[c] = away[c]
  BY <1>1, <1>4, Now, Times
<1>6. /\ timers' \in Seq(TimerType) /\ Len(timers') = Len(timers) + 1 /\ timers'[Len(timers) + 1] = e
      /\ \A k \in 1 .. Len(timers) : timers'[k] = timers[k]
      /\ Len(timers') <= MAXT /\ Listed(timers)' /\ Walk' /\ Moved' /\ Reaped'
  BY <1>1, <1>2, <1>3, <1>5, StartedTimer
<1>7. TypeOK'
  <2>1. cfg' \subseteq {c \in Devices : node'[c].is = "live"}
    BY <1>1, <1>4, <1>5 DEF IInv, TypeOK
  <2>2. filters' \in Seq(Devices) /\ todo' \subseteq cfg'
    BY <1>1 DEF IInv, TypeOK
  <2>3. fDestroyed' \in BOOLEAN /\ {f', t'} \subseteq Devices \cup {None}
    BY <1>1
  <2>4. up' \in BOOLEAN /\ walked' \in BOOLEAN /\ at' \in 0 .. n' + 1 /\ n' \in 0 .. MAXT
    BY <1>1 DEF IInv, TypeOK
  <2> QED
    BY <1>5, <1>6, <2>1, <2>2, <2>3, <2>4 DEF TypeOK, TimerType, NodeType
<1>8. Owned'
  <2> SUFFICES ASSUME NEW k \in 1 .. Len(timers) + 1, timers'[k].kind = "info"
               PROVE  node'[timers'[k].dev].is # "missing"
    BY <1>6 DEF Owned
  <2>1. CASE k = Len(timers) + 1
    BY <1>2, <1>4, <1>5, <1>6, <2>1
  <2>2. CASE k \in 1 .. Len(timers)
    <3>1. timers[k].kind = "info" /\ timers'[k] = timers[k] /\ timers[k].dev \in Devices /\ timers[k].dev # d
      BY <1>3, <1>6, <2>2, Now
    <3>2. node[timers[k].dev].is # "missing"
      BY <2>2, <3>1 DEF IInv, Owned
    <3> QED
      BY <1>5, <3>1, <3>2
  <2> QED
    BY <2>1, <2>2, Now
<1>9. Entries'
  <2>1. d \notin KnownSet /\ d # None /\ KnownSet \subseteq Devices
    BY <1>1, Now, DeviceAssumption DEF IInv, Entries
  <2>2. ASSUME NEW c \in Devices
        PROVE  EntryOf(c)'
    <3>1. CASE c = d
      <4>1. "on" # None
        BY DeviceAssumption
      <4> QED
        BY <1>1, <1>4, <1>5, <3>1, <4>1 DEF EntryOf
    <3>2. CASE c # d
      <4>1. EntryOf(c) /\ node'[c] = node[c] /\ seen'[c] = seen[c]
        BY <1>5, <3>2 DEF IInv, Entries
      <4> QED
        BY <1>1, <4>1 DEF EntryOf
    <3> QED
      BY <3>1, <3>2
  <2>3. \A c \in KnownSet : node'[c].is = "live"
    BY <1>5, <2>1 DEF IInv, Entries
  <2> QED
    BY <1>1, <2>1, <2>2, <2>3 DEF Entries
<1> QED
  BY <1>6, <1>7, <1>8, <1>9 DEF IInv

(* A timer is deleted during a walk: those that the walk will pass by for   *)
(* it have moved up.                                                        *)
LEMMA DeletedTimer ==
    ASSUME IInv, NEW i \in 1 .. Len(timers), timers' = RemoveAt(timers, i),
           timers[i].kind = "once" \/ (timers[i].kind = "info" /\ timers[i].dev \notin KnownSet),
           at # 0, at' \in Nat, UNCHANGED <<up, walked, away>>,
           \A k \in Nat : (k < at' \/ (k = at' /\ todo' # {})) /\ k < i => k < at \/ (k = at /\ todo # {}),
           todo' # {} => todo # {},
           todo # {} \/ (i = at /\ at' = at + 1),
           \A d \in Devices : seen'[d] = "on" => seen[d] = "on" /\ (d \notin todo' => d \notin todo)
    PROVE  /\ timers' \in Seq(TimerType) /\ Len(timers') = Len(timers) - 1
           /\ \A k \in 1 .. Len(timers) - 1 : timers'[k] = IF k < i THEN timers[k] ELSE timers[k + 1]
           /\ Listed(timers)' /\ Moved' /\ Reaped'
<1> DEFINE m == Len(timers)
<1>1. timers \in Seq(TimerType) /\ Listed(timers) /\ m \in Nat /\ i \in 1 .. m /\ at \in Nat /\ MAXT \in Nat
  BY Now DEF IInv
<1>2. /\ timers' \in Seq(TimerType) /\ Len(timers') = m - 1
      /\ \A k \in 1 .. m - 1 : timers'[k] = IF k < i THEN timers[k] ELSE timers[k + 1]
  BY <1>1, RemoveAtProperties
<1>3. Listed(timers')
  BY <1>1, ListedRemove
<1>4. Listed(timers)'
  BY <1>3 DEF Listed, Once
<1>5. Moved'
  <2> SUFFICES ASSUME NEW k \in 1 .. m - 1
               PROVE  MovedAt(k, timers'[k], at', todo' # {})
    BY <1>2 DEF Moved
  <2>1. CASE k < i
    <3>1. k \in 1 .. m /\ timers'[k] = timers[k]
      BY <1>1, <1>2, <2>1
    <3>2. MovedAt(k, timers[k], at, todo # {})
      BY <3>1 DEF IInv, Moved
    <3>3. (k < at' \/ (k = at' /\ todo' # {})) => k < at \/ (k = at /\ todo # {})
      BY <2>1
    <3> QED
      BY <3>1, <3>2, <3>3 DEF MovedAt
  <2>2. CASE ~(k < i)
    <3>1. k + 1 \in 1 .. m /\ timers'[k] = timers[k + 1]
      BY <1>1, <1>2, <2>2
    <3>2. (k + 1) + timers[k + 1].missed <= MAXT /\ timers[k + 1].missed \in Nat
      BY <3>1, Now DEF IInv, Moved, MovedAt
    <3>3. k + timers'[k].missed + 1 <= MAXT /\ k + timers'[k].missed <= MAXT
      BY <1>1, <3>1, <3>2
    <3> QED
      BY <3>3 DEF MovedAt
  <2> QED
    BY <2>1, <2>2
<1>6. Reaped'
  <2>1. PICK p \in 1 .. m : ReaperAt(p)
    BY DEF IInv, Reaped
  <2>2. p \in Nat /\ p >= 2 /\ Slack(p) \in Nat /\ timers[p].due \in Int /\ timers[p].kind = "reap"
    BY <2>1, ReaperHere DEF ReaperAt
  <2>3. p # i /\ (Known # <<>> => p - 1 # i)
    BY <2>1, <2>2 DEF ReaperAt
  <2>4. ASSUME NEW c \in Devices, up', seen'[c] = "on"
        PROVE  /\ away'[c] <= TTL + PERIOD + Allowed
               /\ c \notin todo' => away'[c] + timers[p].due <= TTL + PERIOD
    BY <2>1, <2>4 DEF ReaperAt
  <2>5. todo' # {} => timers[p].due > 0
    BY <2>1 DEF ReaperAt
  <2>6. CASE p < i
    <3>1. p \in 1 .. m - 1 /\ timers'[p] = timers[p] /\ p - 1 \in 1 .. m - 1 /\ timers'[p - 1] = timers[p - 1]
      BY <1>1, <1>2, <2>2, <2>6
    <3>2. p < at' => p < at \/ todo # {}
      BY <1>1, <2>2, <2>6
    <3>3. todo # {} => timers[p].due > 0
      BY <2>1 DEF ReaperAt
    <3>4. (walked' \/ p < at') /\ timers[p].due <= 0 => timers[p].due >= 1 - Slack(p)
      BY <2>1, <2>2, <3>2, <3>3 DEF ReaperAt
    <3>5. ReaperAt(p)'
      BY <2>1, <2>4, <2>5, <3>1, <3>4 DEF ReaperAt, Slack
    <3> QED
      BY <1>2, <3>1, <3>5 DEF Reaped
  <2>7. CASE i < p
    <3> DEFINE r == p - 1
    <3>1. r \in 1 .. m - 1 /\ r \in Nat /\ timers'[r] = timers[p]
      BY <1>1, <1>2, <2>2, <2>7
    <3>2. CASE Known # <<>>
      <4>1. i < r
        BY <1>1, <2>2, <2>3, <2>7, <3>2
      <4>2. r > 1 /\ r - 1 \in 1 .. m - 1 /\ timers'[r - 1] = timers[p - 1]
        <5>1. r > 1 /\ r - 1 \in 1 .. m - 1 /\ ~(r - 1 < i) /\ (r - 1) + 1 = p - 1
          BY <1>1, <2>2, <4>1
        <5> HIDE DEF r
        <5> QED
          BY <1>2, <5>1
      <4>3. timers[p - 1].kind = "info" /\ timers[p - 1].dev \in KnownSet /\ Slack(p) = 0 /\ Slack(r) = 0
        BY <2>1, <3>2 DEF ReaperAt, Slack
      <4>4. ~(r < at') \/ todo # {}
        BY <1>1, <3>1, <4>1
      <4>5. todo # {} => timers[p].due > 0
        BY <2>1 DEF ReaperAt
      <4>6. timers[p].due >= 0 /\ (walked /\ timers[p].due <= 0 => timers[p].due >= 1)
        BY <2>1, <2>2, <4>3 DEF ReaperAt
      <4>7. r < at' /\ timers[p].due <= 0 => timers[p].due >= 1
        BY <2>2, <4>4, <4>5
      <4> HIDE DEF r
      <4>8. ReaperAt(r)'
        BY <2>1, <2>2, <2>4, <2>5, <3>1, <3>2, <4>2, <4>3, <4>6, <4>7 DEF ReaperAt, Slack
      <4> QED
        BY <1>2, <3>1, <4>8 DEF Reaped
    <3>3. CASE Known = <<>>
      <4>1. p <= ONCE + 2 /\ timers[p].due >= -Slack(p)
        BY <2>1, <3>3 DEF ReaperAt
      <4>2. Slack(r) = Slack(p) + 1 /\ r <= ONCE + 2
        BY <2>2, <3>3, <4>1, Times DEF Slack
      <4> HIDE DEF r
      <4>3. timers[p].due >= -Slack(r) /\ timers[p].due >= 1 - Slack(r)
        BY <2>2, <4>1, <4>2
      <4>4. ReaperAt(r)'
        BY <2>2, <2>4, <2>5, <3>1, <3>3, <4>2, <4>3 DEF ReaperAt, Slack
      <4> QED
        BY <1>2, <3>1, <4>4 DEF Reaped
    <3> QED
      BY <3>2, <3>3
  <2> QED
    BY <1>1, <2>2, <2>3, <2>6, <2>7
<1> QED
  BY <1>2, <1>4, <1>5, <1>6

(* A one-shot timer deletes itself.                                         *)
LEMMA OnceStep ==
    ASSUME IInv, callbackOnce
    PROVE  IInv'
<1>1. /\ Here("once") /\ timers' = RemoveAt(timers, at) /\ at' = at + 1
      /\ UNCHANGED <<up, filters, node, cfg, f, t, fDestroyed, away, seen, n, todo, walked>>
  BY DEF callbackOnce
<1>2. /\ at \in 1 .. n /\ at \in 1 .. Len(timers) /\ todo = {} /\ timers[at].kind = "once" /\ at \in Nat /\ n \in Nat
      /\ Len(timers) \in Nat /\ Len(timers) <= MAXT /\ MAXT \in Nat /\ Len(timers) <= n
  BY <1>1, Now DEF Here, IInv, Walk
<1>3. /\ timers' \in Seq(TimerType) /\ Len(timers') = Len(timers) - 1
      /\ \A k \in 1 .. Len(timers) - 1 : timers'[k] = IF k < at THEN timers[k] ELSE timers[k + 1]
      /\ Listed(timers)' /\ Moved' /\ Reaped'
  <2>1. at' \in Nat /\ at # 0 /\ \A k \in Nat : (k < at' \/ (k = at' /\ todo' # {})) /\ k < at => k < at \/ (k = at /\ todo # {})
    BY <1>1, <1>2
  <2> QED
    BY <1>1, <1>2, <2>1, DeletedTimer
<1>4. TypeOK'
  <2>1. at' \in 0 .. n' + 1 /\ Len(timers') <= MAXT
    BY <1>1, <1>2, <1>3
  <2> QED
    BY <1>1, <1>3, <2>1 DEF IInv, TypeOK, TimerType
<1>5. Owned'
  <2> SUFFICES ASSUME NEW k \in 1 .. Len(timers) - 1, timers'[k].kind = "info"
               PROVE  node[timers'[k].dev].is # "missing"
    BY <1>1, <1>3 DEF Owned
  <2>1. \E j \in 1 .. Len(timers) : timers'[k] = timers[j]
    BY <1>2, <1>3
  <2> QED
    BY <2>1 DEF IInv, Owned
<1>6. Entries'
  BY <1>1 DEF IInv, Entries, EntryOf
<1>7. Walk'
  BY <1>1, <1>2, <1>3 DEF Walk
<1> QED
  BY <1>3, <1>4, <1>5, <1>6, <1>7 DEF IInv

(* An endpoint is destroyed, with the timer of the one that was made last.  *)
LEMMA DestroysStep ==
    ASSUME IInv, NEW d \in todo, reaper_Destroys(d)
    PROVE  IInv'
<1>1. /\ up /\ d \notin KnownSet /\ seen' = [seen EXCEPT ![d] = "off"] /\ cfg' = cfg \ {d}
      /\ filters' = RemoveFirst(filters, f) /\ fDestroyed' = TRUE
      /\ timers' = RemoveFirstMatch(timers, LAMBDA x : x.kind = "info" /\ x.dev = t)
      /\ node' = [node EXCEPT ![d] = Emptied] /\ Looked(d) /\ UNCHANGED <<up, f, t, away, n, walked>>
  BY DEF reaper_Destroys, Forgotten
<1>2. /\ todo' = todo \ {d} /\ at \in Nat /\ n \in Nat /\ at >= 1 /\ at <= n /\ Len(timers) <= n
      /\ at' \in 0 .. n + 1 /\ at' # 0 /\ todo' \subseteq cfg /\ (todo' # {} => at' <= n)
      /\ \A k \in Nat : (k < at' \/ (k = at' /\ todo' # {})) => k < at \/ k = at
  BY <1>1, LookedAt
<1>3. /\ timers \in Seq(TimerType) /\ Len(timers) \in Nat /\ Len(timers) <= MAXT /\ MAXT \in Nat
      /\ node \in [Devices -> NodeType] /\ seen \in [Devices -> {"on", "off", "?"}] /\ d \in Devices /\ d \in cfg
      /\ KnownSet \subseteq Devices /\ cfg \subseteq Devices
  BY Now
<1>4. /\ Emptied \in NodeType /\ Emptied.is = "emptied"
  BY DEF Emptied, NodeType
<1>5. /\ node' \in [Devices -> NodeType] /\ node'[d].is = "emptied" /\ \A c \in Devices : c # d => node'[c] = node[c]
      /\ seen' \in [Devices -> {"on", "off", "?"}] /\ seen'[d] = "off" /\ \A c \in Devices : c # d => seen'[c] = seen[c]
  BY <1>1, <1>3, <1>4
<1>6. t \notin KnownSet
  BY <1>1, <1>3 DEF IInv, Entries
<1>7. \A c \in Devices : seen'[c] = "on" => seen[c] = "on" /\ (c \notin todo' => c \notin todo)
  BY <1>2, <1>5
<1>8. /\ timers' \in Seq(TimerType) /\ Len(timers') \in Nat /\ Len(timers') <= Len(timers)
      /\ \A k \in 1 .. Len(timers') : \E j \in 1 .. Len(timers) : timers'[k] = timers[j]
      /\ Listed(timers)' /\ Moved' /\ Reaped'
  <2>1. timers' = timers \/ \E i \in 1 .. Len(timers) :
           timers[i].kind = "info" /\ timers[i].dev = t /\ timers' = RemoveAt(timers, i)
    <3> DEFINE N == {k \in 1 .. Len(timers) : timers[k].kind = "info" /\ timers[k].dev = t}
    <3>1. timers' = IF \E k \in 1 .. Len(timers) : timers[k].kind = "info" /\ timers[k].dev = t
                    THEN RemoveAt(timers, SelectInSeq(timers, LAMBDA x : x.kind = "info" /\ x.dev = t)) ELSE timers
      BY <1>1 DEF RemoveFirstMatch
    <3>2. CASE N = {}
      BY <3>1, <3>2
    <3>3. CASE N # {}
      <4>1. N \in SUBSET Nat
        OBVIOUS
      <4>2. SelectInSeq(timers, LAMBDA x : x.kind = "info" /\ x.dev = t) = Min(N)
        BY <3>3 DEF SelectInSeq
      <4>3. timers' = RemoveAt(timers, Min(N))
        BY <3>1, <3>3, <4>2
      <4>4. Min(N) \in N
        <5> HIDE DEF N
        <5> QED
          BY <3>3, <4>1, MinProperties
      <4> QED
        BY <4>3, <4>4
    <3> QED
      BY <3>2, <3>3
  <2>2. CASE timers' = timers
    <3>1. Moved'
      <4> SUFFICES ASSUME NEW k \in 1 .. Len(timers)
                   PROVE  MovedAt(k, timers[k], at', todo' # {})
        BY <2>2 DEF Moved
      <4>1. MovedAt(k, timers[k], at, TRUE)
        BY DEF IInv, Moved
      <4>2. (k < at' \/ (k = at' /\ todo' # {})) => k < at \/ k = at
        BY <1>2
      <4> QED
        BY <4>1, <4>2 DEF MovedAt
    <3>2. Reaped'
      <4>1. PICK p \in 1 .. Len(timers) : ReaperAt(p)
        BY DEF IInv, Reaped
      <4>2. timers[p].due \in Int /\ timers[p].due > 0
        BY <4>1, ReaperHere DEF ReaperAt
      <4>3. ~(timers[p].due <= 0)
        BY <4>2
      <4>4. ReaperAt(p)'
        BY <1>1, <1>7, <2>2, <4>1, <4>2, <4>3 DEF ReaperAt, Slack
      <4> QED
        BY <2>2, <4>4 DEF Reaped
    <3>3. Listed(timers)'
      BY <2>2 DEF IInv, Listed, Once
    <3> QED
      BY <1>3, <2>2, <3>1, <3>2, <3>3
  <2>3. ASSUME NEW i \in 1 .. Len(timers), timers[i].kind = "info", timers[i].dev = t, timers' = RemoveAt(timers, i)
        PROVE  /\ timers' \in Seq(TimerType) /\ Len(timers') \in Nat /\ Len(timers') <= Len(timers)
               /\ \A k \in 1 .. Len(timers') : \E j \in 1 .. Len(timers) : timers'[k] = timers[j]
               /\ Listed(timers)' /\ Moved' /\ Reaped'
    <3>1. at' \in Nat /\ at # 0
      BY <1>2
    <3>2. \A k \in Nat : (k < at' \/ (k = at' /\ todo' # {})) /\ k < i => k < at \/ (k = at /\ todo # {})
      BY <1>2
    <3>3. /\ timers' \in Seq(TimerType) /\ Len(timers') = Len(timers) - 1
          /\ \A k \in 1 .. Len(timers) - 1 : timers'[k] = IF k < i THEN timers[k] ELSE timers[k + 1]
          /\ Listed(timers)' /\ Moved' /\ Reaped'
      BY <1>1, <1>6, <1>7, <2>3, <3>1, <3>2, DeletedTimer
    <3>4. \A k \in 1 .. Len(timers') : \E j \in 1 .. Len(timers) : timers'[k] = timers[j]
      <4> SUFFICES ASSUME NEW k \in 1 .. Len(timers) - 1
                   PROVE  \E j \in 1 .. Len(timers) : timers'[k] = timers[j]
        BY <3>3
      <4>1. k \in 1 .. Len(timers) /\ k + 1 \in 1 .. Len(timers)
        BY <1>3
      <4> QED
        BY <3>3, <4>1
    <3>5. Len(timers') \in Nat /\ Len(timers') <= Len(timers)
      BY <1>3, <3>3
    <3> QED
      BY <3>3, <3>4, <3>5
  <2> QED
    BY <2>1, <2>2, <2>3
<1>9. TypeOK'
  <2>1. filters' \in Seq(Devices)
    BY <1>1, RemoveFirstTyped DEF IInv, TypeOK
  <2>2. cfg' \subseteq {c \in Devices : node'[c].is = "live"} /\ todo' \subseteq cfg'
    BY <1>1, <1>2, <1>5 DEF IInv, TypeOK
  <2>3. Len(timers') <= MAXT
    BY <1>3, <1>8
  <2>4. /\ up' \in BOOLEAN /\ walked' \in BOOLEAN /\ fDestroyed' \in BOOLEAN /\ at' \in 0 .. n' + 1 /\ n' \in 0 .. MAXT
        /\ {f', t'} \subseteq Devices \cup {None} /\ away' \in [Devices -> 0 .. LONG]
    BY <1>1, <1>2 DEF IInv, TypeOK
  <2> QED
    BY <1>5, <1>8, <2>1, <2>2, <2>3, <2>4 DEF TypeOK, TimerType, NodeType
<1>10. Owned'
  <2> SUFFICES ASSUME NEW k \in 1 .. Len(timers'), timers'[k].kind = "info"
               PROVE  node'[timers'[k].dev].is # "missing"
    BY DEF Owned
  <2>1. PICK j \in 1 .. Len(timers) : timers'[k] = timers[j]
    BY <1>8
  <2>2. timers[j].kind = "info" /\ timers[j].dev \in Devices /\ node[timers[j].dev].is # "missing"
    BY <2>1, Now DEF IInv, Owned
  <2> QED
    BY <1>5, <2>1, <2>2
<1>11. Entries'
  <2>1. ASSUME NEW c \in Devices
        PROVE  EntryOf(c)'
    <3>1. CASE c = d
      BY <1>5, <3>1 DEF EntryOf
    <3>2. CASE c # d
      <4>1. EntryOf(c) /\ node'[c] = node[c] /\ seen'[c] = seen[c] /\ (c \in cfg => c \in cfg')
        BY <1>1, <1>5, <3>2 DEF IInv, Entries
      <4> QED
        BY <1>1, <4>1 DEF EntryOf
    <3> QED
      BY <3>1, <3>2
  <2>2. \A c \in KnownSet : node'[c].is = "live"
    BY <1>1, <1>3, <1>5 DEF IInv, Entries
  <2>3. t' \in KnownSet \cup {None} => cfg' \subseteq KnownSet
    BY <1>1 DEF IInv, Entries
  <2> QED
    BY <2>1, <2>2, <2>3 DEF Entries
<1>12. Walk'
  <2>1. Len(timers') <= n
    BY <1>2, <1>3, <1>8
  <2> QED
    BY <1>1, <1>2, <2>1 DEF Walk
<1> QED
  BY <1>8, <1>9, <1>10, <1>11, <1>12 DEF IInv

LEMMA StepIInv == IInv /\ [Next]_vars => IInv'
<1> SUFFICES ASSUME IInv, [Next]_vars
             PROVE  IInv'
  OBVIOUS
<1>1. ASSUME NEW d \in Devices, process_New(d)
      PROVE  IInv'
  BY <1>1, NewStep
<1>2. ASSUME NEW d \in Devices, process_Live(d) \/ process_Emptied(d) \/ Query(d)
      PROVE  IInv'
  BY <1>2, MessageStep
<1>3. CASE StartOnce
  BY <1>3, StartOnceStep
<1>4. CASE BeginWalk
  BY <1>4, BeginStep
<1>5. CASE Pass \/ heartBeat \/ sendInfo
  BY <1>5, PassSteps
<1>6. CASE callbackOnce
  BY <1>6, OnceStep
<1>7. CASE reaper
  BY <1>7, ReaperStep
<1>8. ASSUME NEW d \in todo, reaper_Spares(d) \/ reaper_Known(d)
      PROVE  IInv'
  BY <1>8, LooksSteps
<1>9. ASSUME NEW d \in todo, reaper_Destroys(d)
      PROVE  IInv'
  BY <1>9, DestroysStep
<1>10. ASSUME NEW d \in todo, reaper_Fails(d)
       PROVE  IInv'
  BY <1>10, FailsStep
<1>11. CASE EndWalk
  BY <1>11, EndWalkStep
<1>12. CASE Tick
  BY <1>12, TickStep
<1>13. CASE UNCHANGED vars
  <2>1. UNCHANGED <<up, timers, filters, node, cfg, f, t, fDestroyed, away, seen, at, n, todo, walked>>
    BY <1>13 DEF vars
  <2>2. TypeOK' /\ Listed(timers)' /\ Owned' /\ Walk' /\ Moved'
    BY <2>1 DEF IInv, TypeOK, Listed, Once, Owned, Walk, Moved
  <2>3. Entries' /\ Reaped'
    BY <2>1 DEF IInv, Entries, EntryOf, Reaped, ReaperAt
  <2> QED
    BY <2>2, <2>3 DEF IInv
<1> QED
  BY <1>1, <1>2, <1>3, <1>4, <1>5, <1>6, <1>7, <1>8, <1>9, <1>10, <1>11, <1>12, <1>13 DEF Next

LEMMA IInvHolds == Spec => []IInv
  BY InitIInv, StepIInv, PTL DEF Spec

-----------------------------------------------------------------------------
(***************************************************************************)
(* What it means.                                                          *)
(***************************************************************************)

(* The variables of the plugboard have their types; the reaper looks only   *)
(* at endpoints that are there.  init.lua: Timer:_init(), bluenode.lua:     *)
(* BlueNode.reaper().                                                       *)
THEOREM TypeCorrect == Spec => []TypeOK
<1>1. IInv => TypeOK
  BY DEF IInv
<1> QED
  BY <1>1, IInvHolds, PTL

(* A timer that a walk misses has moved to the front by as many places as   *)
(* walks have missed it.  init.lua: process(); List.lua: foreach().         *)
THEOREM MissedTimersMoveUp == Spec => []MissedMovesUp
<1>1. IInv => MissedMovesUp
  <2> SUFFICES ASSUME IInv, NEW k \in DOMAIN timers
               PROVE  k + timers[k].missed <= MAXT
    BY DEF MissedMovesUp
  <2>1. k \in 1 .. Len(timers)
    BY Now
  <2> QED
    BY <2>1 DEF IInv, Moved, MovedAt
<1> QED
  BY <1>1, IInvHolds, PTL

(* A device that has left has been reported as off one period after its     *)
(* time to live, and later only by the one-shot timers that stood in front  *)
(* of the reaper.  bluenode.lua: BlueNode.reaper(); init.lua: process().    *)
THEOREM GoneDevicesAreReported == Spec => []GoneIsReported
<1>1. IInv => GoneIsReported
  <2> SUFFICES ASSUME IInv, NEW d \in Devices, up, seen[d] = "on"
               PROVE  away[d] <= TTL + PERIOD + Allowed
    BY DEF GoneIsReported, Allowed
  <2> QED
    BY DEF IInv, Reaped, ReaperAt
<1> QED
  BY <1>1, IInvHolds, PTL

(* A configured device is shown as present exactly while its entry says so. *)
(* bluenode.lua: BlueNode:process(), reaper(); jeenode.lua:                 *)
(* Nodule:process().                                                        *)
THEOREM KnownDevicesAreTracked == Spec => []KnownIsTracked
<1>1. IInv => KnownIsTracked
  <2> SUFFICES ASSUME IInv, NEW d \in KnownSet
               PROVE  node[d].isAlive <=> seen[d] = "on"
    BY DEF KnownIsTracked
  <2>1. d \in Devices /\ node[d].is = "live"
    BY Now DEF IInv, Entries
  <2> QED
    BY <2>1 DEF IInv, Entries, EntryOf
<1> QED
  BY <1>1, IInvHolds, PTL
=============================================================================
